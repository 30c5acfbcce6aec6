---------------------------- MODULE BloomImages ----------------------------
(***************************************************************************)
(* The RDB images of what BloomServer's commands build.                    *)
(***************************************************************************)
EXTENDS BloomServer, BloomTransfer

\* src/bloom/data_type.rs:99: an object that BF.* commands built is read back
\* with the Vec it had, so it takes the same memory, and the memory limit it
\* was built under never refuses it.
RdbRoundTrip ==
  \A k \in Objects :
    RdbLoad(RdbSave(keys[k]), NoMetrics, config.limit)
      = [val |-> keys[k], err |-> Ok,
         metrics |-> Gain(GainFilters(NoMetrics, keys[k]), ObjectWeight(keys[k]))]

=============================================================================
