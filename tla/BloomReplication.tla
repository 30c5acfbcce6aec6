-------------------------- MODULE BloomReplication --------------------------
(***************************************************************************)
(* A primary and its replica.  The primary executes the commands of its    *)
(* clients and appends what they propagate to the replication stream; the  *)
(* replica executes the stream, in order, for a client it must obey.  Each *)
(* node has its own configuration and defragments on its own.  A replica   *)
(* that lost its place in the stream is given an RDB of the primary.       *)
(***************************************************************************)
EXTENDS BloomTransfer

CONSTANTS
  Commands,        \* the BF.ADD, BF.MADD, BF.RESERVE and BF.INSERT of clients
  PrimaryConfig, ReplicaConfig,
  MaxStream,       \* bound: the commands in flight
  MaxWrites        \* bound: the steps of the primary that propagate something

ASSUME ReplicationAssumption ==
  /\ Commands \subseteq CommandType
  /\ \A c \in Commands : c.name = "BF.ADD" => Len(c.items) = 1
  /\ {PrimaryConfig, ReplicaConfig} \subseteq Config
  /\ {MaxStream, MaxWrites} \subseteq Nat

VARIABLES
  primary, replica,   \* the nodes: keys, counters, the first error answered to
                      \* a propagated command
  stream,             \* the commands in flight, each with the keys the primary
                      \* had after it (history)
  writes              \* how many commands were propagated

vars == <<primary, replica, stream, writes>>

Init ==
  /\ primary = EmptyNode
  /\ replica = EmptyNode
  /\ stream = <<>>
  /\ writes = 0

LogicalKeys(n) == [k \in Key |-> Logical(n.keys[k])]

RandomSeeds == Seeds \ {FixedSeed}

(******************************* the primary *******************************)

\* A step of the primary on key k whose handler answered out.
Primary(k, out) ==
  /\ Len(stream) < MaxStream /\ writes < MaxWrites
  /\ primary' = [primary EXCEPT !.keys[k] = out.val, !.metrics = out.metrics]
  /\ stream' = stream \o [i \in DOMAIN out.repl |->
                            [cmd |-> out.repl[i], after |-> LogicalKeys(primary')]]
  /\ writes' = writes + Len(out.repl)
  /\ UNCHANGED replica

ClientOutcome(c, rnd) ==
  LET v == primary.keys[c.key]
      m == primary.metrics
  IN  CASE c.name = "BF.INSERT"  -> BloomFilterInsert(c, v, PrimaryConfig, m, FALSE, rnd)
        [] c.name = "BF.RESERVE" -> BloomFilterReserve(c, v, PrimaryConfig, m, FALSE, rnd)
        [] c.name = "BF.LOAD"    -> BloomFilterLoad(c, v, PrimaryConfig, m, FALSE)
        [] OTHER                 -> BloomFilterAddValue(c, v, PrimaryConfig, m, FALSE, rnd)

Client(c) == \E rnd \in RandomSeeds : Primary(c.key, ClientOutcome(c, rnd))

\* DEL, expiry and eviction.
Delete(k) ==
  /\ primary.keys[k] # Absent
  /\ Primary(k, Outcome(Absent, DropValue(primary.metrics, primary.keys[k]), Ok, <<>>,
                        <<DelCommand(k)>>, {}))

Copy(src, dst) ==
  /\ IsObject(primary.keys[src])
  /\ primary.keys[dst] = Absent
  /\ Primary(dst, Outcome(primary.keys[src], CopyMetrics(primary.metrics, primary.keys[src]),
                          Ok, <<>>, <<CopyCommand(src, dst)>>, {}))

\* BF.LOAD, by a client, of what AOF rewriting would write for the key src.
Load(src, dst) ==
  /\ IsObject(primary.keys[src])
  /\ Client(LoadCommand(dst, primary.keys[src]))

(******************************* the replica *******************************)

Deliver ==
  /\ stream # <<>>
  /\ \E rnd \in RandomSeeds : replica' = Obey(replica, Head(stream).cmd, ReplicaConfig, rnd)
  /\ stream' = Tail(stream)
  /\ UNCHANGED <<primary, writes>>

\* A full synchronisation that the replica can load.
FullSync ==
  LET loaded == LoadSnapshot(Snapshot(primary.keys), ReplicaConfig.limit)
  IN  /\ loaded.err = Ok
      /\ replica' = [loaded EXCEPT !.err = replica.err]
      /\ stream' = <<>>
      /\ UNCHANGED <<primary, writes>>

\* A complete pass of bloom_defrag over the key k of a node.
Defragged(n, k) ==
  [n EXCEPT !.keys[k].vcap = Len(n.keys[k].filters),
            !.metrics = Lose(@, [NoMetrics EXCEPT
              !.bytes = (n.keys[k].vcap - Len(n.keys[k].filters)) * BoxBytes])]

Slack(n, k) == IsObject(n.keys[k]) /\ n.keys[k].vcap > Len(n.keys[k].filters)

DefragPrimary(k) ==
  /\ PrimaryConfig.defrag /\ Slack(primary, k)
  /\ primary' = Defragged(primary, k)
  /\ UNCHANGED <<replica, stream, writes>>

DefragReplica(k) ==
  /\ ReplicaConfig.defrag /\ Slack(replica, k)
  /\ replica' = Defragged(replica, k)
  /\ UNCHANGED <<primary, stream, writes>>

Next ==
  \/ \E c \in Commands : Client(c)
  \/ \E k \in Key : Delete(k) \/ DefragPrimary(k) \/ DefragReplica(k)
  \/ \E src, dst \in Key : Copy(src, dst)
  \/ Deliver \/ FullSync

Spec == Init /\ [][Next]_vars

\* A replica keeps taking commands from its stream.  Deliver is enabled exactly
\* when this part of it is.
Take == stream # <<>> /\ stream' = Tail(stream)

FairSpec == Spec /\ WF_stream(Take)

\* The same when clients use BF.LOAD themselves.
SpecWithLoad == Init /\ [][Next \/ \E src, dst \in Key : Load(src, dst)]_vars

(******************************* properties ********************************)

Lag == INSTANCE LaggingCopy
  WITH source  <- LogicalKeys(primary),
       copy    <- LogicalKeys(replica),
       pending <- [i \in DOMAIN stream |-> stream[i].after],
       Empty   <- Absent

\* Replication is deterministic (src/bloom/command_handler.rs:112): executing
\* what the primary propagated takes the replica through the primary's states,
\* whatever the two configurations and random draws, and whenever either node
\* defragments.  Every change of a key propagates exactly one command.
ReplicaFollowsPrimary == Lag!Spec

\* src/bloom/command_handler.rs:109: what is replicated succeeded.  No command
\* that a client may send now would be answered with an error and propagated all
\* the same, as a batch too large for the object it creates is, or one that fails
\* half way.
ErrorsAreNotPropagated ==
  \A c \in Commands, rnd \in RandomSeeds :
    LET out == ClientOutcome(c, rnd) IN out.reply.err # Ok => out.repl = <<>>

\* src/bloom/command_handler.rs:17: no propagated command is answered with an
\* error, which a replica may be configured to panic on.
ReplicaNeverErrs == replica.err = Ok

\* Once clients stop writing the replica comes to hold what the primary holds,
\* and keeps it.
Converges == <>[](LogicalKeys(replica) = LogicalKeys(primary))

\* A replica that has executed the whole stream holds what the primary holds.
InSync == stream = <<>> => LogicalKeys(replica) = LogicalKeys(primary)

=============================================================================
