---------------------------- MODULE BloomTransfer ----------------------------
(***************************************************************************)
(* How a bloom object leaves a server and comes back: as an RDB image      *)
(* (bloom_rdb_save and load_from_rdb, which also carry DUMP, RESTORE and   *)
(* the full synchronisation of a replica), as the BF.LOAD that rewriting   *)
(* the AOF emits, and as the commands of the replication stream and of the *)
(* AOF, executed for a client that must be obeyed.                         *)
(***************************************************************************)
EXTENDS BloomCommands

\* What DEBUG DIGEST-VALUE tells apart: everything but the Vec's allocation.
Logical(v) == IF IsObject(v) THEN Decoded(v) ELSE v

(******************************* RDB images ********************************)

\* What is written of a filter, and of an object.
ImageFilter == [cap : 1..CapacityMax, seed : Seeds, fp : Nat \ {0}, bits : SUBSET Nat]

Image ==
  [expansion : Nat, fp : Nat \ {0}, tr : Nat \ {0}, seedRandom : BOOLEAN, num : Nat,
   filters : Seq(ImageFilter)]

ASSUME ImageAssumption == {Absent, Foreign} \intersect Image = {}

\* Variant of RdbSave that saves the item count of the first filter.
RdbSaveFirstCount(o) ==
  [expansion |-> o.expansion, fp |-> o.fp, tr |-> o.tr, seedRandom |-> o.seedRandom,
   num |-> o.filters[1].num,
   filters |-> [i \in DOMAIN o.filters |->
     [cap |-> o.filters[i].cap, seed |-> o.filters[i].seed, fp |-> o.filters[i].fp,
      bits |-> o.filters[i].bits]]]

\* The seed, the bits and the hash rounds of a filter are all in the bitmap
\* the crate serialises; the item count is written for the last filter only.
RdbSave(o) ==
  [expansion |-> o.expansion, fp |-> o.fp, tr |-> o.tr, seedRandom |-> o.seedRandom,
   num |-> Last(o.filters).num,
   filters |-> [i \in DOMAIN o.filters |->
     [cap |-> o.filters[i].cap, seed |-> o.filters[i].seed, fp |-> o.filters[i].fp,
      bits |-> o.filters[i].bits]]]

\* Variant of RdbEmpty that allocates the Vec for all the filters.
RdbEmptyExact(r) ==
  [expansion |-> r.expansion, fp |-> r.fp, tr |-> r.tr, seedRandom |-> r.seedRandom,
   vcap |-> Len(r.filters), filters |-> <<>>]

\* The object before its first filter is read.
RdbEmpty(r) ==
  [expansion |-> r.expansion, fp |-> r.fp, tr |-> r.tr, seedRandom |-> r.seedRandom,
   vcap |-> 1, filters |-> <<>>]

\* Variants of RdbFilter: every filter gets the count that was saved for the
\* last; a filter is built with the fixed seed whatever the bitmap's seed.
RdbFilterLastCount(r, i) ==
  [seed |-> r.filters[i].seed, fp |-> r.filters[i].fp, cap |-> r.filters[i].cap,
   num |-> r.num, bits |-> r.filters[i].bits]

RdbFilterUnseeded(r, i) ==
  [seed |-> FixedSeed, fp |-> r.filters[i].fp, cap |-> r.filters[i].cap,
   num |-> IF i = Len(r.filters) THEN r.num ELSE r.filters[i].cap,
   bits |-> r.filters[i].bits]

RdbFilter(r, i) ==
  [seed |-> r.filters[i].seed, fp |-> r.filters[i].fp, cap |-> r.filters[i].cap,
   num |-> IF i = Len(r.filters) THEN r.num ELSE r.filters[i].cap,
   bits |-> r.filters[i].bits]

\* The checks on a filter, made before it is built.  Those that only a corrupt
\* image can fail are left out.
RdbError(o, r, i, limit) ==
  LET fp == FpRate(r.fp, i - 1, r.tr)
  IN  IF FpReachesZero(fp) THEN "FalsePositiveReachesZero"
      ELSE IF MemoryUsage(o) + FilterSize(r.filters[i].cap, fp) > limit
      THEN "ExceedsMaxBloomSize"
      ELSE Ok

RdbLoadFilter(s, r, i, limit) ==
  LET f   == RdbFilter(r, i)
      err == RdbError(s.obj, r, i, limit)
  IN  IF s.err # Ok THEN s
      ELSE IF err # Ok THEN [s EXCEPT !.err = err]
      ELSE [err |-> Ok, metrics |-> Gain(s.metrics, FilterWeight(f)),
            obj |-> [s.obj EXCEPT !.filters = Append(@, f), !.vcap = PushedVec(s.obj)]]

\* Variant of RdbRefused: the filters read so far stay counted.
RdbRefusedCounted(s) == [val |-> Absent, metrics |-> s.metrics, err |-> s.err]

\* The filters read so far of an object that is refused are dropped.
RdbRefused(s) ==
  [val |-> Absent, metrics |-> LoseFilters(s.metrics, s.obj), err |-> s.err]

RdbLoad(r, m, limit) ==
  LET load[i \in 0..Len(r.filters)] ==
        IF i = 0 THEN [obj |-> RdbEmpty(r), metrics |-> m, err |-> Ok]
        ELSE RdbLoadFilter(load[i - 1], r, i, limit)
      done == load[Len(r.filters)]
  IN  IF done.err # Ok THEN RdbRefused(done)
      ELSE [val |-> done.obj, metrics |-> Gain(done.metrics, ObjectWeight(done.obj)),
            err |-> Ok]

\* The image of a whole keyspace, and the node that reads it key by key.
Snapshot(keys) ==
  [k \in DOMAIN keys |-> IF IsObject(keys[k]) THEN RdbSave(keys[k]) ELSE keys[k]]

EmptyNode == [keys |-> [k \in Key |-> Absent], metrics |-> NoMetrics, err |-> Ok]

LoadKey(disk, limit, k, n) ==
  IF ~ IsObject(disk[k]) THEN [n EXCEPT !.keys[k] = disk[k]]
  ELSE LET l == RdbLoad(disk[k], n.metrics, limit)
       IN  [keys |-> [n.keys EXCEPT ![k] = l.val], metrics |-> l.metrics,
            err |-> IF n.err = Ok THEN l.err ELSE n.err]

LoadSnapshot(disk, limit) ==
  FoldSet(LAMBDA k, n : LoadKey(disk, limit, k, n), EmptyNode, Key)

(************************** commands to be obeyed **************************)

\* Variant of DropValue whose free callback does nothing.
DropValueNot(m, v) == m

DropValue(m, v) == IF IsObject(v) THEN DropObject(m, v) ELSE m

\* The server's own commands, as they are propagated.
DelCommand(k) == [name |-> "DEL", key |-> k]
SetCommand(k) == [name |-> "SET", key |-> k]
CopyCommand(src, dst) == [name |-> "COPY", key |-> dst, from |-> src]
RestoreCommand(k, image) == [name |-> "RESTORE", key |-> k, image |-> image]

\* n is a node: its keys and its counters, and whether a propagated command
\* has been answered with an error.
Obeyed(n, c, out) ==
  [keys    |-> [n.keys EXCEPT ![c.key] = out.val],
   metrics |-> out.metrics,
   err     |-> IF out.reply.err = Ok THEN n.err ELSE out.reply.err]

Done(v, m) == Outcome(v, m, Ok, <<>>, <<>>, {})

\* The handler a propagated command reaches on a node that must obey.
ObeyOutcome(n, c, cfg, rnd) ==
  LET v == n.keys[c.key]
      m == n.metrics
  IN  CASE c.name \in {"BF.ADD", "BF.MADD"} ->
             BloomFilterAddValue(c, v, cfg, m, TRUE, rnd)
        [] c.name = "BF.INSERT" -> BloomFilterInsert(c, v, cfg, m, TRUE, rnd)
        [] c.name = "BF.LOAD"   -> BloomFilterLoad(c, v, cfg, m, TRUE)
        [] c.name = "DEL"       -> Done(Absent, DropValue(m, v))
        [] c.name = "SET"       -> Done(Foreign, DropValue(m, v))
        [] c.name = "COPY"      -> Done(n.keys[c.from], CopyMetrics(m, n.keys[c.from]))
        [] c.name = "RESTORE"   -> LET l == RdbLoad(c.image, m, cfg.limit)
                                   IN  Outcome(l.val, l.metrics, l.err, <<>>, <<>>, {})

Obey(n, c, cfg, rnd) == Obeyed(n, c, ObeyOutcome(n, c, cfg, rnd))

\* The node n once it has executed log.
Replay(n, log, cfg, rnd) ==
  LET node[i \in 0..Len(log)] ==
        IF i = 0 THEN n ELSE Obey(node[i - 1], log[i], cfg, rnd)
  IN  node[Len(log)]

\* What bloom_aof_rewrite emits for a key.
LoadCommand(k, o) == [Command("BF.LOAD", k, <<>>) EXCEPT !.dump = o]

=============================================================================
