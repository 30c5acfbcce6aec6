----------------------- MODULE BloomPersistenceProofs -----------------------
(***************************************************************************)
(* What BloomPersistence guarantees across crashes and starts, for every   *)
(* set of keys, commands, items and hashes, every sequence of settings     *)
(* and any number of steps: a start brings back what was saved, and the    *)
(* server goes on with the invariants of BloomServer.                      *)
(***************************************************************************)
EXTENDS BloomPersistence, BloomImages, BloomServerProofs, BloomTransferProofs

\* What is to be brought back is a state of the keyspace: no object in it lacks
\* an item that was acknowledged.
SavedInv ==
  /\ up \in BOOLEAN
  /\ saved.keys \in [Key -> Value]
  /\ saved.acked \in [Key -> SUBSET Item]
  /\ saved.promised \in [Key -> 0..CapacityMax]
  /\ \A k \in Key : IsObject(saved.keys[k])
                      => \A x \in saved.acked[k] : ItemExists(saved.keys[k], x)
  /\ \A k \in Key : ~ IsObject(saved.keys[k]) => saved.acked[k] = {}

\* The invariant of a running server, and of what it is to bring back.
LiveInv == IInv /\ MetricsMatch /\ SavedInv

(****************************** preparations *******************************)

\* What a server's keys hold are values.
LEMMA KeysAreValues ==
  ASSUME IInv
  PROVE  keys \in [Key -> Value]
<1>1. keys \in [Key -> Object \union {Absent, Foreign}]
  BY DEF IInv, TypeOK
<1>2. ASSUME NEW k \in Key PROVE keys[k] \in Value
  BY KeyFacts DEF Value
<1>. QED BY <1>1, <1>2

\* A state of the keyspace can be what is to be brought back.
LEMMA ContentsCanBeSaved ==
  ASSUME IInv, saved' = Contents, up' \in BOOLEAN
  PROVE  SavedInv'
<1>1. saved'.keys = keys /\ saved'.acked = acked /\ saved'.promised = promised
  BY DEF Contents
<1>2. /\ keys \in [Key -> Value] /\ acked \in [Key -> SUBSET Item]
      /\ promised \in [Key -> 0..CapacityMax]
  BY KeysAreValues DEF IInv, TypeOK
<1>3. \A k \in Key : /\ IsObject(keys[k]) => \A x \in acked[k] : ItemExists(keys[k], x)
                     /\ ~ IsObject(keys[k]) => acked[k] = {}
  BY DEF IInv, NoFalseNegatives, Objects
<1>. QED BY <1>1, <1>2, <1>3 DEF SavedInv

\* A step that leaves it alone.
LEMMA SavedStays ==
  ASSUME SavedInv, saved' = saved, up' \in BOOLEAN
  PROVE  SavedInv'
BY DEF SavedInv

(************************ the server while it runs *************************)

\* The steps of BloomServer that a running server takes.
LEMMA ServerSteps ==
  ASSUME IInv
  PROVE  /\ \A c \in Commands : BfAdd(c) \/ BfInsert(c) \/ BfReserve(c)
              => IInv' /\ CountersStep
         /\ \A k \in Key : Overwrite(k, Absent) \/ Overwrite(k, Foreign) \/ Defrag(k)
              => IInv' /\ CountersStep
         /\ \A change \in ConfigChanges : ConfigSet(change[1], change[2])
              => IInv' /\ CountersStep
         /\ \A src, dst \in Key : Copy(src, dst) => IInv' /\ CountersStep
<1>. 0 \in Int
  OBVIOUS
<1>1. ASSUME NEW c \in Commands, BfAdd(c) \/ BfInsert(c) \/ BfReserve(c)
      PROVE  IInv' /\ CountersStep
  BY <1>1, BfAddStep, BfInsertStep, BfReserveStep, BfAddBooks, BfInsertBooks, BfReserveBooks
<1>2. ASSUME NEW k \in Key, Overwrite(k, Absent) \/ Overwrite(k, Foreign) \/ Defrag(k)
      PROVE  IInv' /\ CountersStep
  BY <1>2, OverwriteStep, DefragPassStep, OverwriteBooks, DefragBooks
<1>3. ASSUME NEW change \in ConfigChanges, ConfigSet(change[1], change[2])
      PROVE  IInv' /\ CountersStep
  BY <1>3, ConfigSetStep, ConfigSetBooks
<1>4. ASSUME NEW src \in Key, NEW dst \in Key, Copy(src, dst)
      PROVE  IInv' /\ CountersStep
  BY <1>4, CopyStep, CopyBooks
<1>. QED BY <1>1, <1>2, <1>3, <1>4

\* RESTORE: the object that comes out of the image holds what the dumped one
\* does and is counted, or the image is refused and nothing happens.
LEMMA RestoreStep ==
  ASSUME IInv, NEW src \in Key, NEW dst \in Key, Restore(src, dst)
  PROVE  IInv' /\ CountersStep
<1> DEFINE o == keys[src]
           l == RdbLoad(RdbSave(o), metrics, config.limit)
           a == IF l.err = Ok THEN acked[src] ELSE acked[dst]
<1>1. /\ keys' = [keys EXCEPT ![dst] = l.val] /\ metrics' = l.metrics
      /\ acked' = IF l.err = Ok THEN [acked EXCEPT ![dst] = acked[src]] ELSE acked
      /\ promised' = IF l.err = Ok
                     THEN [promised EXCEPT ![dst] = promised[src]] ELSE promised
      /\ config' = config /\ IsObject(o) /\ keys[dst] = Absent
  BY DEF Restore
<1>2. /\ o \in Object /\ WellFormed(o) /\ metrics \in Counters
      /\ \A x \in acked[src] : ItemExists(o, x)
      /\ acked \in [Key -> SUBSET Item] /\ promised \in [Key -> 0..CapacityMax]
      /\ promised[src] \in 0..CapacityMax /\ acked[src] \in SUBSET Item
      /\ config \in Config
  BY <1>1, KeyFacts
<1>3. ~ IsObject(keys[dst]) /\ acked[dst] = {} /\ keys[dst] \in Value
  BY <1>1, KeysAreValues, ValueFields DEF IInv
<1>. HIDE DEF o
<1>4. /\ l.metrics \in Counters /\ l.val \in Value
      /\ l.err # Ok => l.val = Absent /\ l.metrics = metrics
      /\ l.err = Ok => /\ l.val \in Object /\ WellFormed(l.val) /\ Alike(l.val, o)
                       /\ Tracks(metrics, Footprint(l.val), l.metrics)
  BY <1>2, RdbLoadOutcome
<1>. HIDE DEF l
<1>5. Tracks(metrics, Change(keys[dst], l.val), metrics')
  <2>1. CASE l.err = Ok
    BY <1>1, <1>2, <1>3, <1>4, <2>1, FootprintGained
  <2>2. CASE l.err # Ok
    <3>1. ~ IsObject(l.val) /\ metrics' = metrics
      BY <1>1, <1>4, <2>2, ValueFields
    <3>. QED BY <1>2, <1>3, <1>4, <3>1, NothingTracks
  <2>. QED BY <2>1, <2>2
<1>6. /\ l.val \in Object \union {Absent, Foreign}
      /\ IsObject(l.val) => WellFormed(l.val) /\ \A x \in a : ItemExists(l.val, x)
      /\ ~ IsObject(l.val) => a = {}
  <2>1. CASE l.err = Ok
    <3>1. IsObject(l.val) /\ \A x : ItemExists(l.val, x) = ItemExists(o, x)
      BY <1>2, <1>4, <2>1, ObjectsAreValues, AlikeReads
    <3>. QED BY <1>2, <1>4, <2>1, <3>1
  <2>2. CASE l.err # Ok
    <3>1. ~ IsObject(l.val) /\ l.val = Absent
      BY <1>4, <2>2, ValueFields
    <3>. QED BY <1>3, <2>2, <3>1
  <2>. QED BY <2>1, <2>2
<1>7. acked' = [acked EXCEPT ![dst] = a] /\ a \in SUBSET Item
  BY <1>1, <1>2, <1>3
<1>8. promised' \in [Key -> 0..CapacityMax] /\ metrics' \in Counters /\ config' \in Config
  BY <1>1, <1>2, <1>4
<1>. HIDE DEF a
<1>9. IInv'
  BY <1>1, <1>3, <1>6, <1>7, <1>8, KeyStep
<1>10. MetricsMatch => MetricsMatch'
  BY <1>1, <1>5, <1>6, <1>8, OneKeyBooks, 0 \in Int
<1>. QED BY <1>9, <1>10 DEF CountersStep

\* A crash leaves nothing, and nothing to count.
LEMMA CrashStep ==
  ASSUME IInv, Crash
  PROVE  IInv' /\ MetricsMatch'
<1>1. /\ keys' = [k \in Key |-> Absent] /\ metrics' = NoMetrics
      /\ acked' = [k \in Key |-> {}] /\ promised' = [k \in Key |-> 0] /\ config' = config
  BY DEF Crash
<1>2. \A k \in Key : keys'[k] = Absent /\ acked'[k] = {} /\ ~ IsObject(keys'[k])
  BY <1>1, ValueFields
<1>3. TypeOK'
  <2>1. config \in Config /\ 0 \in 0..CapacityMax
    BY SizeAssumption DEF IInv, TypeOK
  <2>. QED BY <1>1, <2>1, NoMetricsTyped DEF TypeOK
<1>4. IInv'
  BY <1>2, <1>3 DEF IInv, ShapeInv, NoFalseNegatives, Objects
<1> DEFINE f == [k \in Key |-> Figures(keys'[k])]
<1>5. f \in [Key -> Weights] /\ \A k \in Key, c \in Names : f[k][c] = 0
  <2>1. Figures(Absent) \in Weights /\ \A c \in Names : Figures(Absent)[c] = 0
    BY ChangeTyped, NothingCounts
  <2>. QED BY <1>2, <2>1
<1>. HIDE DEF f
<1>6. Total(f) = NoMetrics
  BY <1>5, TotalOfNothing
<1>. QED BY <1>1, <1>4, <1>6 DEF MetricsMatch, f

(************************** starting from an RDB ***************************)

\* What the counters are to be for the keys K.
TotalOf(K) == Total([k \in Key |-> Figures(K[k])])

\* Values that differ at one key differ in total by what differs there.
LEMMA OneValueTotals ==
  ASSUME NEW K \in [Key -> Value], NEW L \in [Key -> Value], NEW k \in Key,
         \A j \in Key : j # k => L[j] = K[j],
         NEW m \in Counters, m = TotalOf(K),
         NEW l \in Counters, Tracks(m, Change(K[k], L[k]), l)
  PROVE  l = TotalOf(L)
<1> DEFINE f == [j \in Key |-> Figures(K[j])]
           h == [j \in Key |-> Figures(L[j])]
           d == Change(K[k], L[k])
<1>1. \A j \in Key : K[j] \in Object \union {Absent, Foreign} /\ L[j] \in Object \union {Absent, Foreign}
  BY DEF Value
<1>2. f \in [Key -> Weights] /\ h \in [Key -> Weights] /\ d \in Weights
  <2>1. \A j \in Key : Figures(K[j]) \in Weights /\ Figures(L[j]) \in Weights
    BY <1>1, ChangeTyped
  <2>2. d \in Weights
    BY <1>1, ChangeTyped
  <2>. HIDE DEF d
  <2>. QED BY <2>1, <2>2
<1>3. \A j \in Key : j # k => h[j] = f[j]
  OBVIOUS
<1>4. \A c \in Names : d[c] = h[k][c] - f[k][c]
  BY DEF Change
<1>5. m = Total(f) /\ Tracks(m, d, l)
  BY DEF TotalOf
<1>. HIDE DEF f, h, d
<1>6. Total(h) \in Counters /\ Tracks(Total(f), d, Total(h))
  BY <1>2, <1>3, <1>4, TotalFollows
<1>7. l = Total(h)
  BY <1>2, <1>5, <1>6, TracksEqual
<1>. QED BY <1>7 DEF h, TotalOf

\* Without objects there is nothing to count.
LEMMA TotalOfNoObjects ==
  ASSUME NEW K, \A k \in Key : ~ IsObject(K[k])
  PROVE  TotalOf(K) = NoMetrics
<1> DEFINE f == [k \in Key |-> Figures(K[k])]
<1>1. \A k \in Key : Figures(K[k]) = Figures(Absent)
  BY NothingCounts DEF Figures
<1>2. f \in [Key -> Weights] /\ \A k \in Key, c \in Names : f[k][c] = 0
  <2>1. Figures(Absent) \in Weights /\ \A c \in Names : Figures(Absent)[c] = 0
    BY ChangeTyped, NothingCounts
  <2>. QED BY <1>1, <2>1
<1>. HIDE DEF f
<1>3. Total(f) = NoMetrics
  BY <1>2, TotalOfNothing
<1>. QED BY <1>3 DEF f, TotalOf

\* The node that reads a snapshot counts every object once, and an object that is
\* refused not at all.
LEMMA SnapshotIsCounted ==
  ASSUME NEW K \in [Key -> Value], NEW limit
  PROVE  LET n == LoadSnapshot(Snapshot(K), limit) IN n.metrics = TotalOf(n.keys)
<1> DEFINE n == LoadSnapshot(Snapshot(K), limit)
<1>1. PICK g : ReadUpTo(K, limit, g) /\ n = g[Key]
  BY SnapshotSteps
<1>. HIDE DEF n
<1> DEFINE Counts(S) == /\ \A k \in Key : k \notin S => ~ IsObject(g[S].keys[k])
                        /\ g[S].metrics = TotalOf(g[S].keys)
           T == {i \in Nat : \A S \in SUBSET Key : Cardinality(S) <= i => Counts(S)}
<1>2. Counts({})
  <2>1. \A k \in Key : ~ IsObject(g[{}].keys[k])
    BY <1>1, EmptyNodeFields, ValueFields DEF ReadUpTo
  <2>2. g[{}].metrics = NoMetrics
    BY <1>1, EmptyNodeFields DEF ReadUpTo
  <2>. QED BY <2>1, <2>2, TotalOfNoObjects
<1>3. 0 \in T
  <2>1. \A S \in SUBSET Key : Cardinality(S) <= 0 => S = {}
    BY KeySets
  <2>. HIDE DEF Counts
  <2>. QED BY <1>2, <2>1
<1>4. ASSUME NEW i \in Nat, i \in T PROVE i + 1 \in T
  <2>1. ASSUME NEW S \in SUBSET Key, Cardinality(S) <= i + 1, S # {} PROVE Counts(S)
    <3> DEFINE x == One(S)
               R == S \ {x}
    <3>1. x \in S /\ x \in Key
      BY <2>1, KeySets DEF One
    <3>2. g[S] = LoadKey(Snapshot(K), limit, x, g[R])
      BY <1>1, <2>1 DEF ReadUpTo
    <3>. HIDE DEF x
    <3>3. R \in SUBSET Key /\ Cardinality(R) <= i
      <4>1. R \in SUBSET Key /\ Cardinality(R) = Cardinality(S) - 1 /\ Cardinality(S) \in Nat
        BY <3>1, KeySets
      <4>. HIDE DEF R
      <4>. QED BY <2>1, <4>1
    <3>4. Counts(R)
      <4>. HIDE DEF R, Counts
      <4>. QED BY <1>4, <3>3
    <3>5. g[R] \in Reading /\ x \notin R
      BY <1>1, <3>3 DEF ReadUpTo
    <3>6. /\ g[S] \in Reading
          /\ \A j \in Key : j # x => g[S].keys[j] = g[R].keys[j]
          /\ Tracks(g[R].metrics, Change(g[R].keys[x], g[S].keys[x]), g[S].metrics)
      <4>1. ~ IsObject(g[R].keys[x])
        BY <3>1, <3>4, <3>5
      <4>. HIDE DEF R
      <4>. QED BY <3>1, <3>2, <3>5, <4>1, LoadKeyStep
    <3>7. g[S].metrics = TotalOf(g[S].keys)
      <4>1. /\ g[R].keys \in [Key -> Value] /\ g[S].keys \in [Key -> Value]
            /\ g[R].metrics \in Counters /\ g[S].metrics \in Counters
        BY <3>5, <3>6 DEF Reading
      <4>2. g[R].metrics = TotalOf(g[R].keys)
        BY <3>4
      <4>. HIDE DEF R
      <4>. QED BY <3>1, <3>6, <4>1, <4>2, OneValueTotals
    <3>8. \A k \in Key : k \notin S => k # x /\ k \notin R
      BY <3>1
    <3>. HIDE DEF R
    <3>. QED BY <3>4, <3>6, <3>7, <3>8
  <2>. HIDE DEF Counts
  <2>2. \A S \in SUBSET Key : Cardinality(S) <= i + 1 => Counts(S)
    BY <1>2, <2>1
  <2>. QED BY <2>2
<1>5. \A i \in Nat : i \in T
  <2>. HIDE DEF T
  <2>. QED BY <1>3, <1>4, SetInduction
<1>6. Key \in SUBSET Key /\ Cardinality(Key) \in Nat
  BY KeySets
<1>7. Counts(Key)
  <2>. HIDE DEF Counts
  <2>. QED BY <1>5, <1>6
<1>. QED BY <1>1, <1>7 DEF n

\* A start on a node that holds what is to be brought back, and counts it.
LEMMA StartStep ==
  ASSUME LiveInv, NEW n \in Node, LogicalOf(n.keys) = LogicalOf(saved.keys),
         n.metrics = TotalOf(n.keys), NEW cfg \in Config, StartedWith(n, cfg)
  PROVE  /\ LiveInv'
         /\ \A k \in Key : Logical(keys'[k]) = Logical(saved.keys[k])
<1>1. /\ up' = TRUE /\ keys' = n.keys /\ metrics' = n.metrics /\ config' = cfg
      /\ acked' = saved.acked /\ promised' = saved.promised /\ saved' = saved
  BY DEF StartedWith
<1>2. /\ saved.keys \in [Key -> Value] /\ saved.acked \in [Key -> SUBSET Item]
      /\ saved.promised \in [Key -> 0..CapacityMax]
  BY DEF LiveInv, SavedInv
<1>3. /\ n.keys \in [Key -> Value] /\ n.metrics \in Counters
  BY DEF Node
<1>4. ASSUME NEW k \in Key
      PROVE  /\ Logical(n.keys[k]) = Logical(saved.keys[k])
             /\ n.keys[k] \in Object \union {Absent, Foreign}
             /\ IsObject(n.keys[k]) => /\ WellFormed(n.keys[k])
                                       /\ \A x \in saved.acked[k] : ItemExists(n.keys[k], x)
             /\ ~ IsObject(n.keys[k]) => saved.acked[k] = {}
  <2>1. /\ Logical(n.keys[k]) = Logical(saved.keys[k])
        /\ IsObject(n.keys[k]) <=> IsObject(saved.keys[k])
        /\ IsObject(saved.keys[k]) => /\ n.keys[k] \in Object /\ WellFormed(n.keys[k])
                                      /\ saved.keys[k] \in Object
                                      /\ Alike(n.keys[k], saved.keys[k])
    BY <1>2, AlikeAt
  <2>2. n.keys[k] \in Object \union {Absent, Foreign}
    BY <1>3 DEF Value
  <2>3. IsObject(saved.keys[k]) =>
          \A x \in saved.acked[k] : ItemExists(n.keys[k], x)
    <3>1. ASSUME IsObject(saved.keys[k]), NEW x \in saved.acked[k]
          PROVE  ItemExists(n.keys[k], x)
      <4>1. ItemExists(saved.keys[k], x)
        BY <3>1 DEF LiveInv, SavedInv
      <4>2. ItemExists(n.keys[k], x) = ItemExists(saved.keys[k], x)
        BY <2>1, <3>1, AlikeReads
      <4>. QED BY <4>1, <4>2
    <3>. QED BY <3>1
  <2>. QED BY <2>1, <2>2, <2>3 DEF LiveInv, SavedInv
<1>5. TypeOK'
  BY <1>1, <1>2, <1>3, <1>4 DEF TypeOK
<1>6. IInv'
  BY <1>1, <1>4, <1>5 DEF IInv, ShapeInv, NoFalseNegatives, Objects
<1>7. MetricsMatch'
  BY <1>1 DEF MetricsMatch, TotalOf
<1>8. SavedInv'
  BY <1>1, SavedStays DEF LiveInv
<1>. QED BY <1>1, <1>4, <1>6, <1>7, <1>8 DEF LiveInv

(********************************* steps ***********************************)

\* Steps that execute or change something leave what is to be brought back alone.
LEMMA ExecutingStep ==
  ASSUME LiveInv,
         \/ \E c \in Commands : Client(c)
         \/ \E k \in Key : Delete(k) \/ SetString(k) \/ Unpropagated(k)
         \/ \E src, dst \in Key : CopyKey(src, dst) \/ Restore(src, dst)
  PROVE  LiveInv' /\ up /\ up' /\ disk' = disk /\ saved' = saved
<1>1. ASSUME NEW c \in Commands, Client(c)
      PROVE  IInv' /\ CountersStep /\ up /\ UNCHANGED <<up, disk, saved>>
  BY <1>1, ServerSteps DEF LiveInv, Client, Propagate
<1>2. ASSUME NEW k \in Key, Delete(k)
      PROVE  IInv' /\ CountersStep /\ up /\ UNCHANGED <<up, disk, saved>>
  BY <1>2, ServerSteps DEF LiveInv, Delete, Propagate
<1>3. ASSUME NEW k \in Key, SetString(k)
      PROVE  IInv' /\ CountersStep /\ up /\ UNCHANGED <<up, disk, saved>>
  BY <1>3, ServerSteps DEF LiveInv, SetString, Propagate
<1>4. ASSUME NEW k \in Key, Unpropagated(k)
      PROVE  IInv' /\ CountersStep /\ up /\ UNCHANGED <<up, disk, saved>>
  BY <1>4, ServerSteps DEF LiveInv, Unpropagated
<1>5. ASSUME NEW src \in Key, NEW dst \in Key, CopyKey(src, dst)
      PROVE  IInv' /\ CountersStep /\ up /\ UNCHANGED <<up, disk, saved>>
  BY <1>5, ServerSteps DEF LiveInv, CopyKey, Propagate
<1>6. ASSUME NEW src \in Key, NEW dst \in Key, Restore(src, dst)
      PROVE  IInv' /\ CountersStep /\ up /\ UNCHANGED <<up, disk, saved>>
  <2>1. up /\ UNCHANGED <<up, disk, saved>>
    BY <1>6 DEF Restore, Propagate
  <2>. QED BY <1>6, <2>1, RestoreStep DEF LiveInv
<1>7. IInv' /\ CountersStep /\ up /\ UNCHANGED <<up, disk, saved>>
  BY <1>1, <1>2, <1>3, <1>4, <1>5, <1>6
<1>8. SavedInv'
  BY <1>7, SavedStays DEF LiveInv, SavedInv
<1>. QED BY <1>7, <1>8 DEF LiveInv, CountersStep

\* The steps that write files, and the crash.
LEMMA FileStep ==
  ASSUME LiveInv, Save \/ RewriteAof \/ RewriteWithPreamble \/ Crash
  PROVE  LiveInv' /\ up
<1>1. CASE Save
  <2>1. UNCHANGED vars /\ saved' = Contents /\ up /\ up' = up
    BY <1>1 DEF Save
  <2>2. IInv' /\ MetricsMatch'
    BY <2>1 DEF LiveInv, vars, IInv, TypeOK, ShapeInv, NoFalseNegatives, Objects, MetricsMatch
  <2>3. SavedInv'
    BY <2>1, ContentsCanBeSaved DEF LiveInv, SavedInv
  <2>. QED BY <2>1, <2>2, <2>3 DEF LiveInv
<1>2. CASE RewriteAof \/ RewriteWithPreamble
  <2>1. UNCHANGED vars /\ saved' = saved /\ up /\ up' = up
    BY <1>2 DEF RewriteAof, RewriteWithPreamble
  <2>2. IInv' /\ MetricsMatch'
    BY <2>1 DEF LiveInv, vars, IInv, TypeOK, ShapeInv, NoFalseNegatives, Objects, MetricsMatch
  <2>3. SavedInv'
    BY <2>1, SavedStays DEF LiveInv, SavedInv
  <2>. QED BY <2>1, <2>2, <2>3 DEF LiveInv
<1>3. CASE Crash
  <2>1. up /\ up' = FALSE /\ saved' = IF AppendOnly THEN Contents ELSE saved
    BY <1>3 DEF Crash
  <2>2. IInv' /\ MetricsMatch'
    BY <1>3, CrashStep DEF LiveInv
  <2>3. SavedInv'
    BY <2>1, ContentsCanBeSaved, SavedStays DEF LiveInv
  <2>. QED BY <2>1, <2>2, <2>3 DEF LiveInv
<1>. QED BY <1>1, <1>2, <1>3

\* The invariant at the start of an empty server.
LEMMA InitiallyLive ==
  ASSUME PInit
  PROVE  LiveInv
<1>1. Init /\ up = TRUE /\ saved = Contents
  BY DEF PInit
<1>2. IInv /\ MetricsMatch
  BY <1>1, InitEstablishes, InitialBooks
<1>3. saved.keys = keys /\ saved.acked = acked /\ saved.promised = promised
  BY <1>1 DEF Contents
<1>4. /\ keys \in [Key -> Value] /\ acked \in [Key -> SUBSET Item]
      /\ promised \in [Key -> 0..CapacityMax]
  BY <1>2, KeysAreValues DEF IInv, TypeOK
<1>5. \A k \in Key : /\ IsObject(keys[k]) => \A x \in acked[k] : ItemExists(keys[k], x)
                     /\ ~ IsObject(keys[k]) => acked[k] = {}
  BY <1>2 DEF IInv, NoFalseNegatives, Objects
<1>. QED BY <1>1, <1>2, <1>3, <1>4, <1>5 DEF LiveInv, SavedInv

\* Without appendonly, the file is the snapshot of what is to be brought back.
RdbInv == LiveInv /\ disk = Snapshot(saved.keys)

\* What a start does to the keys.
StartRestores == ~ up /\ up' => \A k \in Key : Logical(keys'[k]) = Logical(saved.keys[k])

LEMMA RdbStep ==
  ASSUME ~ AppendOnly, RdbInv, [PNext]_pvars
  PROVE  RdbInv' /\ StartRestores
<1>. LiveInv
  BY DEF RdbInv
<1>1. CASE \/ \E c \in Commands : Client(c)
           \/ \E k \in Key : Delete(k) \/ SetString(k) \/ Unpropagated(k)
           \/ \E src, dst \in Key : CopyKey(src, dst) \/ Restore(src, dst)
  BY <1>1, ExecutingStep DEF RdbInv, StartRestores
<1>2. CASE Save
  <2>1. disk' = Snapshot(keys) /\ saved'.keys = keys
    BY <1>2 DEF Save, Contents
  <2>. QED BY <1>2, <2>1, FileStep DEF RdbInv, StartRestores
<1>3. CASE RewriteAof \/ RewriteWithPreamble
  BY <1>3 DEF RewriteAof, RewriteWithPreamble
<1>4. CASE Crash
  <2>1. disk' = disk /\ saved' = saved
    BY <1>4 DEF Crash
  <2>. QED BY <1>4, <2>1, FileStep DEF RdbInv, StartRestores
<1>5. ASSUME NEW cfg \in RestartConfigs, StartFromRdb(cfg) \/ StartFromAof(cfg)
      PROVE  RdbInv' /\ StartRestores
  <2> DEFINE n == LoadSnapshot(disk, cfg.limit)
  <2>1. n.err = Ok /\ StartedWith(n, cfg) /\ cfg \in Config
    BY <1>5, PersistenceAssumption DEF StartFromRdb, StartFromAof
  <2>2. n \in Node /\ LogicalOf(n.keys) = LogicalOf(saved.keys) /\ n.metrics = TotalOf(n.keys)
    <3>1. saved.keys \in [Key -> Value] /\ n = LoadSnapshot(Snapshot(saved.keys), cfg.limit)
      BY DEF RdbInv, LiveInv, SavedInv
    <3>. QED BY <2>1, <3>1, SnapshotIsCopy, SnapshotIsCounted
  <2>3. disk' = disk /\ saved' = saved
    BY <2>1 DEF StartedWith
  <2>. HIDE DEF n
  <2>. QED BY <2>1, <2>2, <2>3, StartStep DEF RdbInv, StartRestores
<1>6. CASE UNCHANGED pvars
  <2>1. UNCHANGED vars /\ UNCHANGED <<up, disk, saved>>
    BY <1>6 DEF pvars
  <2>2. IInv' /\ MetricsMatch'
    BY <2>1 DEF LiveInv, vars, IInv, TypeOK, ShapeInv, NoFalseNegatives, Objects, MetricsMatch
  <2>3. SavedInv'
    BY <2>1, SavedStays DEF LiveInv, SavedInv
  <2>. QED BY <2>1, <2>2, <2>3 DEF RdbInv, LiveInv, StartRestores
<1>. QED BY <1>1, <1>2, <1>3, <1>4, <1>5, <1>6 DEF PNext

(******************************** theorems *********************************)

\* Without appendonly, the invariants hold across saves, crashes, refused images
\* and starts, and the file is the snapshot of what was saved last.
THEOREM RdbInvariance ==
  ASSUME ~ AppendOnly
  PROVE  PSpec => []RdbInv
<1>1. PInit => RdbInv
  <2>1. ASSUME PInit PROVE disk = Snapshot(saved.keys)
    <3>1. disk = keys /\ saved.keys = keys /\ keys = [k \in Key |-> Absent]
      BY <2>1 DEF PInit, Init, Contents
    <3>2. keys \in [Key -> Value] /\ \A k \in Key : ~ IsObject(keys[k])
      BY <3>1, ValueFields
    <3>3. Snapshot(keys) = [k \in Key |-> keys[k]]
      BY <3>2 DEF Snapshot
    <3>. QED BY <3>1, <3>2, <3>3
  <2>. QED BY <2>1, InitiallyLive DEF RdbInv
<1>2. RdbInv /\ [PNext]_pvars => RdbInv'
  BY RdbStep
<1>. QED BY <1>1, <1>2, PTL DEF PSpec

\* A start from an RDB brings back every object to the last bit and item count,
\* under whatever configuration the server is started.
THEOREM RdbStartRestores ==
  ASSUME ~ AppendOnly
  PROVE  PSpec => RestartRestores
<1>1. RdbInv /\ [PNext]_pvars => [StartRestores]_pvars
  BY RdbStep
<1>2. [StartRestores]_pvars
        => [~ up /\ up' /\ (AppendOnly => LimitNotLowered)
              => \A k \in Key : Logical(keys'[k]) = Logical(saved.keys[k])]_pvars
  BY DEF StartRestores
<1>. QED BY <1>1, <1>2, RdbInvariance, PTL DEF PSpec, RestartRestores

\* Nothing acknowledged before the last save is lost in a crash, and nothing
\* acknowledged since a start while the server runs.
THEOREM RdbKeepsItems ==
  ASSUME ~ AppendOnly
  PROVE  PSpec => []NoFalseNegatives
<1>1. RdbInv => NoFalseNegatives
  BY DEF RdbInv, LiveInv, IInv
<1>. QED BY <1>1, RdbInvariance, PTL

\* The counters of INFO bf are the sums over the live objects after a start too,
\* whatever images were refused on the way.
THEOREM RdbCountersMatch ==
  ASSUME ~ AppendOnly
  PROVE  PSpec => []MetricsMatch
<1>1. RdbInv => MetricsMatch
  BY DEF RdbInv, LiveInv
<1>. QED BY <1>1, RdbInvariance, PTL

(***************************** the round trip ******************************)

\* No object was created with a false positive rate that rdb_load refuses.
RatesArePositive == \A k \in Objects : ~ FpReachesZero(keys[k].fp)

\* The image of an object that refits is read back as that object, and counts it.
LEMMA ImageIsObject ==
  ASSUME IInv, ObjectsRefit, RatesArePositive
  PROVE  RdbRoundTrip
<1>1. SUFFICES ASSUME NEW k \in Objects
               PROVE  RdbLoad(RdbSave(keys[k]), NoMetrics, config.limit)
                        = [val |-> keys[k], err |-> Ok,
                           metrics |-> Gain(GainFilters(NoMetrics, keys[k]), ObjectWeight(keys[k]))]
  BY DEF RdbRoundTrip
<1> DEFINE o == keys[k]
           limit == config.limit
           l == RdbLoad(RdbSave(o), NoMetrics, limit)
           copy == Gain(GainFilters(NoMetrics, o), ObjectWeight(o))
<1>2. o \in Object /\ WellFormed(o) /\ limit \in Int
  BY <1>1 DEF IInv, TypeOK, Config, ShapeInv, Objects, IsObject
<1>3. Refits(o, limit) /\ ~ FpReachesZero(o.fp)
  BY <1>1 DEF ObjectsRefit, RatesArePositive
<1>. HIDE DEF o, limit
<1>4. /\ l = [val |-> o, metrics |-> l.metrics, err |-> Ok]
      /\ l.metrics \in Counters /\ Tracks(NoMetrics, Footprint(o), l.metrics)
  BY <1>2, <1>3, NoMetricsTyped, RefitIsRead
<1>5. copy \in Counters /\ Tracks(NoMetrics, Footprint(o), copy)
  BY <1>2, NoMetricsTyped, ObjectTracks
<1>. HIDE DEF l, copy
<1>6. l.metrics = copy
  BY <1>2, <1>4, <1>5, NoMetricsTyped, FootprintTyped, TracksEqual
<1>7. l = [val |-> o, err |-> Ok, metrics |-> copy]
  BY <1>4, <1>6
<1>. QED BY <1>7 DEF l, copy, o, limit

\* src/bloom/data_type.rs:99: on a server that neither defragments nor is given a
\* BF.LOAD, whose memory limit is not lowered and whose rates are above
\* f64::MIN_POSITIVE, the image of every object is read back, as the object it was
\* made of and with the counts of a copy of it.
THEOREM ImagesRoundTrip ==
  Spec /\ [][config'.limit >= config.limit]_vars /\ [](~ config.defrag) /\ [][LoadsNothing]_vars
       /\ []RatesArePositive
    => []RdbRoundTrip
<1>1. IInv /\ ObjectsRefit /\ RatesArePositive => RdbRoundTrip
  BY ImageIsObject
<1>. QED BY <1>1, Invariance, ObjectsStayReadable, PTL

(************************* starting from the AOF ***************************)

\* What the proofs ask of the start: the memory limit is no lower than the one the
\* commands were executed under, the server scales by default if clients may ask how
\* far an object they give no expansion would scale, no command that fails is logged.
StartsKeepLimit == \A cfg \in RestartConfigs : config.limit <= cfg.limit

RestartsScale ==
  \A c \in Commands, cfg \in RestartConfigs :
    c.scaleTo # Unset => Given(c.expansion, cfg.expansion) # 0

FailuresNotLogged == last.reply.err # Ok => last.repl = <<>>

\* A node that holds what `to' says, and counts it.
Restored(n, to) ==
  n \in Node /\ LogicalOf(n.keys) = to /\ n.metrics = TotalOf(n.keys)

\* A server that can start from the base and the log holds what `to' says.
Brings(base, cmds, to) ==
  \A cfg \in RestartConfigs, rnd \in RandomSeeds :
    LET n == LoadSnapshot(base, cfg.limit)
    IN  n.err = Ok => Restored(Replay(n, cmds, cfg, rnd), to)

\* With appendonly, the files bring what the server holds, or held when it stopped.
AofInv ==
  /\ LiveInv
  /\ \E S : log \in Seq(S)
  /\ Brings(disk, log, LogicalOf(IF up THEN keys ELSE saved.keys))

\* A command that leads on takes a node that counts what it holds to one.
LEMMA ObeyRestores ==
  ASSUME NEW n, NEW before, Restored(n, before), NEW cmd, NEW after, NEW cfg,
         Leads(cmd, before, after, cfg), NEW rnd \in RandomSeeds
  PROVE  Restored(Obey(n, cmd, cfg, rnd), after)
<1> DEFINE out == ObeyOutcome(n, cmd, cfg, rnd)
           t == Obey(n, cmd, cfg, rnd)
           k == cmd.key
<1>1. n \in Node /\ LogicalOf(n.keys) = before /\ n.metrics = TotalOf(n.keys) /\ rnd \in Draws
  BY DEF Restored, RandomSeeds, Draws
<1>2. /\ k \in Key /\ t \in Node /\ LogicalOf(t.keys) = after
      /\ Balanced(n.keys[k], n.metrics, out)
  BY <1>1 DEF Leads
<1>3. /\ n.keys \in [Key -> Value] /\ t.keys \in [Key -> Value]
      /\ n.metrics \in Counters /\ t.metrics \in Counters
  BY <1>1, <1>2, NodeFields
<1>4. t.keys = [n.keys EXCEPT ![k] = out.val] /\ t.metrics = out.metrics
  BY DEF Obey, Obeyed
<1>. HIDE DEF t, out, k
<1>5. /\ \A j \in Key : j # k => t.keys[j] = n.keys[j]
      /\ t.keys[k] = out.val
  BY <1>2, <1>3, <1>4
<1>6. Tracks(n.metrics, Change(n.keys[k], t.keys[k]), t.metrics)
  BY <1>2, <1>4, <1>5 DEF Balanced
<1>7. t.metrics = TotalOf(t.keys)
  BY <1>1, <1>2, <1>3, <1>5, <1>6, OneValueTotals
<1>. QED BY <1>2, <1>7 DEF Restored, t

\* A command that leads on prolongs the log.
LEMMA LogGrows ==
  ASSUME NEW S, NEW s \in Seq(S), NEW base, NEW before, Brings(base, s, before),
         NEW cmd, NEW after, \A cfg \in RestartConfigs : Leads(cmd, before, after, cfg)
  PROVE  Brings(base, Append(s, cmd), after) /\ \E Q : Append(s, cmd) \in Seq(Q)
<1>1. ASSUME NEW cfg \in RestartConfigs, NEW rnd \in RandomSeeds, NEW n, n.err = Ok,
             n = LoadSnapshot(base, cfg.limit)
      PROVE  Restored(Replay(n, Append(s, cmd), cfg, rnd), after)
  <2> DEFINE r == Replay(n, s, cfg, rnd)
  <2>1. Restored(r, before)
    BY <1>1 DEF Brings
  <2>2. Leads(cmd, before, after, cfg)
    OBVIOUS
  <2>3. Replay(n, Append(s, cmd), cfg, rnd) = Obey(r, cmd, cfg, rnd)
    BY ReplayGrows
  <2>. HIDE DEF r
  <2>. QED BY <2>1, <2>2, <2>3, ObeyRestores
<1>2. Brings(base, Append(s, cmd), after)
  BY <1>1 DEF Brings
<1>3. s \in Seq(S \union {cmd}) /\ cmd \in S \union {cmd}
  OBVIOUS
<1>4. Append(s, cmd) \in Seq(S \union {cmd})
  BY <1>3
<1>. QED BY <1>2, <1>4

\* A base alone brings what it is the snapshot of.
LEMMA BaseBrings ==
  ASSUME NEW K \in [Key -> Value]
  PROVE  Brings(Snapshot(K), <<>>, LogicalOf(K))
<1>1. ASSUME NEW cfg \in RestartConfigs, NEW rnd \in RandomSeeds, NEW n, n.err = Ok,
             n = LoadSnapshot(Snapshot(K), cfg.limit)
      PROVE  Restored(Replay(n, <<>>, cfg, rnd), LogicalOf(K))
  <2>1. n \in Node /\ LogicalOf(n.keys) = LogicalOf(K) /\ n.metrics = TotalOf(n.keys)
    BY <1>1, SnapshotIsCopy, SnapshotIsCounted
  <2>. QED BY <2>1, ReplayNothing DEF Restored
<1>. QED BY <1>1 DEF Brings

(************************* the commands of a log ***************************)

\* What a client's command adds to the log.
LEMMA ClientLeads ==
  ASSUME IInv, StartsKeepLimit, RestartsScale, NEW c \in Commands,
         BfAdd(c) \/ BfInsert(c) \/ BfReserve(c), FailuresNotLogged', last'.repl # <<>>,
         NEW cfg \in RestartConfigs
  PROVE  /\ Single(last'.repl)
         /\ Leads(last'.repl[1], LogicalOf(keys), LogicalOf(keys'), cfg)
<1> DEFINE no == FALSE
           v == keys[c.key]
<1>1. /\ keys \in [Key -> Value] /\ metrics \in Counters /\ config \in Config
      /\ c \in CommandType /\ (c.name = "BF.ADD" => Len(c.items) = 1)
      /\ cfg.limit \in Nat /\ config.limit \in Nat /\ config.limit <= cfg.limit /\ no \in BOOLEAN
      /\ c.scaleTo # Unset => (IF c.expansion = Unset THEN cfg.expansion ELSE c.expansion) # 0
  BY KeysAreValues, CommandAssumption, PersistenceAssumption
  DEF IInv, TypeOK, Config, StartsKeepLimit, RestartsScale, Given
<1> DEFINE Done1(out) == /\ Single(out.repl)
                         /\ Leads(out.repl[1], LogicalOf(keys),
                                  LogicalOf([keys EXCEPT ![c.key] = out.val]), cfg)
<1>2. ASSUME NEW out, Perform(c, out), out.repl # <<>> /\ out.reply.err = Ok => Done1(out)
      PROVE  /\ Single(last'.repl)
             /\ Leads(last'.repl[1], LogicalOf(keys), LogicalOf(keys'), cfg)
  <2>1. /\ keys' = [keys EXCEPT ![c.key] = out.val]
        /\ last'.repl = out.repl /\ last'.reply = out.reply
    BY <1>2 DEF Perform
  <2>2. out.reply.err = Ok
    BY <2>1 DEF FailuresNotLogged
  <2>. QED BY <1>2, <2>1, <2>2
<1>3. CASE BfAdd(c)
  <2>1. PICK rnd \in RandomSeeds :
          Perform(c, BloomFilterAddValue(c, v, config, metrics, no, rnd))
    BY <1>3 DEF BfAdd
  <2>2. rnd \in Draws /\ c.name \in {"BF.ADD", "BF.MADD"}
    BY <1>3 DEF BfAdd, RandomSeeds, Draws
  <2> DEFINE out == BloomFilterAddValue(c, keys[c.key], config, metrics, no, rnd)
  <2>. HIDE DEF no
  <2>3. out.repl # <<>> /\ out.reply.err = Ok => Done1(out)
    BY <1>1, <2>2, AddValueLeads
  <2>4. Perform(c, out)
    BY <2>1
  <2>. HIDE DEF out, Done1
  <2>. QED BY <1>2, <2>3, <2>4
<1>4. CASE BfInsert(c)
  <2>1. PICK rnd \in RandomSeeds :
          Perform(c, BloomFilterInsert(c, v, config, metrics, no, rnd))
    BY <1>4 DEF BfInsert
  <2>2. rnd \in Draws /\ c.name = "BF.INSERT"
    BY <1>4 DEF BfInsert, RandomSeeds, Draws
  <2> DEFINE out == BloomFilterInsert(c, keys[c.key], config, metrics, no, rnd)
  <2>. HIDE DEF no
  <2>3. out.repl # <<>> /\ out.reply.err = Ok => Done1(out)
    BY <1>1, <2>2, InsertLeads
  <2>4. Perform(c, out)
    BY <2>1
  <2>. HIDE DEF out, Done1
  <2>. QED BY <1>2, <2>3, <2>4
<1>5. CASE BfReserve(c)
  <2>1. PICK rnd \in RandomSeeds :
          Perform(c, BloomFilterReserve(c, v, config, metrics, no, rnd))
    BY <1>5 DEF BfReserve
  <2>2. rnd \in Draws
    BY DEF RandomSeeds, Draws
  <2> DEFINE out == BloomFilterReserve(c, keys[c.key], config, metrics, no, rnd)
  <2>. HIDE DEF no
  <2>3. out.repl # <<>> => Done1(out)
    BY <1>1, <2>2, ReserveLeads
  <2>4. Perform(c, out)
    BY <2>1
  <2>. HIDE DEF out, Done1
  <2>. QED BY <1>2, <2>3, <2>4
<1>. QED BY <1>3, <1>4, <1>5

\* A command that is not logged has not changed its key.
LEMMA UnloggedLeaves ==
  ASSUME IInv, NEW c \in Commands, BfAdd(c) \/ BfInsert(c) \/ BfReserve(c), last'.repl = <<>>
  PROVE  keys' = keys
<1> DEFINE v == keys[c.key]
           kept(out) == Kept(v, metrics, out, ~ FALSE, config.limit, 0)
<1>. 0 \in Int
  OBVIOUS
<1>1. \E out : Perform(c, out) /\ kept(out)
  <2>1. CASE BfAdd(c)
    <3>1. PICK rnd \in RandomSeeds :
            Perform(c, BloomFilterAddValue(c, v, config, metrics, FALSE, rnd))
      BY <2>1 DEF BfAdd
    <3>2. c.name = "BF.MADD" \/ Len(c.items) = 1
      BY <2>1, CommandAssumption DEF BfAdd
    <3>3. kept(BloomFilterAddValue(c, v, config, metrics, FALSE, rnd))
      BY <3>2, ClientFacts, AddValueAccounts
    <3>. HIDE DEF kept
    <3>. QED BY <3>1, <3>3
  <2>2. CASE BfInsert(c)
    <3>1. PICK rnd \in RandomSeeds :
            Perform(c, BloomFilterInsert(c, v, config, metrics, FALSE, rnd))
      BY <2>2 DEF BfInsert
    <3>2. kept(BloomFilterInsert(c, v, config, metrics, FALSE, rnd))
      BY ClientFacts, InsertAccounts
    <3>. HIDE DEF kept
    <3>. QED BY <3>1, <3>2
  <2>3. CASE BfReserve(c)
    <3>1. PICK rnd \in RandomSeeds :
            Perform(c, BloomFilterReserve(c, v, config, metrics, FALSE, rnd))
      BY <2>3 DEF BfReserve
    <3>2. kept(BloomFilterReserve(c, v, config, metrics, FALSE, rnd))
      BY ClientFacts, ReserveAccounts
    <3>. HIDE DEF kept
    <3>. QED BY <3>1, <3>2
  <2>. QED BY <2>1, <2>2, <2>3
<1>2. PICK out : Perform(c, out) /\ kept(out)
  BY <1>1
<1>3. last'.repl = out.repl /\ keys' = [keys EXCEPT ![c.key] = out.val]
  BY <1>2 DEF Perform
<1>4. out.repl # <<>> <=> out.val # v
  BY <1>2 DEF Kept, Announced
<1>5. c.key \in Key /\ keys \in [Key -> Value]
  BY ClientFacts, KeysAreValues
<1>. QED BY <1>3, <1>4, <1>5

(************************** rewriting the AOF ******************************)

\* The members of a finite set in a sequence, each once.
LEMMA SetIsListed ==
  ASSUME NEW S, IsFiniteSet(S), NEW q, q = SetToSeq(S)
  PROVE  /\ q \in Seq(S) /\ Len(q) \in Nat
         /\ \A i \in 1..Len(q) : q[i] \in S
         /\ \A i, j \in 1..Len(q) : q[i] = q[j] => i = j
         /\ \A x \in S : \E i \in 1..Len(q) : q[i] = x
<1> DEFINE n == Cardinality(S)
<1>1. n \in Nat /\ ExistsBijection(1..n, S)
  BY FS_CardinalityType
<1>2. \E f \in [1..n -> S] : IsInjective(f)
  <2>1. PICK f : f \in Bijection(1..n, S)
    BY <1>1 DEF ExistsBijection
  <2>2. f \in [1..n -> S] /\ \A a, b \in 1..n : f[a] = f[b] => a = b
    BY <2>1 DEF Bijection, Injection, IsInjective
  <2>. QED BY <2>2 DEF IsInjective
<1>3. q \in [1..n -> S] /\ IsInjective(q)
  <2>1. q = CHOOSE f \in [1..n -> S] : IsInjective(f)
    BY DEF SetToSeq
  <2>. HIDE DEF n
  <2>. QED BY <1>2, <2>1
<1>4. \A i, j \in 1..n : q[i] = q[j] => i = j
  BY <1>3 DEF IsInjective
<1>5. q \in Injection(1..n, S)
  BY <1>3, <1>4 DEF Injection, IsInjective
<1>6. IsFiniteSet(1..n) /\ Cardinality(1..n) = Cardinality(S)
  <2>1. 1 \in Int /\ n \in Int /\ (IF 1 > n THEN 0 ELSE n - 1 + 1) = n
    BY <1>1
  <2>2. Cardinality(1..n) = IF 1 > n THEN 0 ELSE n - 1 + 1
    BY <2>1, FS_Interval
  <2>. HIDE DEF n
  <2>3. IsFiniteSet(1..n)
    BY <2>1, FS_Interval
  <2>. QED BY <2>1, <2>2, <2>3 DEF n
<1>7. q \in Surjection(1..n, S)
  BY <1>5, <1>6, FS_Injection
<1>8. \A x \in S : \E i \in 1..n : q[i] = x
  BY <1>7 DEF Surjection
<1>9. q \in Seq(S) /\ Len(q) = n
  BY <1>1, <1>3
<1>. QED BY <1>1, <1>3, <1>4, <1>8, <1>9

\* The command that recreates a key, and those of all keys that hold something.
KeyCommand(K, k) == IF IsObject(K[k]) THEN LoadCommand(k, K[k]) ELSE SetCommand(k)

Filled(K) == {k \in Key : K[k] # Absent}

LEMMA RewriteCommands ==
  ASSUME NEW K \in [Key -> Value]
  PROVE  LET cmds == {KeyCommand(K, k) : k \in Filled(K)}
         IN  /\ cmds = {LoadCommand(k, K[k]) : k \in {j \in Key : IsObject(K[j])}}
                       \union {SetCommand(k) : k \in {j \in Key : K[j] = Foreign}}
             /\ IsFiniteSet(cmds)
             /\ \A k \in Key : KeyCommand(K, k).key = k
<1>1. \A k \in Key : KeyCommand(K, k).key = k
  BY DEF KeyCommand, LoadCommand, SetCommand, Command
<1>2. \A k \in Key : /\ IsObject(K[k]) => K[k] # Absent /\ K[k] # Foreign
                     /\ ~ IsObject(K[k]) => K[k] \in {Absent, Foreign}
  BY ValueFields
<1> DEFINE F == Filled(K)
           loads == {LoadCommand(k, K[k]) : k \in {j \in Key : IsObject(K[j])}}
           sets == {SetCommand(k) : k \in {j \in Key : K[j] = Foreign}}
           cmds == {KeyCommand(K, k) : k \in F}
<1>3. cmds = loads \union sets
  <2>1. ASSUME NEW k \in F PROVE KeyCommand(K, k) \in loads \union sets
    BY <1>2 DEF Filled, KeyCommand
  <2>2. ASSUME NEW k \in Key, IsObject(K[k]) PROVE LoadCommand(k, K[k]) \in cmds
    <3>1. k \in F /\ LoadCommand(k, K[k]) = KeyCommand(K, k)
      BY <1>2, <2>2 DEF Filled, KeyCommand
    <3>. HIDE DEF F
    <3>. QED BY <3>1
  <2>3. ASSUME NEW k \in Key, K[k] = Foreign PROVE SetCommand(k) \in cmds
    <3>1. k \in F /\ SetCommand(k) = KeyCommand(K, k)
      BY <1>2, <2>3, ValueAssumption DEF Filled, KeyCommand
    <3>. HIDE DEF F
    <3>. QED BY <3>1
  <2>. HIDE DEF F
  <2>. QED BY <2>1, <2>2, <2>3
<1>4. IsFiniteSet(cmds)
  <2> DEFINE f == [k \in F |-> KeyCommand(K, k)]
  <2>1. IsFiniteSet(F)
    BY KeyAssumption, FS_Subset DEF Filled
  <2>. HIDE DEF F
  <2>2. f \in Surjection(F, cmds)
    BY DEF Surjection
  <2>. HIDE DEF f, cmds
  <2>. QED BY <2>1, <2>2, FS_Surjection
<1>. QED BY <1>1, <1>3, <1>4

\* The log of a rewritten AOF brings the keys back one by one.
LEMMA RewriteBrings ==
  ASSUME NEW K \in [Key -> Value],
         \A k \in Key : IsObject(K[k]) => Len(K[k].filters) < MaxFilters,
         NEW q, q = SetToSeq({LoadCommand(k, K[k]) : k \in {j \in Key : IsObject(K[j])}}
                             \union {SetCommand(k) : k \in {j \in Key : K[j] = Foreign}})
  PROVE  /\ Brings([k \in Key |-> Absent], q, LogicalOf(K))
         /\ \E S : q \in Seq(S)
<1> DEFINE cmds == {KeyCommand(K, k) : k \in Filled(K)}
           None == [k \in Key |-> Absent]
           Listed(i) == {k \in Key : \E j \in 1..i : q[j].key = k}
           Part(i) == [k \in Key |-> IF k \in Listed(i) THEN K[k] ELSE Absent]
<1>1. /\ q = SetToSeq(cmds) /\ IsFiniteSet(cmds)
      /\ \A k \in Key : KeyCommand(K, k).key = k
  BY RewriteCommands
<1>2. /\ q \in Seq(cmds) /\ Len(q) \in Nat
      /\ \A i \in 1..Len(q) : q[i] \in cmds
      /\ \A i, j \in 1..Len(q) : q[i] = q[j] => i = j
      /\ \A x \in cmds : \E i \in 1..Len(q) : q[i] = x
  <2>. HIDE DEF cmds
  <2>. QED BY <1>1, SetIsListed
<1>3. \A i \in 1..Len(q) : /\ q[i].key \in Key /\ K[q[i].key] # Absent
                           /\ q[i] = KeyCommand(K, q[i].key)
  <2>1. ASSUME NEW i \in 1..Len(q)
        PROVE  /\ q[i].key \in Key /\ K[q[i].key] # Absent
               /\ q[i] = KeyCommand(K, q[i].key)
    <3>1. PICK k \in Filled(K) : q[i] = KeyCommand(K, k)
      BY <1>2
    <3>2. k \in Key /\ K[k] # Absent
      BY DEF Filled
    <3>3. q[i].key = k
      BY <1>1, <3>1, <3>2
    <3>. QED BY <3>1, <3>2, <3>3
  <2>. QED BY <2>1
<1>4. \A k \in Filled(K) : \E i \in 1..Len(q) : q[i].key = k
  <2>1. ASSUME NEW k \in Filled(K) PROVE \E i \in 1..Len(q) : q[i].key = k
    <3>1. KeyCommand(K, k) \in cmds
      OBVIOUS
    <3>2. PICK i \in 1..Len(q) : q[i] = KeyCommand(K, k)
      BY <1>2, <3>1
    <3>3. KeyCommand(K, k).key = k
      BY <1>1 DEF Filled
    <3>. QED BY <3>2, <3>3
  <2>. QED BY <2>1
<1>. HIDE DEF cmds
<1>5. None \in [Key -> Value] /\ Snapshot(None) = None /\ \A i \in Nat : Part(i) \in [Key -> Value]
  <2>1. None \in [Key -> Value] /\ \A k \in Key : ~ IsObject(None[k])
    BY ValueFields
  <2>2. Snapshot(None) = [k \in Key |-> None[k]]
    <3>1. DOMAIN None = Key
      OBVIOUS
    <3>. HIDE DEF None
    <3>. QED BY <2>1, <3>1 DEF Snapshot
  <2>3. Absent \in Value
    BY ValueFields
  <2>. HIDE DEF Listed
  <2>. QED BY <2>1, <2>2, <2>3
<1>6. Part(0) = None /\ Part(Len(q)) = K
  <2>1. Listed(0) = {}
    OBVIOUS
  <2>2. \A k \in Key : k \notin Listed(Len(q)) => K[k] = Absent
    BY <1>4 DEF Filled
  <2>. HIDE DEF Listed
  <2>. QED BY <2>1, <2>2
<1>7. ASSUME NEW i \in Nat, i + 1 <= Len(q), NEW cfg \in RestartConfigs
      PROVE  Leads(q[i + 1], LogicalOf(Part(i)), LogicalOf(Part(i + 1)), cfg)
  <2> DEFINE k == q[i + 1].key
  <2>1. i + 1 \in 1..Len(q)
    BY <1>2, <1>7
  <2>2. k \in Key /\ K[k] # Absent /\ q[i + 1] = KeyCommand(K, k) /\ K[k] \in Value
    BY <1>3, <2>1
  <2>3. k \notin Listed(i)
    <3>1. SUFFICES ASSUME NEW j \in 1..i, q[j].key = k PROVE FALSE
      OBVIOUS
    <3>2. j \in 1..Len(q) /\ j # i + 1
      BY <1>2, <1>7
    <3>3. q[j] = KeyCommand(K, k)
      BY <1>3, <3>1, <3>2
    <3>. QED BY <1>2, <2>1, <2>2, <3>2, <3>3
  <2>4. Listed(i + 1) = Listed(i) \union {k}
    <3>1. 1..(i + 1) = (1..i) \union {i + 1}
      BY <1>7
    <3>2. k \in Key
      BY <2>2
    <3>. QED BY <3>1, <3>2
  <2>. HIDE DEF k, Listed
  <2>5. Part(i + 1) = [Part(i) EXCEPT ![k] = K[k]] /\ Part(i)[k] = Absent
    BY <2>2, <2>3, <2>4
  <2>6. Part(i) \in [Key -> Value] /\ cfg \in Config /\ cfg.limit \in Int
    BY <1>5, PersistenceAssumption DEF Config
  <2> DEFINE P == Part(i)
  <2>7. P \in [Key -> Value] /\ P[k] = Absent /\ Part(i + 1) = [P EXCEPT ![k] = K[k]]
    BY <2>5, <2>6
  <2>. HIDE DEF P
  <2>8. Leads(KeyCommand(K, k), LogicalOf(P), LogicalOf([P EXCEPT ![k] = K[k]]), cfg)
    <3>1. CASE IsObject(K[k])
      <4>1. K[k] \in Object /\ WellFormed(K[k]) /\ Len(K[k].filters) < MaxFilters
        BY <2>2, <3>1, ValueFields
      <4>2. Leads(LoadCommand(k, K[k]), LogicalOf(P), LogicalOf([P EXCEPT ![k] = K[k]]), cfg)
        BY <2>2, <2>6, <2>7, <4>1, LoadLeads
      <4>. QED BY <3>1, <4>2 DEF KeyCommand
    <3>2. CASE ~ IsObject(K[k])
      <4> DEFINE v == K[k]
      <4>1. v \in {Absent, Foreign} /\ v # Absent
        BY <2>2, <3>2, ValueFields
      <4>. HIDE DEF v
      <4>2. Leads(IF v = Absent THEN DelCommand(k) ELSE SetCommand(k),
                  LogicalOf(P), LogicalOf([P EXCEPT ![k] = v]), cfg)
        BY <2>2, <2>7, <4>1, OverwriteLeads
      <4>3. Leads(SetCommand(k), LogicalOf(P), LogicalOf([P EXCEPT ![k] = v]), cfg)
        BY <4>1, <4>2
      <4>. QED BY <3>2, <4>3 DEF KeyCommand, v
    <3>. QED BY <3>1, <3>2
  <2>. QED BY <2>2, <2>7, <2>8 DEF P
<1>. HIDE DEF Part, None
<1>8. ASSUME NEW cfg \in RestartConfigs, NEW rnd \in RandomSeeds, NEW n, n.err = Ok,
             n = LoadSnapshot(None, cfg.limit)
      PROVE  Restored(Replay(n, q, cfg, rnd), LogicalOf(K))
  <2>1. PICK g : Replays(n, q, cfg, rnd, g) /\ Replay(n, q, cfg, rnd) = g[Len(q)]
    <3>1. Len(q) \in Nat
      BY <1>2
    <3>. QED BY <3>1, ReplaySteps
  <2> DEFINE T == {i \in Nat : i <= Len(q) => Restored(g[i], LogicalOf(Part(i)))}
  <2>2. 0 \in T
    <3>1. /\ n \in Node /\ LogicalOf(n.keys) = LogicalOf(None)
          /\ n.metrics = TotalOf(n.keys)
      <4>1. n = LoadSnapshot(Snapshot(None), cfg.limit) /\ None \in [Key -> Value]
        BY <1>5, <1>8
      <4>. QED BY <1>8, <4>1, SnapshotIsCopy, SnapshotIsCounted
    <3>2. g[0] = n
      BY <2>1 DEF Replays
    <3>. QED BY <1>6, <3>1, <3>2 DEF Restored
  <2>3. ASSUME NEW i \in Nat, i \in T PROVE i + 1 \in T
    <3>1. SUFFICES ASSUME i + 1 <= Len(q) PROVE Restored(g[i + 1], LogicalOf(Part(i + 1)))
      OBVIOUS
    <3>2. i + 1 \in 1..Len(q) /\ (i + 1) - 1 = i /\ i <= Len(q)
      BY <1>2, <3>1
    <3>3. Restored(g[i], LogicalOf(Part(i)))
      BY <2>3, <3>2
    <3>4. g[i + 1] = Obey(g[i], q[i + 1], cfg, rnd)
      <4>1. g[i + 1] = Obey(g[(i + 1) - 1], q[i + 1], cfg, rnd)
        BY <2>1, <3>2 DEF Replays
      <4>. QED BY <3>2, <4>1
    <3>5. Leads(q[i + 1], LogicalOf(Part(i)), LogicalOf(Part(i + 1)), cfg)
      BY <1>7, <3>1
    <3>. QED BY <3>3, <3>4, <3>5, ObeyRestores
  <2>4. Len(q) \in T
    <3>. HIDE DEF T
    <3>. QED BY <1>2, <2>2, <2>3, SetInduction
  <2>5. Restored(g[Len(q)], LogicalOf(Part(Len(q))))
    BY <1>2, <2>4
  <2>. QED BY <1>6, <2>1, <2>5
<1>9. Brings(None, q, LogicalOf(K))
  BY <1>8 DEF Brings
<1>. QED BY <1>2, <1>9 DEF None

(***************************** steps of the AOF ****************************)

\* A step that logs one command, and one that logs nothing and changes nothing
\* that is brought back.
LEMMA LoggedStep ==
  ASSUME AofInv, LiveInv', up, up', disk' = disk, NEW cmd, log' = log \o <<cmd>>,
         \A cfg \in RestartConfigs : Leads(cmd, LogicalOf(keys), LogicalOf(keys'), cfg)
  PROVE  AofInv'
<1>1. PICK S : log \in Seq(S)
  BY DEF AofInv
<1>2. log' = Append(log, cmd)
  <2>1. log \in Seq(S \union {cmd}) /\ cmd \in S \union {cmd}
    BY <1>1
  <2>. QED BY <2>1
<1>3. Brings(disk, log, LogicalOf(keys))
  BY DEF AofInv
<1>4. Brings(disk, Append(log, cmd), LogicalOf(keys')) /\ \E Q : Append(log, cmd) \in Seq(Q)
  BY <1>1, <1>3, LogGrows
<1>5. Brings(disk', log', LogicalOf(keys')) /\ \E Q : log' \in Seq(Q)
  BY <1>2, <1>4
<1>. QED BY <1>5 DEF AofInv, Brings

LEMMA UnloggedStep ==
  ASSUME AofInv, LiveInv', up, up', disk' = disk, log' = log,
         LogicalOf(keys') = LogicalOf(keys)
  PROVE  AofInv'
<1>1. Brings(disk, log, LogicalOf(keys)) /\ \E S : log \in Seq(S)
  BY DEF AofInv
<1>2. Brings(disk', log', LogicalOf(keys')) /\ \E S : log' \in Seq(S)
  BY <1>1
<1>. QED BY <1>2 DEF AofInv, Brings

\* The commands of clients.
LEMMA AofClientStep ==
  ASSUME AppendOnly, RestartsScale, AofInv, StartsKeepLimit, FailuresNotLogged',
         NEW c \in Commands, Client(c)
  PROVE  AofInv'
<1>1. LiveInv' /\ up /\ up' /\ disk' = disk /\ IInv
  BY ExecutingStep DEF AofInv, LiveInv
<1>2. BfAdd(c) \/ BfInsert(c) \/ BfReserve(c)
  BY DEF Client
<1>3. log' = log \o last'.repl
  BY DEF Client, Propagate
<1>4. CASE last'.repl = <<>>
  <2>1. keys' = keys
    BY <1>1, <1>2, <1>4, UnloggedLeaves
  <2>2. log' = log
    <3>1. PICK S : log \in Seq(S)
      BY DEF AofInv
    <3>2. log' = log \o <<>>
      BY <1>3, <1>4
    <3>. QED BY <3>1, <3>2
  <2>. QED BY <1>1, <2>1, <2>2, UnloggedStep
<1>5. CASE last'.repl # <<>>
  <2> DEFINE cmd == last'.repl[1]
  <2>1. \A cfg \in RestartConfigs : /\ Single(last'.repl)
                                    /\ Leads(cmd, LogicalOf(keys), LogicalOf(keys'), cfg)
    BY <1>1, <1>2, <1>5, ClientLeads
  <2>2. last'.repl = <<cmd>>
    BY <2>1, PersistenceAssumption DEF Single
  <2>3. log' = log \o <<cmd>>
    BY <1>3, <2>2
  <2>. HIDE DEF cmd
  <2>. QED BY <1>1, <2>1, <2>3, LoggedStep
<1>. QED BY <1>4, <1>5

\* DEL and SET, and COPY.
LEMMA AofOverwriteStep ==
  ASSUME AppendOnly, AofInv, NEW k \in Key, Delete(k) \/ SetString(k)
  PROVE  AofInv'
<1>1. LiveInv' /\ up /\ up' /\ disk' = disk /\ keys \in [Key -> Value]
  BY ExecutingStep, KeysAreValues DEF AofInv, LiveInv
<1>2. PICK v \in {Absent, Foreign} :
        /\ keys' = [keys EXCEPT ![k] = v]
        /\ log' = log \o <<IF v = Absent THEN DelCommand(k) ELSE SetCommand(k)>>
  <2>1. CASE Delete(k)
    BY <2>1 DEF Delete, Overwrite, Propagate
  <2>2. CASE SetString(k)
    BY <2>2, ValueAssumption DEF SetString, Overwrite, Propagate
  <2>. QED BY <2>1, <2>2
<1> DEFINE cmd == IF v = Absent THEN DelCommand(k) ELSE SetCommand(k)
<1>3. \A cfg \in RestartConfigs : Leads(cmd, LogicalOf(keys), LogicalOf(keys'), cfg)
  BY <1>1, <1>2, OverwriteLeads
<1>4. log' = log \o <<cmd>>
  BY <1>2
<1>. HIDE DEF cmd
<1>. QED BY <1>1, <1>3, <1>4, LoggedStep

LEMMA AofCopyStep ==
  ASSUME AppendOnly, AofInv, NEW src \in Key, NEW dst \in Key, CopyKey(src, dst)
  PROVE  AofInv'
<1>1. LiveInv' /\ up /\ up' /\ disk' = disk /\ keys \in [Key -> Value]
  BY ExecutingStep, KeysAreValues DEF AofInv, LiveInv
<1>2. /\ IsObject(keys[src]) /\ keys[dst] = Absent /\ ~ IsObject(keys[dst])
      /\ keys' = [keys EXCEPT ![dst] = keys[src]]
      /\ log' = log \o <<CopyCommand(src, dst)>>
  BY NothingCounts DEF CopyKey, Copy, Propagate
<1>3. \A cfg \in RestartConfigs :
        Leads(CopyCommand(src, dst), LogicalOf(keys), LogicalOf(keys'), cfg)
  BY <1>1, <1>2, CopyLeads
<1>. QED BY <1>1, <1>2, <1>3, LoggedStep

\* RESTORE, whose image a server of no lower limit reads as this one does.
LEMMA AofRestoreStep ==
  ASSUME AppendOnly, AofInv, StartsKeepLimit, NEW src \in Key, NEW dst \in Key, Restore(src, dst)
  PROVE  AofInv'
<1> DEFINE o == keys[src]
           image == RdbSave(o)
           l == RdbLoad(image, metrics, config.limit)
<1>1. /\ LiveInv' /\ up /\ up' /\ disk' = disk
      /\ keys \in [Key -> Value] /\ metrics \in Counters /\ IInv
  BY ExecutingStep, KeysAreValues DEF AofInv, LiveInv, IInv, TypeOK
<1>2. /\ IsObject(o) /\ keys[dst] = Absent /\ keys' = [keys EXCEPT ![dst] = l.val]
      /\ log' = log \o (IF l.err = Ok THEN <<RestoreCommand(dst, image)>> ELSE <<>>)
  BY DEF Restore, Propagate
<1>3. o \in Object /\ WellFormed(o) /\ ~ IsObject(keys[dst])
  BY <1>1, <1>2, KeyFacts, ValueFields
<1>. HIDE DEF o
<1>4. CASE l.err = Ok
  <2> DEFINE w == l.val
  <2>1. w = RdbLoad(RdbSave(o), metrics, config.limit).val
    OBVIOUS
  <2>2. RdbLoad(RdbSave(o), metrics, config.limit).err = Ok
    BY <1>4
  <2>3. keys' = [keys EXCEPT ![dst] = w]
    BY <1>2
  <2>4. log' = log \o <<RestoreCommand(dst, RdbSave(o))>>
    BY <1>2, <1>4
  <2>. HIDE DEF w, l, image
  <2>5. ASSUME NEW cfg \in RestartConfigs
        PROVE  Leads(RestoreCommand(dst, RdbSave(o)), LogicalOf(keys), LogicalOf(keys'), cfg)
    <3>1. cfg.limit \in Nat /\ config.limit \in Nat /\ config.limit <= cfg.limit
      BY <1>1, PersistenceAssumption DEF StartsKeepLimit, IInv, TypeOK, Config
    <3>. QED BY <1>1, <1>3, <2>1, <2>2, <2>3, <3>1, RestoreLeads
  <2>. QED BY <1>1, <2>4, <2>5, LoggedStep
<1>5. CASE l.err # Ok
  <2>1. l.val = Absent
    BY <1>1, <1>3, <1>5, RdbLoadOutcome
  <2>. HIDE DEF l
  <2>2. keys' = keys
    BY <1>1, <1>2, <2>1
  <2>3. log' = log
    <3>1. PICK S : log \in Seq(S)
      BY DEF AofInv
    <3>2. log' = log \o <<>>
      BY <1>2, <1>5
    <3>. QED BY <3>1, <3>2
  <2>. QED BY <1>1, <2>2, <2>3, UnloggedStep
<1>. QED BY <1>4, <1>5

\* What is not propagated changes nothing that is brought back.
LEMMA AofUnpropagatedStep ==
  ASSUME AofInv, NEW k \in Key, Unpropagated(k)
  PROVE  AofInv'
<1>1. /\ LiveInv' /\ up /\ up' /\ disk' = disk /\ log' = log
      /\ keys \in [Key -> Value] /\ IInv' /\ IInv
  BY ExecutingStep, KeysAreValues DEF AofInv, LiveInv, Unpropagated
<1>2. CASE Defrag(k)
  <2> DEFINE o == keys[k]
  <2>1. keys' = [keys EXCEPT ![k].vcap = Len(o.filters)] /\ IsObject(o)
    BY <1>2 DEF Defrag
  <2>2. keys'[k] = [o EXCEPT !.vcap = Len(o.filters)] /\ \A j \in Key : j # k => keys'[j] = keys[j]
    BY <1>1, <2>1
  <2>3. o \in Object /\ DOMAIN keys' = Key /\ keys' \in [Key -> Object \union {Absent, Foreign}]
    BY <1>1, <2>1, KeyFacts DEF IInv, TypeOK
  <2>. HIDE DEF o
  <2>4. WellFormed(o) /\ keys'[k] = Decoded(o)
    BY <1>1, <2>1, <2>2, KeyFacts DEF o, Decoded
  <2>5. keys'[k] \in Object /\ Alike(keys'[k], o)
    <3>1. o = [expansion |-> o.expansion, fp |-> o.fp, tr |-> o.tr,
               seedRandom |-> o.seedRandom, vcap |-> o.vcap, filters |-> o.filters]
      BY <2>3 DEF Object
    <3>2. keys'[k] = [expansion |-> o.expansion, fp |-> o.fp, tr |-> o.tr,
                      seedRandom |-> o.seedRandom, vcap |-> Len(o.filters), filters |-> o.filters]
      BY <2>2, <3>1
    <3>3. keys'[k] \in Object
      BY <2>3, <2>4, DecodedPreserves
    <3>. QED BY <3>2, <3>3 DEF Alike
  <2>6. Logical(keys'[k]) = Logical(o)
    BY <2>3, <2>5, AlikeIsLogical
  <2>7. \A j \in Key : Logical(keys'[j]) = Logical(keys[j])
    BY <2>2, <2>6 DEF o
  <2>8. LogicalOf(keys') = LogicalOf(keys)
    BY <2>7 DEF LogicalOf
  <2>. QED BY <1>1, <2>8, UnloggedStep
<1>3. CASE \E change \in ConfigChanges : ConfigSet(change[1], change[2])
  <2>1. keys' = keys
    BY <1>3 DEF ConfigSet
  <2>. QED BY <1>1, <2>1, UnloggedStep
<1>. QED BY <1>2, <1>3 DEF Unpropagated

\* Rewriting the AOF.
LEMMA AofRewriteStep ==
  ASSUME AofInv, FewFilters, RewriteAof \/ RewriteWithPreamble
  PROVE  AofInv'
<1>1. LiveInv' /\ up /\ up' /\ keys' = keys /\ keys \in [Key -> Value]
  BY FileStep, KeysAreValues DEF AofInv, LiveInv, RewriteAof, RewriteWithPreamble, vars
<1>2. Brings(disk', log', LogicalOf(keys)) /\ \E S : log' \in Seq(S)
  <2>1. CASE RewriteAof
    <3>1. /\ disk' = [k \in Key |-> Absent]
          /\ log' = SetToSeq({LoadCommand(k, keys[k]) : k \in {j \in Key : IsObject(keys[j])}}
                             \union {SetCommand(k) : k \in {j \in Key : keys[j] = Foreign}})
      BY <2>1 DEF RewriteAof, Objects
    <3>2. \A k \in Key : IsObject(keys[k]) => Len(keys[k].filters) < MaxFilters
      BY DEF FewFilters, Objects
    <3>. QED BY <1>1, <3>1, <3>2, RewriteBrings
  <2>2. CASE RewriteWithPreamble
    <3>1. disk' = Snapshot(keys) /\ log' = <<>>
      BY <2>2 DEF RewriteWithPreamble
    <3>2. Brings(Snapshot(keys), <<>>, LogicalOf(keys)) /\ \A S : <<>> \in Seq(S)
      BY <1>1, BaseBrings
    <3>. QED BY <3>1, <3>2
  <2>. QED BY <2>1, <2>2
<1>. QED BY <1>1, <1>2 DEF AofInv, Brings

\* The crash, and the start.
LEMMA AofCrashStep ==
  ASSUME AppendOnly, AofInv, Crash
  PROVE  AofInv'
<1>1. LiveInv' /\ up
  BY FileStep DEF AofInv
<1>2. up' = FALSE /\ saved'.keys = keys /\ disk' = disk /\ log' = log
  BY DEF Crash, Contents
<1>3. Brings(disk, log, LogicalOf(keys)) /\ \E S : log \in Seq(S)
  BY <1>1 DEF AofInv
<1>4. Brings(disk', log', LogicalOf(saved'.keys)) /\ \E S : log' \in Seq(S)
  BY <1>2, <1>3
<1>. QED BY <1>1, <1>2, <1>4 DEF AofInv, Brings

LEMMA AofStartStep ==
  ASSUME AofInv, NEW cfg \in RestartConfigs, StartFromAof(cfg)
  PROVE  AofInv' /\ StartRestores
<1>1. /\ ~ up /\ LoadSnapshot(disk, cfg.limit).err = Ok
      /\ \E rnd \in RandomSeeds :
           StartedWith(Replay(LoadSnapshot(disk, cfg.limit), log, cfg, rnd), cfg)
  BY DEF StartFromAof
<1>2. PICK rnd \in RandomSeeds :
        StartedWith(Replay(LoadSnapshot(disk, cfg.limit), log, cfg, rnd), cfg)
  BY <1>1
<1> DEFINE n == Replay(LoadSnapshot(disk, cfg.limit), log, cfg, rnd)
<1>3. Restored(n, LogicalOf(saved.keys))
  BY <1>1 DEF AofInv, Brings
<1>4. StartedWith(n, cfg) /\ cfg \in Config
  BY <1>2, PersistenceAssumption
<1>. HIDE DEF n
<1>5. LiveInv' /\ \A k \in Key : Logical(keys'[k]) = Logical(saved.keys[k])
  BY <1>3, <1>4, StartStep DEF Restored, AofInv
<1>6. up' /\ disk' = disk /\ log' = log
  BY <1>4 DEF StartedWith
<1>7. LogicalOf(keys') = LogicalOf(saved.keys)
  BY <1>5 DEF LogicalOf
<1>8. Brings(disk', log', LogicalOf(keys')) /\ \E S : log' \in Seq(S)
  BY <1>1, <1>6, <1>7 DEF AofInv
<1>. QED BY <1>5, <1>6, <1>8 DEF AofInv, Brings, StartRestores

LEMMA AofStep ==
  ASSUME AppendOnly, RestartsScale, AofInv, StartsKeepLimit, FewFilters, FailuresNotLogged',
         [PNext]_pvars
  PROVE  AofInv' /\ StartRestores
<1>. AofInv /\ LiveInv
  BY DEF AofInv
<1>1. ASSUME NEW c \in Commands, Client(c) PROVE AofInv' /\ StartRestores
  <2>1. up
    BY <1>1, ExecutingStep
  <2>. QED BY <1>1, <2>1, AofClientStep DEF StartRestores
<1>2. ASSUME NEW k \in Key, Delete(k) \/ SetString(k) \/ Unpropagated(k)
      PROVE  AofInv' /\ StartRestores
  <2>1. up
    BY <1>2, ExecutingStep
  <2>. QED BY <1>2, <2>1, AofOverwriteStep, AofUnpropagatedStep DEF StartRestores
<1>3. ASSUME NEW src \in Key, NEW dst \in Key, CopyKey(src, dst) \/ Restore(src, dst)
      PROVE  AofInv' /\ StartRestores
  <2>1. up
    BY <1>3, ExecutingStep
  <2>. QED BY <1>3, <2>1, AofCopyStep, AofRestoreStep DEF StartRestores
<1>4. CASE Save
  BY <1>4 DEF Save
<1>5. CASE RewriteAof \/ RewriteWithPreamble
  <2>1. up
    BY <1>5, FileStep
  <2>. QED BY <1>5, <2>1, AofRewriteStep DEF StartRestores
<1>6. CASE Crash
  <2>1. up
    BY <1>6, FileStep
  <2>. QED BY <1>6, <2>1, AofCrashStep DEF StartRestores
<1>7. ASSUME NEW cfg \in RestartConfigs, StartFromRdb(cfg) \/ StartFromAof(cfg)
      PROVE  AofInv' /\ StartRestores
  <2>1. StartFromAof(cfg)
    BY <1>7 DEF StartFromRdb
  <2>. QED BY <2>1, AofStartStep
<1>8. CASE UNCHANGED pvars
  <2>1. UNCHANGED vars /\ UNCHANGED <<up, disk, log, saved>>
    BY <1>8 DEF pvars
  <2>2. IInv' /\ MetricsMatch'
    BY <2>1 DEF LiveInv, vars, IInv, TypeOK, ShapeInv, NoFalseNegatives, Objects, MetricsMatch
  <2>3. SavedInv'
    BY <2>1, SavedStays DEF LiveInv, SavedInv
  <2>4. Brings(disk', log', LogicalOf(IF up' THEN keys' ELSE saved'.keys)) /\ \E S : log' \in Seq(S)
    <3>1. keys' = keys
      BY <2>1 DEF vars
    <3>. QED BY <2>1, <3>1 DEF AofInv
  <2>. QED BY <2>1, <2>2, <2>3, <2>4 DEF AofInv, LiveInv, StartRestores, Brings
<1>. QED BY <1>1, <1>2, <1>3, <1>4, <1>5, <1>6, <1>7, <1>8 DEF PNext

(************************* theorems about the AOF **************************)

\* A server runs with one of the limits it can be given.
LimitInUse == config.limit \in LimitsInUse

LEMMA LimitStaysInUse ==
  ASSUME AofInv, LimitInUse, [PNext]_pvars
  PROVE  LimitInUse'
<1>. IInv /\ config \in Config
  BY DEF AofInv, LiveInv, IInv, TypeOK
<1>1. CASE config' = config
  BY <1>1 DEF LimitInUse
<1>2. ASSUME NEW change \in ConfigChanges, ConfigSet(change[1], change[2])
      PROVE  LimitInUse'
  <2>1. config' = [config EXCEPT ![change[1]] = change[2]]
    BY <1>2 DEF ConfigSet
  <2>2. "limit" \in DOMAIN config
    BY DEF Config
  <2>3. CASE change[1] = "limit"
    <3>1. config'.limit = change[2]
      BY <2>1, <2>2, <2>3
    <3>. QED BY <2>3, <3>1 DEF LimitInUse, LimitsInUse
  <2>4. CASE change[1] # "limit"
    <3>1. config'.limit = config.limit
      BY <2>1, <2>2, <2>4
    <3>. QED BY <3>1 DEF LimitInUse
  <2>. QED BY <2>3, <2>4
<1>3. ASSUME NEW cfg \in RestartConfigs, StartFromRdb(cfg) \/ StartFromAof(cfg)
      PROVE  LimitInUse'
  <2>1. config' = cfg
    BY <1>3 DEF StartFromRdb, StartFromAof, StartedWith
  <2>. QED BY <2>1 DEF LimitInUse, LimitsInUse
<1>4. ASSUME NEW c \in Commands, Client(c) PROVE config' = config
  <2>1. CASE BfAdd(c)
    BY <2>1 DEF BfAdd, Perform
  <2>2. CASE BfInsert(c)
    BY <2>2 DEF BfInsert, Perform
  <2>3. CASE BfReserve(c)
    BY <2>3 DEF BfReserve, Perform
  <2>. QED BY <1>4, <2>1, <2>2, <2>3 DEF Client
<1>5. ASSUME NEW k \in Key, Delete(k) \/ SetString(k) PROVE config' = config
  BY <1>5 DEF Delete, SetString, Overwrite
<1>6. ASSUME NEW src \in Key, NEW dst \in Key, CopyKey(src, dst) \/ Restore(src, dst)
      PROVE  config' = config
  BY <1>6 DEF CopyKey, Copy, Restore
<1>7. ASSUME NEW k \in Key, Unpropagated(k) PROVE LimitInUse'
  <2>1. Defrag(k) \/ \E change \in ConfigChanges : ConfigSet(change[1], change[2])
    BY <1>7 DEF Unpropagated
  <2>2. CASE Defrag(k)
    BY <1>1, <2>2 DEF Defrag
  <2>. QED BY <1>2, <2>1, <2>2
<1>8. ASSUME Save \/ RewriteAof \/ RewriteWithPreamble \/ Crash PROVE config' = config
  BY <1>8 DEF Save, RewriteAof, RewriteWithPreamble, Crash, vars
<1>9. ASSUME UNCHANGED pvars PROVE config' = config
  BY <1>9 DEF pvars, vars
<1>. QED BY <1>1, <1>3, <1>4, <1>5, <1>6, <1>7, <1>8, <1>9 DEF PNext

\* Then no command is logged under a limit that is above one of a start.
LEMMA LimitIsKept ==
  ASSUME LimitNotLowered, LimitInUse
  PROVE  StartsKeepLimit
BY DEF LimitNotLowered, LimitInUse, StartsKeepLimit

LEMMA AofInitially ==
  ASSUME PInit
  PROVE  AofInv /\ LimitInUse
<1>1. disk = keys /\ log = <<>> /\ up = TRUE /\ keys = [k \in Key |-> Absent]
  BY DEF PInit, Init
<1>2. keys \in [Key -> Value] /\ \A k \in Key : ~ IsObject(keys[k])
  BY <1>1, ValueFields
<1>3. Snapshot(keys) = keys
  <2>1. Snapshot(keys) = [k \in Key |-> keys[k]]
    BY <1>2 DEF Snapshot
  <2>. QED BY <1>2, <2>1
<1>4. Brings(Snapshot(keys), <<>>, LogicalOf(keys)) /\ \A S : <<>> \in Seq(S)
  BY <1>2, BaseBrings
<1>5. Brings(disk, log, LogicalOf(IF up THEN keys ELSE saved.keys)) /\ \E S : log \in Seq(S)
  BY <1>1, <1>3, <1>4
<1>6. LimitInUse
  BY DEF PInit, Init, LimitInUse, LimitsInUse
<1>. QED BY <1>5, <1>6, InitiallyLive DEF AofInv

\* With appendonly, the invariants hold and the files bring what the server holds
\* across writes, rewrites of either kind, crashes and starts.
THEOREM AofInvariance ==
  ASSUME AppendOnly, RestartsScale, LimitNotLowered
  PROVE  PSpec /\ []FewFilters /\ []FailuresNotLogged => [](AofInv /\ LimitInUse)
<1>1. PInit => AofInv /\ LimitInUse
  BY AofInitially
<1>2. AofInv /\ LimitInUse /\ FewFilters /\ FailuresNotLogged' /\ [PNext]_pvars
        => AofInv' /\ LimitInUse'
  BY AofStep, LimitIsKept, LimitStaysInUse
<1>. QED BY <1>1, <1>2, PTL DEF PSpec

\* A start from the AOF brings back every object that the server held when it
\* crashed, to the last bit and item count, although the replayed commands were
\* completed with another configuration than the one the server is started with,
\* unless that one has a lower memory limit.
THEOREM AofStartRestores ==
  ASSUME AppendOnly, RestartsScale, LimitNotLowered
  PROVE  PSpec /\ []FewFilters /\ []FailuresNotLogged => RestartRestores
<1>1. AofInv /\ LimitInUse /\ FewFilters /\ FailuresNotLogged' /\ [PNext]_pvars
        => [StartRestores]_pvars
  BY AofStep, LimitIsKept
<1>2. [StartRestores]_pvars
        => [~ up /\ up' /\ (AppendOnly => LimitNotLowered)
              => \A k \in Key : Logical(keys'[k]) = Logical(saved.keys[k])]_pvars
  BY DEF StartRestores
<1>. QED BY <1>1, <1>2, AofInvariance, PTL DEF PSpec, RestartRestores

\* Nothing acknowledged is lost in a crash, and nothing while the server runs.
THEOREM AofKeepsItems ==
  ASSUME AppendOnly, RestartsScale, LimitNotLowered
  PROVE  PSpec /\ []FewFilters /\ []FailuresNotLogged => []NoFalseNegatives
<1>1. AofInv => NoFalseNegatives
  BY DEF AofInv, LiveInv, IInv
<1>. QED BY <1>1, AofInvariance, PTL

\* The replay counts every object once: after a start from the AOF too, the
\* counters of INFO bf are the sums over the live objects.
THEOREM AofCountersMatch ==
  ASSUME AppendOnly, RestartsScale, LimitNotLowered
  PROVE  PSpec /\ []FewFilters /\ []FailuresNotLogged => []MetricsMatch
<1>1. AofInv => MetricsMatch
  BY DEF AofInv, LiveInv
<1>. QED BY <1>1, AofInvariance, PTL

(*************************** commands of one item **************************)

\* Commands of at most one item.
OneItemCommands == \A c \in Commands : Len(c.items) \in {0, 1}

LEMMA OneItemLogs ==
  ASSUME OneItemCommands, IInv, FailuresNotLogged, [PNext]_pvars
  PROVE  FailuresNotLogged'
<1>1. ASSUME last' = NoCommand \/ last' = last PROVE FailuresNotLogged'
  BY <1>1 DEF FailuresNotLogged, NoCommand
<1>2. ASSUME NEW c \in Commands, NEW out, Perform(c, out), Silent(out)
      PROVE  FailuresNotLogged'
  <2>1. last'.reply = out.reply /\ last'.repl = out.repl
    BY <1>2 DEF Perform
  <2>. QED BY <1>2, <2>1 DEF Silent, FailuresNotLogged
<1>3. ASSUME NEW c \in Commands, Client(c) PROVE FailuresNotLogged'
  <2> DEFINE no == FALSE
             v == keys[c.key]
             add(rnd) == BloomFilterAddValue(c, v, config, metrics, no, rnd)
             insert(rnd) == BloomFilterInsert(c, v, config, metrics, no, rnd)
             reserve(rnd) == BloomFilterReserve(c, v, config, metrics, no, rnd)
  <2>1. /\ c \in CommandType /\ Len(c.items) \in {0, 1}
        /\ c.name = "BF.ADD" => Len(c.items) = 1
        /\ IsObject(v) => v \in Object /\ WellFormed(v)
        /\ config \in Config /\ metrics \in Counters /\ no \in BOOLEAN
    BY ClientFacts, KeyFacts, CommandAssumption DEF OneItemCommands, IInv, TypeOK
  <2>2. ASSUME NEW rnd \in RandomSeeds
        PROVE  /\ Silent(reserve(rnd)) /\ Silent(insert(rnd))
               /\ c.name \in {"BF.ADD", "BF.MADD"} => Silent(add(rnd))
    <3>1. rnd \in Seeds \ {FixedSeed}
      BY DEF RandomSeeds
    <3>. HIDE DEF no, v
    <3>. QED BY <2>1, <3>1, OneItemOutcomes
  <2>3. \/ /\ c.name \in {"BF.ADD", "BF.MADD"}
           /\ \E rnd \in RandomSeeds : Perform(c, add(rnd))
        \/ \E rnd \in RandomSeeds : Perform(c, insert(rnd))
        \/ \E rnd \in RandomSeeds : Perform(c, reserve(rnd))
    BY <1>3 DEF Client, BfAdd, BfInsert, BfReserve
  <2>. HIDE DEF add, insert, reserve
  <2>. QED BY <1>2, <2>2, <2>3
<1>4. ASSUME NEW k \in Key, Delete(k) \/ SetString(k) \/ Unpropagated(k)
      PROVE  FailuresNotLogged'
  <2>1. last' = NoCommand \/ last' = last
    BY <1>4 DEF Delete, SetString, Overwrite, Unpropagated, Defrag, ConfigSet
  <2>. QED BY <1>1, <2>1
<1>5. ASSUME NEW src \in Key, NEW dst \in Key, CopyKey(src, dst) \/ Restore(src, dst)
      PROVE  FailuresNotLogged'
  BY <1>1, <1>5 DEF CopyKey, Copy, Restore
<1>6. ASSUME Save \/ RewriteAof \/ RewriteWithPreamble \/ Crash PROVE FailuresNotLogged'
  BY <1>1, <1>6 DEF Save, RewriteAof, RewriteWithPreamble, Crash, vars
<1>7. ASSUME NEW cfg \in RestartConfigs, StartFromRdb(cfg) \/ StartFromAof(cfg)
      PROVE  FailuresNotLogged'
  BY <1>1, <1>7 DEF StartFromRdb, StartFromAof, StartedWith
<1>8. ASSUME UNCHANGED pvars PROVE FailuresNotLogged'
  BY <1>1, <1>8 DEF pvars, vars
<1>. QED BY <1>3, <1>4, <1>5, <1>6, <1>7, <1>8 DEF PNext

\* When clients send one item at a time, nothing is left to assume of what is
\* logged: a start from the AOF brings back every object.
THEOREM AofOneItemRestores ==
  ASSUME AppendOnly, RestartsScale, LimitNotLowered, OneItemCommands
  PROVE  PSpec /\ []FewFilters => RestartRestores
<1>1. PInit => FailuresNotLogged
  BY DEF PInit, Init, NoCommand, FailuresNotLogged
<1>2. PInit => AofInv /\ LimitInUse
  BY AofInitially
<1>3. AofInv /\ LimitInUse /\ FailuresNotLogged /\ FewFilters /\ [PNext]_pvars
        => AofInv' /\ LimitInUse' /\ FailuresNotLogged'
  <2>1. AofInv => IInv
    BY DEF AofInv, LiveInv
  <2>. QED BY <2>1, OneItemLogs, AofStep, LimitIsKept, LimitStaysInUse
<1>. QED BY <1>1, <1>2, <1>3, AofStartRestores, PTL DEF PSpec

=============================================================================
