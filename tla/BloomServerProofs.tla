-------------------------- MODULE BloomServerProofs --------------------------
(***************************************************************************)
(* What BloomServer guarantees for every set of keys, commands, items and  *)
(* hashes, every configuration and any number of steps: the type           *)
(* invariant, the shape of the objects, the absence of false negatives and *)
(* that objects only grow.                                                 *)
(***************************************************************************)
EXTENDS BloomServer, BloomCommandsProofs

\* The inductive invariant.  Its last part is needed for a key that gets an
\* object without an acknowledgement (a failed creation): there is nothing the
\* object would have to hold.
IInv ==
  /\ TypeOK
  /\ ShapeInv
  /\ NoFalseNegatives
  /\ \A k \in Key : ~ IsObject(keys[k]) => acked[k] = {}

\* A step takes nothing away from an object that is still there after it.
GrowthStep ==
  \A k \in Objects : IsObject(keys'[k]) => Grown(keys[k], keys'[k])

(***************************** preparations ********************************)

\* CONFIG SET keeps the configuration in its type.
LEMMA ConfigStaysTyped ==
  ASSUME NEW cfg \in Config, NEW change \in ConfigChanges
  PROVE  [cfg EXCEPT ![change[1]] = change[2]] \in Config
<1> DEFINE name == change[1]
           value == change[2]
<1>1. /\ InitialConfig \in Config /\ name \in DOMAIN InitialConfig
      /\ [InitialConfig EXCEPT ![name] = value] \in Config
  BY ConfigAssumption
<1>. SUFFICES [cfg EXCEPT ![name] = value] \in Config
  OBVIOUS
<1>. HIDE DEF name, value
<1>2. name \in {"limit", "cap", "expansion", "fp", "tr", "randomSeed", "defrag"}
  BY <1>1 DEF Config
<1>3. CASE name = "limit"
  BY <1>1, <1>3 DEF Config
<1>4. CASE name = "cap"
  BY <1>1, <1>4 DEF Config
<1>5. CASE name = "expansion"
  BY <1>1, <1>5 DEF Config
<1>6. CASE name = "fp"
  BY <1>1, <1>6 DEF Config
<1>7. CASE name = "tr"
  BY <1>1, <1>7 DEF Config
<1>8. CASE name = "randomSeed"
  BY <1>1, <1>8 DEF Config
<1>9. CASE name = "defrag"
  BY <1>1, <1>9 DEF Config
<1>. QED BY <1>2, <1>3, <1>4, <1>5, <1>6, <1>7, <1>8, <1>9

\* Freeing what a key holds keeps the counters in their type.
LEMMA FreedTyped ==
  ASSUME TypeOK, ShapeInv, NEW k \in Key
  PROVE  Freed(k) \in Counters
<1>1. keys[k] \in Object \union {Absent, Foreign} /\ metrics \in Counters
  BY DEF TypeOK
<1>2. CASE ~ IsObject(keys[k])
  BY <1>1, <1>2 DEF Freed
<1>3. CASE IsObject(keys[k])
  <2>1. keys[k] \in Object /\ WellFormed(keys[k])
    BY <1>1, <1>3 DEF IsObject, ShapeInv, Objects
  <2>2. ObjectWeight(keys[k]) \in Weights
    <3>1. \E f \in Filter : TRUE
      BY <2>1, LastFilter
    <3>. QED BY <2>1, <3>1, WeightsAreTyped
  <2>3. Lose(metrics, ObjectWeight(keys[k])) \in Counters
    BY <1>1, <2>2, GainAndLose
  <2>. QED BY <1>3, <2>1, <2>3, LoseFiltersTyped DEF Freed, DropObject
<1>. QED BY <1>2, <1>3

(********************************* steps ***********************************)

\* A step that changes one key preserves the invariant if the new value is well
\* formed, has grown from an object that was there, and holds every item that
\* is acknowledged for it.
LEMMA KeyStep ==
  ASSUME IInv, NEW k \in Key, NEW v \in Object \union {Absent, Foreign},
         NEW a \in SUBSET Item,
         keys' = [keys EXCEPT ![k] = v], acked' = [acked EXCEPT ![k] = a],
         metrics' \in Counters, config' \in Config, promised' \in [Key -> 0..CapacityMax],
         IsObject(v) => WellFormed(v) /\ \A x \in a : ItemExists(v, x),
         ~ IsObject(v) => a = {},
         IsObject(keys[k]) /\ IsObject(v) => Grown(keys[k], v)
  PROVE  IInv' /\ GrowthStep
<1>1. /\ keys \in [Key -> Object \union {Absent, Foreign}]
      /\ acked \in [Key -> SUBSET Item]
  BY DEF IInv, TypeOK
<1>2. /\ keys' \in [Key -> Object \union {Absent, Foreign}]
      /\ acked' \in [Key -> SUBSET Item]
  BY <1>1
<1>3. TypeOK'
  BY <1>2 DEF TypeOK
<1>4. /\ keys'[k] = v /\ acked'[k] = a
      /\ \A j \in Key : j # k => keys'[j] = keys[j] /\ acked'[j] = acked[j]
  BY <1>1
<1>5. ShapeInv'
  BY <1>4 DEF IInv, ShapeInv, Objects
<1>6. NoFalseNegatives'
  BY <1>4 DEF IInv, NoFalseNegatives, Objects
<1>7. \A j \in Key : ~ IsObject(keys'[j]) => acked'[j] = {}
  BY <1>4 DEF IInv
<1>8. GrowthStep
  <2>1. ASSUME NEW j \in Key, IsObject(keys[j]), IsObject(keys'[j])
        PROVE  Grown(keys[j], keys'[j])
    <3>1. CASE j = k
      BY <1>4, <2>1, <3>1
    <3>2. CASE j # k
      <4>1. keys[j] \in Object
        BY <1>1, <2>1 DEF IsObject
      <4>. QED BY <1>4, <3>2, <4>1, GrownReflexive
    <3>. QED BY <3>1, <3>2
  <2>. QED BY <2>1 DEF GrowthStep, Objects
<1>. QED BY <1>3, <1>5, <1>6, <1>7, <1>8 DEF IInv

\* A step that changes no key and no acknowledgement.
LEMMA OtherStep ==
  ASSUME IInv, UNCHANGED <<keys, acked, promised>>, metrics' \in Counters, config' \in Config
  PROVE  IInv' /\ GrowthStep
<1>1. TypeOK' /\ ShapeInv' /\ NoFalseNegatives'
  BY DEF IInv, TypeOK, ShapeInv, NoFalseNegatives, Objects
<1>2. \A k \in Key : ~ IsObject(keys'[k]) => acked'[k] = {}
  BY DEF IInv
<1>3. GrowthStep
  <2>1. \A k \in Objects : keys[k] \in Object /\ keys'[k] = keys[k]
    BY DEF IInv, TypeOK, Objects, IsObject
  <2>. QED BY <2>1, GrownReflexive DEF GrowthStep
<1>. QED BY <1>1, <1>2, <1>3 DEF IInv

\* What the invariant says of one key.
LEMMA KeyFacts ==
  ASSUME IInv, NEW k \in Key
  PROVE  /\ keys[k] \in Object \union {Absent, Foreign}
         /\ IsObject(keys[k]) => /\ keys[k] \in Object /\ WellFormed(keys[k])
                                 /\ \A x \in acked[k] : ItemExists(keys[k], x)
         /\ ~ IsObject(keys[k]) => acked[k] = {}
         /\ acked[k] \in SUBSET Item /\ promised[k] \in 0..CapacityMax
         /\ metrics \in Counters /\ config \in Config
         /\ promised \in [Key -> 0..CapacityMax] /\ acked \in [Key -> SUBSET Item]
BY DEF IInv, TypeOK, ShapeInv, NoFalseNegatives, Objects, IsObject

\* The step of a command whose handler is sound.
LEMMA PerformStep ==
  ASSUME IInv, NEW c \in CommandType, NEW out, Sound(c, keys[c.key], out), Perform(c, out)
  PROVE  IInv' /\ GrowthStep
<1> DEFINE k == c.key
           a == IF out.reply.err = Ok THEN acked[k] \union Range(c.items) ELSE acked[k]
<1>1. k \in Key /\ c.items \in Seq(Item) /\ c.scaleTo \in {Unset} \union 1..CapacityMax
  BY DEF CommandType
<1>2. /\ out.val \in Object \union {Absent, Foreign} /\ out.metrics \in Counters
      /\ IsObject(out.val) => WellFormed(out.val)
      /\ IsObject(keys[k]) => IsObject(out.val) /\ Grown(keys[k], out.val)
      /\ ~ IsObject(out.val) => out.reply.err # Ok
      /\ out.reply.err = Ok => \A x \in Range(c.items) : ItemExists(out.val, x)
  BY DEF Sound
<1>3. Range(c.items) \subseteq Item
  BY <1>1 DEF Range
<1>4. Given(c.scaleTo, 0) \in 0..CapacityMax
  BY <1>1, SizeAssumption DEF Given
<1>5. keys' = [keys EXCEPT ![k] = out.val] /\ metrics' = out.metrics /\ config' = config
  BY DEF Perform
<1>6. acked' = [acked EXCEPT ![k] = a]
  <2>1. CASE out.reply.err = Ok
    BY <2>1 DEF Perform
  <2>2. CASE out.reply.err # Ok
    <3>1. acked' = acked /\ a = acked[k]
      BY <2>2 DEF Perform
    <3>2. acked \in [Key -> SUBSET Item]
      BY <1>1, KeyFacts
    <3>. HIDE DEF a
    <3>. QED BY <1>1, <3>1, <3>2
  <2>. QED BY <2>1, <2>2
<1>7. promised' \in [Key -> 0..CapacityMax]
  <2>1. promised \in [Key -> 0..CapacityMax]
    BY <1>1, KeyFacts
  <2>. QED BY <1>4, <2>1 DEF Perform
<1>8. a \in SUBSET Item
  BY <1>1, <1>3, KeyFacts
<1>9. ASSUME IsObject(out.val), NEW x \in a PROVE ItemExists(out.val, x)
  <2>1. CASE x \in acked[k]
    <3>1. IsObject(keys[k]) /\ ItemExists(keys[k], x)
      BY <1>1, <2>1, KeyFacts
    <3>. QED BY <1>2, <3>1, GrownKeepsItems
  <2>2. CASE x \notin acked[k]
    BY <1>2, <1>9, <2>2
  <2>. QED BY <2>1, <2>2
<1>10. ~ IsObject(out.val) => a = {}
  BY <1>1, <1>2, KeyFacts
<1>11. config' \in Config
  BY <1>1, <1>5, KeyFacts
<1>. HIDE DEF k, a
<1>. QED BY <1>1, <1>2, <1>5, <1>6, <1>7, <1>8, <1>9, <1>10, <1>11, KeyStep

(******************************** actions **********************************)

\* BF.ADD and BF.MADD keep the invariant, whatever the key holds.
LEMMA BfAddStep ==
  ASSUME IInv, NEW c \in Commands, BfAdd(c)
  PROVE  IInv' /\ GrowthStep
<1>1. c \in CommandType /\ c.key \in Key /\ c.items \in Seq(Item)
  BY CommandAssumption DEF CommandType
<1>2. c.name = "BF.MADD" \/ Len(c.items) = 1
  BY CommandAssumption DEF BfAdd
<1>3. PICK rnd \in RandomSeeds :
        Perform(c, BloomFilterAddValue(c, keys[c.key], config, metrics, FALSE, rnd))
  BY DEF BfAdd
<1>4. Properties(c, config, rnd) \in PropertyType
  BY <1>1, KeyFacts, PropertiesTyped DEF RandomSeeds
<1>5. Sound(c, keys[c.key], BloomFilterAddValue(c, keys[c.key], config, metrics, FALSE, rnd))
  BY <1>1, <1>2, <1>4, KeyFacts, AddValueIsSound
<1>. QED BY <1>1, <1>3, <1>5, PerformStep

\* BF.INSERT keeps the invariant: refused, adding or creating.
LEMMA BfInsertStep ==
  ASSUME IInv, NEW c \in Commands, BfInsert(c)
  PROVE  IInv' /\ GrowthStep
<1>1. c \in CommandType /\ c.key \in Key /\ c.items \in Seq(Item)
  BY CommandAssumption DEF CommandType
<1>2. PICK rnd \in RandomSeeds :
        Perform(c, BloomFilterInsert(c, keys[c.key], config, metrics, FALSE, rnd))
  BY DEF BfInsert
<1>3. Properties(c, config, rnd) \in PropertyType
  BY <1>1, KeyFacts, PropertiesTyped DEF RandomSeeds
<1>4. Sound(c, keys[c.key], BloomFilterInsert(c, keys[c.key], config, metrics, FALSE, rnd))
  BY <1>1, <1>3, KeyFacts, InsertIsSound
<1>. QED BY <1>1, <1>2, <1>4, PerformStep

\* BF.RESERVE keeps the invariant: it creates an empty object or does nothing.
LEMMA BfReserveStep ==
  ASSUME IInv, NEW c \in Commands, BfReserve(c)
  PROVE  IInv' /\ GrowthStep
<1>1. c \in CommandType /\ c.key \in Key
  BY CommandAssumption DEF CommandType
<1>2. c.items = <<>>
  BY CommandAssumption DEF BfReserve
<1>3. PICK rnd \in RandomSeeds :
        Perform(c, BloomFilterReserve(c, keys[c.key], config, metrics, FALSE, rnd))
  BY DEF BfReserve
<1>4. Properties(c, config, rnd) \in PropertyType
  BY <1>1, KeyFacts, PropertiesTyped DEF RandomSeeds
<1>5. Sound(c, keys[c.key], BloomFilterReserve(c, keys[c.key], config, metrics, FALSE, rnd))
  BY <1>1, <1>2, <1>4, KeyFacts, ReserveIsSound
<1>. QED BY <1>1, <1>3, <1>5, PerformStep

\* BF.LOAD of a live object's bytes keeps the invariant: the loaded object holds
\* the items the dumped one did.
LEMMA BfLoadStep ==
  ASSUME IInv, NEW src \in Key, NEW dst \in Key, BfLoad(src, dst)
  PROVE  IInv' /\ GrowthStep
<1> DEFINE c == [Command("BF.LOAD", dst, <<>>) EXCEPT !.dump = keys[src]]
           out == BloomFilterLoad(c, keys[dst], config, metrics, FALSE)
           a == IF out.reply.err = Ok THEN acked[src] ELSE acked[dst]
<1>1. keys[src] \in Object /\ WellFormed(keys[src]) /\ IsObject(keys[src])
  BY KeyFacts DEF BfLoad
<1>2. c.items = <<>> /\ c.dump = keys[src]
  BY DEF Command
<1>3. /\ keys' = [keys EXCEPT ![dst] = out.val] /\ metrics' = out.metrics
      /\ acked' = IF out.reply.err = Ok THEN [acked EXCEPT ![dst] = acked[src]] ELSE acked
      /\ config' = config /\ promised' = promised
  BY DEF BfLoad, LoadEncoding
<1>. HIDE DEF c
<1>4. Sound(c, keys[dst], out) /\ (out.reply.err = Ok => out.val.filters = keys[src].filters)
  <2>1. c.items = <<>> /\ c.dump \in Object /\ WellFormed(c.dump)
    BY <1>1, <1>2
  <2>2. /\ keys[dst] \in Object \union {Absent, Foreign} /\ metrics \in Counters
        /\ IsObject(keys[dst]) => WellFormed(keys[dst])
    BY KeyFacts
  <2>3. Sound(c, keys[dst], out) /\ (out.reply.err = Ok => out.val.filters = c.dump.filters)
    BY <2>1, <2>2, LoadIsSound
  <2>. QED BY <1>2, <2>3
<1>. HIDE DEF out
<1>5. /\ out.val \in Object \union {Absent, Foreign} /\ out.metrics \in Counters
      /\ IsObject(out.val) => WellFormed(out.val)
      /\ IsObject(keys[dst]) => IsObject(out.val) /\ Grown(keys[dst], out.val)
      /\ ~ IsObject(out.val) => out.reply.err # Ok
  BY <1>4 DEF Sound
<1>6. acked' = [acked EXCEPT ![dst] = a]
  <2>1. acked \in [Key -> SUBSET Item]
    BY KeyFacts
  <2>. QED BY <1>3, <2>1
<1>7. ASSUME IsObject(out.val), NEW x \in a PROVE ItemExists(out.val, x)
  <2>1. CASE out.reply.err = Ok
    <3>1. ItemExists(keys[src], x)
      BY <1>1, <2>1, KeyFacts
    <3>. QED BY <1>4, <2>1, <3>1 DEF ItemExists
  <2>2. CASE out.reply.err # Ok
    <3>1. IsObject(keys[dst]) /\ ItemExists(keys[dst], x)
      BY <2>2, KeyFacts
    <3>. QED BY <1>5, <3>1, GrownKeepsItems
  <2>. QED BY <2>1, <2>2
<1>8. ~ IsObject(out.val) => a = {}
  BY <1>5, KeyFacts
<1>9. a \in SUBSET Item /\ config \in Config /\ promised \in [Key -> 0..CapacityMax]
  BY KeyFacts
<1>. HIDE DEF a
<1>. QED BY <1>3, <1>5, <1>6, <1>7, <1>8, <1>9, KeyStep

\* Freeing a value with its key keeps the invariant.
LEMMA OverwriteStep ==
  ASSUME IInv, NEW k \in Key, NEW v \in {Absent, Foreign}, Overwrite(k, v)
  PROVE  IInv' /\ GrowthStep
<1>1. /\ keys' = [keys EXCEPT ![k] = v] /\ acked' = [acked EXCEPT ![k] = {}]
      /\ metrics' = Freed(k) /\ config' = config
      /\ promised' = [promised EXCEPT ![k] = 0]
  BY DEF Overwrite
<1>2. Freed(k) \in Counters
  BY FreedTyped DEF IInv
<1>3. ~ IsObject(v) /\ v \in Object \union {Absent, Foreign}
  BY DEF IsObject
<1>4. promised' \in [Key -> 0..CapacityMax] /\ config' \in Config
  <2>1. promised \in [Key -> 0..CapacityMax] /\ config \in Config /\ 0 \in 0..CapacityMax
    BY KeyFacts, SizeAssumption
  <2>. QED BY <1>1, <2>1
<1>5. {} \in SUBSET Item
  OBVIOUS
<1>. QED BY <1>1, <1>2, <1>3, <1>4, <1>5, KeyStep

\* COPY keeps the invariant: the copy holds the items its source does.
LEMMA CopyStep ==
  ASSUME IInv, NEW src \in Key, NEW dst \in Key, Copy(src, dst)
  PROVE  IInv' /\ GrowthStep
<1>1. /\ keys' = [keys EXCEPT ![dst] = keys[src]]
      /\ acked' = [acked EXCEPT ![dst] = acked[src]]
      /\ metrics' = CopyMetrics(metrics, keys[src]) /\ config' = config
      /\ promised' = [promised EXCEPT ![dst] = promised[src]]
      /\ IsObject(keys[src]) /\ keys[dst] = Absent
  BY DEF Copy
<1>2. /\ keys[src] \in Object /\ WellFormed(keys[src])
      /\ \A x \in acked[src] : ItemExists(keys[src], x)
      /\ acked[src] \in SUBSET Item
  BY <1>1, KeyFacts
<1>3. CopyMetrics(metrics, keys[src]) \in Counters
  <2>1. ObjectWeight(keys[src]) \in Weights
    <3>1. \E f \in Filter : TRUE
      BY <1>2, LastFilter
    <3>. QED BY <1>2, <3>1, WeightsAreTyped
  <2>2. GainFilters(metrics, keys[src]) \in Counters
    BY <1>2, KeyFacts, GainFiltersTyped
  <2>. QED BY <2>1, <2>2, GainAndLose DEF CopyMetrics
<1>4. ~ IsObject(keys[dst])
  BY <1>1 DEF IsObject
<1>5. promised' \in [Key -> 0..CapacityMax] /\ config' \in Config
  <2>1. /\ promised \in [Key -> 0..CapacityMax] /\ config \in Config
        /\ promised[src] \in 0..CapacityMax
    BY KeyFacts
  <2>. QED BY <1>1, <2>1
<1>6. keys[src] \in Object \union {Absent, Foreign} /\ metrics' \in Counters
  BY <1>1, <1>2, <1>3
<1>. QED BY <1>1, <1>2, <1>4, <1>5, <1>6, KeyStep

\* CONFIG SET touches no object, so it keeps the invariant.
LEMMA ConfigSetStep ==
  ASSUME IInv, NEW change \in ConfigChanges, ConfigSet(change[1], change[2])
  PROVE  IInv' /\ GrowthStep
<1>1. /\ config' = [config EXCEPT ![change[1]] = change[2]]
      /\ UNCHANGED <<keys, metrics, acked, promised>>
  BY DEF ConfigSet
<1>2. config \in Config /\ metrics \in Counters
  BY DEF IInv, TypeOK
<1>3. config' \in Config
  BY <1>1, <1>2, ConfigStaysTyped
<1>. QED BY <1>1, <1>2, <1>3, OtherStep

\* A complete pass of bloom_defrag changes only the Vec's allocation.
LEMMA DefragPassStep ==
  ASSUME IInv, NEW k \in Key, Defrag(k)
  PROVE  IInv' /\ GrowthStep
<1> DEFINE o == keys[k]
           v == [o EXCEPT !.vcap = Len(o.filters)]
           w == [NoMetrics EXCEPT !.bytes = (o.vcap - Len(o.filters)) * BoxBytes]
<1>1. /\ IsObject(o) /\ keys' = [keys EXCEPT ![k].vcap = Len(o.filters)]
      /\ metrics' = Lose(metrics, w) /\ config' = config
      /\ promised' = promised /\ acked' = acked
  BY DEF Defrag
<1>2. /\ o \in Object /\ WellFormed(o) /\ (\A x \in acked[k] : ItemExists(o, x))
      /\ metrics \in Counters /\ config \in Config /\ acked[k] \in SUBSET Item
      /\ promised \in [Key -> 0..CapacityMax] /\ acked \in [Key -> SUBSET Item]
  BY <1>1, KeyFacts
<1>3. keys' = [keys EXCEPT ![k] = v]
  BY <1>1
<1>4. w \in Weights
  <2>1. o.vcap \in Int /\ Len(o.filters) \in Int /\ BoxBytes \in Int
    BY <1>2, LastFilter, SizeAssumption DEF Object
  <2>2. (o.vcap - Len(o.filters)) * BoxBytes \in Int
    BY <2>1
  <2>. QED BY <2>2, CountersDomain DEF Weights, Names
<1>. HIDE DEF w
<1>5. metrics' \in Counters
  BY <1>1, <1>2, <1>4, GainAndLose
<1>. HIDE DEF o
<1>6. v = Decoded(o)
  BY DEF Decoded
<1>7. v \in Object /\ WellFormed(v) /\ v.filters = o.filters
  BY <1>2, <1>6, DecodedPreserves
<1>8. \A x \in acked[k] : ItemExists(v, x)
  <2>. HIDE DEF v
  <2>. QED BY <1>2, <1>7 DEF ItemExists
<1>9. Grown(o, v)
  <2>1. Grown(o, o)
    BY <1>2, GrownReflexive
  <2>2. v.expansion = o.expansion /\ v.fp = o.fp /\ v.tr = o.tr /\ v.seedRandom = o.seedRandom
    BY <1>2 DEF Object
  <2>. HIDE DEF v
  <2>. QED BY <1>7, <2>1, <2>2 DEF Grown
<1>10. acked' = [acked EXCEPT ![k] = acked[k]]
  BY <1>1, <1>2
<1>11. config' \in Config /\ promised' \in [Key -> 0..CapacityMax]
  BY <1>1, <1>2
<1>. HIDE DEF v
<1>. QED BY <1>2, <1>3, <1>5, <1>7, <1>8, <1>9, <1>10, <1>11, ObjectsAreValues, KeyStep DEF o

(******************************** theorems *********************************)

\* Every step of the server preserves the inductive invariant and takes nothing
\* away from an object.
LEMMA StepPreserves ==
  ASSUME IInv, [Next]_vars
  PROVE  IInv' /\ GrowthStep
<1>1. ASSUME NEW c \in Commands, BfAdd(c) \/ BfInsert(c) \/ BfReserve(c)
      PROVE  IInv' /\ GrowthStep
  BY <1>1, BfAddStep, BfInsertStep, BfReserveStep
<1>2. ASSUME NEW src \in Key, NEW dst \in Key, BfLoad(src, dst) \/ Copy(src, dst)
      PROVE  IInv' /\ GrowthStep
  BY <1>2, BfLoadStep, CopyStep
<1>3. ASSUME NEW k \in Key, Overwrite(k, Absent) \/ Overwrite(k, Foreign) \/ Defrag(k)
      PROVE  IInv' /\ GrowthStep
  BY <1>3, OverwriteStep, DefragPassStep
<1>4. ASSUME NEW change \in ConfigChanges, ConfigSet(change[1], change[2])
      PROVE  IInv' /\ GrowthStep
  BY <1>4, ConfigSetStep
<1>5. CASE UNCHANGED vars
  <2>1. metrics \in Counters /\ config \in Config
    BY DEF IInv, TypeOK
  <2>. QED BY <1>5, <2>1, OtherStep DEF vars
<1>. QED BY <1>1, <1>2, <1>3, <1>4, <1>5 DEF Next

\* The initial state satisfies it.
LEMMA InitEstablishes ==
  ASSUME Init
  PROVE  IInv
<1>1. NoMetrics \in Counters
  <2>1. Word \in Nat \ {0}
    BY SizeAssumption
  <2>2. \A c \in Names : NoMetrics[c] = 0
    BY DEF NoMetrics, Names
  <2>3. 0 \in 0..(Word - 1)
    BY <2>1
  <2>. QED BY <2>2, <2>3, CountersDomain DEF Weights
<1>2. \A k \in Key : keys[k] = Absent /\ acked[k] = {} /\ ~ IsObject(keys[k])
  BY DEF Init, IsObject
<1>3. TypeOK
  <2>1. 0 \in 0..CapacityMax
    BY SizeAssumption
  <2>. QED BY <1>1, <2>1, ConfigAssumption DEF Init, TypeOK
<1>. QED BY <1>2, <1>3 DEF IInv, ShapeInv, NoFalseNegatives, Objects

\* The inductive invariant holds in every reachable state.
THEOREM Invariance == Spec => []IInv
<1>1. Init => IInv
  BY InitEstablishes
<1>2. IInv /\ [Next]_vars => IInv'
  BY StepPreserves
<1>. QED BY <1>1, <1>2, PTL DEF Spec

\* The server's state keeps its type: the values, the configuration and the
\* counters of src/bloom/utils.rs, whatever commands clients send.
THEOREM TypeCorrectness == Spec => []TypeOK
<1>1. IInv => TypeOK
  BY DEF IInv
<1>. QED BY <1>1, Invariance, PTL

\* Every object has the shape that rdb_save and the replicated BF.INSERT rely on:
\* full filters but the last, and the progression of capacities, rates and seeds.
THEOREM ShapeCorrectness == Spec => []ShapeInv
<1>1. IInv => ShapeInv
  BY DEF IInv
<1>. QED BY <1>1, Invariance, PTL

\* No false negatives: whatever hash functions, commands, scale-outs, copies,
\* loads and defragmentations, an acknowledged item is found until its key goes.
THEOREM NoFalseNegativesEver == Spec => []NoFalseNegatives
<1>1. IInv => NoFalseNegatives
  BY DEF IInv
<1>. QED BY <1>1, Invariance, PTL

\* No step of the server takes a filter, a bit or a count away from an object
\* that is still there, or changes its rate, tightening, expansion or seed.
THEOREM GrowthOnly == Spec => ObjectsOnlyGrow
<1>1. IInv /\ [Next]_vars
        => [\A k \in Objects : IsObject(keys'[k]) => Grown(keys[k], keys'[k])]_vars
  BY StepPreserves DEF GrowthStep
<1>. QED BY <1>1, Invariance, PTL DEF Spec, ObjectsOnlyGrow

(***************************************************************************)
(* What BloomServer guarantees of its books, for every set of keys,        *)
(* commands, items, hashes and sizes and any number of steps: the counters *)
(* of INFO bf are the sums over the live objects, an object's memory stays *)
(* within the limit, replies count the items that went in, and commands    *)
(* are propagated and events published for changes only.                   *)
(***************************************************************************)

(***************************** totals over keys ****************************)

\* g has the totals of f over the sets of keys with n elements at most, one key
\* taken off after the other.
TotalsUpTo(n, f, g) ==
  /\ g[{}] = NoMetrics
  /\ \A S \in SUBSET Key : S # {} /\ Cardinality(S) <= n =>
       LET k == CHOOSE k \in S : TRUE
       IN  g[S] = Gain(g[S \ {k}], f[k])

\* A function with the totals of every set of keys exists.
LEMMA TotalsExist ==
  ASSUME NEW f \in [Key -> Weights]
  PROVE  \E g \in [SUBSET Key -> Counters] : TotalsUpTo(Cardinality(Key), f, g)
<1> DEFINE Good(n) == \E g \in [SUBSET Key -> Counters] : TotalsUpTo(n, f, g)
           T == {n \in Nat : Good(n)}
<1>1. 0 \in T
  <2> DEFINE g == [S \in SUBSET Key |-> NoMetrics]
  <2>1. g \in [SUBSET Key -> Counters] /\ g[{}] = NoMetrics
    BY NoMetricsTyped
  <2>2. \A S \in SUBSET Key : ~ (S # {} /\ Cardinality(S) <= 0)
    BY KeySets
  <2>. HIDE DEF g
  <2>3. Good(0)
    BY <2>1, <2>2 DEF TotalsUpTo
  <2>. HIDE DEF Good
  <2>. QED BY <2>3
<1>2. ASSUME NEW n \in Nat, n \in T PROVE n + 1 \in T
  <2>1. PICK g \in [SUBSET Key -> Counters] : TotalsUpTo(n, f, g)
    BY <1>2
  <2> DEFINE one(S) == CHOOSE k \in S : TRUE
             h == [S \in SUBSET Key |->
                     IF S = {} THEN NoMetrics ELSE Gain(g[S \ {one(S)}], f[one(S)])]
  <2>2. ASSUME NEW S \in SUBSET Key, S # {}
        PROVE  /\ one(S) \in Key /\ S \ {one(S)} \in SUBSET Key
               /\ Gain(g[S \ {one(S)}], f[one(S)]) \in Counters
               /\ Cardinality(S \ {one(S)}) = Cardinality(S) - 1 /\ Cardinality(S) \in Nat
    <3>1. one(S) \in S /\ one(S) \in Key
      BY <2>2, KeySets
    <3>2. S \ {one(S)} \in SUBSET Key /\ Cardinality(S \ {one(S)}) = Cardinality(S) - 1
      BY <3>1, KeySets
    <3>3. g[S \ {one(S)}] \in Counters /\ f[one(S)] \in Weights
      BY <3>1, <3>2
    <3>. HIDE DEF one
    <3>. QED BY <3>1, <3>2, <3>3, GainAndLose, KeySets
  <2>3. h \in [SUBSET Key -> Counters]
    <3>. HIDE DEF one
    <3>. QED BY <2>2, NoMetricsTyped
  <2>4. h[{}] = NoMetrics
    OBVIOUS
  <2>5. ASSUME NEW S \in SUBSET Key, S # {}, Cardinality(S) <= n + 1
        PROVE  h[S] = Gain(h[S \ {one(S)}], f[one(S)])
    <3> DEFINE R == S \ {one(S)}
    <3>1. R \in SUBSET Key /\ Cardinality(R) <= n
      <4>. HIDE DEF one
      <4>. QED BY <2>2, <2>5
    <3>2. h[S] = Gain(g[R], f[one(S)])
      BY <2>5
    <3>3. h[R] = g[R]
      <4>1. R = {} => g[R] = NoMetrics
        BY <2>1 DEF TotalsUpTo
      <4>2. R # {} => g[R] = Gain(g[R \ {one(R)}], f[one(R)])
        BY <2>1, <3>1 DEF TotalsUpTo
      <4>3. h[R] = IF R = {} THEN NoMetrics ELSE Gain(g[R \ {one(R)}], f[one(R)])
        <5>. HIDE DEF R, one
        <5>. QED BY <3>1
      <4>. HIDE DEF R, one, h
      <4>. QED BY <4>1, <4>2, <4>3
    <3>. QED BY <3>2, <3>3
  <2>. HIDE DEF h
  <2>6. Good(n + 1)
    BY <2>3, <2>4, <2>5 DEF TotalsUpTo
  <2>. HIDE DEF Good
  <2>. QED BY <2>6
<1>. HIDE DEF Good
<1>3. \A n \in Nat : n \in T
  <2>. HIDE DEF T
  <2>. QED BY <1>1, <1>2, SetInduction
<1>4. Cardinality(Key) \in Nat
  BY KeySets
<1>5. Good(Cardinality(Key))
  BY <1>3, <1>4
<1>. QED BY <1>5 DEF Good

\* The total over the keys is one of those.
LEMMA TotalHasParts ==
  ASSUME NEW f \in [Key -> Weights]
  PROVE  \E g : /\ g \in [SUBSET Key -> Counters] /\ TotalsUpTo(Cardinality(Key), f, g)
                /\ Total(f) = g[Key]
<1> DEFINE one(S) == CHOOSE k \in S : TRUE
           R(h) == h = [S \in SUBSET Key |->
                          IF S = {} THEN NoMetrics ELSE Gain(h[S \ {one(S)}], f[one(S)])]
           iter == CHOOSE h : R(h)
<1>1. Total(f) = iter[Key]
  BY DEF Total, FoldSet, MapThenFoldSet
<1>2. PICK g \in [SUBSET Key -> Counters] : TotalsUpTo(Cardinality(Key), f, g)
  BY TotalsExist
<1>3. ASSUME NEW S \in SUBSET Key
      PROVE  g[S] = IF S = {} THEN NoMetrics ELSE Gain(g[S \ {one(S)}], f[one(S)])
  BY <1>2, KeySets DEF TotalsUpTo
<1>4. R(g)
  <2>1. g = [S \in SUBSET Key |-> g[S]]
    OBVIOUS
  <2>. HIDE DEF one
  <2>. QED BY <1>3, <2>1
<1>5. R(iter)
  BY <1>4
<1>. HIDE DEF iter
<1>6. \A S \in SUBSET Key :
        iter[S] = IF S = {} THEN NoMetrics ELSE Gain(iter[S \ {one(S)}], f[one(S)])
  BY <1>5
<1>7. iter = [S \in SUBSET Key |-> iter[S]]
  BY <1>5
<1>. HIDE DEF R
<1>8. iter \in [SUBSET Key -> Counters]
  <2> DEFINE T == {n \in Nat : \A S \in SUBSET Key : Cardinality(S) <= n => iter[S] \in Counters}
  <2>1. 0 \in T
    <3>1. ASSUME NEW S \in SUBSET Key, Cardinality(S) <= 0 PROVE iter[S] \in Counters
      <4>1. S = {}
        BY <3>1, KeySets
      <4>. QED BY <1>6, <4>1, NoMetricsTyped
    <3>. QED BY <3>1
  <2>2. ASSUME NEW n \in Nat, n \in T PROVE n + 1 \in T
    <3>1. ASSUME NEW S \in SUBSET Key, Cardinality(S) <= n + 1, S # {}
          PROVE  iter[S] \in Counters
      <4>1. one(S) \in S /\ one(S) \in Key
        BY <3>1, KeySets
      <4>. HIDE DEF one
      <4>2. /\ S \ {one(S)} \in SUBSET Key /\ Cardinality(S) \in Nat
            /\ Cardinality(S \ {one(S)}) = Cardinality(S) - 1
        BY <4>1, KeySets
      <4>3. Cardinality(S \ {one(S)}) <= n
        BY <3>1, <4>2
      <4>4. iter[S \ {one(S)}] \in Counters /\ f[one(S)] \in Weights
        BY <2>2, <4>1, <4>2, <4>3
      <4>5. iter[S] = Gain(iter[S \ {one(S)}], f[one(S)])
        BY <1>6, <3>1
      <4>. QED BY <4>4, <4>5, GainAndLose
    <3>2. iter[{}] \in Counters
      <4>1. {} \in SUBSET Key
        OBVIOUS
      <4>. QED BY <1>6, <4>1, NoMetricsTyped
    <3>3. \A S \in SUBSET Key : Cardinality(S) <= n + 1 => iter[S] \in Counters
      BY <3>1, <3>2
    <3>. HIDE DEF one
    <3>. QED BY <3>3
  <2>3. \A n \in Nat : n \in T
    <3>. HIDE DEF T
    <3>. QED BY <2>1, <2>2, SetInduction
  <2>4. \A S \in SUBSET Key : iter[S] \in Counters
    BY <2>3, KeySets
  <2>. QED BY <1>7, <2>4
<1>9. TotalsUpTo(Cardinality(Key), f, iter)
  BY <1>6 DEF TotalsUpTo
<1>. QED BY <1>1, <1>8, <1>9

\* Counters moved by p and by q differ by q less p.
LEMMA TracksApart ==
  ASSUME NEW m \in Counters, NEW a \in Counters, NEW b \in Counters,
         NEW p \in Weights, NEW q \in Weights, NEW d \in Weights,
         Tracks(m, p, a), Tracks(m, q, b), \A c \in Names : d[c] = q[c] - p[c]
  PROVE  Tracks(a, d, b)
<1>1. ASSUME NEW c \in Names PROVE Congruent(b[c], a[c] + d[c])
  <2>1. /\ m[c] \in Int /\ a[c] \in Int /\ b[c] \in Int /\ p[c] \in Int /\ q[c] \in Int
        /\ d[c] = q[c] - p[c] /\ Word \in Int
    BY CountersAreIntegers, SizeAssumption DEF Weights
  <2>2. PICK u \in Int : a[c] = (m[c] + p[c]) + u * Word
    BY DEF Tracks, Congruent
  <2>3. PICK v \in Int : b[c] = (m[c] + q[c]) + v * Word
    BY DEF Tracks, Congruent
  <2>4. /\ u * Word \in Int /\ v * Word \in Int /\ (v - u) * Word = v * Word - u * Word
        /\ v - u \in Int
    BY <2>1
  <2>5. b[c] = (a[c] + d[c]) + (v * Word - u * Word)
    BY <2>1, <2>2, <2>3, <2>4
  <2>. QED BY <2>4, <2>5 DEF Congruent
<1>. QED BY <1>1 DEF Tracks

\* Totals are counters, and follow what one key counts for.
LEMMA TotalFollows ==
  ASSUME NEW f \in [Key -> Weights], NEW h \in [Key -> Weights], NEW k \in Key,
         \A j \in Key : j # k => h[j] = f[j],
         NEW d \in Weights, \A c \in Names : d[c] = h[k][c] - f[k][c]
  PROVE  Total(f) \in Counters /\ Total(h) \in Counters /\ Tracks(Total(f), d, Total(h))
<1> DEFINE N == Cardinality(Key)
           one(S) == CHOOSE j \in S : TRUE
<1>1. PICK g : g \in [SUBSET Key -> Counters] /\ TotalsUpTo(N, f, g) /\ Total(f) = g[Key]
  BY TotalHasParts
<1>2. PICK l : l \in [SUBSET Key -> Counters] /\ TotalsUpTo(N, h, l) /\ Total(h) = l[Key]
  BY TotalHasParts
<1> DEFINE Follows(S) == (k \notin S => l[S] = g[S]) /\ (k \in S => Tracks(g[S], d, l[S]))
           T == {n \in Nat : \A S \in SUBSET Key : Cardinality(S) <= n => Follows(S)}
<1>3. l[{}] = g[{}]
  BY <1>1, <1>2 DEF TotalsUpTo
<1>4. 0 \in T
  <2>1. ASSUME NEW S \in SUBSET Key, Cardinality(S) <= 0 PROVE Follows(S)
    <3>1. S = {}
      BY <2>1, KeySets
    <3>. QED BY <1>3, <3>1
  <2>. QED BY <2>1
<1>5. ASSUME NEW n \in Nat, n \in T PROVE n + 1 \in T
  <2>1. ASSUME NEW S \in SUBSET Key, Cardinality(S) <= n + 1, S # {} PROVE Follows(S)
    <3> DEFINE x == one(S)
               R == S \ {x}
    <3>1. x \in S /\ x \in Key
      BY <2>1, KeySets
    <3>2. g[S] = Gain(g[R], f[x]) /\ l[S] = Gain(l[R], h[x])
      BY <1>1, <1>2, <2>1, KeySets DEF TotalsUpTo
    <3>. HIDE DEF x
    <3>3. R \in SUBSET Key /\ Cardinality(R) <= n
      <4>1. R \in SUBSET Key /\ Cardinality(R) = Cardinality(S) - 1 /\ Cardinality(S) \in Nat
        BY <3>1, KeySets
      <4>. HIDE DEF R
      <4>. QED BY <2>1, <4>1
    <3>4. Follows(R)
      <4>. HIDE DEF R, Follows
      <4>. QED BY <1>5, <3>3
    <3>5. /\ g[R] \in Counters /\ l[R] \in Counters /\ g[S] \in Counters /\ l[S] \in Counters
          /\ f[x] \in Weights /\ h[x] \in Weights
      BY <1>1, <1>2, <3>1, <3>3
    <3>6. k \in R <=> k \in S /\ k # x
      OBVIOUS
    <3>. HIDE DEF R
    <3>7. Tracks(g[R], f[x], g[S]) /\ Tracks(l[R], h[x], l[S])
      BY <3>2, <3>5, GainTracks
    <3>8. CASE k \notin S
      <4>1. x # k /\ l[R] = g[R] /\ h[x] = f[x]
        BY <3>1, <3>4, <3>6, <3>8
      <4>. QED BY <3>2, <3>8, <4>1
    <3>9. CASE x = k
      <4>1. l[R] = g[R] /\ \A c \in Names : d[c] = h[x][c] - f[x][c]
        BY <3>4, <3>6, <3>9
      <4>2. Tracks(g[S], d, l[S])
        BY <3>5, <3>7, <4>1, TracksApart
      <4>. QED BY <3>1, <3>9, <4>2
    <3>10. CASE k \in S /\ x # k
      <4>1. Tracks(g[R], d, l[R]) /\ h[x] = f[x]
        BY <3>1, <3>4, <3>6, <3>10
      <4> DEFINE both == [c \in Names |-> d[c] + f[x][c]]
      <4>2. /\ both \in Weights /\ \A c \in Names : both[c] = d[c] + f[x][c]
            /\ \A c \in Names : d[c] = both[c] - f[x][c]
        <5>1. \A c \in Names : d[c] \in Int /\ f[x][c] \in Int
          BY <3>5 DEF Weights
        <5>. QED BY <5>1 DEF Weights
      <4>. HIDE DEF both
      <4>3. Tracks(g[R], both, l[S])
        BY <3>5, <3>7, <4>1, <4>2, TracksChain
      <4>4. Tracks(g[S], d, l[S])
        BY <3>5, <3>7, <4>2, <4>3, TracksApart
      <4>. QED BY <3>10, <4>4
    <3>. HIDE DEF Follows
    <3>. QED BY <3>8, <3>9, <3>10
  <2>2. ASSUME NEW S \in SUBSET Key, S = {} PROVE Follows(S)
    BY <1>3, <2>2
  <2>. HIDE DEF Follows
  <2>3. \A S \in SUBSET Key : Cardinality(S) <= n + 1 => Follows(S)
    BY <2>1, <2>2
  <2>. QED BY <2>3
<1>6. \A n \in Nat : n \in T
  <2>. HIDE DEF T
  <2>. QED BY <1>4, <1>5, SetInduction
<1>7. Follows(Key)
  <2>. HIDE DEF Follows
  <2>1. Key \in SUBSET Key /\ Cardinality(Key) \in Nat
    BY KeySets
  <2>. QED BY <1>6, <2>1
<1>. QED BY <1>1, <1>2, <1>7

\* Without objects there is nothing to count.
LEMMA TotalOfNothing ==
  ASSUME NEW f \in [Key -> Weights], \A k \in Key, c \in Names : f[k][c] = 0
  PROVE  Total(f) = NoMetrics
<1>1. PICK g : /\ g \in [SUBSET Key -> Counters] /\ TotalsUpTo(Cardinality(Key), f, g)
               /\ Total(f) = g[Key]
  BY TotalHasParts
<1> DEFINE one(S) == CHOOSE j \in S : TRUE
           T == {n \in Nat : \A S \in SUBSET Key : Cardinality(S) <= n => g[S] = NoMetrics}
<1>2. g[{}] = NoMetrics
  BY <1>1 DEF TotalsUpTo
<1>3. 0 \in T
  <2>1. ASSUME NEW S \in SUBSET Key, Cardinality(S) <= 0 PROVE g[S] = NoMetrics
    <3>1. S = {}
      BY <2>1, KeySets
    <3>. QED BY <1>2, <3>1
  <2>. QED BY <2>1
<1>4. ASSUME NEW n \in Nat, n \in T PROVE n + 1 \in T
  <2>1. ASSUME NEW S \in SUBSET Key, Cardinality(S) <= n + 1, S # {} PROVE g[S] = NoMetrics
    <3> DEFINE x == one(S)
    <3>1. x \in S /\ x \in Key
      BY <2>1, KeySets
    <3>2. g[S] = Gain(g[S \ {x}], f[x])
      BY <1>1, <2>1, KeySets DEF TotalsUpTo
    <3>. HIDE DEF x
    <3>3. g[S \ {x}] = NoMetrics
      <4>1. /\ S \ {x} \in SUBSET Key /\ Cardinality(S \ {x}) = Cardinality(S) - 1
            /\ Cardinality(S) \in Nat
        BY <3>1, KeySets
      <4>2. Cardinality(S \ {x}) <= n
        BY <2>1, <4>1
      <4>. QED BY <1>4, <4>1, <4>2
    <3>4. f[x] \in Weights /\ \A c \in Names : f[x][c] = 0
      BY <3>1
    <3>5. Tracks(NoMetrics, f[x], g[S]) /\ Tracks(NoMetrics, f[x], NoMetrics)
      BY <3>2, <3>3, <3>4, NoMetricsTyped, GainTracks, TracksEqual
    <3>6. g[S] \in Counters
      BY <1>1
    <3>. QED BY <3>4, <3>5, <3>6, NoMetricsTyped, TracksEqual
  <2>2. \A S \in SUBSET Key : Cardinality(S) <= n + 1 => g[S] = NoMetrics
    BY <1>2, <2>1
  <2>. QED BY <2>2
<1>5. \A n \in Nat : n \in T
  <2>. HIDE DEF T
  <2>. QED BY <1>3, <1>4, SetInduction
<1>6. Key \in SUBSET Key /\ Cardinality(Key) \in Nat
  BY KeySets
<1>. QED BY <1>1, <1>5, <1>6

(******************************** steps ************************************)

\* The memory of every object is within most, before and after a step.
Bounded(most) == \A k \in Key : IsObject(keys[k]) => Within(keys[k], most)
BoundedNext(most) == \A k \in Key : IsObject(keys'[k]) => Within(keys'[k], most)

\* Every object could scale out once more.
FewFilters == \A k \in Objects : Len(keys[k].filters) < MaxFilters

\* The steps of EffectsMatchChange and RepliesCountItems.
EffectsStep ==
  last'.cmd # Unset =>
    LET k == last'.cmd.key
    IN  /\ last'.repl # <<>> <=> keys'[k] # keys[k]
        /\ "bloom.reserve" \in last'.events <=> IsObject(keys'[k]) /\ ~ IsObject(keys[k])
        /\ IsAdd(last'.cmd) =>
             ("bloom.add" \in last'.events <=> NumItemsAt(keys'[k]) > NumItemsAt(keys[k]))

RepliesStep ==
  IsAdd(last'.cmd) /\ last'.reply.err = Ok =>
    NumItemsAt(keys'[last'.cmd.key]) - NumItemsAt(keys[last'.cmd.key])
      = Cardinality({i \in DOMAIN last'.reply.ints : last'.reply.ints[i] = 1})

\* Counters that are the sums over the objects stay so.
CountersStep == MetricsMatch => MetricsMatch'

\* What a step does to the books.
BooksStep(most) ==
  /\ FewFilters /\ MetricsMatch => MetricsMatch'
  /\ config.limit <= most /\ Bounded(most) => BoundedNext(most)
  /\ EffectsStep
  /\ RepliesStep

\* Counters that are the sums over the objects stay so when they follow the value of
\* the one key that changes.
LEMMA OneKeyTotals ==
  ASSUME IInv, NEW k \in Key, NEW v \in Object \union {Absent, Foreign},
         keys' = [keys EXCEPT ![k] = v],
         NEW m \in Counters, m = Total([j \in Key |-> Figures(keys[j])]),
         NEW l \in Counters, Tracks(m, Change(keys[k], v), l)
  PROVE  l = Total([j \in Key |-> Figures(keys'[j])])
<1> DEFINE f == [j \in Key |-> Figures(keys[j])]
           h == [j \in Key |-> Figures(keys'[j])]
           d == Change(keys[k], v)
<1>1. /\ keys \in [Key -> Object \union {Absent, Foreign}]
      /\ keys' \in [Key -> Object \union {Absent, Foreign}]
      /\ keys'[k] = v /\ \A j \in Key : j # k => keys'[j] = keys[j]
  BY DEF IInv, TypeOK
<1>2. f \in [Key -> Weights] /\ h \in [Key -> Weights] /\ d \in Weights
  <2>1. \A j \in Key : Figures(keys[j]) \in Weights /\ Figures(keys'[j]) \in Weights
    BY <1>1, ChangeTyped
  <2>2. d \in Weights
    BY <1>1, ChangeTyped
  <2>. HIDE DEF d
  <2>. QED BY <2>1, <2>2
<1>3. \A j \in Key : j # k => h[j] = f[j]
  BY <1>1
<1>4. \A c \in Names : d[c] = h[k][c] - f[k][c]
  BY <1>1 DEF Change
<1>5. m = Total(f) /\ Tracks(m, d, l)
  OBVIOUS
<1>. HIDE DEF f, h, d
<1>6. Total(h) \in Counters /\ Tracks(Total(f), d, Total(h))
  BY <1>2, <1>3, <1>4, TotalFollows
<1>7. l = Total(h)
  BY <1>2, <1>5, <1>6, TracksEqual
<1>. QED BY <1>7 DEF h

\* A step that changes the value of one key keeps the counters and the bound if
\* they follow that value.
LEMMA OneKeyBooks ==
  ASSUME IInv, NEW k \in Key, NEW v \in Object \union {Absent, Foreign},
         keys' = [keys EXCEPT ![k] = v], NEW most
  PROVE  /\ /\ MetricsMatch /\ metrics' \in Counters
            /\ Tracks(metrics, Change(keys[k], v), metrics')
            => MetricsMatch'
         /\ Bounded(most) /\ (IsObject(v) => Within(v, most)) => BoundedNext(most)
<1>1. keys'[k] = v /\ \A j \in Key : j # k => keys'[j] = keys[j]
  BY DEF IInv, TypeOK
<1>2. ASSUME MetricsMatch, metrics' \in Counters, Tracks(metrics, Change(keys[k], v), metrics')
      PROVE  MetricsMatch'
  <2>1. metrics \in Counters /\ metrics = Total([j \in Key |-> Figures(keys[j])])
    BY <1>2 DEF IInv, TypeOK, MetricsMatch
  <2>2. metrics' = Total([j \in Key |-> Figures(keys'[j])])
    BY <1>2, <2>1, OneKeyTotals
  <2>. QED BY <2>2 DEF MetricsMatch
<1>3. ASSUME Bounded(most), IsObject(v) => Within(v, most) PROVE BoundedNext(most)
  BY <1>1, <1>3 DEF Bounded, BoundedNext
<1>. QED BY <1>2, <1>3

\* The step of a command whose handler kept the books.
LEMMA ClientBooks ==
  ASSUME IInv, NEW c, c.key \in Key, NEW out,
         out.val \in Object \union {Absent, Foreign}, NEW most \in Int,
         keys' = [keys EXCEPT ![c.key] = out.val], metrics' = out.metrics,
         last' = [cmd |-> c, reply |-> out.reply, repl |-> out.repl, events |-> out.events],
         FewFilters => Balanced(keys[c.key], metrics, out),
         Announced(keys[c.key], out), IsAdd(c) => Counted(keys[c.key], out),
         Limited(keys[c.key], out, TRUE, config.limit, most)
  PROVE  BooksStep(most) /\ (Balanced(keys[c.key], metrics, out) => CountersStep)
<1> DEFINE k == c.key
<1>1. keys \in [Key -> Object \union {Absent, Foreign}] /\ k \in Key
  BY DEF IInv, TypeOK
<1>2. keys'[k] = out.val /\ keys' = [keys EXCEPT ![k] = out.val]
  BY <1>1
<1>3. /\ last'.cmd = c /\ last'.reply = out.reply /\ last'.repl = out.repl
      /\ last'.events = out.events
  OBVIOUS
<1>. HIDE DEF k
<1>4. Balanced(keys[k], metrics, out) /\ MetricsMatch => MetricsMatch'
  BY <1>1, <1>2, OneKeyBooks DEF Balanced, k
<1>5. config.limit <= most /\ Bounded(most) => BoundedNext(most)
  <2>1. config.limit <= most /\ Bounded(most) /\ IsObject(out.val) => Within(out.val, most)
    BY <1>1 DEF Limited, Bounded, k
  <2>. QED BY <1>1, <1>2, <2>1, OneKeyBooks
<1>6. EffectsStep
  <2>1. /\ out.repl # <<>> <=> keys'[k] # keys[k]
        /\ "bloom.reserve" \in out.events <=> IsObject(keys'[k]) /\ ~ IsObject(keys[k])
    BY <1>2 DEF Announced, k
  <2>2. IsAdd(c) => ("bloom.add" \in out.events <=> NumItemsAt(keys'[k]) > NumItemsAt(keys[k]))
    BY <1>2 DEF Counted, k
  <2>. QED BY <1>3, <2>1, <2>2 DEF EffectsStep, k
<1>7. RepliesStep
  <2>1. IsAdd(c) /\ out.reply.err = Ok =>
          NumItemsAt(keys'[k]) - NumItemsAt(keys[k]) = Cardinality(Ones(out.reply.ints))
    BY <1>2 DEF Counted, k
  <2>. QED BY <1>3, <2>1 DEF RepliesStep, Ones, k
<1>8. Balanced(keys[k], metrics, out) => CountersStep
  BY <1>4 DEF CountersStep
<1>9. FewFilters /\ MetricsMatch => MetricsMatch'
  BY <1>4 DEF k
<1>. QED BY <1>5, <1>6, <1>7, <1>8, <1>9 DEF BooksStep, k

\* A step of the server itself answers nobody.
LEMMA QuietStep ==
  ASSUME last' = NoCommand
  PROVE  EffectsStep /\ RepliesStep
BY DEF NoCommand, EffectsStep, RepliesStep, IsAdd

\* The same of BF.ADD, BF.MADD, BF.INSERT and BF.RESERVE.
LEMMA PerformBooks ==
  ASSUME IInv, NEW c \in CommandType, NEW out, Sound(c, keys[c.key], out),
         NEW most \in Int,
         Kept(keys[c.key], metrics, out, ~ FALSE, config.limit, most), Perform(c, out)
  PROVE  BooksStep(most) /\ CountersStep
<1>1. c.key \in Key /\ out.val \in Object \union {Absent, Foreign}
  BY DEF CommandType, Sound
<1>2. /\ keys' = [keys EXCEPT ![c.key] = out.val] /\ metrics' = out.metrics
      /\ last' = [cmd |-> c, reply |-> out.reply, repl |-> out.repl, events |-> out.events]
  BY DEF Perform
<1>3. /\ Balanced(keys[c.key], metrics, out) /\ Announced(keys[c.key], out)
      /\ Counted(keys[c.key], out) /\ Limited(keys[c.key], out, TRUE, config.limit, most)
  BY DEF Kept
<1>. QED BY <1>1, <1>2, <1>3, ClientBooks

\* The commands a client sends and the configuration are what handlers expect.
LEMMA ClientFacts ==
  ASSUME IInv, NEW c \in Commands
  PROVE  /\ c \in CommandType /\ c.key \in Key /\ c.items \in Seq(Item)
         /\ config.limit \in Int /\ metrics \in Counters
         /\ keys[c.key] \in Object \union {Absent, Foreign}
         /\ IsObject(keys[c.key]) => WellFormed(keys[c.key])
         /\ \A rnd \in RandomSeeds : Properties(c, config, rnd) \in PropertyType
<1>1. c \in CommandType /\ c.key \in Key /\ c.items \in Seq(Item)
  BY CommandAssumption DEF CommandType
<1>2. config \in Config
  BY DEF IInv, TypeOK
<1>3. config.limit \in Int
  BY <1>2 DEF Config
<1>. QED BY <1>1, <1>2, <1>3, KeyFacts, PropertiesTyped DEF RandomSeeds

\* BF.ADD and BF.MADD keep the books.
LEMMA BfAddBooks ==
  ASSUME IInv, NEW c \in Commands, BfAdd(c), NEW most \in Int
  PROVE  BooksStep(most) /\ CountersStep
<1>1. PICK rnd \in RandomSeeds :
        Perform(c, BloomFilterAddValue(c, keys[c.key], config, metrics, FALSE, rnd))
  BY DEF BfAdd
<1> DEFINE out == BloomFilterAddValue(c, keys[c.key], config, metrics, FALSE, rnd)
<1>2. c.name = "BF.MADD" \/ Len(c.items) = 1
  BY CommandAssumption DEF BfAdd
<1>3. Sound(c, keys[c.key], out)
  BY <1>2, ClientFacts, AddValueIsSound
<1>4. Kept(keys[c.key], metrics, out, ~ FALSE, config.limit, most)
  BY <1>2, ClientFacts, AddValueAccounts
<1>. HIDE DEF out
<1>. QED BY <1>1, <1>3, <1>4, ClientFacts, PerformBooks DEF out

\* BF.INSERT keeps the books: refused, adding or creating.
LEMMA BfInsertBooks ==
  ASSUME IInv, NEW c \in Commands, BfInsert(c), NEW most \in Int
  PROVE  BooksStep(most) /\ CountersStep
<1>1. PICK rnd \in RandomSeeds :
        Perform(c, BloomFilterInsert(c, keys[c.key], config, metrics, FALSE, rnd))
  BY DEF BfInsert
<1> DEFINE out == BloomFilterInsert(c, keys[c.key], config, metrics, FALSE, rnd)
<1>2. Sound(c, keys[c.key], out)
  BY ClientFacts, InsertIsSound
<1>3. Kept(keys[c.key], metrics, out, ~ FALSE, config.limit, most)
  BY ClientFacts, InsertAccounts
<1>. HIDE DEF out
<1>. QED BY <1>1, <1>2, <1>3, ClientFacts, PerformBooks DEF out

\* BF.RESERVE keeps the books: an empty object is counted or nothing is.
LEMMA BfReserveBooks ==
  ASSUME IInv, NEW c \in Commands, BfReserve(c), NEW most \in Int
  PROVE  BooksStep(most) /\ CountersStep
<1>1. PICK rnd \in RandomSeeds :
        Perform(c, BloomFilterReserve(c, keys[c.key], config, metrics, FALSE, rnd))
  BY DEF BfReserve
<1> DEFINE out == BloomFilterReserve(c, keys[c.key], config, metrics, FALSE, rnd)
<1>2. c.items = <<>>
  BY CommandAssumption DEF BfReserve
<1>3. Sound(c, keys[c.key], out)
  BY <1>2, ClientFacts, ReserveIsSound
<1>4. Kept(keys[c.key], metrics, out, ~ FALSE, config.limit, most)
  BY ClientFacts, ReserveAccounts
<1>. HIDE DEF out
<1>. QED BY <1>1, <1>3, <1>4, ClientFacts, PerformBooks DEF out

\* BF.LOAD of a live object's bytes keeps the books.
LEMMA BfLoadBooks ==
  ASSUME IInv, NEW src \in Key, NEW dst \in Key, BfLoad(src, dst), NEW most \in Int
  PROVE  BooksStep(most)
<1> DEFINE c == [Command("BF.LOAD", dst, <<>>) EXCEPT !.dump = keys[src]]
           out == BloomFilterLoad(c, keys[dst], config, metrics, FALSE)
<1>1. keys[src] \in Object /\ WellFormed(keys[src]) /\ src \in Objects
  BY KeyFacts DEF BfLoad, Objects
<1>2. c.items = <<>> /\ c.dump = keys[src] /\ c.key = dst /\ c.name = "BF.LOAD"
  BY DEF Command
<1>3. /\ keys' = [keys EXCEPT ![dst] = out.val] /\ metrics' = out.metrics
      /\ last' = [cmd |-> c, reply |-> out.reply, repl |-> out.repl, events |-> out.events]
  BY DEF BfLoad, LoadEncoding
<1>. HIDE DEF c
<1>4. config \in Config /\ config.limit \in Int
  BY DEF IInv, TypeOK, Config
<1>5. /\ Announced(keys[dst], out) /\ Limited(keys[dst], out, ~ FALSE, config.limit, most)
      /\ Len(c.dump.filters) < MaxFilters => Balanced(keys[dst], metrics, out)
  BY <1>1, <1>2, <1>4, KeyFacts, LoadAccounts
<1>6. Sound(c, keys[dst], out)
  BY <1>1, <1>2, KeyFacts, LoadIsSound
<1>. HIDE DEF out
<1>7. out.val \in Object \union {Absent, Foreign}
  BY <1>6 DEF Sound
<1>8. FewFilters => Balanced(keys[dst], metrics, out)
  BY <1>1, <1>2, <1>5 DEF FewFilters
<1>9. ~ IsAdd(c) /\ Limited(keys[dst], out, TRUE, config.limit, most)
  BY <1>2, <1>5 DEF IsAdd
<1>. QED BY <1>2, <1>3, <1>5, <1>7, <1>8, <1>9, ClientBooks

\* Freeing a value takes its figures out of the counters.
LEMMA OverwriteBooks ==
  ASSUME IInv, NEW k \in Key, NEW v \in {Absent, Foreign}, Overwrite(k, v), NEW most \in Int
  PROVE  BooksStep(most) /\ CountersStep
<1> DEFINE o == keys[k]
           d == Change(o, v)
<1>1. /\ keys' = [keys EXCEPT ![k] = v] /\ metrics' = Freed(k) /\ last' = NoCommand
  BY DEF Overwrite
<1>2. /\ v \in Object \union {Absent, Foreign} /\ ~ IsObject(v)
      /\ \A c \in Names : Figures(v)[c] = 0
  BY NothingCounts
<1>3. metrics' \in Counters /\ metrics \in Counters /\ o \in Object \union {Absent, Foreign}
  BY <1>1, FreedTyped DEF IInv, TypeOK
<1>4. d \in Weights /\ Figures(o) \in Weights /\ \A c \in Names : d[c] = - Figures(o)[c]
  <2>1. d \in Weights /\ Figures(o) \in Weights
    BY <1>2, <1>3, ChangeTyped
  <2>. QED BY <1>2, <2>1 DEF Change, Weights
<1>. HIDE DEF d
<1>5. Tracks(metrics, d, metrics')
  <2>1. CASE IsObject(o)
    <3>1. o \in Object /\ WellFormed(o) /\ Figures(o) = Footprint(o)
      BY <2>1, KeyFacts DEF Figures
    <3>2. Tracks(metrics, Minus(Footprint(o)), metrics')
      BY <1>1, <1>3, <2>1, <3>1, ObjectTracks DEF Freed
    <3>. HIDE DEF o
    <3>3. \A c \in Names : d[c] = Minus(Footprint(o))[c]
      BY <1>4, <3>1 DEF Minus
    <3>. QED BY <3>2, <3>3 DEF Tracks
  <2>2. CASE ~ IsObject(o)
    <3>1. \A c \in Names : d[c] = 0
      BY <1>4, <2>2, NothingCounts
    <3>2. metrics' = metrics
      BY <1>1, <2>2 DEF Freed
    <3>. QED BY <1>3, <1>4, <3>1, <3>2, TracksEqual
  <2>. QED BY <2>1, <2>2
<1>. QED BY <1>1, <1>2, <1>3, <1>5, OneKeyBooks, QuietStep DEF BooksStep, CountersStep, d

\* COPY counts the copy for what its source is counted for.
LEMMA CopyBooks ==
  ASSUME IInv, NEW src \in Key, NEW dst \in Key, Copy(src, dst), NEW most \in Int
  PROVE  BooksStep(most) /\ CountersStep
<1> DEFINE o == keys[src]
           d == Change(keys[dst], o)
<1>1. /\ keys' = [keys EXCEPT ![dst] = o] /\ metrics' = CopyMetrics(metrics, o)
      /\ last' = NoCommand /\ keys[dst] = Absent /\ IsObject(o)
  BY DEF Copy
<1>2. o \in Object /\ WellFormed(o) /\ metrics \in Counters /\ Figures(o) = Footprint(o)
  BY <1>1, KeyFacts DEF Figures
<1>3. Tracks(metrics, Footprint(o), metrics') /\ metrics' \in Counters
  BY <1>1, <1>2, ObjectTracks DEF CopyMetrics
<1>4. \A c \in Names : d[c] = Footprint(o)[c]
  <2>1. Footprint(o) \in Weights /\ \A c \in Names : Figures(Absent)[c] = 0
    BY <1>2, FootprintTyped, NothingCounts
  <2>. QED BY <1>1, <1>2, <2>1 DEF Change, Weights
<1>5. Tracks(metrics, d, metrics')
  <2>. HIDE DEF d
  <2>. QED BY <1>3, <1>4 DEF Tracks
<1>6. Bounded(most) => Within(o, most)
  BY <1>1 DEF Bounded
<1>. HIDE DEF o
<1>. QED BY <1>1, <1>2, <1>3, <1>5, <1>6, OneKeyBooks, QuietStep DEF BooksStep, CountersStep

\* An object without the slack of its Vec is smaller by the slack and nothing else.
LEMMA SlackGivenUp ==
  ASSUME NEW o \in Object, WellFormed(o)
  PROVE  LET v == Decoded(o)
             w == [NoMetrics EXCEPT !.bytes = (o.vcap - Len(o.filters)) * BoxBytes]
         IN  /\ v \in Object /\ IsObject(o) /\ IsObject(v) /\ v.filters = o.filters
             /\ w \in Weights /\ Minus(w) \in Weights
             /\ \A c \in Names : Change(o, v)[c] = Minus(w)[c]
<1> DEFINE v == Decoded(o)
           w == [NoMetrics EXCEPT !.bytes = (o.vcap - Len(o.filters)) * BoxBytes]
           d == Change(o, v)
<1>1. /\ v \in Object /\ v.filters = o.filters /\ v.vcap = Len(o.filters)
      /\ IsObject(o) /\ IsObject(v)
  <2>1. v \in Object /\ v.filters = o.filters
    BY DecodedPreserves
  <2>2. v.vcap = Len(o.filters)
    BY DEF Decoded, Object
  <2>. QED BY <2>1, <2>2, ObjectsAreValues
<1>2. /\ o.vcap \in Int /\ Len(o.filters) \in Int /\ BoxBytes \in Int /\ ObjectBytes \in Int
      /\ FiltersSize(o) \in Int
  BY LastFilter, SizeAssumption, FootprintTyped DEF Object
<1>. HIDE DEF v
<1>3. /\ NumItems(v) = NumItems(o) /\ Capacity(v) = Capacity(o)
      /\ FiltersSize(v) = FiltersSize(o)
  BY <1>1 DEF NumItems, Capacity, FiltersSize
<1>4. MemoryUsage(v) - MemoryUsage(o) = - ((o.vcap - Len(o.filters)) * BoxBytes)
  <2> DEFINE a == o.vcap * BoxBytes
             b == Len(o.filters) * BoxBytes
  <2>1. a \in Int /\ b \in Int /\ (o.vcap - Len(o.filters)) * BoxBytes = a - b
    BY <1>2
  <2>2. /\ MemoryUsage(o) = ObjectBytes + a + FiltersSize(o)
        /\ MemoryUsage(v) = ObjectBytes + b + FiltersSize(o)
    BY <1>1, <1>3 DEF MemoryUsage, ObjectSize
  <2>. HIDE DEF a, b
  <2>. QED BY <1>2, <2>1, <2>2
<1>5. /\ w \in Weights /\ w["objects"] = 0 /\ w["filters"] = 0 /\ w["items"] = 0
      /\ w["capacity"] = 0 /\ w["bytes"] = (o.vcap - Len(o.filters)) * BoxBytes
  <2>1. (o.vcap - Len(o.filters)) * BoxBytes \in Int
    BY <1>2
  <2>. QED BY <2>1, CountersDomain DEF Weights, Names, NoMetrics
<1>6. Figures(o) = Footprint(o) /\ Figures(v) = Footprint(v)
  BY <1>1 DEF Figures
<1>7. /\ d["objects"] = 0 /\ d["filters"] = 0 /\ d["items"] = 0 /\ d["capacity"] = 0
      /\ d["bytes"] = MemoryUsage(v) - MemoryUsage(o)
  <2>1. NumItems(o) \in Nat /\ Capacity(o) \in Nat
    BY FootprintTyped
  <2>. QED BY <1>1, <1>2, <1>3, <1>6, <2>1 DEF Change, Names, Footprint
<1>. HIDE DEF d, w
<1>8. \A c \in Names : d[c] = Minus(w)[c]
  BY <1>4, <1>5, <1>7 DEF Minus, Names
<1>9. Minus(w) \in Weights
  BY <1>5 DEF Minus, Weights
<1>. QED BY <1>1, <1>5, <1>8, <1>9 DEF v, w, d

\* A defragmentation takes the slack of the Vec out of the bytes.
LEMMA DefragBooks ==
  ASSUME IInv, NEW k \in Key, Defrag(k), NEW most \in Int
  PROVE  BooksStep(most) /\ CountersStep
<1> DEFINE o == keys[k]
           v == Decoded(o)
           w == [NoMetrics EXCEPT !.bytes = (o.vcap - Len(o.filters)) * BoxBytes]
           d == Change(o, v)
<1>1. /\ IsObject(o) /\ keys' = [keys EXCEPT ![k] = v] /\ last' = NoCommand
      /\ metrics' = Lose(metrics, w)
  BY DEF Defrag, Decoded
<1>2. o \in Object /\ WellFormed(o) /\ metrics \in Counters
  BY <1>1, KeyFacts
<1>3. /\ v \in Object /\ IsObject(v) /\ v.filters = o.filters
      /\ w \in Weights /\ \A c \in Names : d[c] = Minus(w)[c]
  <2>. HIDE DEF o
  <2>. QED BY <1>2, SlackGivenUp
<1>. HIDE DEF o, v, d, w
<1>4. Tracks(metrics, d, metrics') /\ metrics' \in Counters
  <2>1. Tracks(metrics, Minus(w), metrics') /\ metrics' \in Counters
    BY <1>1, <1>2, <1>3, GainTracks, GainAndLose
  <2>. QED BY <1>3, <2>1 DEF Tracks
<1>5. Bounded(most) => Within(v, most)
  <2>1. FiltersSize(v) = FiltersSize(o)
    BY <1>3 DEF FiltersSize
  <2>. QED BY <1>1, <1>3, <2>1 DEF Bounded, Within, o
<1>. QED BY <1>1, <1>3, <1>4, <1>5, OneKeyBooks, QuietStep DEF BooksStep, CountersStep, o, d

\* CONFIG SET leaves the objects and the counters alone.
LEMMA ConfigSetBooks ==
  ASSUME NEW change \in ConfigChanges, ConfigSet(change[1], change[2]), NEW most
  PROVE  BooksStep(most) /\ CountersStep
<1>1. keys' = keys /\ metrics' = metrics /\ last' = NoCommand
  BY DEF ConfigSet
<1>2. MetricsMatch => MetricsMatch'
  BY <1>1 DEF MetricsMatch
<1>3. Bounded(most) => BoundedNext(most)
  BY <1>1 DEF Bounded, BoundedNext
<1>. QED BY <1>1, <1>2, <1>3, QuietStep DEF BooksStep, CountersStep

\* Every step of the server keeps the books.
LEMMA NextKeepsBooks ==
  ASSUME IInv, Next, NEW most \in Int
  PROVE  BooksStep(most)
<1>1. ASSUME NEW c \in Commands, BfAdd(c) \/ BfInsert(c) \/ BfReserve(c)
      PROVE  BooksStep(most)
  BY <1>1, BfAddBooks, BfInsertBooks, BfReserveBooks
<1>2. ASSUME NEW src \in Key, NEW dst \in Key, BfLoad(src, dst) \/ Copy(src, dst)
      PROVE  BooksStep(most)
  BY <1>2, BfLoadBooks, CopyBooks
<1>3. ASSUME NEW k \in Key, Overwrite(k, Absent) \/ Overwrite(k, Foreign) \/ Defrag(k)
      PROVE  BooksStep(most)
  BY <1>3, OverwriteBooks, DefragBooks
<1>4. ASSUME NEW change \in ConfigChanges, ConfigSet(change[1], change[2])
      PROVE  BooksStep(most)
  BY <1>4, ConfigSetBooks
<1>. QED BY <1>1, <1>2, <1>3, <1>4 DEF Next

(******************************** theorems *********************************)

\* An object whose filters alone would exceed the memory bound with MaxFilters of
\* them has fewer.
LEMMA BoundedHasFewFilters ==
  ASSUME NEW o \in Object, WellFormed(o), NEW most \in Int, Within(o, most),
         most < MaxFilters * FilterBytes
  PROVE  Len(o.filters) < MaxFilters
<1> DEFINE n == Len(o.filters)
<1>1. n \in Nat \ {0} /\ FiltersSize(o) \in Nat
  BY LastFilter, FootprintTyped
<1>2. ObjectSize(Max({1, n - 1})) \in Nat
  <2>1. o.vcap \in Nat /\ n <= o.vcap
    BY DEF Object, WellFormed
  <2>2. Max({1, n - 1}) \in Nat
    BY <1>1, <2>1, SlotsAreThere
  <2>. QED BY <2>2, ObjectSizeIsNatural
<1>3. FiltersSize(o) <= most
  <2>1. ObjectSize(Max({1, n - 1})) + FiltersSize(o) <= most
    BY DEF Within
  <2>. HIDE DEF n
  <2>. QED BY <1>1, <1>2, <2>1
<1>. QED BY <1>3, FewFiltersFit

\* The steps of the two theorems below, stuttering included.
LEMMA InvariantStep ==
  ASSUME IInv, [Next]_vars, NEW most \in Int
  PROVE  /\ FewFilters /\ MetricsMatch => MetricsMatch'
         /\ config.limit <= most /\ Bounded(most) => Bounded(most)'
<1>1. CASE Next
  BY <1>1, NextKeepsBooks DEF BooksStep, Bounded, BoundedNext
<1>2. CASE UNCHANGED vars
  BY <1>2 DEF vars, MetricsMatch, Bounded
<1>. QED BY <1>1, <1>2

\* At the start there is no object.
LEMMA InitialBooks ==
  ASSUME Init
  PROVE  MetricsMatch /\ MemoryWithinLimit /\ \A most \in Int : Bounded(most)
<1> DEFINE f == [k \in Key |-> Figures(keys[k])]
<1>1. \A k \in Key : keys[k] = Absent /\ ~ IsObject(keys[k])
  BY NothingCounts DEF Init
<1>2. f \in [Key -> Weights] /\ \A k \in Key, c \in Names : f[k][c] = 0
  <2>1. Figures(Absent) \in Weights /\ \A c \in Names : Figures(Absent)[c] = 0
    BY ChangeTyped, NothingCounts
  <2>. QED BY <1>1, <2>1
<1>. HIDE DEF f
<1>3. Total(f) = NoMetrics
  BY <1>2, TotalOfNothing
<1>. QED BY <1>1, <1>3 DEF Init, MetricsMatch, MemoryWithinLimit, Objects, Bounded, f

\* While bloom-memory-usage-limit is at most some bound, no object's memory
\* exceeds it, whatever the limit was when the object grew: validate_size,
\* validate_add_items and the check of BF.LOAD leave no way around it, nor do
\* COPY and defragmentation.
THEOREM MemoryBounded ==
  ASSUME NEW most \in Int
  PROVE  Spec /\ [](config.limit <= most) => []Bounded(most)
<1>1. Init => Bounded(most)
  BY InitialBooks
<1>2. IInv /\ config.limit <= most /\ Bounded(most) /\ [Next]_vars => Bounded(most)'
  BY InvariantStep
<1>. QED BY <1>1, <1>2, Invariance, PTL DEF Spec

\* Unless the limit is lowered under them, objects stay within it.
THEOREM LimitKept == Spec /\ [][config'.limit >= config.limit]_vars => []MemoryWithinLimit
<1>1. Init => MemoryWithinLimit
  BY InitialBooks
<1>2. ASSUME IInv, MemoryWithinLimit, [Next]_vars, [config'.limit >= config.limit]_vars
      PROVE  MemoryWithinLimit'
  <2>1. CASE UNCHANGED vars
    BY <1>2, <2>1 DEF vars, MemoryWithinLimit, Objects
  <2>2. CASE Next /\ config'.limit >= config.limit
    <3>1. config.limit \in Int /\ config'.limit \in Int /\ IInv'
      <4>1. IInv'
        BY <1>2, StepPreserves
      <4>. QED BY <1>2, <4>1 DEF IInv, TypeOK, Config
    <3>2. PICK most \in Int : most = config.limit
      BY <3>1
    <3>3. config.limit <= most /\ Bounded(most)
      BY <1>2, <3>2 DEF MemoryWithinLimit, Objects, Bounded, Within
    <3>4. BoundedNext(most)
      BY <1>2, <2>2, <3>3, NextKeepsBooks DEF BooksStep
    <3>5. ASSUME NEW k \in Key, IsObject(keys'[k]) PROVE Within(keys'[k], config'.limit)
      <4>1. keys'[k] \in Object /\ WellFormed(keys'[k])
        BY <3>1, <3>5 DEF IInv, TypeOK, ShapeInv, Objects, IsObject
      <4>2. Within(keys'[k], most)
        BY <3>4, <3>5 DEF BoundedNext
      <4>. QED BY <2>2, <3>1, <3>2, <4>1, <4>2, WithinMonotone
    <3>. QED BY <3>5 DEF MemoryWithinLimit, Objects, Within
  <2>. QED BY <1>2, <2>1, <2>2
<1>. QED BY <1>1, <1>2, Invariance, PTL DEF Spec

\* INFO bf is right: with a limit too low for an object of MaxFilters filters
\* the counters are at all times the sums over the live objects.
THEOREM CountersMatch ==
  Spec /\ [](config.limit < MaxFilters * FilterBytes) => []MetricsMatch
<1> DEFINE most == MaxFilters * FilterBytes - 1
           Below == config.limit < MaxFilters * FilterBytes
<1>1. MaxFilters * FilterBytes \in Int /\ most \in Int /\ most < MaxFilters * FilterBytes
  BY SizeAssumption
<1>2. IInv /\ Below => config.limit <= most
  BY <1>1 DEF IInv, TypeOK, Config
<1>3. IInv /\ Bounded(most) => FewFilters
  <2>1. ASSUME IInv, Bounded(most), NEW k \in Objects PROVE Len(keys[k].filters) < MaxFilters
    <3>1. k \in Key /\ keys[k] \in Object /\ WellFormed(keys[k]) /\ Within(keys[k], most)
      BY <2>1, KeyFacts DEF Objects, Bounded
    <3>. HIDE DEF most
    <3>. QED BY <1>1, <3>1, BoundedHasFewFilters
  <2>. QED BY <2>1 DEF FewFilters
<1>4. Init => MetricsMatch
  BY InitialBooks
<1>5. IInv /\ FewFilters /\ MetricsMatch /\ [Next]_vars => MetricsMatch'
  <2>1. ASSUME IInv, FewFilters, MetricsMatch, [Next]_vars PROVE MetricsMatch'
    BY <2>1, InvariantStep, 0 \in Int
  <2>. QED BY <2>1
<1>. HIDE DEF most
<1>6. Init => Bounded(most)
  BY <1>1, InitialBooks
<1>7. IInv /\ Below /\ Bounded(most) /\ [Next]_vars => Bounded(most)'
  BY <1>1, <1>2, InvariantStep
<1>. HIDE DEF Below
<1>. QED BY <1>3, <1>4, <1>5, <1>6, <1>7, Invariance, PTL DEF Spec, Below

\* A client's command is propagated and its events are published if and only if
\* it changed, created or filled the object: nothing is replicated for a refusal
\* or a duplicate, and no change of the keyspace is kept from the replicas.
THEOREM EffectsAreChanges == Spec => EffectsMatchChange
<1>1. IInv /\ [Next]_vars => [EffectsStep]_vars
  <2>1. ASSUME IInv, Next PROVE EffectsStep
    BY <2>1, NextKeepsBooks, 0 \in Int DEF BooksStep
  <2>. QED BY <2>1
<1>2. Spec => [][EffectsStep]_vars
  BY <1>1, Invariance, PTL DEF Spec
<1>. QED BY <1>2 DEF EffectsMatchChange, EffectsStep

\* An acknowledged add answers 1 as many times as BF.CARD grows by, whatever
\* duplicates and false positives the command met.
THEOREM RepliesAreCounts == Spec => RepliesCountItems
<1>1. IInv /\ [Next]_vars =>
        [IsAdd(last'.cmd) /\ last'.reply.err = Ok =>
           NumItemsAt(keys'[last'.cmd.key]) - NumItemsAt(keys[last'.cmd.key])
             = Cardinality({i \in DOMAIN last'.reply.ints : last'.reply.ints[i] = 1})]_vars
  <2>1. ASSUME IInv, Next PROVE RepliesStep
    BY <2>1, NextKeepsBooks, 0 \in Int DEF BooksStep
  <2>. QED BY <2>1 DEF RepliesStep
<1>. QED BY <1>1, Invariance, PTL DEF Spec, RepliesCountItems

(************************* refusals leave no trace *************************)

\* The projection charges for all of every Vec; every Vec is what pushes make it.
VecsCharged == \A k \in Objects : Charged(keys[k])
VecsOnlyPushed == \A k \in Objects : OnlyPushed(keys[k])

\* Limits under which no object can have MaxFilters filters.
LimitIsSmall == config.limit < MaxFilters * FilterBytes

\* No BF.LOAD creates an object.
LoadsNothing == \A src, dst \in Key : BfLoad(src, dst) => UNCHANGED keys

\* What a step does about refusals, and about Vecs.
TraceStep ==
  last'.cmd # Unset /\ last'.reply.err # Ok /\ keys[last'.cmd.key] # Absent =>
    UNCHANGED <<keys, metrics>> /\ last'.repl = <<>> /\ last'.events = {}
VecStep ==
  ~ config.defrag /\ LoadsNothing /\ VecsOnlyPushed => VecsOnlyPushed'

\* A step that stores at k a value whose Vec is only pushed if all are.
LEMMA KeyVecs ==
  ASSUME IInv, NEW k \in Key, NEW v, keys' = [keys EXCEPT ![k] = v],
         VecsOnlyPushed /\ IsObject(v) => OnlyPushed(v)
  PROVE  VecStep
<1>1. keys'[k] = v /\ \A j \in Key : j # k => keys'[j] = keys[j]
  BY DEF IInv, TypeOK
<1>. QED BY <1>1 DEF VecStep, VecsOnlyPushed, Objects

\* The step of a command whose handler is orderly.
LEMMA OrderlyStep ==
  ASSUME IInv, NEW c, c.key \in Key, NEW out, Orderly(keys[c.key], metrics, out),
         keys' = [keys EXCEPT ![c.key] = out.val], metrics' = out.metrics,
         last' = [cmd |-> c, reply |-> out.reply, repl |-> out.repl, events |-> out.events]
  PROVE  VecStep /\ (VecsCharged' => TraceStep)
<1> DEFINE k == c.key
<1>1. keys \in [Key -> Object \union {Absent, Foreign}] /\ k \in Key
  BY DEF IInv, TypeOK
<1>2. keys'[k] = out.val /\ keys' = [keys EXCEPT ![k] = out.val]
  BY <1>1
<1>3. /\ last'.cmd = c /\ last'.reply = out.reply /\ last'.repl = out.repl
      /\ last'.events = out.events
  OBVIOUS
<1>4. Orderly(keys[k], metrics, out)
  OBVIOUS
<1>. HIDE DEF k
<1>5. VecStep
  <2>1. VecsOnlyPushed /\ IsObject(out.val) => OnlyPushed(out.val)
    BY <1>1, <1>4 DEF Orderly, VecsOnlyPushed, Objects
  <2>. QED BY <1>1, <1>2, <2>1, KeyVecs
<1>6. ASSUME VecsCharged', out.reply.err # Ok, keys[k] # Absent
      PROVE  UNCHANGED <<keys, metrics>> /\ out.repl = <<>> /\ out.events = {}
  <2>1. IsObject(out.val) => Charged(out.val)
    BY <1>1, <1>2, <1>6 DEF VecsCharged, Objects
  <2>2. out.val = keys[k] /\ out.metrics = metrics /\ out.repl = <<>> /\ out.events = {}
    BY <1>4, <1>6, <2>1 DEF Orderly
  <2>. QED BY <1>1, <1>2, <2>2
<1>7. VecsCharged' => TraceStep
  BY <1>3, <1>6 DEF TraceStep, k
<1>. QED BY <1>5, <1>7

\* The clients' write commands are orderly steps.
LEMMA ClientsAreOrderly ==
  ASSUME IInv, LimitIsSmall, NEW c \in Commands, BfAdd(c) \/ BfInsert(c) \/ BfReserve(c)
  PROVE  VecStep /\ (VecsCharged' => TraceStep)
<1>1. /\ c \in CommandType /\ c.key \in Key /\ c.items \in Seq(Item) /\ metrics \in Counters
      /\ keys[c.key] \in Object \union {Absent, Foreign}
      /\ IsObject(keys[c.key]) => WellFormed(keys[c.key])
      /\ \A rnd \in RandomSeeds : Properties(c, config, rnd) \in PropertyType
  BY ClientFacts
<1>2. config.limit \in Nat /\ config.limit < MaxFilters * FilterBytes
  BY DEF IInv, TypeOK, Config, LimitIsSmall
<1>3. PICK out : Orderly(keys[c.key], metrics, out) /\ Perform(c, out)
  <2>1. CASE BfAdd(c)
    <3>1. PICK rnd \in RandomSeeds :
            Perform(c, BloomFilterAddValue(c, keys[c.key], config, metrics, FALSE, rnd))
      BY <2>1 DEF BfAdd
    <3>2. c.name = "BF.MADD" \/ Len(c.items) = 1
      BY <2>1, CommandAssumption DEF BfAdd
    <3>3. Orderly(keys[c.key], metrics,
                  BloomFilterAddValue(c, keys[c.key], config, metrics, FALSE, rnd))
      BY <1>1, <1>2, <3>2, AddValueIsOrderly
    <3>. QED BY <3>1, <3>3
  <2>2. CASE BfInsert(c)
    <3>1. PICK rnd \in RandomSeeds :
            Perform(c, BloomFilterInsert(c, keys[c.key], config, metrics, FALSE, rnd))
      BY <2>2 DEF BfInsert
    <3>3. Orderly(keys[c.key], metrics,
                  BloomFilterInsert(c, keys[c.key], config, metrics, FALSE, rnd))
      BY <1>1, <1>2, InsertIsOrderly
    <3>. QED BY <3>1, <3>3
  <2>3. CASE BfReserve(c)
    <3>1. PICK rnd \in RandomSeeds :
            Perform(c, BloomFilterReserve(c, keys[c.key], config, metrics, FALSE, rnd))
      BY <2>3 DEF BfReserve
    <3>3. Orderly(keys[c.key], metrics,
                  BloomFilterReserve(c, keys[c.key], config, metrics, FALSE, rnd))
      BY <1>1, ReserveIsOrderly
    <3>. QED BY <3>1, <3>3
  <2>. QED BY <2>1, <2>2, <2>3
<1>4. /\ keys' = [keys EXCEPT ![c.key] = out.val] /\ metrics' = out.metrics
      /\ last' = [cmd |-> c, reply |-> out.reply, repl |-> out.repl, events |-> out.events]
  BY <1>3 DEF Perform
<1>. QED BY <1>1, <1>3, <1>4, OrderlyStep

\* BF.LOAD is, too, when it fails or there is something at the key; when it
\* creates an object, nothing was refused.
LEMMA LoadsAreOrderly ==
  ASSUME IInv, NEW src \in Key, NEW dst \in Key, BfLoad(src, dst)
  PROVE  VecStep /\ (VecsCharged' => TraceStep)
<1> DEFINE c == [Command("BF.LOAD", dst, <<>>) EXCEPT !.dump = keys[src]]
           out == BloomFilterLoad(c, keys[dst], config, metrics, FALSE)
<1>1. c.key = dst /\ c.name = "BF.LOAD"
  BY DEF Command
<1>3. /\ keys' = [keys EXCEPT ![dst] = out.val] /\ metrics' = out.metrics
      /\ last' = [cmd |-> c, reply |-> out.reply, repl |-> out.repl, events |-> out.events]
  BY DEF BfLoad, LoadEncoding
<1>. HIDE DEF c
<1>4. keys[dst] \in Object \union {Absent, Foreign}
  BY KeyFacts
<1>5. CASE keys[dst] # Absent \/ out.reply.err # Ok
  <2>1. Orderly(keys[dst], metrics, out)
    BY <1>4, <1>5, FailedLoadIsOrderly
  <2>. HIDE DEF out
  <2>. QED BY <1>1, <1>3, <2>1, OrderlyStep
<1>6. CASE keys[dst] = Absent /\ out.reply.err = Ok
  <2>. HIDE DEF out
  <2>1. last'.cmd = c /\ last'.reply.err = Ok
    BY <1>3, <1>6
  <2>2. TraceStep
    BY <2>1 DEF TraceStep
  <2>3. VecStep
    BY DEF VecStep, LoadsNothing, VecsOnlyPushed, Objects
  <2>. QED BY <2>2, <2>3
<1>. QED BY <1>5, <1>6

\* The server's own steps answer nobody, and without defragmentation no Vec is
\* touched by them.
LEMMA QuietVecs ==
  ASSUME IInv, \/ \E k \in Key : Overwrite(k, Absent) \/ Overwrite(k, Foreign) \/ Defrag(k)
               \/ \E change \in ConfigChanges : ConfigSet(change[1], change[2])
               \/ \E src, dst \in Key : Copy(src, dst)
  PROVE  VecStep /\ TraceStep
<1>1. last' = NoCommand
  BY DEF Overwrite, Defrag, ConfigSet, Copy
<1>2. TraceStep
  BY <1>1 DEF TraceStep, NoCommand
<1>3. ~ IsObject(Absent) /\ ~ IsObject(Foreign)
  BY NothingCounts
<1>4. ASSUME NEW k \in Key, NEW v \in {Absent, Foreign}, Overwrite(k, v) PROVE VecStep
  <2>1. keys' = [keys EXCEPT ![k] = v]
    BY <1>4 DEF Overwrite
  <2>. QED BY <1>3, <1>4, <2>1, KeyVecs
<1>5. ASSUME NEW k \in Key, Defrag(k) PROVE VecStep
  BY <1>5 DEF Defrag, VecStep
<1>6. ASSUME NEW change \in ConfigChanges, ConfigSet(change[1], change[2]) PROVE VecStep
  BY <1>6 DEF ConfigSet, VecStep, VecsOnlyPushed, Objects
<1>7. ASSUME NEW src \in Key, NEW dst \in Key, Copy(src, dst) PROVE VecStep
  <2>1. keys' = [keys EXCEPT ![dst] = keys[src]] /\ src \in Objects
    BY <1>7 DEF Copy, Objects
  <2>2. VecsOnlyPushed => OnlyPushed(keys[src])
    BY <2>1 DEF VecsOnlyPushed
  <2>. QED BY <1>7, <2>1, <2>2, KeyVecs
<1>. QED BY <1>2, <1>4, <1>5, <1>6, <1>7

\* Every step.
LEMMA NextIsOrderly ==
  ASSUME IInv, LimitIsSmall, Next
  PROVE  VecStep /\ (VecsCharged' => TraceStep)
BY ClientsAreOrderly, LoadsAreOrderly, QuietVecs DEF Next

\* Where neither defragmentation nor BF.LOAD makes a Vec smaller than pushing its
\* filters did, every Vec is what pushes make it.
LEMMA VecsStayPushed ==
  Spec /\ []LimitIsSmall /\ [](~ config.defrag) /\ [][LoadsNothing]_vars
    => []VecsOnlyPushed
<1>1. Init => VecsOnlyPushed
  BY NothingCounts DEF Init, VecsOnlyPushed, Objects
<1> DEFINE Fixed == ~ config.defrag
<1>2. IInv /\ LimitIsSmall /\ Fixed /\ [LoadsNothing]_vars /\ VecsOnlyPushed /\ [Next]_vars
        => VecsOnlyPushed'
  <2>1. CASE Next /\ LoadsNothing
    BY <2>1, NextIsOrderly DEF VecStep
  <2>2. CASE UNCHANGED vars
    BY <2>2 DEF vars, VecsOnlyPushed, Objects
  <2>. QED BY <2>1, <2>2
<1>. HIDE DEF Fixed
<1>3. Spec /\ []LimitIsSmall /\ []Fixed /\ [][LoadsNothing]_vars => []VecsOnlyPushed
  BY <1>1, <1>2, Invariance, PTL DEF Spec
<1>. QED BY <1>3 DEF Fixed

\* There the projection charges for all of every Vec.
THEOREM VecsAreCharged ==
  Spec /\ []LimitIsSmall /\ [](~ config.defrag) /\ [][LoadsNothing]_vars
    => []VecsCharged
<1>1. IInv /\ VecsOnlyPushed => VecsCharged
  <2>1. ASSUME IInv, VecsOnlyPushed, NEW k \in Objects PROVE Charged(keys[k])
    <3>1. keys[k] \in Object /\ WellFormed(keys[k]) /\ OnlyPushed(keys[k])
      BY <2>1, KeyFacts DEF Objects, VecsOnlyPushed
    <3>2. Len(keys[k].filters) \in Nat
      BY <3>1, LastFilter
    <3>. QED BY <3>1, <3>2, PushedIsProjected DEF OnlyPushed, Charged
  <2>. QED BY <2>1 DEF VecsCharged
<1>. QED BY <1>1, VecsStayPushed, Invariance, PTL

\* A command that is refused on an existing key did nothing at all: a batch is
\* checked as a whole, and once it was accepted no item of it fails, as long as
\* the projection charges for all of every Vec. (After a defragmentation, or on
\* a loaded object, it may not: that is ErrorsAreNotPropagated of
\* BloomReplication.)
THEOREM RefusalsAreClean ==
  Spec /\ []LimitIsSmall /\ []VecsCharged => RefusalsLeaveNoTrace
<1>1. IInv /\ LimitIsSmall /\ VecsCharged' /\ [Next]_vars => [TraceStep]_vars
  BY NextIsOrderly
<1>2. Spec /\ []LimitIsSmall /\ []VecsCharged => [][TraceStep]_vars
  BY <1>1, Invariance, PTL DEF Spec
<1>. QED BY <1>2 DEF RefusalsLeaveNoTrace, TraceStep

(***************************** VALIDATESCALETO *****************************)

\* An object whose creation was promised a capacity has room for it.
PromisesStand ==
  \A k \in Key : promised[k] # 0 =>
    IsObject(keys[k]) /\ Room(keys[k], promised[k], config.limit)

\* What a step does about promises.
ScaleToStep ==
  LET c == last'.cmd
      covered == /\ IsAdd(c) /\ c.scaleTo = Unset
                 /\ IsObject(keys[c.key])
                 /\ NumItems(keys[c.key]) + Len(c.items) <= promised[c.key]
  IN  covered => last'.reply.err = Ok

\* A step that changes what one key holds and was promised, under the same limit.
LEMMA KeyPromises ==
  ASSUME IInv, PromisesStand, NEW k \in Key, NEW v, NEW n,
         keys' = [keys EXCEPT ![k] = v], promised' = [promised EXCEPT ![k] = n],
         config' = config, n # 0 => IsObject(v) /\ Room(v, n, config.limit)
  PROVE  PromisesStand'
<1>1. /\ keys'[k] = v /\ promised'[k] = n
      /\ \A j \in Key : j # k => keys'[j] = keys[j] /\ promised'[j] = promised[j]
  BY DEF IInv, TypeOK
<1>. QED BY <1>1 DEF PromisesStand

\* An object that grows keeps its promise.
LEMMA GrownKeepsPromise ==
  ASSUME IInv, PromisesStand, NEW k \in Key, NEW v \in Object,
         IsObject(keys[k]) => Grown(keys[k], v), promised[k] # 0
  PROVE  Room(v, promised[k], config.limit)
<1>1. /\ keys[k] \in Object /\ WellFormed(keys[k]) /\ promised[k] \in Nat /\ IsObject(keys[k])
      /\ Room(keys[k], promised[k], config.limit)
  <2>1. promised[k] \in Nat
    BY KeyFacts, SizeAssumption
  <2>. QED BY <2>1, KeyFacts DEF PromisesStand
<1>2. Capacity(keys[k]) <= Capacity(v)
  BY <1>1, GrownCapacity
<1>. QED BY <1>1, <1>2, RoomStays

\* A step that leaves the promises alone while objects only grow.
LEMMA GrowthKeepsPromises ==
  ASSUME IInv, PromisesStand, NEW k \in Key, NEW v \in Object \union {Absent, Foreign},
         keys' = [keys EXCEPT ![k] = v], promised' = promised, config' = config,
         IsObject(keys[k]) => IsObject(v) /\ Grown(keys[k], v)
  PROVE  PromisesStand'
<1>1. promised' = [promised EXCEPT ![k] = promised[k]]
  BY DEF IInv, TypeOK
<1>2. promised[k] # 0 => IsObject(v) /\ v \in Object
  BY DEF PromisesStand, IsObject
<1>3. promised[k] # 0 => IsObject(v) /\ Room(v, promised[k], config.limit)
  BY <1>2, GrownKeepsPromise
<1>. QED BY <1>1, <1>3, KeyPromises

\* The step of a client's command, given what its handler made of the key.
LEMMA PerformKeepsPromises ==
  ASSUME IInv, PromisesStand, NEW c \in CommandType, NEW out, Perform(c, out),
         Sound(c, keys[c.key], out),
         keys[c.key] = Absent /\ out.reply.err = Ok /\ c.scaleTo # Unset =>
           IsObject(out.val) /\ Room(out.val, c.scaleTo, config.limit)
  PROVE  PromisesStand'
<1> DEFINE k == c.key
           n == Given(c.scaleTo, 0)
<1>1. /\ k \in Key /\ out.val \in Object \union {Absent, Foreign}
      /\ IsObject(keys[k]) => IsObject(out.val) /\ Grown(keys[k], out.val)
  BY DEF CommandType, Sound
<1>2. keys' = [keys EXCEPT ![k] = out.val] /\ config' = config
  BY DEF Perform
<1>3. CASE keys[k] = Absent /\ out.reply.err = Ok
  <2>1. promised' = [promised EXCEPT ![k] = n]
    BY <1>3 DEF Perform
  <2>2. n # 0 => IsObject(out.val) /\ Room(out.val, n, config.limit)
    BY <1>3 DEF Given
  <2>. HIDE DEF k, n
  <2>. QED BY <1>1, <1>2, <2>1, <2>2, KeyPromises
<1>4. CASE ~ (keys[k] = Absent /\ out.reply.err = Ok)
  <2>1. promised' = promised
    BY <1>4 DEF Perform
  <2>. HIDE DEF k
  <2>. QED BY <1>1, <1>2, <2>1, GrowthKeepsPromises
<1>. QED BY <1>3, <1>4

\* BF.ADD and its siblings on an object: enough room was promised.
LEMMA AddKeepsPromise ==
  ASSUME IInv, PromisesStand, LimitIsSmall, VecsCharged, VecsCharged',
         NEW c, c.key \in Key, c.items \in Seq(Item),
         NEW multi \in BOOLEAN, ~ multi => Len(c.items) = 1,
         NEW validate \in BOOLEAN, validate,
         NEW out, out = AddToExisting(c, keys[c.key], metrics, multi, validate, config.limit),
         keys' = [keys EXCEPT ![c.key] = out.val], IsObject(keys[c.key]),
         NumItems(keys[c.key]) + Len(c.items) <= promised[c.key]
  PROVE  out.reply.err = Ok
<1> DEFINE o == keys[c.key]
           items == c.items
           target == promised[c.key]
           limit == config.limit
           h == HandleAdd(o, metrics, items, multi, validate, limit)
<1>1. /\ o \in Object /\ WellFormed(o) /\ metrics \in Counters
      /\ target \in Nat /\ limit \in Nat /\ limit < MaxFilters * FilterBytes
  <2>1. limit \in Nat /\ limit < MaxFilters * FilterBytes
    BY DEF IInv, TypeOK, Config, LimitIsSmall
  <2>2. target \in Nat
    BY KeyFacts, SizeAssumption
  <2>. QED BY <2>1, <2>2, KeyFacts
<1>2. Room(o, target, limit)
  <2>1. CASE target = 0
    <3>1. Capacity(o) \in Nat
      BY <1>1, FootprintTyped
    <3>. HIDE DEF o, target
    <3>. QED BY <2>1, <3>1 DEF Room
  <2>2. CASE target # 0
    BY <2>2 DEF PromisesStand
  <2>. QED BY <2>1, <2>2
<1>3. Charged(o)
  BY DEF VecsCharged, Objects
<1>4. out.val = h.obj /\ out.reply.err = h.err
  BY DEF AddToExisting, Outcome
<1>5. Charged(h.obj)
  <2>1. keys'[c.key] = h.obj
    <3>. HIDE DEF h
    <3>. QED BY <1>4 DEF IInv, TypeOK
  <2>2. IsObject(h.obj)
    <3>. HIDE DEF o, items, limit
    <3>1. h.obj \in Object
      BY <1>1, HandleAddPreserves DEF items
    <3>. HIDE DEF h
    <3>. QED BY <3>1, ObjectsAreValues
  <2>. HIDE DEF h
  <2>. QED BY <2>1, <2>2 DEF VecsCharged, Objects
<1>6. items \in Seq(Item) /\ (~ multi => Len(items) = 1) /\ NumItems(o) + Len(items) <= target
  OBVIOUS
<1>. HIDE DEF o, items, target, limit
<1>7. Charged(h.obj) => h.err = Ok
  BY <1>1, <1>2, <1>3, <1>6, RoomTakesItems
<1>. HIDE DEF h
<1>. QED BY <1>4, <1>5, <1>7

\* BF.ADD and BF.MADD.
LEMMA BfAddPromises ==
  ASSUME IInv, PromisesStand, NEW c \in Commands, BfAdd(c)
  PROVE  PromisesStand' /\ (LimitIsSmall /\ VecsCharged /\ VecsCharged' => ScaleToStep)
<1>1. PICK rnd \in RandomSeeds :
        Perform(c, BloomFilterAddValue(c, keys[c.key], config, metrics, FALSE, rnd))
  BY DEF BfAdd
<1> DEFINE multi == c.name = "BF.MADD"
           validate == ~ FALSE
           out == BloomFilterAddValue(c, keys[c.key], config, metrics, FALSE, rnd)
<1>2. /\ c.name = "BF.MADD" \/ Len(c.items) = 1
      /\ c.scaleTo = Unset
  BY CommandAssumption DEF BfAdd
<1>3. Sound(c, keys[c.key], out)
  BY <1>2, ClientFacts, AddValueIsSound
<1>4. IsObject(keys[c.key]) =>
        out = AddToExisting(c, keys[c.key], metrics, multi, validate, config.limit)
  BY DEF BloomFilterAddValue, IsObject
<1>5. /\ multi \in BOOLEAN /\ (~ multi => Len(c.items) = 1)
      /\ validate \in BOOLEAN /\ validate
  BY <1>2
<1>. HIDE DEF out, multi, validate
<1>6. Perform(c, out)
  BY <1>1 DEF out
<1>7. PromisesStand'
  BY <1>2, <1>3, <1>6, ClientFacts, PerformKeepsPromises
<1>8. ASSUME LimitIsSmall, VecsCharged, VecsCharged', IsObject(keys[c.key]),
             NumItems(keys[c.key]) + Len(c.items) <= promised[c.key]
      PROVE  out.reply.err = Ok
  <2>1. keys' = [keys EXCEPT ![c.key] = out.val]
    BY <1>6 DEF Perform
  <2>. QED BY <1>4, <1>5, <1>8, <2>1, ClientFacts, AddKeepsPromise
<1>9. last'.cmd = c /\ last'.reply = out.reply
  BY <1>6 DEF Perform
<1>. QED BY <1>7, <1>8, <1>9 DEF ScaleToStep

\* BF.INSERT.
LEMMA BfInsertPromises ==
  ASSUME IInv, PromisesStand, NEW c \in Commands, BfInsert(c)
  PROVE  PromisesStand' /\ (LimitIsSmall /\ VecsCharged /\ VecsCharged' => ScaleToStep)
<1>1. PICK rnd \in RandomSeeds :
        Perform(c, BloomFilterInsert(c, keys[c.key], config, metrics, FALSE, rnd))
  BY DEF BfInsert
<1> DEFINE multi == TRUE
           obey == FALSE
           validate == ~ obey
           out == BloomFilterInsert(c, keys[c.key], config, metrics, obey, rnd)
<1>2. Sound(c, keys[c.key], out)
  BY ClientFacts, InsertIsSound
<1>3. IsObject(keys[c.key]) /\ c.scaleTo = Unset =>
        out = AddToExisting(c, keys[c.key], metrics, multi, validate, config.limit)
  BY DEF BloomFilterInsert, ScaleToError, IsObject
<1>4. /\ multi \in BOOLEAN /\ (~ multi => Len(c.items) = 1)
      /\ validate \in BOOLEAN /\ validate /\ obey \in BOOLEAN /\ ~ obey
  OBVIOUS
<1>5. config.limit \in Nat
  BY DEF IInv, TypeOK, Config
<1>6. c.scaleTo # Unset => c.scaleTo \in Nat
  BY ClientFacts DEF CommandType
<1>7. Properties(c, config, rnd) \in PropertyType /\ c.items \in Seq(Item)
      /\ metrics \in Counters
  BY ClientFacts
<1>8. keys[c.key] = Absent /\ out.reply.err = Ok /\ c.scaleTo # Unset =>
        IsObject(out.val) /\ Room(out.val, c.scaleTo, config.limit)
  <2>1. SUFFICES ASSUME keys[c.key] = Absent, out.reply.err = Ok, c.scaleTo # Unset
                 PROVE  IsObject(out.val) /\ Room(out.val, c.scaleTo, config.limit)
    OBVIOUS
  <2>. HIDE DEF obey
  <2>2. out = BloomFilterInsert(c, Absent, config, metrics, obey, rnd)
    BY <2>1
  <2>. HIDE DEF out
  <2>. QED BY <1>4, <1>5, <1>6, <1>7, <2>1, <2>2, ValidatedCreation
<1>9. Perform(c, out)
  BY <1>1
<1>. HIDE DEF out, multi, validate, obey
<1>10. PromisesStand'
  BY <1>2, <1>8, <1>9, ClientFacts, PerformKeepsPromises
<1>11. ASSUME LimitIsSmall, VecsCharged, VecsCharged', IsObject(keys[c.key]),
              NumItems(keys[c.key]) + Len(c.items) <= promised[c.key], c.scaleTo = Unset
       PROVE  out.reply.err = Ok
  <2>1. keys' = [keys EXCEPT ![c.key] = out.val]
    BY <1>9 DEF Perform
  <2>2. out = AddToExisting(c, keys[c.key], metrics, multi, validate, config.limit)
    BY <1>3, <1>11
  <2>3. c.key \in Key /\ c.items \in Seq(Item)
    BY ClientFacts
  <2>. QED BY <1>4, <1>11, <2>1, <2>2, <2>3, AddKeepsPromise
<1>12. last'.cmd = c /\ last'.reply = out.reply
  BY <1>9 DEF Perform
<1>. QED BY <1>10, <1>11, <1>12 DEF ScaleToStep

\* BF.RESERVE and BF.LOAD promise nothing.
LEMMA BfReservePromises ==
  ASSUME IInv, PromisesStand, NEW c \in Commands, BfReserve(c)
  PROVE  PromisesStand' /\ ScaleToStep
<1>1. PICK rnd \in RandomSeeds :
        Perform(c, BloomFilterReserve(c, keys[c.key], config, metrics, FALSE, rnd))
  BY DEF BfReserve
<1> DEFINE out == BloomFilterReserve(c, keys[c.key], config, metrics, FALSE, rnd)
<1>2. c.items = <<>> /\ c.scaleTo = Unset /\ ~ IsAdd(c)
  BY CommandAssumption DEF BfReserve, IsAdd
<1>3. Sound(c, keys[c.key], out)
  BY <1>2, ClientFacts, ReserveIsSound
<1>. HIDE DEF out
<1>4. Perform(c, out) /\ last'.cmd = c
  BY <1>1 DEF out, Perform
<1>. QED BY <1>2, <1>3, <1>4, ClientFacts, PerformKeepsPromises DEF ScaleToStep

LEMMA BfLoadPromises ==
  ASSUME IInv, PromisesStand, NEW src \in Key, NEW dst \in Key, BfLoad(src, dst)
  PROVE  PromisesStand' /\ ScaleToStep
<1> DEFINE c == [Command("BF.LOAD", dst, <<>>) EXCEPT !.dump = keys[src]]
           out == BloomFilterLoad(c, keys[dst], config, metrics, FALSE)
<1>1. keys[src] \in Object /\ WellFormed(keys[src])
  BY KeyFacts DEF BfLoad
<1>2. c.items = <<>> /\ c.dump = keys[src] /\ c.key = dst /\ c.name = "BF.LOAD"
  BY DEF Command
<1>3. /\ keys' = [keys EXCEPT ![dst] = out.val] /\ promised' = promised /\ config' = config
      /\ last'.cmd = c
  BY DEF BfLoad, LoadEncoding
<1>. HIDE DEF c
<1>4. Sound(c, keys[dst], out)
  BY <1>1, <1>2, KeyFacts, LoadIsSound
<1>. HIDE DEF out
<1>5. /\ out.val \in Object \union {Absent, Foreign}
      /\ IsObject(keys[dst]) => IsObject(out.val) /\ Grown(keys[dst], out.val)
  BY <1>4 DEF Sound
<1>6. PromisesStand'
  BY <1>3, <1>5, GrowthKeepsPromises
<1>. QED BY <1>2, <1>3, <1>6 DEF ScaleToStep, IsAdd

\* The server's own steps: a copy takes the promise along, a value that goes
\* leaves none behind, and a limit that is not lowered leaves the room there was.
LEMMA QuietPromises ==
  ASSUME IInv, PromisesStand, config'.limit >= config.limit,
         \/ \E k \in Key : Overwrite(k, Absent) \/ Overwrite(k, Foreign) \/ Defrag(k)
         \/ \E change \in ConfigChanges : ConfigSet(change[1], change[2])
         \/ \E src, dst \in Key : Copy(src, dst)
  PROVE  PromisesStand' /\ ScaleToStep
<1>1. last' = NoCommand
  BY DEF Overwrite, Defrag, ConfigSet, Copy
<1>2. ScaleToStep
  BY <1>1 DEF ScaleToStep, NoCommand, IsAdd
<1>3. ASSUME NEW k \in Key, NEW v \in {Absent, Foreign}, Overwrite(k, v) PROVE PromisesStand'
  <2>1. /\ keys' = [keys EXCEPT ![k] = v] /\ promised' = [promised EXCEPT ![k] = 0]
        /\ config' = config
    BY <1>3 DEF Overwrite
  <2>. QED BY <1>3, <2>1, KeyPromises
<1>4. ASSUME NEW k \in Key, Defrag(k) PROVE PromisesStand'
  <2> DEFINE v == [keys[k] EXCEPT !.vcap = Len(keys[k].filters)]
  <2>1. keys[k] \in Object /\ WellFormed(keys[k]) /\ IsObject(keys[k])
    BY <1>4, KeyFacts DEF Defrag
  <2>2. keys' = [keys EXCEPT ![k] = v] /\ promised' = promised /\ config' = config
    BY <1>4 DEF Defrag
  <2>3. v \in Object
    <3>1. Len(keys[k].filters) \in Nat \ {0}
      BY <2>1, LastFilter
    <3>. QED BY <2>1, <3>1 DEF Object
  <2>4. v.filters = keys[k].filters /\ v.expansion = keys[k].expansion /\ v.fp = keys[k].fp
        /\ v.tr = keys[k].tr /\ v.seedRandom = keys[k].seedRandom
    BY <2>1 DEF Object
  <2>. HIDE DEF v
  <2>5. Grown(keys[k], v)
    <3>1. Grown(keys[k], keys[k])
      BY <2>1, GrownReflexive
    <3>. QED BY <2>4, <3>1 DEF Grown
  <2>. QED BY <1>4, <2>2, <2>3, <2>5, ObjectsAreValues, GrowthKeepsPromises
<1>5. ASSUME NEW change \in ConfigChanges, ConfigSet(change[1], change[2])
      PROVE  PromisesStand'
  <2>1. keys' = keys /\ promised' = promised
    BY <1>5 DEF ConfigSet
  <2>2. config.limit \in Nat /\ config'.limit \in Nat
    <3>1. config' \in Config
      BY <1>5, ConfigStaysTyped DEF IInv, TypeOK, ConfigSet
    <3>. QED BY <3>1 DEF IInv, TypeOK, Config
  <2>3. config.limit <= config'.limit
    BY <2>2
  <2> DEFINE limit == config.limit
             more == config'.limit
  <2>4. limit \in Nat /\ more \in Nat /\ limit <= more
    BY <2>2, <2>3
  <2>. HIDE DEF limit, more
  <2>5. ASSUME NEW k \in Key, promised[k] # 0, IsObject(keys[k]), Room(keys[k], promised[k], limit)
        PROVE  Room(keys[k], promised[k], more)
    <3> DEFINE o == keys[k]
               n == promised[k]
    <3>1. o \in Object /\ WellFormed(o)
      BY <2>5, KeyFacts
    <3>2. n \in Nat /\ n <= n
      BY KeyFacts, SizeAssumption
    <3>3. Room(o, n, limit)
      BY <2>5
    <3>. HIDE DEF o, n
    <3>4. Room(o, n, more)
      BY <2>4, <3>1, <3>2, <3>3, RoomMonotone
    <3>. QED BY <3>4 DEF o, n
  <2>6. \A k \in Key : promised[k] # 0 => IsObject(keys[k]) /\ Room(keys[k], promised[k], limit)
    BY DEF PromisesStand, limit
  <2>7. \A k \in Key : promised[k] # 0 => IsObject(keys[k]) /\ Room(keys[k], promised[k], more)
    BY <2>5, <2>6
  <2>. QED BY <2>1, <2>7 DEF PromisesStand, more
<1>6. ASSUME NEW src \in Key, NEW dst \in Key, Copy(src, dst) PROVE PromisesStand'
  <2>1. /\ keys' = [keys EXCEPT ![dst] = keys[src]] /\ config' = config
        /\ promised' = [promised EXCEPT ![dst] = promised[src]]
    BY <1>6 DEF Copy
  <2>2. promised[src] # 0 => IsObject(keys[src]) /\ Room(keys[src], promised[src], config.limit)
    BY DEF PromisesStand
  <2>. QED BY <1>6, <2>1, <2>2, KeyPromises
<1>. QED BY <1>2, <1>3, <1>4, <1>5, <1>6

\* VALIDATESCALETO is kept: once a creation was validated for a capacity, no add
\* to the object is refused that stays within it, as long as nobody lowers
\* bloom-memory-usage-limit and the projection charges for all of every Vec.
THEOREM ScaleToIsHonoured ==
  Spec /\ [][config'.limit >= config.limit]_vars /\ []LimitIsSmall /\ []VecsCharged
    => ScaleToHonoured
<1>1. Init => PromisesStand
  BY DEF Init, PromisesStand
<1>2. ASSUME IInv, PromisesStand, Next, config'.limit >= config.limit
      PROVE  PromisesStand' /\ (LimitIsSmall /\ VecsCharged /\ VecsCharged' => ScaleToStep)
  BY <1>2, BfAddPromises, BfInsertPromises, BfReservePromises, BfLoadPromises, QuietPromises
     DEF Next
<1>3. IInv /\ PromisesStand /\ [Next]_vars /\ [config'.limit >= config.limit]_vars
        => PromisesStand'
  <2>1. CASE UNCHANGED vars
    BY <2>1 DEF vars, PromisesStand
  <2>2. CASE Next /\ config'.limit >= config.limit
    BY <1>2, <2>2
  <2>. QED BY <2>1, <2>2
<1>4. IInv /\ PromisesStand /\ LimitIsSmall /\ VecsCharged /\ VecsCharged' /\ [Next]_vars
        /\ [config'.limit >= config.limit]_vars => [ScaleToStep]_vars
  BY <1>2
<1>5. Spec /\ [][config'.limit >= config.limit]_vars /\ []LimitIsSmall /\ []VecsCharged
        => [][ScaleToStep]_vars
  BY <1>1, <1>3, <1>4, Invariance, PTL DEF Spec
<1>. QED BY <1>5 DEF ScaleToHonoured, ScaleToStep

(***************** the maximum that BF.INFO projects ***********************)

Shaped == {q \in Object : WellFormed(q)}
TheItem == CHOOSE x \in Item : TRUE

\* Where filling and scaling out gets from p, if it gets to next after one more
\* filter; the function of FilledCapacity is one that all of these agree with.
FilledTurn(p, next, limit) ==
  IF ScaleOutError(FilledUp(p), TRUE, limit) # Ok THEN Capacity(p) ELSE next
Filling(fill, limit) ==
  \A p \in Shaped : fill[p] = FilledTurn(p, fill[FilledOut(p, TheItem)], limit)

\* A turn that goes on adds a filter, to an object with at most limit of them.
LEMMA TurnAddsFilter ==
  ASSUME NEW limit \in Nat, NEW p \in Shaped
  PROVE  /\ Len(p.filters) \in Nat \ {0} /\ TheItem \in Item
         /\ ScaleOutError(FilledUp(p), TRUE, limit) = Ok =>
              /\ FilledOut(p, TheItem) \in Shaped
              /\ Len(FilledOut(p, TheItem).filters) = Len(p.filters) + 1
              /\ Len(p.filters) <= limit
<1>1. p \in Object /\ WellFormed(p)
  BY DEF Shaped
<1>2. TheItem \in Item
  BY DumpItemAssumption DEF TheItem
<1>3. Len(p.filters) \in Nat \ {0}
  BY <1>1, LastFilter
<1>4. ASSUME ScaleOutError(FilledUp(p), TRUE, limit) = Ok
      PROVE  /\ FilledOut(p, TheItem) \in Shaped
             /\ Len(FilledOut(p, TheItem).filters) = Len(p.filters) + 1
             /\ Len(p.filters) <= limit
  <2> DEFINE x == TheItem
  <2>. HIDE DEF x
  <2>1. x \in Item
    BY <1>2 DEF x
  <2>2. LET q == FilledOut(p, x)
        IN  /\ q \in Object /\ WellFormed(q) /\ Len(q.filters) = Len(p.filters) + 1
            /\ Len(p.filters) <= limit
    BY <1>1, <1>4, <2>1, FilledOutShape
  <2>. QED BY <2>2 DEF Shaped, x
<1>. QED BY <1>2, <1>3, <1>4

\* What FilledCapacity computes exists, since every turn adds a filter.
LEMMA FillingTurns ==
  ASSUME NEW limit \in Nat
  PROVE  \E fill : Filling(fill, limit) /\ \A o : FilledCapacity(o, limit) = fill[o]
<1> DEFINE after(p) == FilledOut(p, TheItem)
           n(p) == Len(p.filters)
           OneMore(g, p) == FilledTurn(p, g[after(p)], limit)
           After(g) == [p \in Shaped |-> OneMore(g, p)]
           Solves(g, k) ==
             /\ g = [p \in Shaped |-> g[p]]
             /\ \A p \in Shaped : n(p) + k > limit => g[p] = OneMore(g, p)
           T == {k \in Nat : \E g : Solves(g, k)}
<1>1. ASSUME NEW g, NEW h, NEW p \in Shaped,
             after(p) \in Shaped /\ n(after(p)) = n(p) + 1 /\ n(p) <= limit
               => g[after(p)] = h[after(p)]
      PROVE  OneMore(g, p) = OneMore(h, p)
  BY <1>1, TurnAddsFilter DEF FilledTurn
<1>2. ASSUME NEW p \in Shaped PROVE n(p) \in Nat
  BY TurnAddsFilter
<1>. HIDE DEF OneMore, after, n
<1>3. \A g : /\ After(g) = [p \in Shaped |-> After(g)[p]]
             /\ \A p \in Shaped : After(g)[p] = OneMore(g, p)
  OBVIOUS
<1>4. 0 \in T
  <2> DEFINE g == [p \in Shaped |-> 0]
             h == After(g)
  <2>1. \A p \in Shaped : n(p) > limit => h[p] = OneMore(h, p)
    <3>. TAKE p \in Shaped
    <3>1. HAVE n(p) > limit
    <3>2. ~ (n(p) <= limit)
      BY <1>2, <3>1
    <3>. HIDE DEF h, g
    <3>3. OneMore(g, p) = OneMore(h, p)
      BY <1>1, <3>2
    <3>. QED BY <1>3, <3>3 DEF h
  <2>2. Solves(h, 0)
    <3>. HIDE DEF g, After
    <3>. QED BY <1>2, <1>3, <2>1
  <2>. HIDE DEF Solves, h
  <2>. QED BY <2>2
<1>5. ASSUME NEW k \in Nat, k \in T PROVE k + 1 \in T
  <2>1. PICK g : Solves(g, k)
    BY <1>5
  <2> DEFINE h == After(g)
  <2>2. \A p \in Shaped : n(p) + (k + 1) > limit => h[p] = OneMore(h, p)
    <3>. TAKE p \in Shaped
    <3>1. HAVE n(p) + (k + 1) > limit
    <3>2. ASSUME after(p) \in Shaped, n(after(p)) = n(p) + 1
          PROVE  g[after(p)] = h[after(p)]
      <4>1. n(after(p)) + k > limit
        BY <1>2, <3>1, <3>2
      <4>2. g[after(p)] = OneMore(g, after(p))
        BY <2>1, <3>2, <4>1
      <4>. HIDE DEF After
      <4>. QED BY <1>3, <3>2, <4>2
    <3>. HIDE DEF h
    <3>3. OneMore(g, p) = OneMore(h, p)
      BY <1>1, <3>2
    <3>. QED BY <1>3, <3>3 DEF h
  <2>3. Solves(h, k + 1)
    <3>. HIDE DEF After
    <3>. QED BY <1>3, <2>2
  <2>. HIDE DEF Solves, h
  <2>. QED BY <2>3
<1>6. limit + 1 \in T
  <2>. HIDE DEF T
  <2>. QED BY <1>4, <1>5, SetInduction
<1>7. PICK g : Solves(g, limit + 1)
  BY <1>6
<1>8. \A p \in Shaped : g[p] = OneMore(g, p)
  BY <1>2, <1>7
<1>9. g = After(g)
  BY <1>7, <1>8
<1> DEFINE fill == CHOOSE f : f = After(f)
<1>10. fill = After(fill)
  <2>. HIDE DEF After
  <2>. QED BY <1>9
<1>11. \A o : FilledCapacity(o, limit) = fill[o]
  BY DEF FilledCapacity, FilledTurn, OneMore, after, FilledUp, FilledOut, TheItem, Shaped
<1>12. Filling(fill, limit)
  <2>1. \A p \in Shaped : fill[p] = OneMore(fill, p)
    <3>. HIDE DEF fill
    <3>. QED BY <1>3, <1>10
  <2>. HIDE DEF fill
  <2>. QED BY <2>1 DEF Filling, OneMore, after
<1>. HIDE DEF fill
<1>. QED BY <1>11, <1>12

\* From an object that only pushes made, the adds get at least as far as the
\* loop of the projection does.
ReachesLoop(fill, loop, p) ==
  /\ fill[p] \in Nat /\ Capacity(p) <= fill[p]
  /\ loop[LayoutOf(p)].err = Ok => loop[LayoutOf(p)].capacity <= fill[p]

\* The objects that one turn after another makes of one object, if only pushes
\* made it.
Descendant(p, startFp, tr, expansion) ==
  /\ p.fp = startFp /\ p.tr = tr /\ p.expansion = expansion
  /\ Pushed(p.vcap, Len(p.filters)) /\ LayoutOf(p) \in Layout

\* LimitIsSmall, of any limit.
Small(limit) == limit < MaxFilters * FilterBytes

LEMMA FillReachesLoop ==
  ASSUME NEW limit \in Nat, Small(limit),
         NEW fill, Filling(fill, limit),
         NEW startFp \in Nat, NEW tr \in Nat, NEW expansion \in Nat \ {0},
         NEW loop, Projecting(loop, startFp, NoTarget, tr, expansion, limit),
         NEW o \in Shaped, Descendant(o, startFp, tr, expansion)
  PROVE  ReachesLoop(fill, loop, o)
<1> DEFINE D(p) == Descendant(p, startFp, tr, expansion)
           n(p) == Len(p.filters)
           Stops(p) == ScaleOutError(FilledUp(p), TRUE, limit) # Ok
           T == {k \in Nat : \A p \in Shaped :
                  D(p) /\ n(p) + k > limit => ReachesLoop(fill, loop, p)}
<1>1. ASSUME NEW p \in Shaped, D(p), Stops(p)
      PROVE  ReachesLoop(fill, loop, p)
  <2>1. p \in Object /\ WellFormed(p)
    BY DEF Shaped
  <2>2. p.expansion # 0 /\ Pushed(p.vcap, Len(p.filters)) /\ LayoutOf(p) \in Layout
    BY <1>1 DEF Descendant
  <2>3. Projecting(loop, p.fp, NoTarget, p.tr, p.expansion, limit)
    BY <1>1 DEF Descendant
  <2>4. loop[LayoutOf(p)].err = Ok => loop[LayoutOf(p)].capacity = Capacity(p)
    BY <1>1, <2>1, <2>2, <2>3, FullWhereProjected DEF Small
  <2>5. fill[p] = Capacity(p)
    BY <1>1 DEF Filling, FilledTurn
  <2>6. Capacity(p) \in Nat
    BY <2>1, FootprintTyped
  <2>. QED BY <2>4, <2>5, <2>6 DEF ReachesLoop
<1>2. ASSUME NEW p \in Shaped, D(p), ~ Stops(p)
      PROVE  LET q == FilledOut(p, TheItem)
             IN  /\ q \in Shaped /\ D(q) /\ Len(q.filters) = Len(p.filters) + 1
                 /\ ReachesLoop(fill, loop, q) => ReachesLoop(fill, loop, p)
  <2> DEFINE x == TheItem
             q == FilledOut(p, x)
             s == LayoutOf(p)
             t == LayoutOf(q)
  <2>1. p \in Object /\ WellFormed(p) /\ x \in Item
    BY TurnAddsFilter DEF Shaped
  <2>. HIDE DEF x
  <2>2. /\ q \in Object /\ WellFormed(q) /\ Len(q.filters) = Len(p.filters) + 1
        /\ q.expansion = p.expansion /\ q.fp = p.fp /\ q.tr = p.tr
        /\ Pushed(p.vcap, Len(p.filters)) => Pushed(q.vcap, Len(q.filters))
        /\ Capacity(p) <= Capacity(q)
        /\ t = NextLayout(s, p.fp, p.tr, p.expansion)
    BY <1>2, <2>1, FilledOutShape
  <2>3. p.fp = startFp /\ p.tr = tr /\ p.expansion = expansion /\ s \in Layout
        /\ Pushed(p.vcap, Len(p.filters))
    BY <1>2 DEF Descendant
  <2>4. s.total = Capacity(p)
    BY DEF LayoutOf
  <2>5. fill[p] = fill[q]
    BY <1>2 DEF Filling, FilledTurn, x
  <2>6. Capacity(p) \in Nat /\ Capacity(q) \in Nat
    BY <2>1, <2>2, FootprintTyped
  <2>. HIDE DEF q, s, t
  <2>7. t = NextLayout(s, startFp, tr, expansion)
    BY <2>2, <2>3
  <2>8. t \in Layout
    BY <2>3, <2>7, LayoutGrows
  <2>9. D(q)
    BY <2>2, <2>3, <2>8 DEF Descendant, t
  <2>10. loop[s].err = Ok => loop[s].capacity = Capacity(p) \/ loop[s] = loop[t]
    BY <2>3, <2>4, <2>7, UntargetedTurn
  <2>11. ASSUME ReachesLoop(fill, loop, q) PROVE ReachesLoop(fill, loop, p)
    <3>1. fill[q] \in Nat /\ Capacity(q) <= fill[q]
          /\ (loop[t].err = Ok => loop[t].capacity <= fill[q])
      BY <2>11 DEF ReachesLoop, t
    <3>2. Capacity(p) <= fill[p] /\ fill[p] \in Nat
      BY <2>2, <2>5, <2>6, <3>1
    <3>3. loop[s].err = Ok => loop[s].capacity <= fill[p]
      BY <2>5, <2>10, <3>1, <3>2
    <3>. QED BY <3>2, <3>3 DEF ReachesLoop, s
  <2>. QED BY <2>2, <2>9, <2>11 DEF q, x, Shaped
<1>3. ASSUME NEW p \in Shaped
      PROVE  /\ n(p) \in Nat
             /\ ~ Stops(p) => n(p) <= limit
  BY TurnAddsFilter
<1>. HIDE DEF D, n, Stops
<1>4. 0 \in T
  <2>1. ASSUME NEW p \in Shaped, D(p), n(p) + 0 > limit
        PROVE  ReachesLoop(fill, loop, p)
    <3>1. Stops(p)
      BY <1>3, <2>1
    <3>. QED BY <1>1, <2>1, <3>1
  <2>. QED BY <2>1
<1>5. ASSUME NEW k \in Nat, k \in T PROVE k + 1 \in T
  <2>1. ASSUME NEW p \in Shaped, D(p), n(p) + (k + 1) > limit
        PROVE  ReachesLoop(fill, loop, p)
    <3>1. CASE Stops(p)
      BY <1>1, <2>1, <3>1
    <3>2. CASE ~ Stops(p)
      <4> DEFINE q == FilledOut(p, TheItem)
      <4>1. /\ q \in Shaped /\ D(q) /\ n(q) = n(p) + 1
            /\ ReachesLoop(fill, loop, q) => ReachesLoop(fill, loop, p)
        BY <1>2, <2>1, <3>2 DEF n
      <4>. HIDE DEF q
      <4>2. n(q) + k > limit
        BY <1>3, <2>1, <4>1
      <4>3. ReachesLoop(fill, loop, q)
        BY <1>5, <4>1, <4>2
      <4>. QED BY <4>1, <4>3
    <3>. QED BY <3>1, <3>2
  <2>. QED BY <2>1
<1>6. limit + 1 \in T
  <2>. HIDE DEF T
  <2>. QED BY <1>4, <1>5, SetInduction
<1>7. n(o) + (limit + 1) > limit
  BY <1>3
<1>8. D(o)
  BY DEF D
<1>. QED BY <1>6, <1>7, <1>8

\* The projection of an object that only pushes made is reached by adding to it.
LEMMA ProjectedIsFilled ==
  ASSUME NEW o \in Object, WellFormed(o), o.expansion # 0, OnlyPushed(o),
         NEW limit \in Nat, limit < MaxFilters * FilterBytes,
         MaxScaledCapacity(o, limit).err = Ok
  PROVE  MaxScaledCapacity(o, limit).capacity <= FilledCapacity(o, limit)
<1> DEFINE start == StartLayout(o.filters[1].cap)
<1>1. o.fp \in Nat /\ o.tr \in Nat /\ o.expansion \in Nat \ {0} /\ o \in Shaped
  BY DEF Object, Shaped
<1>2. PICK fill : Filling(fill, limit) /\ \A q : FilledCapacity(q, limit) = fill[q]
  BY FillingTurns
<1>3. PICK loop : /\ Projecting(loop, o.fp, NoTarget, o.tr, o.expansion, limit)
                  /\ Project(o.filters[1].cap, o.fp, NoTarget, o.tr, o.expansion, limit)
                       = loop[start]
  <2>1. o.expansion \in Nat
    BY <1>1
  <2>. QED BY <1>1, <2>1, ProjectTurns
<1>4. MaxScaledCapacity(o, limit) = loop[start]
  BY <1>3 DEF MaxScaledCapacity
<1>5. FilledCapacity(o, limit) = fill[o]
  BY <1>2
<1>6. /\ LayoutOf(o) \in Layout
      /\ loop[start].capacity \in 0..Capacity(o) \/ loop[start] = loop[LayoutOf(o)]
  BY <1>3, <1>4, UntargetedStart
<1>7. Descendant(o, o.fp, o.tr, o.expansion)
  BY <1>6 DEF Descendant, OnlyPushed
<1>8. ReachesLoop(fill, loop, o)
  BY <1>1, <1>2, <1>3, <1>7, FillReachesLoop DEF Small
<1>9. Capacity(o) \in Nat
  BY FootprintTyped
<1>. HIDE DEF start
<1>10. loop[start].err = Ok
  BY <1>4
<1>11. CASE loop[start] = loop[LayoutOf(o)]
  BY <1>4, <1>5, <1>8, <1>10, <1>11 DEF ReachesLoop
<1>12. CASE loop[start].capacity \in 0..Capacity(o)
  BY <1>4, <1>5, <1>8, <1>9, <1>12 DEF ReachesLoop
<1>. QED BY <1>6, <1>11, <1>12

\* The MAXSCALEDCAPACITY that BF.INFO reports of an object is reached by adding to
\* it, where no Vec is smaller than pushing its filters made it.
THEOREM MaximumIsReached ==
  Spec /\ []LimitIsSmall /\ [](~ config.defrag) /\ [][LoadsNothing]_vars
    => []ProjectionIsReached
<1>1. IInv /\ LimitIsSmall /\ VecsOnlyPushed => ProjectionIsReached
  <2>1. ASSUME IInv, LimitIsSmall, VecsOnlyPushed, NEW k \in Objects,
               keys[k].expansion > 0, MaxScaledCapacity(keys[k], config.limit).err = Ok
        PROVE  MaxScaledCapacity(keys[k], config.limit).capacity
                 <= FilledCapacity(keys[k], config.limit)
    <3>1. keys[k] \in Object /\ WellFormed(keys[k]) /\ OnlyPushed(keys[k])
      BY <2>1, KeyFacts DEF Objects, VecsOnlyPushed
    <3>2. keys[k].expansion # 0
      BY <2>1, <3>1 DEF Object
    <3>3. config.limit \in Nat /\ config.limit < MaxFilters * FilterBytes
      BY <2>1 DEF IInv, TypeOK, Config, LimitIsSmall
    <3> DEFINE o == keys[k]
               limit == config.limit
    <3>. HIDE DEF o, limit
    <3>4. /\ o \in Object /\ WellFormed(o) /\ OnlyPushed(o) /\ o.expansion # 0
          /\ limit \in Nat /\ limit < MaxFilters * FilterBytes
          /\ MaxScaledCapacity(o, limit).err = Ok
      BY <2>1, <3>1, <3>2, <3>3 DEF o, limit
    <3>5. MaxScaledCapacity(o, limit).capacity <= FilledCapacity(o, limit)
      BY <3>4, ProjectedIsFilled
    <3>. QED BY <3>5 DEF o, limit
  <2>. QED BY <2>1 DEF ProjectionIsReached
<1>. QED BY <1>1, VecsStayPushed, Invariance, PTL

(*********************** objects that are read back ************************)

\* Every object can be read back under a limit of most; and a step that neither
\* defragments nor loads, at a limit of at most that, leaves it so.
AllRefit(most) == \A k \in Objects : Refits(keys[k], most)
AllRefitNext(most) == \A k \in Key : IsObject(keys'[k]) => Refits(keys'[k], most)
RefitStep(most) ==
  config.limit <= most /\ ~ config.defrag /\ LoadsNothing /\ AllRefit(most) => AllRefitNext(most)

LEMMA KeyRefits ==
  ASSUME IInv, NEW most, NEW k \in Key, NEW v, keys' = [keys EXCEPT ![k] = v],
         AllRefit(most) /\ IsObject(v) => Refits(v, most)
  PROVE  RefitStep(most)
<1>1. keys'[k] = v /\ \A j \in Key : j # k => keys'[j] = keys[j]
  BY DEF IInv, TypeOK
<1>. QED BY <1>1 DEF RefitStep, AllRefit, AllRefitNext, Objects

LEMMA ClientsRefit ==
  ASSUME IInv, NEW most \in Int, NEW c \in Commands, BfAdd(c) \/ BfInsert(c) \/ BfReserve(c)
  PROVE  RefitStep(most)
<1> DEFINE limit == config.limit
           obey == FALSE
           v == keys[c.key]
<1>1. /\ c \in CommandType /\ c.key \in Key /\ c.items \in Seq(Item) /\ metrics \in Counters
      /\ v \in Object \union {Absent, Foreign}
      /\ IsObject(v) => WellFormed(v)
      /\ \A rnd \in RandomSeeds : Properties(c, config, rnd) \in PropertyType
  BY ClientFacts
<1>2. config.limit \in Int
  BY DEF IInv, TypeOK, Config
<1>3. SUFFICES ASSUME config.limit <= most PROVE RefitStep(most)
  BY DEF RefitStep
<1>4. obey \in BOOLEAN /\ ~ obey
  OBVIOUS
<1>5. \/ BfAdd(c) /\ \E rnd \in RandomSeeds :
           Perform(c, BloomFilterAddValue(c, v, config, metrics, obey, rnd))
      \/ BfInsert(c) /\ \E rnd \in RandomSeeds :
           Perform(c, BloomFilterInsert(c, v, config, metrics, obey, rnd))
      \/ BfReserve(c) /\ \E rnd \in RandomSeeds :
           Perform(c, BloomFilterReserve(c, v, config, metrics, obey, rnd))
  BY DEF BfAdd, BfInsert, BfReserve
<1>. HIDE DEF obey, v
<1>6. \E out : Refitted(v, out, most) /\ Perform(c, out)
  <2>1. ASSUME NEW rnd \in RandomSeeds, BfAdd(c),
               Perform(c, BloomFilterAddValue(c, v, config, metrics, obey, rnd))
        PROVE  Refitted(v, BloomFilterAddValue(c, v, config, metrics, obey, rnd), most)
    <3>1. c.name = "BF.MADD" \/ Len(c.items) = 1
      BY <2>1, CommandAssumption DEF BfAdd
    <3>. QED BY <1>1, <1>2, <1>3, <1>4, <3>1, AddValueRefits
  <2>2. ASSUME NEW rnd \in RandomSeeds
        PROVE  Refitted(v, BloomFilterInsert(c, v, config, metrics, obey, rnd), most)
    BY <1>1, <1>2, <1>3, <1>4, InsertRefits
  <2>3. ASSUME NEW rnd \in RandomSeeds
        PROVE  Refitted(v, BloomFilterReserve(c, v, config, metrics, obey, rnd), most)
    BY <1>1, <1>2, <1>3, <1>4, ReserveRefits
  <2>. QED BY <1>5, <2>1, <2>2, <2>3
<1>7. PICK out : Refitted(v, out, most) /\ Perform(c, out)
  BY <1>6
<1>8. keys' = [keys EXCEPT ![c.key] = out.val]
  BY <1>7 DEF Perform
<1>9. AllRefit(most) /\ IsObject(out.val) => Refits(out.val, most)
  BY <1>1, <1>7 DEF Refitted, AllRefit, Objects, v
<1>. QED BY <1>1, <1>8, <1>9, KeyRefits

LEMMA QuietRefit ==
  ASSUME IInv, NEW most \in Int,
         \/ \E k \in Key : Overwrite(k, Absent) \/ Overwrite(k, Foreign) \/ Defrag(k)
         \/ \E change \in ConfigChanges : ConfigSet(change[1], change[2])
         \/ \E src, dst \in Key : BfLoad(src, dst) \/ Copy(src, dst)
  PROVE  RefitStep(most)
<1>1. ~ IsObject(Absent) /\ ~ IsObject(Foreign)
  BY NothingCounts
<1>2. ASSUME NEW k \in Key, NEW v \in {Absent, Foreign}, Overwrite(k, v) PROVE RefitStep(most)
  <2>1. keys' = [keys EXCEPT ![k] = v]
    BY <1>2 DEF Overwrite
  <2>. QED BY <1>1, <1>2, <2>1, KeyRefits
<1>3. ASSUME NEW k \in Key, Defrag(k) PROVE RefitStep(most)
  BY <1>3 DEF Defrag, RefitStep
<1>4. keys' = keys => RefitStep(most)
  BY DEF RefitStep, AllRefit, AllRefitNext, Objects
<1>5. ASSUME NEW change \in ConfigChanges, ConfigSet(change[1], change[2]) PROVE RefitStep(most)
  BY <1>4, <1>5 DEF ConfigSet
<1>6. ASSUME NEW src \in Key, NEW dst \in Key, BfLoad(src, dst) PROVE RefitStep(most)
  BY <1>4, <1>6 DEF RefitStep, LoadsNothing
<1>7. ASSUME NEW src \in Key, NEW dst \in Key, Copy(src, dst) PROVE RefitStep(most)
  <2>1. keys' = [keys EXCEPT ![dst] = keys[src]] /\ src \in Objects
    BY <1>7 DEF Copy, Objects
  <2>2. AllRefit(most) => Refits(keys[src], most)
    BY <2>1 DEF AllRefit
  <2>. QED BY <1>7, <2>1, <2>2, KeyRefits
<1>. QED BY <1>2, <1>3, <1>5, <1>6, <1>7

\* What can be read back under a limit can be under a higher one.
LEMMA RefitsMonotone ==
  ASSUME NEW o \in Object, NEW limit \in Int, NEW most \in Int, limit <= most, Refits(o, limit)
  PROVE  Refits(o, most)
<1>1. PICK w : Pushed(w, Max({1, Len(o.filters) - 1})) /\ ObjectSize(w) + FiltersSize(o) <= limit
  BY DEF Refits
<1>2. ObjectSize(w) \in Nat /\ FiltersSize(o) \in Nat
  <2>1. w \in Nat
    BY <1>1, PowersOfTwoGrow DEF Pushed
  <2>. QED BY <2>1, ObjectSizeIsNatural, FootprintTyped
<1>3. ObjectSize(w) + FiltersSize(o) <= most
  BY <1>1, <1>2
<1>. QED BY <1>1, <1>3 DEF Refits

\* Where neither defragmentation nor BF.LOAD makes a Vec smaller and the limit is
\* not lowered, every object can be read back under the limit.
ObjectsRefit == \A k \in Objects : Refits(keys[k], config.limit)

THEOREM ObjectsStayReadable ==
  Spec /\ [][config'.limit >= config.limit]_vars /\ [](~ config.defrag) /\ [][LoadsNothing]_vars
    => []ObjectsRefit
<1>1. Init => ObjectsRefit
  BY NothingCounts DEF Init, ObjectsRefit, Objects
<1> DEFINE Fixed == ~ config.defrag
           Raised == config'.limit >= config.limit
<1>2. ASSUME IInv, Fixed, ObjectsRefit, [Next]_vars, [Raised]_vars, [LoadsNothing]_vars
      PROVE  ObjectsRefit'
  <2>1. CASE UNCHANGED vars
    BY <1>2, <2>1 DEF vars, ObjectsRefit, Objects
  <2>2. CASE Next /\ Raised /\ LoadsNothing
    <3>1. config.limit \in Int /\ config'.limit \in Int /\ IInv'
      <4>1. IInv'
        BY <1>2, StepPreserves
      <4>. QED BY <1>2, <4>1 DEF IInv, TypeOK, Config
    <3>2. PICK most \in Int : most = config.limit
      BY <3>1
    <3>3. config.limit <= most /\ AllRefit(most)
      BY <1>2, <3>2 DEF ObjectsRefit, AllRefit
    <3>4. RefitStep(most)
      BY <1>2, <2>2, ClientsRefit, QuietRefit DEF Next
    <3>5. AllRefitNext(most)
      BY <1>2, <2>2, <3>3, <3>4 DEF RefitStep
    <3>6. ASSUME NEW k \in Key, IsObject(keys'[k]) PROVE Refits(keys'[k], config'.limit)
      <4>1. keys'[k] \in Object
        BY <3>1, <3>6 DEF IInv, TypeOK, IsObject
      <4>2. Refits(keys'[k], most)
        BY <3>5, <3>6 DEF AllRefitNext
      <4>. QED BY <2>2, <3>1, <3>2, <4>1, <4>2, RefitsMonotone
    <3>. QED BY <3>6 DEF ObjectsRefit, Objects
  <2>. QED BY <1>2, <2>1, <2>2
<1>. HIDE DEF Fixed, Raised
<1>3. Spec /\ [][Raised]_vars /\ []Fixed /\ [][LoadsNothing]_vars => []ObjectsRefit
  BY <1>1, <1>2, Invariance, PTL DEF Spec
<1>. QED BY <1>3 DEF Fixed, Raised

=============================================================================
