------------------------- MODULE BloomCommandsProofs -------------------------
(***************************************************************************)
(* Lemmas about the operators of BloomCommands: every write handler is     *)
(* Sound, that is, it leaves a well formed object, never takes anything    *)
(* away from one, and when it answers without an error every item of the   *)
(* command is found in the key.                                            *)
(***************************************************************************)
EXTENDS BloomCommands, BloomObjectProofs, FiniteSetTheorems

(*************************** a batch of adds *******************************)

\* The outcomes of an add.
AddErrors ==
  {Ok, "NonScalingFilterFull", "MaxNumScalingFilters", "FalsePositiveReachesZero",
   "BadCapacity", "ExceedsMaxBloomSize"}

\* What the turns of the multi-item loop pass on.
Turn == {s \in [obj : Object, metrics : Counters, err : AddErrors, ints : Seq({0, 1})] :
           WellFormed(s.obj)}

\* An add answers one of them.
LEMMA AddErrorTyped ==
  ASSUME NEW o, NEW validate, NEW limit
  PROVE  AddError(o, validate, limit) \in AddErrors
<1>1. ScaleOutError(o, validate, limit) \in AddErrors
  BY Zenon DEF ScaleOutError, AddErrors
<1>. QED BY <1>1, Zenon DEF AddError, AddErrors

\* One turn of the loop: the object grows, and unless an error stops the loop
\* an item that is new is found in it.
LEMMA AddTurnPreserves ==
  ASSUME NEW s \in Turn, NEW x \in Item, NEW new \in BOOLEAN, NEW validate, NEW limit
  PROVE  LET t == AddTurn(s, x, new, validate, limit)
         IN  /\ t \in Turn
             /\ Grown(s.obj, t.obj)
             /\ t.err = Ok => s.err = Ok
             /\ t.err = Ok /\ new => ItemExists(t.obj, x)
<1> DEFINE err == AddError(s.obj, validate, limit)
           t == AddTurn(s, x, new, validate, limit)
<1>1. /\ s.obj \in Object /\ WellFormed(s.obj) /\ s.metrics \in Counters
      /\ s.ints \in Seq({0, 1}) /\ s.err \in AddErrors
      /\ s = [obj |-> s.obj, metrics |-> s.metrics, err |-> s.err, ints |-> s.ints]
  BY DEF Turn
<1>2. Grown(s.obj, s.obj)
  BY <1>1, GrownReflexive
<1>3. CASE s.err # Ok
  <2>1. t = s
    BY <1>3 DEF AddTurn
  <2>. QED BY <1>2, <1>3, <2>1
<1>4. CASE s.err = Ok /\ ~ new
  <2>1. t = [s EXCEPT !.ints = Append(s.ints, 0)]
    BY <1>4 DEF AddTurn
  <2>2. Append(s.ints, 0) \in Seq({0, 1})
    BY <1>1
  <2>3. t.obj = s.obj /\ t.err = s.err /\ t \in Turn
    BY <1>1, <2>1, <2>2 DEF Turn
  <2>. HIDE DEF t
  <2>. QED BY <1>2, <1>4, <2>3 DEF t
<1>5. CASE s.err = Ok /\ new /\ err # Ok
  <2>1. t = [s EXCEPT !.err = err]
    BY <1>5 DEF AddTurn
  <2>2. err \in AddErrors
    BY AddErrorTyped
  <2>. HIDE DEF err
  <2>3. t.obj = s.obj /\ t.err = err /\ t \in Turn
    BY <1>1, <2>1, <2>2 DEF Turn
  <2>. HIDE DEF t
  <2>. QED BY <1>2, <1>5, <2>3 DEF t
<1>6. CASE s.err = Ok /\ new /\ err = Ok
  <2> DEFINE a == AddItemUnchecked(s.obj, x)
  <2>1. t = [obj |-> a, err |-> Ok, metrics |-> AddMetrics(s.metrics, s.obj, x),
             ints |-> Append(s.ints, 1)]
    BY <1>6 DEF AddTurn
  <2>2. a \in Object /\ WellFormed(a) /\ Grown(s.obj, a) /\ ItemExists(a, x)
    BY <1>1, <1>6, AddPreserves, AddGrows
  <2>3. AddMetrics(s.metrics, s.obj, x) \in Counters
    BY <1>1, <1>6, AddMetricsTyped
  <2>4. Append(s.ints, 1) \in Seq({0, 1}) /\ Ok \in AddErrors
    <3>1. Ok \in AddErrors
      BY DEF AddErrors
    <3>. QED BY <1>1, <3>1
  <2>. HIDE DEF a
  <2>5. t.obj = a /\ t.err = Ok /\ t \in Turn
    BY <2>1, <2>2, <2>3, <2>4 DEF Turn
  <2>. HIDE DEF t
  <2>. QED BY <1>6, <2>2, <2>5 DEF t
<1>. QED BY <1>3, <1>4, <1>5, <1>6

\* turn has what the turns of the loop over items leave, starting with s.
TurnsOf(s, items, validate, limit, turn) ==
  /\ turn \in [0..Len(items) -> Turn]
  /\ turn[0] = s
  /\ \A i \in 1..Len(items) :
       turn[i] = AddTurn(turn[i - 1], items[i], i \in NewItems(s.obj, items), validate, limit)

\* A batch of adds is such a sequence of turns, and ends with its last.
LEMMA AddTurnsSteps ==
  ASSUME NEW s \in Turn, NEW items \in Seq(Item), NEW validate, NEW limit
  PROVE  \E turn : /\ TurnsOf(s, items, validate, limit, turn)
                   /\ AddTurns(s, items, NewItems(s.obj, items), validate, limit)
                        = turn[Len(items)]
<1> DEFINE n == Len(items)
           new == NewItems(s.obj, items)
           step == [i \in 1..n |-> [u \in Turn |-> AddTurn(u, items[i], i \in new, validate, limit)]]
           R(g) == g = [i \in 0..n |->
                          IF i = 0 THEN s
                          ELSE AddTurn(g[i - 1], items[i], i \in new, validate, limit)]
<1>1. n \in Nat /\ (\A i \in 1..n : items[i] \in Item) /\ DOMAIN items = 1..n
  OBVIOUS
<1>1a. ASSUME NEW i \in 1..n, NEW u \in Turn
       PROVE  AddTurn(u, items[i], i \in new, validate, limit) \in Turn
  <2>1. items[i] \in Item /\ (i \in new) \in BOOLEAN
    BY <1>1
  <2>. HIDE DEF new
  <2>. QED BY <2>1, AddTurnPreserves
<1>2. step \in [1..n -> [Turn -> Turn]]
  <2>. HIDE DEF new
  <2>. QED BY <1>1a
<1>. HIDE DEF n, new
<1>3. PICK g \in [0..n -> Turn] : g[0] = s /\ \A i \in 1..n : g[i] = step[i][g[i - 1]]
  <2>. HIDE DEF step, R
  <2>1. Iterates(n, Turn, s, step)
    BY <1>1, <1>2, IterationExists
  <2>. QED BY <2>1 DEF Iterates
<1>4. R(g)
  <2>1. \A i \in 1..n : g[i - 1] \in Turn
    BY <1>1
  <2>2. \A i \in 1..n : g[i] = AddTurn(g[i - 1], items[i], i \in new, validate, limit)
    BY <1>3, <2>1
  <2>3. g = [i \in 0..n |-> g[i]]
    OBVIOUS
  <2>4. \A i \in 0..n : g[i] = IF i = 0 THEN s
                               ELSE AddTurn(g[i - 1], items[i], i \in new, validate, limit)
    BY <1>1, <1>3, <2>2
  <2>. QED BY <2>3, <2>4
<1> DEFINE turn == CHOOSE r : R(r)
<1>5. R(turn)
  BY <1>4
<1>6. AddTurns(s, items, new, validate, limit) = turn[n]
  BY DEF AddTurns, n
<1>. HIDE DEF turn
<1>7. /\ turn[0] = s
      /\ \A i \in 1..n : turn[i] = AddTurn(turn[i - 1], items[i], i \in new, validate, limit)
  BY <1>1, <1>5
<1> DEFINE T == {i \in Nat : i <= n => turn[i] \in Turn}
<1>8. 0 \in T
  BY <1>7
<1>9. ASSUME NEW i \in Nat, i \in T PROVE i + 1 \in T
  <2>1. SUFFICES ASSUME i + 1 <= n PROVE turn[i + 1] \in Turn
    OBVIOUS
  <2>2. i + 1 \in 1..n /\ (i + 1) - 1 = i /\ turn[i] \in Turn /\ items[i + 1] \in Item
    BY <1>1, <1>9, <2>1
  <2>. QED BY <1>7, <1>1a, <2>2
<1>10. Nat \subseteq T
  <2>. HIDE DEF T
  <2>. QED BY <1>8, <1>9, SetInduction
<1>11. \A i \in 0..n : turn[i] \in Turn
  BY <1>1, <1>10
<1>12. turn = [i \in 0..n |-> turn[i]]
  BY <1>5
<1>13. turn \in [0..n -> Turn]
  BY <1>11, <1>12
<1>. QED BY <1>6, <1>7, <1>13 DEF n, new, TurnsOf

\* A batch of adds: the object grows, and if no error stopped the loop every
\* item of the batch is found, new ones because a turn added them, the others
\* because the object held them or an earlier turn added them.
LEMMA AddTurnsPreserve ==
  ASSUME NEW s \in Turn, NEW items \in Seq(Item), NEW validate, NEW limit
  PROVE  LET t == AddTurns(s, items, NewItems(s.obj, items), validate, limit)
         IN  /\ t \in Turn
             /\ Grown(s.obj, t.obj)
             /\ t.err = Ok => \A j \in 1..Len(items) : ItemExists(t.obj, items[j])
<1> DEFINE n == Len(items)
           new == NewItems(s.obj, items)
<1>1. n \in Nat /\ (\A i \in 1..n : items[i] \in Item) /\ DOMAIN items = 1..n
  OBVIOUS
<1>1a. PICK turn : /\ TurnsOf(s, items, validate, limit, turn)
                  /\ AddTurns(s, items, new, validate, limit) = turn[n]
  BY AddTurnsSteps
<1>2. /\ turn \in [0..n -> Turn] /\ turn[0] = s
      /\ \A i \in 1..n : turn[i] = AddTurn(turn[i - 1], items[i], i \in new, validate, limit)
      /\ AddTurns(s, items, new, validate, limit) = turn[n]
  BY <1>1a DEF TurnsOf
<1>. HIDE DEF n, new
<1> DEFINE Done(i) == /\ turn[i] \in Turn
                      /\ Grown(s.obj, turn[i].obj)
                      /\ turn[i].err = Ok => \A j \in 1..i : ItemExists(turn[i].obj, items[j])
           T == {i \in Nat : i <= n => Done(i)}
<1>8. 0 \in T
  <2>1. Grown(s.obj, s.obj)
    BY GrownReflexive DEF Turn
  <2>2. \A j \in 1..0 : FALSE
    OBVIOUS
  <2>3. Done(0)
    BY <1>2, <2>1, <2>2
  <2>. HIDE DEF Done
  <2>. QED BY <2>3
<1>9. ASSUME NEW i \in Nat, i \in T PROVE i + 1 \in T
  <2>1. SUFFICES ASSUME i + 1 <= n PROVE Done(i + 1)
    <3>. HIDE DEF Done
    <3>. QED OBVIOUS
  <2> DEFINE u == turn[i]
             v == turn[i + 1]
             x == items[i + 1]
  <2>2. i + 1 \in 1..n /\ (i + 1) - 1 = i /\ Done(i)
    <3>. HIDE DEF Done
    <3>. QED BY <1>1, <1>9, <2>1
  <2>3. v = AddTurn(u, x, i + 1 \in new, validate, limit) /\ x \in Item
    BY <1>1, <1>2, <2>2
  <2>4. u \in Turn /\ Grown(s.obj, u.obj)
    BY <2>2
  <2>5. u.err = Ok => \A j \in 1..i : ItemExists(u.obj, items[j])
    BY <2>2
  <2>. HIDE DEF Done, u, v, x
  <2>6. /\ v \in Turn /\ Grown(u.obj, v.obj) /\ (v.err = Ok => u.err = Ok)
        /\ v.err = Ok /\ i + 1 \in new => ItemExists(v.obj, x)
    <3>1. (i + 1 \in new) \in BOOLEAN
      OBVIOUS
    <3>. QED BY <2>3, <2>4, <3>1, AddTurnPreserves
  <2>7. Grown(s.obj, v.obj)
    <3>1. s.obj \in Object /\ u.obj \in Object /\ v.obj \in Object
      BY <2>4, <2>6 DEF Turn
    <3>. QED BY <2>4, <2>6, <3>1, GrownTransitive
  <2>8. ASSUME v.err = Ok, NEW j \in 1..(i + 1) PROVE ItemExists(v.obj, items[j])
    <3>1. CASE j \in 1..i
      BY <2>5, <2>6, <2>8, <3>1, GrownKeepsItems
    <3>2. CASE j = i + 1 /\ i + 1 \in new
      BY <2>6, <2>8, <3>2 DEF x
    <3>3. CASE j = i + 1 /\ i + 1 \notin new
      <4>1. (\E k \in 1..i : items[k] = x) \/ ItemExists(s.obj, x)
        BY <1>1, <2>2, <3>3 DEF new, NewItems, x
      <4>2. CASE \E k \in 1..i : items[k] = x
        BY <2>5, <2>6, <2>8, <3>3, <4>2, GrownKeepsItems DEF x
      <4>3. CASE ItemExists(s.obj, x)
        BY <2>7, <3>3, <4>3, GrownKeepsItems DEF x
      <4>. QED BY <4>1, <4>2, <4>3
    <3>4. j \in 1..i \/ j = i + 1
      OBVIOUS
    <3>. QED BY <3>1, <3>2, <3>3, <3>4
  <2>. QED BY <2>6, <2>7, <2>8 DEF Done, v
<1>. HIDE DEF T, Done
<1>10. Done(n)
  <2>1. n \in T /\ n <= n
    BY <1>1, <1>8, <1>9, SetInduction
  <2>. QED BY <2>1 DEF T
<1>. QED BY <1>2, <1>10 DEF Done, n, new

(******************************* handlers **********************************)

\* What handle_bloom_add leaves: the object has grown, and if there was no error
\* every item of the command is found in it.
LEMMA HandleAddPreserves ==
  ASSUME NEW o \in Object, WellFormed(o), NEW m \in Counters, NEW items \in Seq(Item),
         NEW multi \in BOOLEAN, ~ multi => Len(items) = 1, NEW validate, NEW limit
  PROVE  LET h == HandleAdd(o, m, items, multi, validate, limit)
         IN  /\ h.obj \in Object /\ WellFormed(h.obj) /\ h.metrics \in Counters
             /\ Grown(o, h.obj)
             /\ h.err = Ok => \A j \in 1..Len(items) : ItemExists(h.obj, items[j])
<1> DEFINE start == [obj |-> o, metrics |-> m, err |-> Ok, ints |-> <<>>]
           new == NewItems(o, items)
           err == ValidateAddItems(o, Cardinality(new), limit)
           h == HandleAdd(o, m, items, multi, validate, limit)
<1>1. start \in Turn /\ start.obj = o
  <2>1. <<>> \in Seq({0, 1}) /\ Ok \in AddErrors
    BY DEF AddErrors
  <2>. QED BY <2>1 DEF Turn
<1>2. Grown(o, o)
  BY GrownReflexive
<1>3. CASE multi /\ err # Ok
  <2>1. h = [start EXCEPT !.err = err]
    BY <1>3 DEF HandleAdd
  <2>. HIDE DEF err, new
  <2>2. h.obj = o /\ h.metrics = m /\ h.err = err
    BY <2>1
  <2>. HIDE DEF h
  <2>. QED BY <1>2, <1>3, <2>2 DEF h
<1>4. CASE multi /\ err = Ok
  <2>1. h = AddTurns(start, items, new, validate, limit)
    BY <1>4 DEF HandleAdd
  <2>. HIDE DEF start, h, err
  <2>2. /\ h \in Turn /\ Grown(o, h.obj)
        /\ h.err = Ok => \A j \in 1..Len(items) : ItemExists(h.obj, items[j])
    BY <1>1, <2>1, AddTurnsPreserve
  <2>. QED BY <2>2 DEF Turn, h
<1>5. CASE ~ multi
  <2> DEFINE x == items[1]
             fresh == ~ ItemExists(o, x)
  <2>1. h = AddTurn(start, x, fresh, validate, limit)
    BY <1>5 DEF HandleAdd
  <2>2. Len(items) = 1 /\ x \in Item /\ fresh \in BOOLEAN
    BY <1>5
  <2>. HIDE DEF start, x, h
  <2>3. /\ h \in Turn /\ Grown(o, h.obj)
        /\ h.err = Ok /\ fresh => ItemExists(h.obj, x)
    <3>. HIDE DEF fresh
    <3>. QED BY <1>1, <2>1, <2>2, AddTurnPreserves
  <2>4. h.err = Ok => ItemExists(h.obj, x)
    BY <2>3, GrownKeepsItems
  <2>5. h.err = Ok => \A j \in 1..Len(items) : ItemExists(h.obj, items[j])
    BY <2>2, <2>4 DEF x
  <2>. QED BY <2>3, <2>5 DEF Turn, h
<1>. QED BY <1>3, <1>4, <1>5

\* What every write handler promises about the key it is given.
Sound(c, v, out) ==
  /\ out.val \in Object \union {Absent, Foreign}
  /\ out.metrics \in Counters
  /\ IsObject(out.val) => WellFormed(out.val)
  /\ IsObject(v) => IsObject(out.val) /\ Grown(v, out.val)
  /\ ~ IsObject(out.val) => out.reply.err # Ok
  /\ out.reply.err = Ok => \A x \in Range(c.items) : ItemExists(out.val, x)

\* The properties an object can be created with.
PropertyType ==
  {p \in [fp : Nat \ {0}, tr : Nat \ {0}, cap : 1..CapacityMax, expansion : Nat,
          seed : Seeds, seedRandom : BOOLEAN] :
     p.seedRandom <=> p.seed # FixedSeed}

\* The properties a command and the configuration ask for can be created.
LEMMA PropertiesTyped ==
  ASSUME NEW c \in CommandType, NEW cfg \in Config, NEW rnd \in Seeds \ {FixedSeed}
  PROVE  Properties(c, cfg, rnd) \in PropertyType
<1>1. Unset \notin Nat /\ Unset \notin Seeds /\ CapacityMax \in Nat
  BY ValueAssumption, SizeAssumption
<1>2. Given(c.fp, cfg.fp) \in Nat \ {0} /\ Given(c.tr, cfg.tr) \in Nat \ {0}
  BY <1>1 DEF CommandType, Config, Given
<1>3. Given(c.cap, cfg.cap) \in 1..CapacityMax
  BY <1>1 DEF CommandType, Config, Given
<1>4. Given(c.expansion, cfg.expansion) \in Nat
  BY <1>1 DEF CommandType, Config, Given
<1> DEFINE seed == Given(c.seed, IF cfg.randomSeed THEN rnd ELSE FixedSeed)
           random == IF c.seed = Unset THEN cfg.randomSeed ELSE c.seed # FixedSeed
<1>5. seed \in Seeds /\ random \in BOOLEAN /\ (random <=> seed # FixedSeed)
  <2>1. rnd \in Seeds /\ rnd # FixedSeed /\ FixedSeed \in Seeds
    BY SeedAssumption
  <2>2. cfg.randomSeed \in BOOLEAN /\ c.seed \in {Unset} \union Seeds
    BY DEF Config, CommandType
  <2>3. CASE c.seed = Unset
    BY <2>1, <2>2, <2>3 DEF Given
  <2>4. CASE c.seed # Unset
    BY <2>1, <2>2, <2>4 DEF Given
  <2>. QED BY <2>3, <2>4
<1>. HIDE DEF seed, random
<1>6. Properties(c, cfg, rnd)
        = [fp |-> Given(c.fp, cfg.fp), tr |-> Given(c.tr, cfg.tr),
           cap |-> Given(c.cap, cfg.cap), expansion |-> Given(c.expansion, cfg.expansion),
           seed |-> seed, seedRandom |-> random]
  BY DEF Properties, seed, random
<1>. QED BY <1>2, <1>3, <1>4, <1>5, <1>6 DEF PropertyType

\* The marks for an absent key and a foreign value are not objects.
LEMMA ObjectsAreValues ==
  \A o \in Object : IsObject(o)
BY ValueAssumption DEF IsObject

\* A refusal keeps the key and the counters.
LEMMA RejectedIsSound ==
  ASSUME NEW c, NEW v \in Object \union {Absent, Foreign}, IsObject(v) => WellFormed(v),
         NEW m \in Counters, NEW err, err # Ok
  PROVE  Sound(c, v, Rejected(v, m, err))
<1>1. IsObject(v) => Grown(v, v)
  BY GrownReflexive DEF IsObject
<1>2. /\ Rejected(v, m, err).val = v /\ Rejected(v, m, err).metrics = m
      /\ Rejected(v, m, err).reply.err = err
  BY DEF Rejected, Outcome
<1>. QED BY <1>1, <1>2 DEF Sound

\* A new object is well formed.
LEMMA NewReservedPreserves ==
  ASSUME NEW p \in PropertyType, NEW m \in Counters
  PROVE  /\ NewReserved(p) \in Object /\ WellFormed(NewReserved(p))
         /\ NewReservedMetrics(m, NewReserved(p)) \in Counters
<1> DEFINE f == NewFilter(p.fp, p.cap, p.seed)
           o == NewReserved(p)
<1>1. f \in Filter
  BY NewFilterTyped DEF PropertyType
<1>2. f.seed = p.seed /\ f.fp = p.fp /\ f.num = 0 /\ f.cap = p.cap
  BY DEF NewFilter
<1>3. o = [expansion |-> p.expansion, fp |-> p.fp, tr |-> p.tr,
           seedRandom |-> p.seedRandom, vcap |-> 1, filters |-> <<f>>]
  BY DEF NewReserved
<1>. HIDE DEF f
<1>4. <<f>> \in Seq(Filter) /\ Len(<<f>>) = 1 /\ <<f>>[1] = f
  BY <1>1
<1>5. o \in Object
  BY <1>3, <1>4 DEF Object, PropertyType
<1>6. WellFormed(o)
  <2>1. p.tr \in Nat /\ p.fp \in Nat /\ p.cap \in Nat /\ (p.seedRandom <=> p.seed # FixedSeed)
    BY SizeAssumption DEF PropertyType
  <2>2. /\ o.filters = <<f>> /\ o.fp = p.fp /\ o.tr = p.tr /\ o.vcap = 1
        /\ o.seedRandom = p.seedRandom
    BY <1>3
  <2>3. \A i \in 1..1 : i = 1 /\ ~ (i < 1) /\ (i - 1) * p.tr = 0
    BY <2>1
  <2>. HIDE DEF o
  <2>4. Len(o.filters) = 1 /\ o.filters[1] = f
    BY <1>4, <2>2
  <2>5. ASSUME NEW i \in 1..Len(o.filters)
        PROVE  /\ o.filters[i].seed = o.filters[1].seed
               /\ o.filters[i].fp = o.fp + (i - 1) * o.tr
               /\ o.filters[i].num <= o.filters[i].cap
               /\ ~ (i < Len(o.filters))
    <3>1. i = 1 /\ (i - 1) * p.tr = 0 /\ ~ (i < Len(o.filters))
      BY <2>3, <2>4
    <3>2. o.filters[i] = f
      BY <2>4, <3>1
    <3>3. o.fp + (i - 1) * o.tr = p.fp
      BY <2>1, <2>2, <3>1
    <3>4. f.num <= f.cap
      BY <1>2, <2>1
    <3>. QED BY <1>2, <2>4, <3>1, <3>2, <3>3, <3>4
  <2>6. o.seedRandom <=> o.filters[1].seed # FixedSeed
    BY <1>2, <2>1, <2>2, <2>4
  <2>7. Len(o.filters) > 0 /\ Len(o.filters) <= o.vcap
    BY <2>2, <2>4
  <2>. QED BY <2>4, <2>5, <2>6, <2>7 DEF WellFormed
<1>7. NewReservedMetrics(m, o) \in Counters
  <2>. HIDE DEF o
  <2>1. GainFilters(m, o) \in Counters
    BY <1>5, GainFiltersTyped
  <2>2. ObjectWeight(o) \in Weights
    <3>1. \E g \in Filter : TRUE
      BY <1>1
    <3>. QED BY <1>5, <3>1, WeightsAreTyped
  <2>. QED BY <2>1, <2>2, GainAndLose DEF NewReservedMetrics
<1>. QED BY <1>5, <1>6, <1>7

\* Adding to the object at the key.
LEMMA AddToExistingIsSound ==
  ASSUME NEW c, c.items \in Seq(Item), NEW o \in Object, WellFormed(o), NEW m \in Counters,
         NEW multi \in BOOLEAN, ~ multi => Len(c.items) = 1, NEW validate, NEW limit
  PROVE  Sound(c, o, AddToExisting(c, o, m, multi, validate, limit))
<1> DEFINE h == HandleAdd(o, m, c.items, multi, validate, limit)
           out == AddToExisting(c, o, m, multi, validate, limit)
<1>1. /\ h.obj \in Object /\ WellFormed(h.obj) /\ h.metrics \in Counters
      /\ Grown(o, h.obj)
      /\ h.err = Ok => \A j \in 1..Len(c.items) : ItemExists(h.obj, c.items[j])
  BY HandleAddPreserves
<1>2. out.val = h.obj /\ out.metrics = h.metrics /\ out.reply.err = h.err
  BY DEF AddToExisting, Outcome
<1>3. \A x \in Range(c.items) : \E j \in 1..Len(c.items) : x = c.items[j]
  BY DEF Range
<1>. HIDE DEF h, out
<1>. QED BY <1>1, <1>2, <1>3, ObjectsAreValues DEF Sound, out

\* Creating the object and adding to it.
LEMMA CreateAndAddIsSound ==
  ASSUME NEW c, c.items \in Seq(Item), NEW p \in PropertyType, NEW m \in Counters,
         NEW multi \in BOOLEAN, ~ multi => Len(c.items) = 1, NEW validate, NEW limit
  PROVE  Sound(c, Absent, CreateAndAdd(c, p, m, multi, validate, limit))
<1> DEFINE o == NewReserved(p)
           h == HandleAdd(o, NewReservedMetrics(m, o), c.items, multi, validate, limit)
           e == CreateError(p, validate, limit)
           out == CreateAndAdd(c, p, m, multi, validate, limit)
<1>1. CASE e # Ok
  <2>1. out = Rejected(Absent, m, e)
    BY <1>1 DEF CreateAndAdd
  <2>2. ~ IsObject(Absent)
    BY DEF IsObject
  <2>. QED BY <1>1, <2>1, <2>2, RejectedIsSound
<1>2. CASE e = Ok
  <2>1. o \in Object /\ WellFormed(o) /\ NewReservedMetrics(m, o) \in Counters
    BY NewReservedPreserves
  <2>2. out.val = h.obj /\ out.metrics = h.metrics /\ out.reply.err = h.err
    BY <1>2 DEF CreateAndAdd, Outcome
  <2>. HIDE DEF o
  <2>3. /\ h.obj \in Object /\ WellFormed(h.obj) /\ h.metrics \in Counters
        /\ h.err = Ok => \A j \in 1..Len(c.items) : ItemExists(h.obj, c.items[j])
    BY <2>1, HandleAddPreserves
  <2>4. \A x \in Range(c.items) : \E j \in 1..Len(c.items) : x = c.items[j]
    BY DEF Range
  <2>5. ~ IsObject(Absent)
    BY DEF IsObject
  <2>. HIDE DEF h, out
  <2>. QED BY <2>2, <2>3, <2>4, <2>5, ObjectsAreValues DEF Sound, out
<1>. QED BY <1>1, <1>2

\* The dump that AOF rewriting writes for an object is decoded to an object that
\* holds the same filters.
LEMMA DecodedPreserves ==
  ASSUME NEW o \in Object, WellFormed(o)
  PROVE  Decoded(o) \in Object /\ WellFormed(Decoded(o)) /\ Decoded(o).filters = o.filters
<1> DEFINE d == Decoded(o)
<1>1. Len(o.filters) \in Nat \ {0}
  BY LastFilter
<1>2. d = [o EXCEPT !.vcap = Len(o.filters)]
  BY DEF Decoded
<1>. HIDE DEF d
<1>3. /\ d \in Object /\ d.filters = o.filters /\ d.fp = o.fp /\ d.tr = o.tr
      /\ d.expansion = o.expansion /\ d.seedRandom = o.seedRandom /\ d.vcap = Len(o.filters)
  BY <1>1, <1>2 DEF Object
<1>4. WellFormed(d)
  <2>1. Len(o.filters) <= Len(o.filters)
    BY <1>1
  <2>. QED BY <1>3, <2>1 DEF WellFormed
<1>. QED BY <1>3, <1>4 DEF d

\* The BF.ADD and BF.MADD handler.
LEMMA AddValueIsSound ==
  ASSUME NEW c, c.items \in Seq(Item), c.name = "BF.MADD" \/ Len(c.items) = 1,
         NEW v \in Object \union {Absent, Foreign}, IsObject(v) => WellFormed(v),
         NEW cfg, NEW m \in Counters, NEW obey, NEW rnd,
         Properties(c, cfg, rnd) \in PropertyType
  PROVE  Sound(c, v, BloomFilterAddValue(c, v, cfg, m, obey, rnd))
<1> DEFINE multi == c.name = "BF.MADD"
<1>1. multi \in BOOLEAN /\ (~ multi => Len(c.items) = 1)
  OBVIOUS
<1>2. CASE v = Foreign
  <2>1. "WrongType" # Ok
    BY DEF Ok
  <2>. QED BY <1>2, <2>1, RejectedIsSound DEF BloomFilterAddValue
<1>3. CASE v # Foreign /\ IsObject(v)
  <2>1. BloomFilterAddValue(c, v, cfg, m, obey, rnd)
          = AddToExisting(c, v, m, multi, ~ obey, cfg.limit)
    BY <1>3 DEF BloomFilterAddValue
  <2>2. v \in Object
    BY <1>3 DEF IsObject
  <2>. HIDE DEF multi
  <2>. QED BY <1>1, <1>3, <2>1, <2>2, AddToExistingIsSound
<1>4. CASE v # Foreign /\ ~ IsObject(v)
  <2>1. BloomFilterAddValue(c, v, cfg, m, obey, rnd)
          = CreateAndAdd(c, Properties(c, cfg, rnd), m, multi, ~ obey, cfg.limit)
    BY <1>4 DEF BloomFilterAddValue
  <2>2. v = Absent
    BY <1>4 DEF IsObject
  <2>. HIDE DEF multi
  <2>. QED BY <1>1, <2>1, <2>2, CreateAndAddIsSound
<1>. QED BY <1>2, <1>3, <1>4

\* The BF.INSERT handler.
LEMMA InsertIsSound ==
  ASSUME NEW c, c.items \in Seq(Item),
         NEW v \in Object \union {Absent, Foreign}, IsObject(v) => WellFormed(v),
         NEW cfg, NEW m \in Counters, NEW obey, NEW rnd,
         Properties(c, cfg, rnd) \in PropertyType
  PROVE  Sound(c, v, BloomFilterInsert(c, v, cfg, m, obey, rnd))
<1> DEFINE p == Properties(c, cfg, rnd)
           err == ScaleToError(c, p, ~ obey, cfg.limit)
           out == BloomFilterInsert(c, v, cfg, m, obey, rnd)
<1>1. "WrongType" # Ok /\ "NotFound" # Ok
  BY DEF Ok
<1>2. CASE err # Ok
  <2>1. out = Rejected(v, m, err)
    BY <1>2 DEF BloomFilterInsert
  <2>. QED BY <1>2, <2>1, RejectedIsSound
<1>3. CASE err = Ok /\ v = Foreign
  <2>1. out = Rejected(v, m, "WrongType")
    BY <1>3 DEF BloomFilterInsert
  <2>. QED BY <1>1, <2>1, RejectedIsSound
<1>4. CASE err = Ok /\ v # Foreign /\ IsObject(v)
  <2>1. out = AddToExisting(c, v, m, TRUE, ~ obey, cfg.limit)
    BY <1>4 DEF BloomFilterInsert
  <2>2. v \in Object
    BY <1>4 DEF IsObject
  <2>. QED BY <1>4, <2>1, <2>2, AddToExistingIsSound
<1>5. CASE err = Ok /\ v # Foreign /\ ~ IsObject(v) /\ c.nocreate
  <2>1. out = Rejected(v, m, "NotFound")
    BY <1>5 DEF BloomFilterInsert
  <2>. QED BY <1>1, <2>1, RejectedIsSound
<1>6. CASE err = Ok /\ v # Foreign /\ ~ IsObject(v) /\ ~ c.nocreate
  <2>1. out = CreateAndAdd(c, p, m, TRUE, ~ obey, cfg.limit)
    BY <1>6 DEF BloomFilterInsert
  <2>2. v = Absent
    BY <1>6 DEF IsObject
  <2>. QED BY <2>1, <2>2, CreateAndAddIsSound
<1>. QED BY <1>2, <1>3, <1>4, <1>5, <1>6

\* The BF.RESERVE handler.
LEMMA ReserveIsSound ==
  ASSUME NEW c, c.items = <<>>,
         NEW v \in Object \union {Absent, Foreign}, IsObject(v) => WellFormed(v),
         NEW cfg, NEW m \in Counters, NEW obey, NEW rnd,
         Properties(c, cfg, rnd) \in PropertyType
  PROVE  Sound(c, v, BloomFilterReserve(c, v, cfg, m, obey, rnd))
<1> DEFINE o == NewReserved(Properties(c, cfg, rnd))
           e == CreateError(Properties(c, cfg, rnd), ~ obey, cfg.limit)
           out == BloomFilterReserve(c, v, cfg, m, obey, rnd)
<1>1. "WrongType" # Ok /\ "ItemExists" # Ok
  BY DEF Ok
<1>2. CASE v = Foreign
  <2>1. out = Rejected(v, m, "WrongType")
    BY <1>2 DEF BloomFilterReserve
  <2>. QED BY <1>1, <2>1, RejectedIsSound
<1>3. CASE v # Foreign /\ IsObject(v)
  <2>1. out = Rejected(v, m, "ItemExists")
    BY <1>3 DEF BloomFilterReserve
  <2>. QED BY <1>1, <2>1, RejectedIsSound
<1>4. CASE v # Foreign /\ ~ IsObject(v) /\ e # Ok
  <2>1. out = Rejected(v, m, e)
    BY <1>4 DEF BloomFilterReserve
  <2>. QED BY <1>4, <2>1, RejectedIsSound
<1>5. CASE v # Foreign /\ ~ IsObject(v) /\ e = Ok
  <2>1. out.val = o /\ out.metrics = NewReservedMetrics(m, o)
    BY <1>5 DEF BloomFilterReserve, Outcome
  <2>2. o \in Object /\ WellFormed(o) /\ NewReservedMetrics(m, o) \in Counters
    BY NewReservedPreserves
  <2>3. \A x \in Range(c.items) : FALSE
    BY DEF Range
  <2>. HIDE DEF o, out
  <2>. QED BY <1>5, <2>1, <2>2, <2>3, ObjectsAreValues DEF Sound, out
<1>. QED BY <1>2, <1>3, <1>4, <1>5

\* The BF.LOAD handler, which besides puts exactly the filters of the dump at
\* the key.
LEMMA LoadIsSound ==
  ASSUME NEW c, c.items = <<>>, c.dump \in Object, WellFormed(c.dump),
         NEW v \in Object \union {Absent, Foreign}, IsObject(v) => WellFormed(v),
         NEW cfg, NEW m \in Counters, NEW obey
  PROVE  LET out == BloomFilterLoad(c, v, cfg, m, obey)
         IN  /\ Sound(c, v, out)
             /\ out.reply.err = Ok => out.val.filters = c.dump.filters
<1> DEFINE o == Decoded(c.dump)
           counted == Gain(GainFilters(m, o), ObjectWeight(o))
           out == BloomFilterLoad(c, v, cfg, m, obey)
<1>1. "WrongType" # Ok /\ "KeyExists" # Ok /\ "ExceedsMaxBloomSize" # Ok
  BY DEF Ok
<1>2. ASSUME NEW err, err # Ok, NEW k \in Counters, out = Rejected(v, k, err)
      PROVE  Sound(c, v, out) /\ out.reply.err # Ok
  BY <1>2, RejectedIsSound DEF Rejected, Outcome
<1>3. o \in Object /\ WellFormed(o) /\ o.filters = c.dump.filters
  BY DecodedPreserves
<1>4. /\ counted \in Counters /\ DropObject(counted, o) \in Counters
      /\ LoseFilters(m, o) \in Counters
  <2>. HIDE DEF o
  <2>1. ObjectWeight(o) \in Weights
    <3>1. \E g \in Filter : TRUE
      BY <1>3, LastFilter
    <3>. QED BY <1>3, <3>1, WeightsAreTyped
  <2>2. counted \in Counters
    BY <1>3, <2>1, GainFiltersTyped, GainAndLose
  <2>. HIDE DEF counted
  <2>. QED BY <1>3, <2>1, <2>2, LoseFiltersTyped, GainAndLose DEF DropObject
<1>. HIDE DEF o
<1>5. CASE v = Foreign
  <2>1. out = Rejected(v, m, "WrongType")
    BY <1>5 DEF BloomFilterLoad
  <2>. QED BY <1>1, <1>2, <2>1
<1>6. CASE v # Foreign /\ IsObject(v)
  <2>1. out = Rejected(v, m, "KeyExists")
    BY <1>6 DEF BloomFilterLoad
  <2>. QED BY <1>1, <1>2, <2>1
<1>7. CASE v # Foreign /\ ~ IsObject(v)
  <2>1. \/ DecodeError(o) # Ok /\ out = Rejected(v, LoseFilters(m, o), DecodeError(o))
        \/ out = Rejected(v, DropObject(counted, o), "ExceedsMaxBloomSize")
        \/ /\ out.val = o /\ out.metrics = counted /\ out.reply.err = Ok
    BY <1>7 DEF BloomFilterLoad, Outcome, o
  <2>2. CASE DecodeError(o) # Ok /\ out = Rejected(v, LoseFilters(m, o), DecodeError(o))
    BY <1>2, <1>4, <2>2
  <2>3. CASE out = Rejected(v, DropObject(counted, o), "ExceedsMaxBloomSize")
    BY <1>1, <1>2, <1>4, <2>3
  <2>4. CASE out.val = o /\ out.metrics = counted /\ out.reply.err = Ok
    <3>1. \A x \in Range(c.items) : FALSE
      BY DEF Range
    <3>2. Sound(c, v, out) /\ out.val.filters = c.dump.filters
      <4>. HIDE DEF out, counted
      <4>. QED BY <1>3, <1>4, <1>7, <2>4, <3>1, ObjectsAreValues DEF Sound
    <3>. QED BY <3>2 DEF out
  <2>. QED BY <2>1, <2>2, <2>3, <2>4
<1>. QED BY <1>5, <1>6, <1>7

(***************************************************************************)
(* Lemmas about the books a write handler of BloomCommands keeps: the      *)
(* counters move by what the value under the key changed by, the integers  *)
(* of a reply count the items that went in, commands are propagated and    *)
(* events published for changes only, and an object that may not exceed    *)
(* the memory limit does not.                                              *)
(***************************************************************************)

(***************************** one object **********************************)

\* The memory of o is within limit, the slots of the last push set aside.
Within(o, limit) ==
  ObjectSize(Max({1, Len(o.filters) - 1})) + FiltersSize(o) <= limit

\* A Vec with more slots takes no less memory.
LEMMA ObjectSizeGrows ==
  ASSUME NEW a \in Nat, NEW b \in Nat, a <= b
  PROVE  ObjectSize(a) <= ObjectSize(b)
<1>1. ObjectBytes \in Nat /\ BoxBytes \in Nat
  BY SizeAssumption
<1>2. a * BoxBytes <= b * BoxBytes /\ a * BoxBytes \in Nat /\ b * BoxBytes \in Nat
  BY <1>1
<1>. QED BY <1>1, <1>2 DEF ObjectSize

\* The slots that Within charges for are there.
LEMMA SlotsAreThere ==
  ASSUME NEW n \in Nat \ {0}, NEW vcap \in Nat, n <= vcap
  PROVE  /\ Max({1, n - 1}) \in Nat /\ Max({1, (n + 1) - 1}) \in Nat
         /\ ObjectSize(Max({1, n - 1})) <= ObjectSize(vcap)
         /\ ObjectSize(Max({1, (n + 1) - 1})) <= ObjectSize(vcap)
<1>1. ASSUME NEW k \in Nat, k <= vcap
      PROVE  Max({1, k}) \in Nat /\ Max({1, k}) <= vcap
  <2>1. \E x \in {1, k} : \A y \in {1, k} : x >= y
    BY <1>1
  <2>2. Max({1, k}) \in {1, k}
    BY <2>1 DEF Max
  <2>. QED BY <1>1, <2>2
<1>2. n - 1 \in Nat /\ n - 1 <= vcap /\ (n + 1) - 1 \in Nat /\ (n + 1) - 1 <= vcap
  OBVIOUS
<1>. QED BY <1>1, <1>2, ObjectSizeGrows

\* An object whose memory is within the limit is so with fewer slots.
LEMMA WithinByUsage ==
  ASSUME NEW o \in Object, WellFormed(o), NEW limit \in Int, MemoryUsage(o) <= limit
  PROVE  Within(o, limit)
<1>1. /\ Len(o.filters) \in Nat \ {0} /\ Len(o.filters) <= o.vcap /\ o.vcap \in Nat
  BY LastFilter DEF WellFormed, Object
<1>2. /\ ObjectSize(Max({1, Len(o.filters) - 1})) <= ObjectSize(o.vcap)
      /\ ObjectSize(Max({1, Len(o.filters) - 1})) \in Nat
  BY <1>1, SlotsAreThere, ObjectSizeIsNatural
<1>. QED BY <1>2, FootprintTyped DEF Within, MemoryUsage

\* What is within a limit is within a higher one.
LEMMA WithinMonotone ==
  ASSUME NEW o \in Object, WellFormed(o), NEW limit \in Int, NEW most \in Int,
         limit <= most, Within(o, limit)
  PROVE  Within(o, most)
<1>1. /\ Len(o.filters) \in Nat \ {0} /\ Len(o.filters) <= o.vcap /\ o.vcap \in Nat
  BY LastFilter DEF WellFormed, Object
<1>2. ObjectSize(Max({1, Len(o.filters) - 1})) \in Nat
  BY <1>1, SlotsAreThere, ObjectSizeIsNatural
<1>. QED BY <1>2, FootprintTyped DEF Within

\* A validated add keeps an object within any limit that is not below the one it
\* was validated with.
LEMMA AddStaysWithin ==
  ASSUME NEW o \in Object, WellFormed(o), NEW x \in Item,
         NEW limit \in Int, NEW most \in Int, limit <= most,
         AddError(o, TRUE, limit) = Ok, Within(o, most)
  PROVE  Within(AddItemUnchecked(o, x), most)
<1> DEFINE n == Len(o.filters)
           a == AddItemUnchecked(o, x)
<1>1. n \in Nat \ {0} /\ n <= o.vcap /\ o.vcap \in Nat
  BY LastFilter DEF WellFormed, Object
<1>2. CASE ~ Full(Last(o.filters))
  <2>1. Len(a.filters) = n /\ FiltersSize(a) = FiltersSize(o)
    BY <1>2, AddToLastFootprint DEF AddItemUnchecked
  <2>. QED BY <2>1 DEF Within
<1>3. CASE Full(Last(o.filters))
  <2> DEFINE size == FilterSize(NextCapacity(o), NextFp(o))
  <2>1. o.expansion # 0 /\ NextCapacity(o) <= CapacityMax
    BY <1>3, ScaleOutAllowed
  <2>2. Len(a.filters) = n + 1 /\ FiltersSize(a) = FiltersSize(o) + size
    BY <1>3, <2>1, ScaledOutFootprint DEF AddItemUnchecked
  <2>3. size \in Nat
    <3>1. NextCapacity(o) \in 1..CapacityMax /\ NextFp(o) \in Nat \ {0}
      BY <2>1, NextFilter
    <3>. QED BY <3>1, SizeAssumption, SizesAreNatural
  <2>4. ~ (MemoryUsage(o) + size > limit)
    <3>1. ScaleOutError(o, TRUE, limit) = Ok
      BY <1>3 DEF AddError
    <3>. QED BY <3>1 DEF ScaleOutError, Ok
  <2>. HIDE DEF size, a
  <2>5. /\ ObjectSize(Max({1, (n + 1) - 1})) <= ObjectSize(o.vcap)
        /\ ObjectSize(Max({1, (n + 1) - 1})) \in Nat
    BY <1>1, SlotsAreThere, ObjectSizeIsNatural
  <2>. QED BY <2>2, <2>3, <2>4, <2>5, FootprintTyped DEF Within, MemoryUsage, n, a
<1>. QED BY <1>2, <1>3

\* The Vec of o is what pushes make it; with the Vec that o had when its last
\* filter was pushed, which reading o back meets again, o is within limit; and
\* the rate that scaling out got to is above zero.
OnlyPushed(o) == Pushed(o.vcap, Len(o.filters))
Refits(o, limit) ==
  /\ OnlyPushed(o)
  /\ \E w : Pushed(w, Max({1, Len(o.filters) - 1})) /\ ObjectSize(w) + FiltersSize(o) <= limit
  /\ Len(o.filters) > 1 => ~ FpReachesZero(FpRate(o.fp, Len(o.filters) - 1, o.tr))

\* A validated add leaves an object that can be read back, if it found one.
LEMMA AddStillRefits ==
  ASSUME NEW o \in Object, WellFormed(o), NEW x \in Item,
         NEW limit \in Int, NEW most \in Int, limit <= most,
         AddError(o, TRUE, limit) = Ok, Refits(o, most)
  PROVE  Refits(AddItemUnchecked(o, x), most)
<1> DEFINE n == Len(o.filters)
           a == AddItemUnchecked(o, x)
<1>1. n \in Nat \ {0} /\ n <= o.vcap /\ o.vcap \in Nat
  BY LastFilter DEF WellFormed, Object
<1>2. CASE ~ Full(Last(o.filters))
  <2>1. Len(a.filters) = n /\ FiltersSize(a) = FiltersSize(o) /\ a.vcap = o.vcap
    BY <1>2, AddToLastFootprint DEF AddItemUnchecked
  <2>2. a.fp = o.fp /\ a.tr = o.tr
    BY <1>2 DEF AddItemUnchecked, AddToLast, Object
  <2>. HIDE DEF a
  <2>3. Refits(a, most)
    BY <2>1, <2>2 DEF Refits, OnlyPushed
  <2>. QED BY <2>3 DEF a
<1>3. CASE Full(Last(o.filters))
  <2> DEFINE size == FilterSize(NextCapacity(o), NextFp(o))
             v == o.vcap
  <2>1. o.expansion # 0 /\ NextCapacity(o) <= CapacityMax
    BY <1>3, ScaleOutAllowed
  <2>2. /\ Len(a.filters) = n + 1 /\ FiltersSize(a) = FiltersSize(o) + size
        /\ a.vcap = PushedVec(o)
    BY <1>3, <2>1, ScaledOutFootprint DEF AddItemUnchecked
  <2>3. size \in Nat
    <3>1. NextCapacity(o) \in 1..CapacityMax /\ NextFp(o) \in Nat \ {0}
      BY <2>1, NextFilter
    <3>. QED BY <3>1, SizeAssumption, SizesAreNatural
  <2>4. ~ (MemoryUsage(o) + size > limit) /\ ~ FpReachesZero(FpRate(o.fp, n, o.tr))
    <3>1. ScaleOutError(o, TRUE, limit) = Ok
      BY <1>3 DEF AddError
    <3>. QED BY <3>1 DEF ScaleOutError, NextFp, Ok
  <2>5. a.fp = o.fp /\ a.tr = o.tr
    BY <1>3 DEF AddItemUnchecked, ScaledOut, Object
  <2>6. Pushed(v, n) /\ PushedVec(o) = IF n < v THEN v ELSE Max({2 * v, 4})
    BY DEF Refits, OnlyPushed, PushedVec
  <2>7. /\ MemoryUsage(o) = ObjectSize(v) + FiltersSize(o)
        /\ ObjectSize(v) \in Nat /\ FiltersSize(o) \in Nat
    BY FootprintTyped DEF MemoryUsage
  <2>. HIDE DEF size, a, v, n
  <2>8. Pushed(a.vcap, n + 1)
    BY <1>1, <2>2, <2>6, PushedOnce
  <2>9. Max({1, (n + 1) - 1}) = n
    BY <1>1 DEF Max
  <2>10. ObjectSize(v) + (FiltersSize(o) + size) <= most
    BY <2>3, <2>4, <2>7
  <2>11. Refits(a, most)
    <3>1. (n + 1) - 1 = n
      BY <1>1
    <3>. QED BY <2>5, <2>2, <2>4, <2>6, <2>8, <2>9, <2>10, <3>1 DEF Refits, OnlyPushed
  <2>. QED BY <2>11 DEF a
<1>. QED BY <1>2, <1>3

(*************************** a batch of adds *******************************)

\* The places of a reply that say "added".
Ones(ints) == {i \in DOMAIN ints : ints[i] = 1}

\* They are finitely many, and appending to the reply adds at most one.
LEMMA OnesOfAppend ==
  ASSUME NEW s \in Seq({0, 1})
  PROVE  /\ IsFiniteSet(Ones(s)) /\ Cardinality(Ones(s)) \in Nat
         /\ Ones(Append(s, 0)) = Ones(s)
         /\ Cardinality(Ones(Append(s, 1))) = Cardinality(Ones(s)) + 1
         /\ Ones(Append(s, 1)) # {}
<1> DEFINE n == Len(s)
<1>1. n \in Nat /\ DOMAIN s = 1..n
  OBVIOUS
<1>2. Ones(s) \in SUBSET (1..n)
  BY <1>1 DEF Ones
<1>3. IsFiniteSet(Ones(s)) /\ Cardinality(Ones(s)) \in Nat
  <2>1. IsFiniteSet(1..n)
    BY <1>1, FS_Interval
  <2>. QED BY <1>2, <2>1, FS_Subset, FS_CardinalityType
<1>4. ASSUME NEW b \in {0, 1}
      PROVE  /\ DOMAIN Append(s, b) = 1..(n + 1) /\ Append(s, b)[n + 1] = b
             /\ \A i \in 1..n : Append(s, b)[i] = s[i]
  <2>1. Append(s, b) \in Seq({0, 1}) /\ Len(Append(s, b)) = n + 1
    OBVIOUS
  <2>. QED BY <1>1, <2>1
<1>5. n + 1 \notin 1..n /\ n + 1 \in 1..(n + 1) /\ \A i \in 1..(n + 1) : i \in 1..n \/ i = n + 1
  BY <1>1
<1>6. \A i \in 1..n : i \in 1..(n + 1)
  BY <1>1
<1>7. Ones(Append(s, 0)) = Ones(s)
  <2>1. 0 # 1 /\ 0 \in {0, 1}
    OBVIOUS
  <2>. QED BY <1>1, <1>4, <1>5, <1>6, <2>1 DEF Ones
<1>8. Ones(Append(s, 1)) = Ones(s) \union {n + 1}
  BY <1>1, <1>4, <1>5, <1>6 DEF Ones
<1>9. n + 1 \notin Ones(s)
  BY <1>2, <1>5
<1>10. Cardinality(Ones(s) \union {n + 1}) = Cardinality(Ones(s)) + 1
  BY <1>3, <1>9, FS_AddElement
<1>. QED BY <1>3, <1>7, <1>8, <1>10

\* Between s and t the counters moved by what the object grew by, and the items
\* that went in are those the reply says were added.  Nothing moves unless one
\* was, and with validate the object stays within limit if most is not above it.
Accounted(s, t, validate, limit, most) ==
  /\ Tracks(s.metrics, Growth(s.obj, t.obj), t.metrics)
  /\ NumItems(t.obj) + Cardinality(Ones(s.ints)) = NumItems(s.obj) + Cardinality(Ones(t.ints))
  /\ Ones(t.ints) = {} => t.obj = s.obj /\ t.metrics = s.metrics /\ Ones(s.ints) = {}
  /\ validate /\ limit <= most /\ Within(s.obj, most) => Within(t.obj, most)
  /\ validate /\ limit <= most /\ Refits(s.obj, most) => Refits(t.obj, most)

\* What a turn is made of.
LEMMA TurnFields ==
  ASSUME NEW s \in Turn
  PROVE  /\ s.obj \in Object /\ WellFormed(s.obj) /\ s.metrics \in Counters
         /\ s.ints \in Seq({0, 1}) /\ s.err \in AddErrors
         /\ s = [obj |-> s.obj, metrics |-> s.metrics, err |-> s.err, ints |-> s.ints]
         /\ NumItems(s.obj) \in Nat /\ Cardinality(Ones(s.ints)) \in Nat
BY FootprintTyped, OnesOfAppend DEF Turn

\* Accounts of a turn that changes neither the object nor the counters.
LEMMA AccountedSame ==
  ASSUME NEW s \in Turn, NEW t \in Turn, t.obj = s.obj, t.metrics = s.metrics,
         Ones(t.ints) = Ones(s.ints), NEW validate, NEW limit, NEW most
  PROVE  Accounted(s, t, validate, limit, most)
<1>1. /\ s.obj \in Object /\ s.metrics \in Counters
      /\ Growth(s.obj, s.obj) \in Weights
  BY TurnFields, GrowthTyped
<1>2. \A c \in Names : Footprint(s.obj)[c] \in Int
  BY <1>1, FootprintTyped DEF Weights
<1>3. \A c \in Names : Growth(s.obj, s.obj)[c] = 0
  BY <1>2 DEF Growth
<1>4. Tracks(s.metrics, Growth(s.obj, s.obj), s.metrics)
  BY <1>1, <1>3, TracksEqual
<1>. QED BY <1>4 DEF Accounted

\* Accounts add up.
LEMMA AccountedChain ==
  ASSUME NEW s \in Turn, NEW t \in Turn, NEW u \in Turn,
         NEW validate, NEW limit, NEW most,
         Accounted(s, t, validate, limit, most), Accounted(t, u, validate, limit, most)
  PROVE  Accounted(s, u, validate, limit, most)
<1>1. /\ s.obj \in Object /\ t.obj \in Object /\ u.obj \in Object
      /\ s.metrics \in Counters /\ t.metrics \in Counters /\ u.metrics \in Counters
      /\ NumItems(s.obj) \in Nat /\ NumItems(t.obj) \in Nat /\ NumItems(u.obj) \in Nat
      /\ Cardinality(Ones(s.ints)) \in Nat /\ Cardinality(Ones(t.ints)) \in Nat
      /\ Cardinality(Ones(u.ints)) \in Nat
  BY TurnFields
<1>2. Tracks(s.metrics, Growth(s.obj, u.obj), u.metrics)
  <2>1. /\ Growth(s.obj, t.obj) \in Weights /\ Growth(t.obj, u.obj) \in Weights
        /\ Growth(s.obj, u.obj) \in Weights
    BY <1>1, GrowthTyped
  <2>2. \A c \in Names : /\ Footprint(s.obj)[c] \in Int /\ Footprint(t.obj)[c] \in Int
                         /\ Footprint(u.obj)[c] \in Int
    BY <1>1, FootprintTyped DEF Weights
  <2>3. \A c \in Names :
          Growth(s.obj, u.obj)[c] = Growth(s.obj, t.obj)[c] + Growth(t.obj, u.obj)[c]
    BY <2>2 DEF Growth
  <2>. QED BY <1>1, <2>1, <2>3, TracksChain DEF Accounted
<1>3. /\ NumItems(t.obj) + Cardinality(Ones(s.ints))
           = NumItems(s.obj) + Cardinality(Ones(t.ints))
      /\ NumItems(u.obj) + Cardinality(Ones(t.ints))
           = NumItems(t.obj) + Cardinality(Ones(u.ints))
  BY DEF Accounted
<1>4. NumItems(u.obj) + Cardinality(Ones(s.ints)) = NumItems(s.obj) + Cardinality(Ones(u.ints))
  BY <1>1, <1>3
<1>. QED BY <1>2, <1>4 DEF Accounted

\* One turn of the loop keeps the accounts.
LEMMA AddTurnAccounts ==
  ASSUME NEW s \in Turn, NEW x \in Item, NEW new \in BOOLEAN,
         NEW validate \in BOOLEAN, NEW limit \in Int, NEW most \in Int
  PROVE  Accounted(s, AddTurn(s, x, new, validate, limit), validate, limit, most)
<1> DEFINE err == AddError(s.obj, validate, limit)
           t == AddTurn(s, x, new, validate, limit)
<1>1. /\ s.obj \in Object /\ WellFormed(s.obj) /\ s.metrics \in Counters
      /\ s.ints \in Seq({0, 1}) /\ t \in Turn
      /\ s = [obj |-> s.obj, metrics |-> s.metrics, err |-> s.err, ints |-> s.ints]
  BY TurnFields, AddTurnPreserves
<1>2. CASE s.err # Ok \/ ~ new \/ err # Ok
  <2>1. \/ t = s
        \/ t = [s EXCEPT !.ints = Append(s.ints, 0)]
        \/ t = [s EXCEPT !.err = err]
    BY <1>2 DEF AddTurn
  <2>. HIDE DEF t, err
  <2>2. t.obj = s.obj /\ t.metrics = s.metrics /\ (t.ints = s.ints \/ t.ints = Append(s.ints, 0))
    BY <1>1, <2>1
  <2>3. Ones(t.ints) = Ones(s.ints)
    BY <1>1, <2>2, OnesOfAppend
  <2>. QED BY <1>1, <2>2, <2>3, AccountedSame DEF t
<1>3. CASE s.err = Ok /\ new /\ err = Ok
  <2> DEFINE a == AddItemUnchecked(s.obj, x)
  <2>1. t = [obj |-> a, err |-> Ok, metrics |-> AddMetrics(s.metrics, s.obj, x),
             ints |-> Append(s.ints, 1)]
    BY <1>3 DEF AddTurn
  <2>2. /\ t.obj = a /\ t.metrics = AddMetrics(s.metrics, s.obj, x)
        /\ t.ints = Append(s.ints, 1)
    BY <2>1
  <2>3. NumItems(a) = NumItems(s.obj) + 1 /\ NumItems(s.obj) \in Nat
    BY <1>1, <1>3, AddCounts, FootprintTyped
  <2>4. Tracks(s.metrics, Growth(s.obj, a), AddMetrics(s.metrics, s.obj, x))
    BY <1>1, <1>3, AddTracks
  <2>5. /\ Cardinality(Ones(t.ints)) = Cardinality(Ones(s.ints)) + 1
        /\ Ones(t.ints) # {} /\ Cardinality(Ones(s.ints)) \in Nat
    BY <1>1, <2>2, OnesOfAppend
  <2>6. validate /\ limit <= most /\ Within(s.obj, most) => Within(a, most)
    <3>1. ASSUME validate, limit <= most, Within(s.obj, most) PROVE Within(a, most)
      <4>1. AddError(s.obj, TRUE, limit) = Ok
        BY <1>3, <3>1
      <4>. QED BY <1>1, <3>1, <4>1, AddStaysWithin
    <3>. QED BY <3>1
  <2>7. validate /\ limit <= most /\ Refits(s.obj, most) => Refits(a, most)
    <3>1. ASSUME validate, limit <= most, Refits(s.obj, most) PROVE Refits(a, most)
      <4>1. AddError(s.obj, TRUE, limit) = Ok
        BY <1>3, <3>1
      <4>. QED BY <1>1, <3>1, <4>1, AddStillRefits
    <3>. QED BY <3>1
  <2>. HIDE DEF t, a
  <2>8. NumItems(t.obj) + Cardinality(Ones(s.ints)) = NumItems(s.obj) + Cardinality(Ones(t.ints))
    BY <2>2, <2>3, <2>5
  <2>. QED BY <2>2, <2>4, <2>5, <2>6, <2>7, <2>8 DEF Accounted, t
<1>. QED BY <1>2, <1>3

\* So does a batch.
LEMMA AddTurnsAccount ==
  ASSUME NEW s \in Turn, NEW items \in Seq(Item),
         NEW validate \in BOOLEAN, NEW limit \in Int, NEW most \in Int
  PROVE  LET t == AddTurns(s, items, NewItems(s.obj, items), validate, limit)
         IN  t \in Turn /\ Accounted(s, t, validate, limit, most)
<1> DEFINE n == Len(items)
           new == NewItems(s.obj, items)
<1>1. PICK turn : /\ TurnsOf(s, items, validate, limit, turn)
                  /\ AddTurns(s, items, new, validate, limit) = turn[n]
  BY AddTurnsSteps
<1>2. /\ turn \in [0..n -> Turn] /\ turn[0] = s
      /\ \A i \in 1..n : turn[i] = AddTurn(turn[i - 1], items[i], i \in new, validate, limit)
  BY <1>1 DEF TurnsOf
<1>3. n \in Nat /\ n \in 0..n /\ \A i \in 1..n : items[i] \in Item
  OBVIOUS
<1>. HIDE DEF n, new
<1> DEFINE T == {i \in Nat : i <= n => Accounted(s, turn[i], validate, limit, most)}
<1>4. 0 \in T
  <2>1. Accounted(s, s, validate, limit, most)
    BY AccountedSame
  <2>. QED BY <1>2, <2>1
<1>5. ASSUME NEW i \in Nat, i \in T PROVE i + 1 \in T
  <2>1. SUFFICES ASSUME i + 1 <= n PROVE Accounted(s, turn[i + 1], validate, limit, most)
    OBVIOUS
  <2> DEFINE u == turn[i]
             v == turn[i + 1]
             b == i + 1 \in new
  <2>2. /\ i + 1 \in 1..n /\ (i + 1) - 1 = i /\ i \in 0..n /\ i + 1 \in 0..n
        /\ Accounted(s, u, validate, limit, most)
    BY <1>3, <1>5, <2>1
  <2>3. v = AddTurn(u, items[i + 1], b, validate, limit) /\ u \in Turn /\ v \in Turn
    BY <1>2, <2>2
  <2>4. b \in BOOLEAN /\ items[i + 1] \in Item
    BY <1>3, <2>2
  <2>. HIDE DEF u, v, b, T
  <2>5. Accounted(u, v, validate, limit, most)
    BY <2>3, <2>4, AddTurnAccounts
  <2>6. Accounted(s, v, validate, limit, most)
    BY <2>2, <2>3, <2>5, AccountedChain
  <2>. QED BY <2>6 DEF v
<1>6. Nat \subseteq T
  <2>. HIDE DEF T
  <2>. QED BY <1>4, <1>5, SetInduction
<1>7. turn[n] \in Turn /\ Accounted(s, turn[n], validate, limit, most)
  BY <1>2, <1>3, <1>6
<1>. QED BY <1>1, <1>7 DEF n, new

\* What handle_bloom_add answers, h, for the object o and the counters m.
AddAccounts(o, m, h, validate, limit, most) ==
  /\ Tracks(m, Growth(o, h.obj), h.metrics)
  /\ NumItems(h.obj) = NumItems(o) + Cardinality(Ones(h.ints))
  /\ Cardinality(Ones(h.ints)) \in Nat
  /\ AddSucceeded(h) <=> Cardinality(Ones(h.ints)) > 0
  /\ ~ AddSucceeded(h) => h.obj = o /\ h.metrics = m
  /\ validate /\ limit <= most /\ Within(o, most) => Within(h.obj, most)
  /\ validate /\ limit <= most /\ Refits(o, most) => Refits(h.obj, most)

\* handle_bloom_add keeps the accounts.
LEMMA HandleAddAccounts ==
  ASSUME NEW o \in Object, WellFormed(o), NEW m \in Counters, NEW items \in Seq(Item),
         NEW multi \in BOOLEAN, ~ multi => Len(items) = 1,
         NEW validate \in BOOLEAN, NEW limit \in Int, NEW most \in Int
  PROVE  AddAccounts(o, m, HandleAdd(o, m, items, multi, validate, limit),
                     validate, limit, most)
<1> DEFINE start == [obj |-> o, metrics |-> m, err |-> Ok, ints |-> <<>>]
           new == NewItems(o, items)
           err == ValidateAddItems(o, Cardinality(new), limit)
           h == HandleAdd(o, m, items, multi, validate, limit)
<1>1. start \in Turn
  <2>1. <<>> \in Seq({0, 1}) /\ Ok \in AddErrors
    BY DEF AddErrors
  <2>. QED BY <2>1 DEF Turn
<1>2. start.obj = o /\ start.metrics = m /\ start.ints = <<>> /\ start.err = Ok
  OBVIOUS
<1>3. Ones(<<>>) = {} /\ Cardinality(Ones(<<>>)) = 0
  BY FS_EmptySet DEF Ones
<1>4. \E t \in Turn : /\ t.obj = h.obj /\ t.metrics = h.metrics /\ t.ints = h.ints
                      /\ Accounted(start, t, validate, limit, most)
  <2>1. CASE multi /\ err # Ok
    <3>1. h = [start EXCEPT !.err = err]
      BY <2>1 DEF HandleAdd
    <3>. HIDE DEF err
    <3>2. h.obj = start.obj /\ h.metrics = start.metrics /\ h.ints = start.ints
      BY <3>1
    <3>3. Accounted(start, start, validate, limit, most)
      <4>. HIDE DEF start
      <4>. QED BY <1>1, AccountedSame
    <3>. HIDE DEF start, h
    <3>. QED BY <1>1, <3>2, <3>3
  <2>2. CASE multi /\ err = Ok
    <3>1. h = AddTurns(start, items, new, validate, limit)
      BY <2>2 DEF HandleAdd
    <3>. HIDE DEF start, h, err
    <3>2. h \in Turn /\ Accounted(start, h, validate, limit, most)
      BY <1>1, <1>2, <3>1, AddTurnsAccount
    <3>. QED BY <3>2
  <2>3. CASE ~ multi
    <3> DEFINE x == items[1]
               fresh == ~ ItemExists(o, x)
    <3>1. h = AddTurn(start, x, fresh, validate, limit)
      BY <2>3 DEF HandleAdd
    <3>2. x \in Item /\ fresh \in BOOLEAN
      <4>1. Len(items) = 1
        BY <2>3
      <4>2. x \in Item
        BY <4>1
      <4>3. fresh \in BOOLEAN
        OBVIOUS
      <4>. HIDE DEF x, fresh
      <4>. QED BY <4>2, <4>3
    <3>. HIDE DEF start, h, x, fresh
    <3>3. h \in Turn
      BY <1>1, <3>1, <3>2, AddTurnPreserves
    <3>4. Accounted(start, h, validate, limit, most)
      BY <1>1, <3>1, <3>2, AddTurnAccounts
    <3>. QED BY <3>3, <3>4
  <2>. QED BY <2>1, <2>2, <2>3
<1>. HIDE DEF h, start
<1>5. PICK t \in Turn : /\ t.obj = h.obj /\ t.metrics = h.metrics /\ t.ints = h.ints
                        /\ Accounted(start, t, validate, limit, most)
  BY <1>4
<1>6. /\ t.obj \in Object /\ t.ints \in Seq({0, 1}) /\ NumItems(t.obj) \in Nat
      /\ Cardinality(Ones(t.ints)) \in Nat /\ NumItems(o) \in Nat
  BY TurnFields, FootprintTyped
<1>7. NumItems(h.obj) = NumItems(o) + Cardinality(Ones(h.ints))
  <2>1. NumItems(t.obj) + Cardinality(Ones(start.ints))
          = NumItems(start.obj) + Cardinality(Ones(t.ints))
    BY <1>5 DEF Accounted
  <2>2. NumItems(h.obj) + 0 = NumItems(o) + Cardinality(Ones(h.ints))
    BY <1>2, <1>3, <1>5, <2>1
  <2>. QED BY <1>5, <1>6, <2>2
<1>8. AddSucceeded(h) <=> Ones(h.ints) # {}
  BY DEF AddSucceeded, Ones
<1>9. Ones(h.ints) # {} <=> Cardinality(Ones(h.ints)) > 0
  <2>1. IsFiniteSet(Ones(h.ints)) /\ Cardinality(Ones(h.ints)) \in Nat
    BY <1>5, <1>6, OnesOfAppend
  <2>2. Cardinality(Ones(h.ints)) = 0 <=> Ones(h.ints) = {}
    BY <2>1, FS_EmptySet
  <2>. QED BY <2>1, <2>2
<1>. QED BY <1>2, <1>5, <1>6, <1>7, <1>8, <1>9 DEF Accounted, AddAccounts, h

(******************************* handlers **********************************)

\* What the counters are to change by when the value under a key becomes w.
Change(v, w) == [c \in Names |-> Figures(w)[c] - Figures(v)[c]]

\* The counters follow the value under the key.
Balanced(v, m, out) ==
  out.metrics \in Counters /\ Tracks(m, Change(v, out.val), out.metrics)

\* A command is propagated if and only if it changed the value, and a creation
\* is published when there was one.
Announced(v, out) ==
  /\ out.repl # <<>> <=> out.val # v
  /\ "bloom.reserve" \in out.events <=> IsObject(out.val) /\ ~ IsObject(v)

\* Items that went in are published and answered, and no others.
Counted(v, out) ==
  /\ "bloom.add" \in out.events <=> NumItemsAt(out.val) > NumItemsAt(v)
  /\ out.reply.err = Ok =>
       NumItemsAt(out.val) - NumItemsAt(v) = Cardinality(Ones(out.reply.ints))

\* A client's command leaves an object within any limit that is not below the
\* node's, unless it was there and was not.
Limited(v, out, validate, limit, most) ==
  validate /\ limit <= most /\ (IsObject(v) => Within(v, most)) /\ IsObject(out.val)
    => Within(out.val, most)

\* All of them.
Kept(v, m, out, validate, limit, most) ==
  /\ Balanced(v, m, out) /\ Announced(v, out) /\ Counted(v, out)
  /\ Limited(v, out, validate, limit, most)

\* The figures of a value can be added to the counters.
LEMMA ChangeTyped ==
  ASSUME NEW v \in Object \union {Absent, Foreign}, NEW w \in Object \union {Absent, Foreign}
  PROVE  /\ Figures(v) \in Weights /\ Change(v, w) \in Weights
         /\ NumItemsAt(v) \in Nat
         /\ IsObject(v) => v \in Object /\ Figures(v) = Footprint(v) /\ NumItemsAt(v) = NumItems(v)
<1>1. ASSUME NEW u \in Object \union {Absent, Foreign}
      PROVE  /\ Figures(u) \in Weights /\ NumItemsAt(u) \in Nat
             /\ IsObject(u) => u \in Object /\ Figures(u) = Footprint(u) /\ NumItemsAt(u) = NumItems(u)
  <2>1. CASE IsObject(u)
    <3>1. u \in Object
      BY <2>1 DEF IsObject
    <3>. QED BY <2>1, <3>1, FootprintTyped DEF Figures, NumItemsAt
  <2>2. CASE ~ IsObject(u)
    BY <2>2, CountersDomain DEF Figures, NumItemsAt
  <2>. QED BY <2>1, <2>2
<1>2. Figures(v) \in Weights /\ Figures(w) \in Weights
  BY <1>1
<1>3. Change(v, w) \in Weights
  BY <1>2 DEF Change, Weights
<1>. QED BY <1>1, <1>3

\* The empty and the foreign value count for nothing.
LEMMA NothingCounts ==
  /\ ~ IsObject(Absent) /\ ~ IsObject(Foreign)
  /\ \A v : ~ IsObject(v) => NumItemsAt(v) = 0 /\ \A c \in Names : Figures(v)[c] = 0
<1>1. \A c \in Names : NoMetrics[c] = 0
  BY DEF NoMetrics, Names
<1>. QED BY <1>1 DEF IsObject, NumItemsAt, Figures

\* A refusal keeps the books: nothing moved and nothing is said.
LEMMA RejectedAccounts ==
  ASSUME NEW v \in Object \union {Absent, Foreign}, NEW m \in Counters, NEW k \in Counters,
         k = m \/ Tracks(m, [c \in Names |-> 0], k), NEW err, err # Ok,
         NEW validate, NEW limit, NEW most
  PROVE  Kept(v, m, Rejected(v, k, err), validate, limit, most)
<1> DEFINE out == Rejected(v, k, err)
           zero == [c \in Names |-> 0]
<1>1. /\ out.val = v /\ out.metrics = k /\ out.reply.err = err /\ out.repl = <<>>
      /\ out.events = {}
  BY DEF Rejected, Outcome
<1>2. Figures(v) \in Weights /\ NumItemsAt(v) \in Nat
  BY ChangeTyped
<1>3. Change(v, v) = zero
  BY <1>2 DEF Change, Weights
<1>4. zero \in Weights /\ \A c \in Names : zero[c] = 0
  BY DEF Weights
<1>. HIDE DEF zero, out
<1>5. Tracks(m, Change(v, v), k)
  BY <1>3, <1>4, TracksEqual DEF zero
<1>6. Balanced(v, m, out)
  BY <1>1, <1>5 DEF Balanced
<1>7. Announced(v, out) /\ Counted(v, out)
  BY <1>1, <1>2 DEF Announced, Counted
<1>8. Limited(v, out, validate, limit, most)
  BY <1>1 DEF Limited
<1>. QED BY <1>6, <1>7, <1>8 DEF Kept, out

\* Adding to the object at the key keeps the books.
LEMMA AddToExistingAccounts ==
  ASSUME NEW c, c.items \in Seq(Item), NEW o \in Object, WellFormed(o), NEW m \in Counters,
         NEW multi \in BOOLEAN, ~ multi => Len(c.items) = 1,
         NEW validate \in BOOLEAN, NEW limit \in Int, NEW most \in Int
  PROVE  Kept(o, m, AddToExisting(c, o, m, multi, validate, limit), validate, limit, most)
<1> DEFINE h == HandleAdd(o, m, c.items, multi, validate, limit)
           out == AddToExisting(c, o, m, multi, validate, limit)
<1>1. h.obj \in Object /\ h.metrics \in Counters
  BY HandleAddPreserves
<1>2. AddAccounts(o, m, h, validate, limit, most)
  BY HandleAddAccounts
<1>3. /\ out.val = h.obj /\ out.metrics = h.metrics /\ out.reply.err = h.err
      /\ out.reply.ints = IF h.err = Ok THEN h.ints ELSE <<>>
      /\ out.repl = IF AddSucceeded(h) THEN <<c>> ELSE <<>>
      /\ out.events = IF AddSucceeded(h) THEN {"bloom.add"} ELSE {}
  BY DEF AddToExisting, Outcome, AddReply
<1>. HIDE DEF h, out
<1>4. IsObject(o) /\ IsObject(h.obj) /\ NumItems(o) \in Nat
  BY <1>1, ObjectsAreValues, FootprintTyped
<1>5. /\ Figures(o) = Footprint(o) /\ Figures(h.obj) = Footprint(h.obj)
      /\ NumItemsAt(o) = NumItems(o) /\ NumItemsAt(h.obj) = NumItems(h.obj)
  BY <1>4 DEF Figures, NumItemsAt
<1>6. Balanced(o, m, out)
  <2>1. Change(o, h.obj) = Growth(o, h.obj)
    BY <1>5 DEF Change, Growth
  <2>. QED BY <1>1, <1>2, <1>3, <2>1 DEF Balanced, AddAccounts
<1>7. AddSucceeded(h) <=> h.obj # o
  BY <1>2, <1>4 DEF AddAccounts
<1>8. Announced(o, out)
  <2>1. <<c>> # <<>> /\ "bloom.reserve" # "bloom.add"
    OBVIOUS
  <2>. QED BY <1>3, <1>4, <1>7, <2>1 DEF Announced
<1>9. Counted(o, out)
  <2>1. AddSucceeded(h) <=> NumItemsAt(h.obj) > NumItemsAt(o)
    BY <1>2, <1>4, <1>5 DEF AddAccounts
  <2>2. NumItemsAt(h.obj) - NumItemsAt(o) = Cardinality(Ones(h.ints))
    BY <1>2, <1>4, <1>5 DEF AddAccounts
  <2>. QED BY <1>3, <2>1, <2>2 DEF Counted
<1>10. Limited(o, out, validate, limit, most)
  BY <1>2, <1>3, <1>4 DEF Limited, AddAccounts
<1>. QED BY <1>6, <1>8, <1>9, <1>10 DEF Kept, out

\* A new object is empty and takes what its creation was checked with.
LEMMA NewReservedFootprint ==
  ASSUME NEW p \in PropertyType
  PROVE  LET o == NewReserved(p)
         IN  /\ NumItems(o) = 0 /\ Capacity(o) = p.cap
             /\ MemoryUsage(o) = ObjectSize(1) + FilterSize(p.cap, p.fp)
<1> DEFINE f == NewFilter(p.fp, p.cap, p.seed)
           o == NewReserved(p)
<1>1. o \in Object
  <2>1. NoMetrics \in Counters
    <3>1. Word \in Nat \ {0} /\ 0 \in 0..(Word - 1)
      BY SizeAssumption
    <3>2. \A c \in Names : NoMetrics[c] = 0
      BY DEF NoMetrics, Names
    <3>. QED BY <3>1, <3>2, CountersDomain DEF Weights
  <2>. QED BY <2>1, NewReservedPreserves
<1>2. f.num = 0 /\ f.cap = p.cap /\ f.fp = p.fp
  BY DEF NewFilter
<1>3. o.filters = <<f>> /\ o.vcap = 1
  BY DEF NewReserved
<1>. HIDE DEF f, o
<1>4. Len(o.filters) = 1 /\ o.filters[1] = f /\ 1 \in DOMAIN o.filters
  BY <1>3
<1>5. ASSUME NEW s \in Seq(Int), Len(s) = 1 PROVE SumOf(s) = s[1]
  <2>1. <<>> \in Seq(Int) /\ Len(s) = Len(<<>>) + 1 /\ \A i \in 1..Len(<<>>) : s[i] = <<>>[i]
    BY <1>5
  <2>2. SumOf(s) = SumOf(<<>>) + s[Len(s)]
    BY <2>1, SumOneMore
  <2>3. 1 \in 1..Len(s) /\ s \in [1..Len(s) -> Int]
    BY <1>5
  <2>4. s[1] \in Int
    BY <2>3
  <2>. QED BY <1>5, <2>2, <2>4, SumOfNothing
<1>6. NumItems(o) = Nums(o)[1] /\ Capacity(o) = Caps(o)[1] /\ FiltersSize(o) = Sizes(o)[1]
  BY <1>1, <1>4, <1>5, TermsTyped
<1>7. NumItems(o) = 0 /\ Capacity(o) = p.cap /\ FiltersSize(o) = FilterSize(p.cap, p.fp)
  BY <1>2, <1>4, <1>6 DEF Nums, Caps, Sizes
<1>. QED BY <1>3, <1>7 DEF MemoryUsage, o

\* Creating an object and adding to it keeps the books.
LEMMA CreateAndAddAccounts ==
  ASSUME NEW c, c.items \in Seq(Item), NEW p \in PropertyType, NEW m \in Counters,
         NEW multi \in BOOLEAN, ~ multi => Len(c.items) = 1,
         NEW validate \in BOOLEAN, NEW limit \in Int, NEW most \in Int
  PROVE  Kept(Absent, m, CreateAndAdd(c, p, m, multi, validate, limit),
              validate, limit, most)
<1> DEFINE o == NewReserved(p)
           n == NewReservedMetrics(m, o)
           h == HandleAdd(o, n, c.items, multi, validate, limit)
           e == CreateError(p, validate, limit)
           out == CreateAndAdd(c, p, m, multi, validate, limit)
<1>1. CASE e # Ok
  <2>1. out = Rejected(Absent, m, e)
    BY <1>1 DEF CreateAndAdd
  <2>. HIDE DEF e, out
  <2>2. Kept(Absent, m, out, validate, limit, most)
    BY <1>1, <2>1, RejectedAccounts
  <2>. QED BY <2>2 DEF out
<1>2. CASE e = Ok
  <2>1. o \in Object /\ WellFormed(o) /\ n \in Counters
    BY NewReservedPreserves
  <2>2. /\ NumItems(o) = 0
        /\ MemoryUsage(o) = ObjectSize(1) + FilterSize(p.cap, p.fp)
    BY NewReservedFootprint
  <2>3. Tracks(m, Footprint(o), n)
    BY <2>1, ObjectTracks DEF NewReservedMetrics
  <2>4. validate /\ limit <= most => Within(o, most)
    <3>1. ASSUME validate, limit <= most PROVE Within(o, most)
      <4>1. ~ (MemoryUsage(o) > limit)
        BY <1>2, <2>2, <3>1, Ok # "ExceedsMaxBloomSize" DEF CreateError, Ok
      <4>2. MemoryUsage(o) \in Nat
        BY <2>1, FootprintTyped
      <4>. HIDE DEF o
      <4>3. MemoryUsage(o) <= most
        BY <3>1, <4>1, <4>2
      <4>. QED BY <2>1, <4>3, WithinByUsage
    <3>. QED BY <3>1
  <2>. HIDE DEF o, n
  <2>5. h.obj \in Object /\ h.metrics \in Counters
    BY <2>1, HandleAddPreserves
  <2>6. AddAccounts(o, n, h, validate, limit, most)
    BY <2>1, HandleAddAccounts
  <2>7. /\ out.val = h.obj /\ out.metrics = h.metrics /\ out.reply.err = h.err
        /\ out.reply.ints = IF h.err = Ok THEN h.ints ELSE <<>>
        /\ out.repl = <<ReplicaInsert(c.key, o, c.items)>>
        /\ out.events = {"bloom.reserve"} \union
                          (IF AddSucceeded(h) THEN {"bloom.add"} ELSE {})
    BY <1>2 DEF CreateAndAdd, Outcome, AddReply, o, n
  <2>. HIDE DEF h, out
  <2>8. IsObject(o) /\ IsObject(h.obj) /\ ~ IsObject(Absent) /\ h.obj # Absent
    BY <2>1, <2>5, ObjectsAreValues, NothingCounts
  <2>9. /\ Figures(h.obj) = Footprint(h.obj) /\ NumItemsAt(h.obj) = NumItems(h.obj)
        /\ NumItemsAt(Absent) = 0 /\ \A x \in Names : Figures(Absent)[x] = 0
    BY <2>8, NothingCounts DEF Figures, NumItemsAt
  <2>10. Balanced(Absent, m, out)
    <3>1. /\ Footprint(o) \in Weights /\ Footprint(h.obj) \in Weights
          /\ Growth(o, h.obj) \in Weights
      BY <2>1, <2>5, FootprintTyped, GrowthTyped
    <3>2. Change(Absent, h.obj) \in Weights
      BY <2>5, ChangeTyped
    <3>3. \A x \in Names : Footprint(o)[x] \in Int /\ Footprint(h.obj)[x] \in Int
      BY <3>1 DEF Weights
    <3>4. \A x \in Names : Change(Absent, h.obj)[x] = Footprint(o)[x] + Growth(o, h.obj)[x]
      BY <2>9, <3>3 DEF Change, Growth
    <3>5. Tracks(n, Growth(o, h.obj), h.metrics)
      BY <2>6 DEF AddAccounts
    <3>6. Tracks(m, Change(Absent, h.obj), h.metrics)
      BY <2>1, <2>3, <2>5, <3>1, <3>2, <3>4, <3>5, TracksChain
    <3>. QED BY <2>5, <2>7, <3>6 DEF Balanced
  <2>11. Announced(Absent, out)
    <3>1. <<ReplicaInsert(c.key, o, c.items)>> # <<>>
      OBVIOUS
    <3>. QED BY <2>7, <2>8, <3>1 DEF Announced
  <2>12. Counted(Absent, out)
    <3>1. NumItemsAt(h.obj) = Cardinality(Ones(h.ints))
      <4>1. NumItems(h.obj) = 0 + Cardinality(Ones(h.ints))
        BY <2>2, <2>6 DEF AddAccounts
      <4>. QED BY <2>6, <2>9, <4>1 DEF AddAccounts
    <3>2. AddSucceeded(h) <=> NumItemsAt(h.obj) > NumItemsAt(Absent)
      BY <2>6, <2>9, <3>1 DEF AddAccounts
    <3>3. NumItemsAt(h.obj) - NumItemsAt(Absent) = Cardinality(Ones(h.ints))
      BY <2>6, <2>9, <3>1 DEF AddAccounts
    <3>4. "bloom.add" \in out.events <=> AddSucceeded(h)
      BY <2>7
    <3>. QED BY <2>7, <3>2, <3>3, <3>4 DEF Counted
  <2>13. Limited(Absent, out, validate, limit, most)
    BY <2>4, <2>6, <2>7 DEF Limited, AddAccounts
  <2>. QED BY <2>10, <2>11, <2>12, <2>13 DEF Kept, out
<1>. QED BY <1>1, <1>2

\* The BF.ADD and BF.MADD handler keeps the books.
LEMMA AddValueAccounts ==
  ASSUME NEW c, c.items \in Seq(Item), c.name = "BF.MADD" \/ Len(c.items) = 1,
         NEW v \in Object \union {Absent, Foreign}, IsObject(v) => WellFormed(v),
         NEW cfg, cfg.limit \in Int, NEW m \in Counters, NEW obey \in BOOLEAN, NEW rnd,
         Properties(c, cfg, rnd) \in PropertyType, NEW most \in Int
  PROVE  Kept(v, m, BloomFilterAddValue(c, v, cfg, m, obey, rnd), ~ obey, cfg.limit, most)
<1> DEFINE multi == c.name = "BF.MADD"
           ok == ~ obey
           limit == cfg.limit
<1>1. multi \in BOOLEAN /\ (~ multi => Len(c.items) = 1) /\ ok \in BOOLEAN /\ limit \in Int
  OBVIOUS
<1>2. CASE v = Foreign
  <2>1. BloomFilterAddValue(c, v, cfg, m, obey, rnd) = Rejected(v, m, "WrongType")
    BY <1>2 DEF BloomFilterAddValue
  <2>2. "WrongType" # Ok
    BY DEF Ok
  <2>. QED BY <2>1, <2>2, RejectedAccounts
<1>3. CASE IsObject(v)
  <2>1. v \in Object /\ v # Foreign /\ WellFormed(v)
    BY <1>3 DEF IsObject
  <2>2. BloomFilterAddValue(c, v, cfg, m, obey, rnd) = AddToExisting(c, v, m, multi, ok, limit)
    BY <1>3, <2>1 DEF BloomFilterAddValue
  <2>. HIDE DEF multi, ok, limit
  <2>3. Kept(v, m, AddToExisting(c, v, m, multi, ok, limit), ok, limit, most)
    BY <1>1, <2>1, AddToExistingAccounts
  <2>. QED BY <2>2, <2>3 DEF ok, limit
<1>4. CASE ~ IsObject(v) /\ v # Foreign
  <2> DEFINE p == Properties(c, cfg, rnd)
  <2>1. v = Absent
    BY <1>4 DEF IsObject
  <2>2. BloomFilterAddValue(c, v, cfg, m, obey, rnd)
          = CreateAndAdd(c, p, m, multi, ok, limit)
    BY <1>4 DEF BloomFilterAddValue
  <2>. HIDE DEF multi, ok, limit, p
  <2>3. p \in PropertyType
    BY DEF p
  <2>4. Kept(Absent, m, CreateAndAdd(c, p, m, multi, ok, limit), ok, limit, most)
    BY <1>1, <2>3, CreateAndAddAccounts
  <2>. QED BY <2>1, <2>2, <2>4 DEF ok, limit
<1>. QED BY <1>2, <1>3, <1>4

\* So does the BF.INSERT handler.
LEMMA InsertAccounts ==
  ASSUME NEW c, c.items \in Seq(Item),
         NEW v \in Object \union {Absent, Foreign}, IsObject(v) => WellFormed(v),
         NEW cfg, cfg.limit \in Int, NEW m \in Counters, NEW obey \in BOOLEAN, NEW rnd,
         Properties(c, cfg, rnd) \in PropertyType, NEW most \in Int
  PROVE  Kept(v, m, BloomFilterInsert(c, v, cfg, m, obey, rnd), ~ obey, cfg.limit, most)
<1> DEFINE p == Properties(c, cfg, rnd)
           ok == ~ obey
           limit == cfg.limit
           err == ScaleToError(c, p, ok, limit)
           out == BloomFilterInsert(c, v, cfg, m, obey, rnd)
<1>1. "WrongType" # Ok /\ "NotFound" # Ok
  BY DEF Ok
<1>2. ok \in BOOLEAN /\ limit \in Int /\ p \in PropertyType
  OBVIOUS
<1>3. \/ err # Ok /\ out = Rejected(v, m, err)
      \/ \E x : x # Ok /\ out = Rejected(v, m, x)
      \/ IsObject(v) /\ out = AddToExisting(c, v, m, TRUE, ok, limit)
      \/ v = Absent /\ out = CreateAndAdd(c, p, m, TRUE, ok, limit)
  BY <1>1 DEF BloomFilterInsert, IsObject
<1>. HIDE DEF p, ok, limit, err, out
<1>4. Kept(v, m, out, ok, limit, most)
  <2>1. ASSUME NEW x, x # Ok, out = Rejected(v, m, x)
        PROVE  Kept(v, m, out, ok, limit, most)
    BY <2>1, RejectedAccounts
  <2>2. CASE IsObject(v) /\ out = AddToExisting(c, v, m, TRUE, ok, limit)
    <3>1. v \in Object /\ WellFormed(v)
      BY <2>2 DEF IsObject
    <3>. QED BY <1>2, <2>2, <3>1, AddToExistingAccounts
  <2>3. CASE v = Absent /\ out = CreateAndAdd(c, p, m, TRUE, ok, limit)
    BY <1>2, <2>3, CreateAndAddAccounts
  <2>. QED BY <1>3, <2>1, <2>2, <2>3
<1>. QED BY <1>4 DEF ok, limit, out

\* So does the BF.RESERVE handler.
LEMMA ReserveAccounts ==
  ASSUME NEW c,
         NEW v \in Object \union {Absent, Foreign}, IsObject(v) => WellFormed(v),
         NEW cfg, cfg.limit \in Int, NEW m \in Counters, NEW obey \in BOOLEAN, NEW rnd,
         Properties(c, cfg, rnd) \in PropertyType, NEW most \in Int
  PROVE  Kept(v, m, BloomFilterReserve(c, v, cfg, m, obey, rnd), ~ obey, cfg.limit, most)
<1> DEFINE p == Properties(c, cfg, rnd)
           o == NewReserved(p)
           ok == ~ obey
           limit == cfg.limit
           e == CreateError(p, ok, limit)
           out == BloomFilterReserve(c, v, cfg, m, obey, rnd)
<1>1. "WrongType" # Ok /\ "ItemExists" # Ok
  BY DEF Ok
<1>2. ok \in BOOLEAN /\ limit \in Int /\ p \in PropertyType
  OBVIOUS
<1>3. \/ \E x : x # Ok /\ out = Rejected(v, m, x)
      \/ /\ v = Absent /\ e = Ok
         /\ out.val = o /\ out.metrics = NewReservedMetrics(m, o) /\ out.reply.ints = <<>>
         /\ out.repl = <<ReplicaInsert(c.key, o, <<>>)>> /\ out.events = {"bloom.reserve"}
  BY <1>1 DEF BloomFilterReserve, IsObject, Outcome
<1>. HIDE DEF p, o, ok, limit, out
<1>4. Kept(v, m, out, ok, limit, most)
  <2>1. ASSUME NEW x, x # Ok, out = Rejected(v, m, x)
        PROVE  Kept(v, m, out, ok, limit, most)
    BY <2>1, RejectedAccounts
  <2>2. ASSUME v = Absent, e = Ok, out.val = o, out.metrics = NewReservedMetrics(m, o),
               out.reply.ints = <<>>, out.repl = <<ReplicaInsert(c.key, o, <<>>)>>,
               out.events = {"bloom.reserve"}
        PROVE  Kept(v, m, out, ok, limit, most)
    <3>1. o \in Object /\ WellFormed(o) /\ out.metrics \in Counters
      BY <1>2, <2>2, NewReservedPreserves DEF o
    <3>2. /\ NumItems(o) = 0
          /\ MemoryUsage(o) = ObjectSize(1) + FilterSize(p.cap, p.fp)
      BY <1>2, NewReservedFootprint DEF o
    <3>3. Tracks(m, Footprint(o), out.metrics)
      BY <2>2, <3>1, ObjectTracks DEF NewReservedMetrics
    <3>4. IsObject(o) /\ ~ IsObject(v) /\ o # v
      BY <2>2, <3>1, ObjectsAreValues, NothingCounts
    <3>5. /\ Figures(o) = Footprint(o) /\ NumItemsAt(o) = 0 /\ NumItemsAt(v) = 0
          /\ \A x \in Names : Figures(v)[x] = 0
      BY <3>2, <3>4, NothingCounts DEF Figures, NumItemsAt
    <3>6. Balanced(v, m, out)
      <4>1. Footprint(o) \in Weights /\ Change(v, o) \in Weights
        BY <3>1, FootprintTyped, ChangeTyped
      <4>2. Change(v, o) = Footprint(o)
        <5>1. \A x \in Names : Change(v, o)[x] = Footprint(o)[x]
          BY <3>5, <4>1 DEF Change, Weights
        <5>. QED BY <4>1, <5>1 DEF Weights
      <4>. QED BY <2>2, <3>1, <3>3, <4>2 DEF Balanced
    <3>7. Announced(v, out)
      <4>1. <<ReplicaInsert(c.key, o, <<>>)>> # <<>>
        OBVIOUS
      <4>. QED BY <2>2, <3>4, <4>1 DEF Announced
    <3>8. Counted(v, out)
      <4>1. Ones(<<>>) = {} /\ Cardinality(Ones(<<>>)) = 0
        BY FS_EmptySet DEF Ones
      <4>2. "bloom.add" # "bloom.reserve"
        OBVIOUS
      <4>. QED BY <2>2, <3>5, <4>1, <4>2 DEF Counted
    <3>9. Limited(v, out, ok, limit, most)
      <4>1. ASSUME ok, limit <= most PROVE Within(o, most)
        <5>1. ~ (MemoryUsage(o) > limit)
          BY <2>2, <3>2, <4>1, Ok # "ExceedsMaxBloomSize" DEF CreateError, Ok
        <5>2. MemoryUsage(o) \in Nat
          BY <3>1, FootprintTyped
        <5>3. MemoryUsage(o) <= most
          BY <1>2, <4>1, <5>1, <5>2
        <5>. QED BY <3>1, <5>3, WithinByUsage
      <4>. QED BY <2>2, <4>1 DEF Limited
    <3>. QED BY <3>6, <3>7, <3>8, <3>9 DEF Kept
  <2>. QED BY <1>3, <2>1, <2>2
<1>. QED BY <1>4 DEF ok, limit, out

\* decode_object finds nothing wrong with an object that has a filter to spare.
LEMMA NothingToReject ==
  ASSUME NEW o \in Object, WellFormed(o), Len(o.filters) < MaxFilters
  PROVE  DecodeError(o) = Ok
<1>1. /\ DOMAIN o.filters = 1..Len(o.filters) /\ o.filters # <<>> /\ o.fp >= 1 /\ o.tr >= 1
      /\ \A i \in DOMAIN o.filters : o.filters[i] \in Filter
  <2>1. Len(o.filters) > 0
    BY LastFilter
  <2>. QED BY <2>1 DEF Object
<1>2. \A i \in DOMAIN o.filters : ~ (o.filters[i].num > o.filters[i].cap)
  <2>1. \A i \in 1..Len(o.filters) : o.filters[i].num <= o.filters[i].cap
    BY DEF WellFormed
  <2>2. \A i \in DOMAIN o.filters : o.filters[i].num \in Nat /\ o.filters[i].cap \in Nat
    BY <1>1, SizeAssumption DEF Filter
  <2>. QED BY <1>1, <2>1, <2>2
<1>3. \A i \in DOMAIN o.filters : ~ (o.filters[i].cap < 1)
  <2>1. CapacityMax \in Nat
    BY SizeAssumption
  <2>. QED BY <1>1, <2>1 DEF Filter
<1>4. ~ (o.fp < 1) /\ ~ (o.tr < 1)
  BY <1>1 DEF Object
<1>5. ~ (Len(o.filters) >= MaxFilters)
  <2>1. MaxFilters \in Nat /\ Len(o.filters) \in Nat
    BY SizeAssumption, LastFilter
  <2>. QED BY <2>1
<1>6. {i \in DOMAIN o.filters : o.filters[i].num > o.filters[i].cap} = {}
  BY <1>2
<1>. QED BY <1>1, <1>3, <1>4, <1>5, <1>6 DEF DecodeError

\* The BF.LOAD handler keeps the books too, the counters if the encoding has fewer
\* filters than an object may have.
LEMMA LoadAccounts ==
  ASSUME NEW c, c.dump \in Object, WellFormed(c.dump),
         NEW v \in Object \union {Absent, Foreign},
         NEW cfg, cfg.limit \in Int, NEW m \in Counters, NEW obey \in BOOLEAN,
         NEW most \in Int
  PROVE  LET out == BloomFilterLoad(c, v, cfg, m, obey)
         IN  /\ Announced(v, out) /\ Limited(v, out, ~ obey, cfg.limit, most)
             /\ Len(c.dump.filters) < MaxFilters => Balanced(v, m, out)
<1> DEFINE o == Decoded(c.dump)
           counted == Gain(GainFilters(m, o), ObjectWeight(o))
           dropped == DropObject(counted, o)
           ok == ~ obey
           limit == cfg.limit
           few == Len(c.dump.filters) < MaxFilters
           out == BloomFilterLoad(c, v, cfg, m, obey)
           big == MemoryUsage(o) > limit
<1>1. "WrongType" # Ok /\ "KeyExists" # Ok /\ "ExceedsMaxBloomSize" # Ok
  BY DEF Ok
<1>2. ok \in BOOLEAN /\ limit \in Int
  OBVIOUS
<1>3. o \in Object /\ WellFormed(o) /\ o.filters = c.dump.filters
  BY DecodedPreserves
<1>4. few => DecodeError(o) = Ok
  <2>. HIDE DEF o
  <2>. QED BY <1>3, NothingToReject
<1>5. \/ \E x : x # Ok /\ out = Rejected(v, m, x)
      \/ out = Rejected(v, LoseFilters(m, o), DecodeError(o)) /\ DecodeError(o) # Ok
      \/ out = Rejected(v, dropped, "ExceedsMaxBloomSize")
      \/ /\ v = Absent /\ ~ (ok /\ big)
         /\ out.val = o /\ out.metrics = counted
         /\ out.repl = <<ReplicaInsert(c.key, o, <<DumpItem>>)>>
         /\ out.events = {"bloom.reserve"}
  BY <1>1 DEF BloomFilterLoad, Outcome, IsObject
<1>6. /\ Tracks(m, Footprint(o), counted) /\ counted \in Counters
  <2>. HIDE DEF o
  <2>. QED BY <1>3, ObjectTracks
<1>. HIDE DEF o, counted
<1>7. Tracks(counted, Minus(Footprint(o)), dropped) /\ dropped \in Counters
  BY <1>3, <1>6, ObjectTracks
<1>. HIDE DEF dropped, ok, limit, few, out, big
<1>8. Tracks(m, [x \in Names |-> 0], dropped)
  <2> DEFINE zero == [x \in Names |-> 0]
  <2>1. Footprint(o) \in Weights /\ Minus(Footprint(o)) \in Weights /\ zero \in Weights
    BY <1>3, <1>6, FootprintTyped, GainTracks DEF Weights
  <2>2. \A x \in Names : Footprint(o)[x] \in Int
    BY <2>1 DEF Weights
  <2>3. \A x \in Names : zero[x] = Footprint(o)[x] + Minus(Footprint(o))[x]
    BY <2>2 DEF Minus
  <2>. HIDE DEF zero
  <2>4. Tracks(m, zero, dropped)
    BY <1>6, <1>7, <2>1, <2>3, TracksChain
  <2>. QED BY <2>4 DEF zero
<1>9. ASSUME NEW x, x # Ok, NEW k \in Counters, k = m \/ Tracks(m, [y \in Names |-> 0], k),
             out = Rejected(v, k, x)
      PROVE  Announced(v, out) /\ Limited(v, out, ok, limit, most) /\ Balanced(v, m, out)
  BY <1>9, RejectedAccounts DEF Kept
<1>10. Announced(v, out) /\ Limited(v, out, ok, limit, most) /\ (few => Balanced(v, m, out))
  <2>1. CASE out = Rejected(v, LoseFilters(m, o), DecodeError(o)) /\ DecodeError(o) # Ok
    <3>1. out.val = v /\ out.repl = <<>> /\ out.events = {}
      BY <2>1 DEF Rejected, Outcome
    <3>2. Announced(v, out) /\ Limited(v, out, ok, limit, most)
      BY <3>1 DEF Announced, Limited
    <3>. QED BY <1>4, <2>1, <3>2
  <2>2. CASE out = Rejected(v, dropped, "ExceedsMaxBloomSize")
    BY <1>1, <1>7, <1>8, <1>9, <2>2
  <2>3. ASSUME v = Absent, ~ (ok /\ big), out.val = o, out.metrics = counted,
               out.repl = <<ReplicaInsert(c.key, o, <<DumpItem>>)>>,
               out.events = {"bloom.reserve"}
        PROVE  Announced(v, out) /\ Limited(v, out, ok, limit, most) /\ Balanced(v, m, out)
    <3>1. IsObject(o) /\ ~ IsObject(v) /\ o # v
      BY <1>3, <2>3, ObjectsAreValues, NothingCounts
    <3>2. Figures(o) = Footprint(o) /\ \A x \in Names : Figures(v)[x] = 0
      BY <3>1, NothingCounts DEF Figures
    <3>3. Balanced(v, m, out)
      <4>1. Footprint(o) \in Weights /\ Change(v, o) \in Weights
        BY <1>3, FootprintTyped, ChangeTyped
      <4>2. Change(v, o) = Footprint(o)
        <5>1. \A x \in Names : Change(v, o)[x] = Footprint(o)[x]
          BY <3>2, <4>1 DEF Change, Weights
        <5>. QED BY <4>1, <5>1 DEF Weights
      <4>. QED BY <1>6, <2>3, <4>2 DEF Balanced
    <3>4. Announced(v, out)
      <4>1. <<ReplicaInsert(c.key, o, <<DumpItem>>)>> # <<>>
        OBVIOUS
      <4>. QED BY <2>3, <3>1, <4>1 DEF Announced
    <3>5. Limited(v, out, ok, limit, most)
      <4>1. ASSUME ok, limit <= most PROVE Within(o, most)
        <5>1. MemoryUsage(o) \in Nat
          BY <1>3, FootprintTyped
        <5>2. MemoryUsage(o) <= most
          BY <1>2, <2>3, <4>1, <5>1 DEF big
        <5>. QED BY <1>3, <5>2, WithinByUsage
      <4>. QED BY <2>3, <4>1 DEF Limited
    <3>. QED BY <3>3, <3>4, <3>5
  <2>. QED BY <1>5, <1>9, <2>1, <2>2, <2>3
<1>. QED BY <1>10 DEF ok, limit, few, out

(***************************** sets of keys ********************************)

\* A set of keys has a number of elements; one less without one of them.
LEMMA KeySets ==
  ASSUME NEW S \in SUBSET Key
  PROVE  /\ Cardinality(S) \in Nat /\ Cardinality(S) <= Cardinality(Key)
         /\ Cardinality(S) = 0 <=> S = {}
         /\ S # {} => (CHOOSE k \in S : TRUE) \in S
         /\ \A k \in S : Cardinality(S \ {k}) = Cardinality(S) - 1 /\ S \ {k} \in SUBSET Key
<1>1. IsFiniteSet(S) /\ Cardinality(S) <= Cardinality(Key)
  BY KeyAssumption, FS_Subset
<1>. QED BY <1>1, FS_CardinalityType, FS_EmptySet, FS_RemoveElement

\* The initial counters are counters.
LEMMA NoMetricsTyped ==
  NoMetrics \in Counters
<1>1. Word \in Nat \ {0} /\ 0 \in 0..(Word - 1)
  BY SizeAssumption
<1>2. \A c \in Names : NoMetrics[c] = 0
  BY DEF NoMetrics, Names
<1>. QED BY <1>1, <1>2, CountersDomain DEF Weights

(******************************** creation *********************************)

LEMMA NewReservedReads ==
  ASSUME NEW p \in PropertyType
  PROVE  LET o == NewReserved(p)
         IN  /\ Capacity(o) = p.cap /\ SeedOf(o) = p.seed
             /\ o.fp = p.fp /\ o.tr = p.tr /\ o.expansion = p.expansion
<1> DEFINE o == NewReserved(p)
<1>1. /\ o.filters = <<NewFilter(p.fp, p.cap, p.seed)>>
      /\ o.fp = p.fp /\ o.tr = p.tr /\ o.expansion = p.expansion
  BY DEF NewReserved
<1>2. SeedOf(o) = p.seed
  BY <1>1 DEF SeedOf, NewFilter
<1>3. Capacity(o) = p.cap
  BY <1>1, NewReservedFootprint DEF NewFilter
<1>. QED BY <1>1, <1>2, <1>3

\* The properties spelled out in what a creation propagates decide what it
\* creates elsewhere, whatever that node's configuration and random draw.
LEMMA PropertiesReplicated ==
  ASSUME NEW p \in PropertyType, NEW key, NEW items, NEW cfg, NEW rnd
  PROVE  LET cmd == ReplicaInsert(key, NewReserved(p), items)
         IN  /\ Properties(cmd, cfg, rnd) = p
             /\ cmd.name = "BF.INSERT" /\ cmd.key = key /\ cmd.items = items
             /\ cmd.scaleTo = Unset /\ ~ cmd.nocreate
<1> DEFINE o == NewReserved(p)
           cmd == ReplicaInsert(key, o, items)
<1>1. /\ Capacity(o) = p.cap /\ SeedOf(o) = p.seed
      /\ o.fp = p.fp /\ o.tr = p.tr /\ o.expansion = p.expansion
  BY NewReservedReads
<1>. HIDE DEF o
<1>2. /\ cmd.name = "BF.INSERT" /\ cmd.key = key /\ cmd.items = items
      /\ cmd.scaleTo = Unset /\ ~ cmd.nocreate
      /\ cmd.fp = p.fp /\ cmd.tr = p.tr /\ cmd.cap = p.cap /\ cmd.seed = p.seed
      /\ cmd.expansion = p.expansion
  BY <1>1 DEF ReplicaInsert, Command
<1>. HIDE DEF cmd
<1>3. /\ p.fp \in Nat /\ p.tr \in Nat /\ p.cap \in Nat /\ p.expansion \in Nat /\ p.seed \in Seeds
      /\ p.seedRandom \in BOOLEAN /\ (p.seedRandom <=> p.seed # FixedSeed)
      /\ p = [fp |-> p.fp, tr |-> p.tr, cap |-> p.cap, expansion |-> p.expansion,
              seed |-> p.seed, seedRandom |-> p.seedRandom]
  BY SizeAssumption DEF PropertyType
<1>4. /\ cmd.fp # Unset /\ cmd.tr # Unset /\ cmd.cap # Unset /\ cmd.expansion # Unset
      /\ cmd.seed # Unset
  BY <1>2, <1>3, ValueAssumption
<1>5. p.seedRandom = (p.seed # FixedSeed)
  BY <1>3
<1>6. Properties(cmd, cfg, rnd)
        = [fp |-> p.fp, tr |-> p.tr, cap |-> p.cap, expansion |-> p.expansion,
           seed |-> p.seed, seedRandom |-> p.seedRandom]
  BY <1>2, <1>4, <1>5 DEF Properties, Given
<1>7. Properties(cmd, cfg, rnd) = p
  BY <1>3, <1>6
<1>. QED BY <1>2, <1>7 DEF cmd, o

\* What a single item, or none, needs of a new object is there.
LEMMA OneItemFits ==
  ASSUME NEW p \in PropertyType, NEW items \in Seq(Item), Len(items) <= 1, NEW limit
  PROVE  LET o == NewReserved(p)
         IN  ValidateAddItems(o, Cardinality(NewItems(o, items)), limit) = Ok
<1> DEFINE o == NewReserved(p)
           new == NewItems(o, items)
<1>1. Capacity(o) = p.cap /\ NumItems(o) = 0 /\ p.cap \in 1..CapacityMax
  BY NewReservedFootprint DEF PropertyType
<1>2. new = {} \/ new = {1}
  <2>1. new \subseteq {1}
    BY DEF NewItems
  <2>. HIDE DEF new
  <2>. QED BY <2>1
<1>3. Cardinality(new) = 0 \/ Cardinality(new) = 1
  <2>. HIDE DEF new
  <2>. QED BY <1>2, FS_EmptySet, FS_Singleton
<1>. HIDE DEF o, new
<1>4. ValidateAddItems(o, Cardinality(new), limit) = Ok
  BY <1>1, <1>3, SizeAssumption DEF ValidateAddItems
<1>. QED BY <1>4 DEF o, new

LEMMA NothingToAdd ==
  ASSUME NEW o \in Object, WellFormed(o), NEW m \in Counters,
         NEW items \in Seq(Item), Len(items) < 1,
         NEW multi \in BOOLEAN, ~ multi => FALSE, NEW validate \in BOOLEAN, NEW limit
  PROVE  LET h == HandleAdd(o, m, items, multi, validate, limit)
         IN  h.obj = o /\ h.err = Ok /\ h.ints = <<>>
<1> DEFINE s == [obj |-> o, metrics |-> m, err |-> Ok, ints |-> <<>>]
           new == NewItems(o, items)
<1>1. s \in Turn
  <2>1. <<>> \in Seq({0, 1}) /\ Ok \in AddErrors
    BY DEF AddErrors
  <2>. QED BY <2>1 DEF Turn
<1>2. new = {} /\ s.obj = o /\ s.err = Ok /\ s.ints = <<>>
  BY DEF NewItems
<1>3. ValidateAddItems(o, Cardinality(new), limit) = Ok
  <2>. HIDE DEF new
  <2>. QED BY <1>2, FS_EmptySet DEF ValidateAddItems
<1>4. HandleAdd(o, m, items, multi, validate, limit)
        = AddTurns(s, items, NewItems(s.obj, items), validate, limit)
  BY <1>3 DEF HandleAdd
<1>. HIDE DEF s, new
<1>5. PICK turn : /\ TurnsOf(s, items, validate, limit, turn)
                  /\ AddTurns(s, items, NewItems(s.obj, items), validate, limit)
                       = turn[Len(items)]
  BY <1>1, AddTurnsSteps
<1>6. turn[Len(items)] = s
  BY <1>5 DEF TurnsOf
<1>. QED BY <1>2, <1>4, <1>5, <1>6

(**************** a validated batch does not fail half way *****************)

\* After i turns: no more was pushed onto the Vec than RawVec does, and while no
\* turn failed there is room for all of target. A turn fails only on an object
\* whose Vec the projection does not charge for in full.
Proceeds(s, start, done, target, limit) ==
  /\ s.err = Ok => /\ NumItems(s.obj) < target => Room(s.obj, target, limit)
                   /\ NumItems(s.obj) = NumItems(start) + done
  /\ s.err # Ok => ~ (s.obj.vcap <= ProjectedVec(Len(s.obj.filters)))
  /\ Pushed(start.vcap, Len(start.filters)) => Pushed(s.obj.vcap, Len(s.obj.filters))

\* done of the batch's new items are in, and more with x's turn.
LEMMA TurnProceeds ==
  ASSUME NEW s \in Turn, NEW x \in Item, NEW new \in BOOLEAN, NEW validate, NEW limit \in Nat,
         limit < MaxFilters * FilterBytes, NEW start \in Object, NEW target \in Nat,
         NEW done \in Nat, NEW more \in Nat, Proceeds(s, start, done, target, limit),
         new => /\ more = done + 1
                /\ NumItems(start) + more <= target,
         ~ new => more = done
  PROVE  Proceeds(AddTurn(s, x, new, validate, limit), start, more, target, limit)
<1> DEFINE err == AddError(s.obj, validate, limit)
           t == AddTurn(s, x, new, validate, limit)
           roomy == s.obj.vcap <= ProjectedVec(Len(s.obj.filters))
           pushed(o) == Pushed(o.vcap, Len(o.filters))
<1>1. /\ s.obj \in Object /\ WellFormed(s.obj) /\ s.metrics \in Counters
      /\ s.ints \in Seq({0, 1}) /\ NumItems(s.obj) \in Nat /\ NumItems(start) \in Nat
      /\ s = [obj |-> s.obj, metrics |-> s.metrics, err |-> s.err, ints |-> s.ints]
  BY TurnFields, FootprintTyped
<1>2. CASE s.err # Ok
  <2>1. t = s
    BY <1>2 DEF AddTurn
  <2>. QED BY <1>2, <2>1 DEF Proceeds
<1>3. CASE s.err = Ok /\ ~ new
  <2>1. t = [s EXCEPT !.ints = Append(s.ints, 0)]
    BY <1>3 DEF AddTurn
  <2>. HIDE DEF t
  <2>2. t.obj = s.obj /\ t.err = s.err
    BY <1>1, <2>1
  <2>. QED BY <1>3, <2>2 DEF Proceeds, t
<1>4. CASE s.err = Ok /\ new /\ err # Ok
  <2>1. t = [s EXCEPT !.err = err]
    BY <1>4 DEF AddTurn
  <2>2. ~ roomy
    <3>1. ASSUME roomy PROVE FALSE
      <4>1. NumItems(s.obj) = NumItems(start) + done
        BY <1>4 DEF Proceeds
      <4>2. NumItems(s.obj) < target
        BY <1>1, <1>4, <4>1
      <4>3. Room(s.obj, target, limit)
        BY <1>4, <4>2 DEF Proceeds
      <4>4. err = Ok
        BY <1>1, <3>1, <4>2, <4>3, RoomAllowsAdd
      <4>. QED BY <1>4, <4>4
    <3>. QED BY <3>1
  <2>. HIDE DEF t, err
  <2>3. t.obj = s.obj /\ t.err = err
    BY <1>1, <2>1
  <2>. QED BY <1>4, <2>2, <2>3 DEF Proceeds, t
<1>5. CASE s.err = Ok /\ new /\ err = Ok
  <2> DEFINE a == AddItemUnchecked(s.obj, x)
  <2>1. t = [obj |-> a, err |-> Ok, metrics |-> AddMetrics(s.metrics, s.obj, x),
             ints |-> Append(s.ints, 1)]
    BY <1>5 DEF AddTurn
  <2>2. t.obj = a /\ t.err = Ok
    BY <2>1
  <2>3. /\ NumItems(a) = NumItems(s.obj) + 1 /\ Capacity(a) >= Capacity(s.obj)
        /\ pushed(s.obj) => pushed(a)
    BY <1>1, <1>5, AddCounts, AddKeepsRoom
  <2>4. a \in Object /\ Grown(s.obj, a)
    BY <1>1, <1>5, AddPreserves, AddGrows
  <2>5. Capacity(a) \in Nat /\ Capacity(s.obj) \in Nat
    BY <1>1, <2>4, FootprintTyped
  <2>6. NumItems(s.obj) = NumItems(start) + done
    BY <1>5 DEF Proceeds
  <2>10. NumItems(s.obj) < target
    BY <1>1, <1>5, <2>6
  <2>11. Room(s.obj, target, limit)
    BY <1>5, <2>10 DEF Proceeds
  <2>. HIDE DEF a
  <2>7. Room(a, target, limit)
    BY <1>1, <2>3, <2>4, <2>5, <2>11, RoomStays
  <2>8. NumItems(a) = NumItems(start) + more
    BY <1>1, <1>5, <2>3, <2>6
  <2>9. pushed(start) => pushed(a)
    BY <2>3 DEF Proceeds
  <2>. HIDE DEF t
  <2>. QED BY <2>2, <2>7, <2>8, <2>9 DEF Proceeds, t
<1>. QED BY <1>2, <1>3, <1>4, <1>5

\* c[i] of the new items of a batch of n have their turn among the first i.
NewAmong(n, new, c) ==
  /\ c \in [0..n -> Nat] /\ c[0] = 0
  /\ \A i \in 1..n : c[i] = (IF i \in new THEN c[i - 1] + 1 ELSE c[i - 1])
                      /\ c[i] <= Cardinality(new)

LEMMA NewItemsInTurn ==
  ASSUME NEW n \in Nat, NEW new, new \subseteq 1..n
  PROVE  Cardinality(new) \in Nat /\ \E c : NewAmong(n, new, c)
<1>1. IsFiniteSet(1..n)
  BY FS_Interval
<1>2. IsFiniteSet(new)
  BY <1>1, FS_Subset
<1>3. Cardinality(new) \in Nat
  BY <1>2, FS_CardinalityType
<1> DEFINE first(i) == new \intersect (1..i)
           c == [i \in 0..n |-> Cardinality(first(i))]
<1>4. ASSUME NEW i \in 0..n
      PROVE  /\ IsFiniteSet(first(i)) /\ c[i] = Cardinality(first(i))
             /\ c[i] \in Nat /\ c[i] <= Cardinality(new)
  <2>1. first(i) \subseteq new
    OBVIOUS
  <2>2. c[i] = Cardinality(first(i))
    OBVIOUS
  <2>. HIDE DEF first, c
  <2>3. IsFiniteSet(first(i)) /\ Cardinality(first(i)) <= Cardinality(new)
    BY <1>2, <2>1, FS_Subset
  <2>. QED BY <2>2, <2>3, FS_CardinalityType
<1>5. c[0] = 0
  <2>1. first(0) = {}
    OBVIOUS
  <2>2. c[0] = Cardinality(first(0))
    BY <1>4
  <2>. HIDE DEF first, c
  <2>. QED BY <2>1, <2>2, FS_EmptySet
<1>6. ASSUME NEW i \in 1..n
      PROVE  c[i] = IF i \in new THEN c[i - 1] + 1 ELSE c[i - 1]
  <2>1. i - 1 \in 0..n /\ i \in 0..n
    OBVIOUS
  <2>2. i \in new => first(i) = first(i - 1) \union {i}
    OBVIOUS
  <2>3. i \notin new => first(i) = first(i - 1)
    OBVIOUS
  <2>4. i \notin first(i - 1)
    OBVIOUS
  <2>5. /\ c[i] = Cardinality(first(i)) /\ c[i - 1] = Cardinality(first(i - 1))
        /\ IsFiniteSet(first(i - 1))
    BY <1>4, <2>1
  <2>. HIDE DEF first, c
  <2>6. i \in new => Cardinality(first(i)) = Cardinality(first(i - 1)) + 1
    BY <2>2, <2>4, <2>5, FS_AddElement
  <2>. QED BY <2>3, <2>5, <2>6
<1>7. c \in [0..n -> Nat]
  <2>1. \A i \in 0..n : Cardinality(first(i)) \in Nat
    BY <1>4
  <2>. HIDE DEF first
  <2>. QED BY <2>1
<1>8. \A i \in 1..n : i \in 0..n
  OBVIOUS
<1>. HIDE DEF c, first
<1>9. NewAmong(n, new, c)
  BY <1>4, <1>5, <1>6, <1>7, <1>8 DEF NewAmong
<1>. QED BY <1>3, <1>9

LEMMA TurnsProceed ==
  ASSUME NEW s \in Turn, s.err = Ok, NEW items \in Seq(Item), NEW validate, NEW limit \in Nat,
         limit < MaxFilters * FilterBytes, NEW target \in Nat,
         NumItems(s.obj) < target => Room(s.obj, target, limit),
         NumItems(s.obj) + Cardinality(NewItems(s.obj, items)) = target
  PROVE  LET t == AddTurns(s, items, NewItems(s.obj, items), validate, limit)
         IN  \E done : Proceeds(t, s.obj, done, target, limit)
<1> DEFINE n == Len(items)
           new == NewItems(s.obj, items)
<1>1. PICK turn : /\ TurnsOf(s, items, validate, limit, turn)
                  /\ AddTurns(s, items, new, validate, limit) = turn[n]
  BY AddTurnsSteps
<1>2. /\ turn \in [0..n -> Turn] /\ turn[0] = s
      /\ \A i \in 1..n : turn[i] = AddTurn(turn[i - 1], items[i], i \in new, validate, limit)
  BY <1>1 DEF TurnsOf
<1>3. n \in Nat /\ n \in 0..n /\ \A i \in 1..n : items[i] \in Item
  OBVIOUS
<1>4. new \subseteq 1..n
  BY DEF NewItems
<1>5. s.obj \in Object /\ NumItems(s.obj) \in Nat
  BY TurnFields
<1>6. NumItems(s.obj) + Cardinality(new) = target
  OBVIOUS
<1>. HIDE DEF new
<1>. HIDE DEF n
<1>7. Cardinality(new) \in Nat
  BY <1>3, <1>4, NewItemsInTurn
<1>8. PICK c : NewAmong(n, new, c)
  BY <1>3, <1>4, NewItemsInTurn
<1> DEFINE T == {i \in Nat : i <= n => Proceeds(turn[i], s.obj, c[i], target, limit)}
<1>9. 0 \in T
  <2>1. c[0] = 0
    BY <1>8 DEF NewAmong
  <2>2. Proceeds(s, s.obj, 0, target, limit)
    BY <1>5 DEF Proceeds
  <2>. QED BY <1>2, <2>1, <2>2
<1>10. ASSUME NEW i \in Nat, i \in T PROVE i + 1 \in T
  <2>1. SUFFICES ASSUME i + 1 <= n
                 PROVE  Proceeds(turn[i + 1], s.obj, c[i + 1], target, limit)
    OBVIOUS
  <2> DEFINE u == turn[i]
             v == turn[i + 1]
             b == i + 1 \in new
             before == c[i]
             after == c[i + 1]
             start == s.obj
  <2>2. /\ i + 1 \in 1..n /\ (i + 1) - 1 = i /\ i \in 0..n /\ i + 1 \in 0..n
        /\ Proceeds(u, start, before, target, limit)
    BY <1>3, <1>10, <2>1
  <2>3. v = AddTurn(u, items[i + 1], b, validate, limit) /\ u \in Turn
    BY <1>2, <2>2
  <2>4. b \in BOOLEAN /\ items[i + 1] \in Item
    BY <1>3, <2>2
  <2>5. /\ before \in Nat /\ after \in Nat /\ after <= Cardinality(new)
        /\ b => after = before + 1
        /\ ~ b => after = before
    BY <1>8, <2>2 DEF NewAmong
  <2>6. b => NumItems(start) + after <= target
    BY <1>5, <1>6, <1>7, <2>5
  <2>7. start \in Object
    BY <1>5
  <2>. HIDE DEF u, v, b, before, after, start, T
  <2>8. Proceeds(v, start, after, target, limit)
    BY <2>2, <2>3, <2>4, <2>5, <2>6, <2>7, TurnProceeds
  <2>. QED BY <2>8 DEF v, start, after
<1>11. Nat \subseteq T
  <2>. HIDE DEF T
  <2>. QED BY <1>9, <1>10, SetInduction
<1>12. Proceeds(turn[n], s.obj, c[n], target, limit)
  BY <1>3, <1>11
<1>. HIDE DEF T
<1>. QED BY <1>1, <1>12 DEF n, new

\* handle_bloom_add of a batch that validate_add_items lets pass: it fails only
\* after defragmentation made the Vec grow in other steps than the projection's.
LEMMA BatchFits ==
  ASSUME NEW o \in Object, WellFormed(o), NEW m \in Counters, NEW items \in Seq(Item),
         NEW multi \in BOOLEAN, ~ multi => FALSE, NEW validate, NEW limit \in Nat,
         limit < MaxFilters * FilterBytes,
         ValidateAddItems(o, Cardinality(NewItems(o, items)), limit) = Ok
  PROVE  LET h == HandleAdd(o, m, items, multi, validate, limit)
         IN  /\ h.err # Ok => ~ (h.obj.vcap <= ProjectedVec(Len(h.obj.filters)))
             /\ Pushed(o.vcap, Len(o.filters)) => Pushed(h.obj.vcap, Len(h.obj.filters))
<1> DEFINE s == [obj |-> o, metrics |-> m, err |-> Ok, ints |-> <<>>]
           new == NewItems(o, items)
           target == NumItems(o) + Cardinality(new)
           h == HandleAdd(o, m, items, multi, validate, limit)
<1>1. s \in Turn
  <2>1. <<>> \in Seq({0, 1}) /\ Ok \in AddErrors
    BY DEF AddErrors
  <2>. QED BY <2>1 DEF Turn
<1>2. s.obj = o /\ s.err = Ok
  OBVIOUS
<1>3. h = AddTurns(s, items, NewItems(s.obj, items), validate, limit)
  BY DEF HandleAdd
<1>4. Cardinality(new) \in Nat
  <2>1. new \subseteq 1..Len(items) /\ Len(items) \in Nat
    BY DEF NewItems
  <2>. HIDE DEF new
  <2>. QED BY <2>1, NewItemsInTurn
<1>5. NumItems(o) \in Nat
  BY FootprintTyped
<1>. HIDE DEF s, h
<1>6. target \in Nat /\ NumItems(s.obj) + Cardinality(NewItems(s.obj, items)) = target
  BY <1>2, <1>4, <1>5
<1>7. NumItems(s.obj) < target => Room(s.obj, target, limit)
  <2>1. NumItems(o) < target => Cardinality(new) \in Nat \ {0}
    BY <1>4, <1>5
  <2>. HIDE DEF new
  <2>2. Cardinality(new) \in Nat \ {0} => Room(o, target, limit)
    BY ValidatedHasRoom DEF new
  <2>. QED BY <1>2, <2>1, <2>2
<1>. HIDE DEF target, new
<1>8. \E done : Proceeds(h, s.obj, done, target, limit)
  BY <1>1, <1>2, <1>3, <1>6, <1>7, TurnsProceed
<1>. QED BY <1>2, <1>8 DEF Proceeds, h

\* A new object's Vec has the one slot it was allocated with.
LEMMA NewReservedPushed ==
  ASSUME NEW p \in PropertyType
  PROVE  LET o == NewReserved(p) IN Pushed(o.vcap, Len(o.filters))
<1> DEFINE o == NewReserved(p)
<1>1. o.vcap = 1 /\ o.filters = <<NewFilter(p.fp, p.cap, p.seed)>>
  BY DEF NewReserved
<1>2. Len(o.filters) = 1
  BY <1>1
<1>. HIDE DEF o
<1>. QED BY <1>1, <1>2, PowersOfTwoGrow DEF Pushed, o

\* A validated batch goes in whole if the projection charges for the Vec that the
\* object would have if nothing but pushes ever changed it.
LEMMA PushedBatchFits ==
  ASSUME NEW o \in Object, WellFormed(o), NEW m \in Counters, NEW items \in Seq(Item),
         NEW multi \in BOOLEAN, ~ multi => FALSE, NEW validate, NEW limit \in Nat,
         limit < MaxFilters * FilterBytes, Pushed(o.vcap, Len(o.filters)),
         ValidateAddItems(o, Cardinality(NewItems(o, items)), limit) = Ok
  PROVE  HandleAdd(o, m, items, multi, validate, limit).err = Ok
<1> DEFINE h == HandleAdd(o, m, items, multi, validate, limit)
<1>1. /\ h.err # Ok => ~ (h.obj.vcap <= ProjectedVec(Len(h.obj.filters)))
      /\ Pushed(h.obj.vcap, Len(h.obj.filters))
  BY BatchFits
<1>2. Len(h.obj.filters) \in Nat
  <2>1. h.obj \in Object /\ WellFormed(h.obj)
    BY HandleAddPreserves
  <2>. HIDE DEF h
  <2>. QED BY <2>1, LastFilter
<1>. HIDE DEF h
<1>3. h.obj.vcap <= ProjectedVec(Len(h.obj.filters))
  BY <1>1, <1>2, PushedIsProjected
<1>. QED BY <1>1, <1>3 DEF h

(************************* refusals leave no trace *************************)

\* The projection charges for all of o's Vec.
Charged(o) == o.vcap <= ProjectedVec(Len(o.filters))

\* A handler that refuses a command on a key that is there did nothing, unless
\* it leaves an object with a larger Vec than the projection charges for; and
\* it leaves a Vec that only pushes made if it found one.
Orderly(v, m, out) ==
  /\ v # Absent /\ out.reply.err # Ok /\ (IsObject(out.val) => Charged(out.val))
       => out.val = v /\ out.metrics = m /\ out.repl = <<>> /\ out.events = {}
  /\ (IsObject(v) => OnlyPushed(v)) /\ IsObject(out.val) => OnlyPushed(out.val)

\* A refused handle_bloom_add leaves the object, the counters and the answers
\* alone, unless it is a batch that the projection undercharged for.
LEMMA HandleAddRefuses ==
  ASSUME NEW o \in Object, WellFormed(o), NEW m \in Counters, NEW items \in Seq(Item),
         NEW multi \in BOOLEAN, ~ multi => Len(items) = 1, NEW validate \in BOOLEAN,
         NEW limit \in Nat, limit < MaxFilters * FilterBytes
  PROVE  LET h == HandleAdd(o, m, items, multi, validate, limit)
         IN  /\ h.err # Ok /\ Charged(h.obj) => h.obj = o /\ h.metrics = m /\ ~ AddSucceeded(h)
             /\ OnlyPushed(o) => OnlyPushed(h.obj)
<1> DEFINE start == [obj |-> o, metrics |-> m, err |-> Ok, ints |-> <<>>]
           new == NewItems(o, items)
           err == ValidateAddItems(o, Cardinality(new), limit)
           h == HandleAdd(o, m, items, multi, validate, limit)
<1>1. CASE multi /\ err # Ok
  <2>1. h = [start EXCEPT !.err = err]
    BY <1>1 DEF HandleAdd
  <2>. HIDE DEF err
  <2>2. h.obj = o /\ h.metrics = m /\ h.ints = <<>>
    BY <2>1
  <2>. HIDE DEF h
  <2>. QED BY <2>2 DEF AddSucceeded, h
<1>2. CASE multi /\ err = Ok
  <2>1. /\ h.err # Ok => ~ (h.obj.vcap <= ProjectedVec(Len(h.obj.filters)))
        /\ Pushed(o.vcap, Len(o.filters)) => Pushed(h.obj.vcap, Len(h.obj.filters))
    BY <1>2, BatchFits
  <2>. HIDE DEF h
  <2>. QED BY <2>1 DEF Charged, OnlyPushed, h
<1>3. CASE ~ multi
  <2> DEFINE x == items[1]
             fresh == ~ ItemExists(o, x)
             e == AddError(o, validate, limit)
  <2>1. h = AddTurn(start, x, fresh, validate, limit)
    BY <1>3 DEF HandleAdd
  <2>2. x \in Item
    BY <1>3
  <2>3. CASE ~ fresh
    <3>1. h = [start EXCEPT !.ints = Append(@, 0)]
      BY <2>1, <2>3 DEF AddTurn
    <3>2. h.err = Ok /\ h.obj = o
      BY <3>1
    <3>. HIDE DEF h
    <3>. QED BY <3>2 DEF h
  <2>4. CASE fresh /\ e # Ok
    <3>1. h = [start EXCEPT !.err = e]
      BY <2>1, <2>4 DEF AddTurn
    <3>. HIDE DEF e
    <3>2. h.obj = o /\ h.metrics = m /\ h.ints = <<>>
      BY <3>1
    <3>. HIDE DEF h
    <3>. QED BY <3>2 DEF AddSucceeded, h
  <2>5. CASE fresh /\ e = Ok
    <3>1. h.err = Ok /\ h.obj = AddItemUnchecked(o, x)
      BY <2>1, <2>5 DEF AddTurn
    <3>. HIDE DEF h, x
    <3>2. OnlyPushed(o) => OnlyPushed(h.obj)
      BY <2>2, <2>5, <3>1, AddKeepsRoom DEF OnlyPushed
    <3>. QED BY <3>1, <3>2 DEF h
  <2>. HIDE DEF fresh, e
  <2>. QED BY <2>3, <2>4, <2>5
<1>. HIDE DEF err
<1>. QED BY <1>1, <1>2, <1>3

\* A command that is rejected before it reaches the object did nothing.
LEMMA RejectedIsOrderly ==
  ASSUME NEW v, NEW m, NEW err
  PROVE  Orderly(v, m, Rejected(v, m, err))
BY DEF Orderly, Rejected, Outcome

\* An add to an existing object: its events and its propagation follow what
\* handle_bloom_add answered.
LEMMA AddToExistingIsOrderly ==
  ASSUME NEW c, c.items \in Seq(Item), NEW o \in Object, WellFormed(o), NEW m \in Counters,
         NEW multi \in BOOLEAN, ~ multi => Len(c.items) = 1, NEW validate \in BOOLEAN,
         NEW limit \in Nat, limit < MaxFilters * FilterBytes
  PROVE  Orderly(o, m, AddToExisting(c, o, m, multi, validate, limit))
<1> DEFINE h == HandleAdd(o, m, c.items, multi, validate, limit)
           out == AddToExisting(c, o, m, multi, validate, limit)
<1>1. /\ h.err # Ok /\ Charged(h.obj) => h.obj = o /\ h.metrics = m /\ ~ AddSucceeded(h)
      /\ OnlyPushed(o) => OnlyPushed(h.obj)
  BY HandleAddRefuses
<1>2. /\ out.val = h.obj /\ out.metrics = h.metrics /\ out.reply.err = h.err
      /\ out.repl = (IF AddSucceeded(h) THEN <<c>> ELSE <<>>)
      /\ out.events = (IF AddSucceeded(h) THEN {"bloom.add"} ELSE {})
  BY DEF AddToExisting, Outcome
<1>3. IsObject(o) /\ IsObject(h.obj)
  <2>1. h.obj \in Object
    BY HandleAddPreserves
  <2>. HIDE DEF h
  <2>. QED BY <2>1, ObjectsAreValues
<1>. HIDE DEF h, out
<1>. QED BY <1>1, <1>2, <1>3 DEF Orderly, out

\* A creation starts with a Vec of one slot and adds to it.
LEMMA CreateAndAddIsOrderly ==
  ASSUME NEW c, c.items \in Seq(Item), NEW p \in PropertyType, NEW m \in Counters,
         NEW multi \in BOOLEAN, ~ multi => Len(c.items) = 1, NEW validate \in BOOLEAN,
         NEW limit \in Nat, limit < MaxFilters * FilterBytes
  PROVE  Orderly(Absent, m, CreateAndAdd(c, p, m, multi, validate, limit))
<1> DEFINE o == NewReserved(p)
           k == NewReservedMetrics(m, o)
           h == HandleAdd(o, k, c.items, multi, validate, limit)
           out == CreateAndAdd(c, p, m, multi, validate, limit)
<1>1. o \in Object /\ WellFormed(o) /\ k \in Counters
  BY NewReservedPreserves
<1>2. OnlyPushed(o)
  BY NewReservedPushed DEF OnlyPushed
<1>3. out.val = Absent \/ out.val = h.obj
  BY DEF CreateAndAdd, Rejected, Outcome
<1>4. ~ IsObject(Absent)
  BY NothingCounts
<1>. HIDE DEF o, k
<1>5. OnlyPushed(h.obj)
  BY <1>1, <1>2, HandleAddRefuses
<1>. HIDE DEF h, out
<1>. QED BY <1>3, <1>4, <1>5 DEF Orderly, out

\* BF.ADD and BF.MADD.
LEMMA AddValueIsOrderly ==
  ASSUME NEW c, c.items \in Seq(Item), c.name = "BF.MADD" \/ Len(c.items) = 1,
         NEW v \in Object \union {Absent, Foreign}, IsObject(v) => WellFormed(v),
         NEW cfg, cfg.limit \in Nat, cfg.limit < MaxFilters * FilterBytes,
         NEW m \in Counters, NEW obey \in BOOLEAN, NEW rnd,
         Properties(c, cfg, rnd) \in PropertyType
  PROVE  Orderly(v, m, BloomFilterAddValue(c, v, cfg, m, obey, rnd))
<1> DEFINE multi == c.name = "BF.MADD"
           ok == ~ obey
           limit == cfg.limit
           p == Properties(c, cfg, rnd)
           out == BloomFilterAddValue(c, v, cfg, m, obey, rnd)
<1>1. /\ multi \in BOOLEAN /\ (~ multi => Len(c.items) = 1) /\ ok \in BOOLEAN
      /\ limit \in Nat /\ limit < MaxFilters * FilterBytes /\ p \in PropertyType
  OBVIOUS
<1>2. \/ out = Rejected(v, m, "WrongType")
      \/ IsObject(v) /\ out = AddToExisting(c, v, m, multi, ok, limit)
      \/ v = Absent /\ out = CreateAndAdd(c, p, m, multi, ok, limit)
  BY DEF BloomFilterAddValue, IsObject
<1>. HIDE DEF multi, ok, limit, p, out
<1>3. CASE IsObject(v) /\ out = AddToExisting(c, v, m, multi, ok, limit)
  <2>1. v \in Object /\ WellFormed(v)
    BY <1>3 DEF IsObject
  <2>. QED BY <1>1, <1>3, <2>1, AddToExistingIsOrderly DEF out
<1>4. CASE v = Absent /\ out = CreateAndAdd(c, p, m, multi, ok, limit)
  BY <1>1, <1>4, CreateAndAddIsOrderly DEF out
<1>. QED BY <1>2, <1>3, <1>4, RejectedIsOrderly DEF out

\* BF.INSERT.
LEMMA InsertIsOrderly ==
  ASSUME NEW c, c.items \in Seq(Item),
         NEW v \in Object \union {Absent, Foreign}, IsObject(v) => WellFormed(v),
         NEW cfg, cfg.limit \in Nat, cfg.limit < MaxFilters * FilterBytes,
         NEW m \in Counters, NEW obey \in BOOLEAN, NEW rnd,
         Properties(c, cfg, rnd) \in PropertyType
  PROVE  Orderly(v, m, BloomFilterInsert(c, v, cfg, m, obey, rnd))
<1> DEFINE p == Properties(c, cfg, rnd)
           ok == ~ obey
           limit == cfg.limit
           multi == TRUE
           err == ScaleToError(c, p, ok, limit)
           out == BloomFilterInsert(c, v, cfg, m, obey, rnd)
<1>1. /\ multi \in BOOLEAN /\ (~ multi => Len(c.items) = 1) /\ ok \in BOOLEAN
      /\ limit \in Nat /\ limit < MaxFilters * FilterBytes /\ p \in PropertyType
  OBVIOUS
<1>2. \/ \E x : out = Rejected(v, m, x)
      \/ IsObject(v) /\ out = AddToExisting(c, v, m, multi, ok, limit)
      \/ v = Absent /\ out = CreateAndAdd(c, p, m, multi, ok, limit)
  BY DEF BloomFilterInsert, IsObject
<1>. HIDE DEF multi, ok, limit, p, out
<1>3. CASE IsObject(v) /\ out = AddToExisting(c, v, m, multi, ok, limit)
  <2>1. v \in Object /\ WellFormed(v)
    BY <1>3 DEF IsObject
  <2>. QED BY <1>1, <1>3, <2>1, AddToExistingIsOrderly DEF out
<1>4. CASE v = Absent /\ out = CreateAndAdd(c, p, m, multi, ok, limit)
  BY <1>1, <1>4, CreateAndAddIsOrderly DEF out
<1>. QED BY <1>2, <1>3, <1>4, RejectedIsOrderly DEF out

\* BF.RESERVE.
LEMMA ReserveIsOrderly ==
  ASSUME NEW c, NEW v \in Object \union {Absent, Foreign}, NEW cfg, NEW m, NEW obey, NEW rnd,
         Properties(c, cfg, rnd) \in PropertyType
  PROVE  Orderly(v, m, BloomFilterReserve(c, v, cfg, m, obey, rnd))
<1> DEFINE p == Properties(c, cfg, rnd)
           o == NewReserved(p)
           out == BloomFilterReserve(c, v, cfg, m, obey, rnd)
<1>1. \/ \E x : out = Rejected(v, m, x)
      \/ v = Absent /\ out.val = o
  BY DEF BloomFilterReserve, IsObject, Outcome
<1>2. OnlyPushed(o)
  BY NewReservedPushed DEF OnlyPushed
<1>. HIDE DEF o, out
<1>3. CASE v = Absent /\ out.val = o
  BY <1>2, <1>3 DEF Orderly, out
<1>. QED BY <1>1, <1>3, RejectedIsOrderly DEF out

\* BF.LOAD that fails leaves the key as it is and, if there is something at the
\* key, does not get as far as counting filters.  One that succeeds allocates
\* the Vec exactly.
LEMMA FailedLoadIsOrderly ==
  ASSUME NEW c, NEW v \in Object \union {Absent, Foreign}, NEW cfg, NEW m, NEW obey,
         LET out == BloomFilterLoad(c, v, cfg, m, obey)
         IN  v # Absent \/ out.reply.err # Ok
  PROVE  Orderly(v, m, BloomFilterLoad(c, v, cfg, m, obey))
<1> DEFINE out == BloomFilterLoad(c, v, cfg, m, obey)
<1>1. CASE v # Absent
  <2>1. \E x : out = Rejected(v, m, x)
    BY <1>1 DEF BloomFilterLoad, IsObject
  <2>. HIDE DEF out
  <2>. QED BY <2>1, RejectedIsOrderly DEF out
<1>2. CASE v = Absent /\ out.reply.err # Ok
  <2>1. out.val = v
    BY <1>2 DEF BloomFilterLoad, Rejected, Outcome
  <2>. HIDE DEF out
  <2>. QED BY <1>2, <2>1, NothingCounts DEF Orderly, out
<1>. QED BY <1>1, <1>2

(***************************** VALIDATESCALETO *****************************)

\* An object with room for a target takes any items that stay within it, if the
\* projection charges for all of its Vec before and after.
LEMMA RoomTakesItems ==
  ASSUME NEW o \in Object, WellFormed(o), NEW m \in Counters, NEW items \in Seq(Item),
         NEW multi \in BOOLEAN, ~ multi => Len(items) = 1, NEW validate \in BOOLEAN,
         NEW limit \in Nat, limit < MaxFilters * FilterBytes, NEW target \in Nat,
         Room(o, target, limit), NumItems(o) + Len(items) <= target, Charged(o)
  PROVE  LET h == HandleAdd(o, m, items, multi, validate, limit)
         IN  Charged(h.obj) => h.err = Ok
<1> DEFINE start == [obj |-> o, metrics |-> m, err |-> Ok, ints |-> <<>>]
           new == NewItems(o, items)
           count == Cardinality(new)
           err == ValidateAddItems(o, count, limit)
           h == HandleAdd(o, m, items, multi, validate, limit)
<1>1. NumItems(o) \in Nat /\ Capacity(o) \in Nat /\ Len(items) \in Nat
  BY FootprintTyped
<1>2. CASE multi
  <2>1. count \in Nat /\ count <= Len(items)
    <3>1. new \subseteq 1..Len(items)
      BY DEF NewItems
    <3>. HIDE DEF new
    <3>2. IsFiniteSet(1..Len(items)) /\ Cardinality(1..Len(items)) = Len(items)
      <4>1. 1 \in Int /\ Len(items) \in Int
        BY <1>1
      <4>2. IsFiniteSet(1..Len(items))
        BY <4>1, FS_Interval
      <4>3. Cardinality(1..Len(items)) = IF 1 > Len(items) THEN 0 ELSE Len(items) - 1 + 1
        BY <4>1, FS_Interval
      <4>. QED BY <1>1, <4>2, <4>3
    <3>3. IsFiniteSet(new) /\ Cardinality(new) <= Cardinality(1..Len(items))
      BY <3>1, <3>2, FS_Subset
    <3>4. Cardinality(new) \in Nat
      BY <3>3, FS_CardinalityType
    <3>. QED BY <3>2, <3>3, <3>4
  <2>. HIDE DEF new, count
  <2>2. err = Ok
    <3> DEFINE t == NumItems(o) + count
    <3>1. t \in Nat /\ t <= target
      BY <1>1, <2>1
    <3>. HIDE DEF t
    <3>2. Room(o, t, limit)
      BY <3>1, RoomMonotone
    <3>3. CASE t <= Capacity(o)
      <4>1. Capacity(o) - NumItems(o) >= count
        BY <1>1, <2>1, <3>3 DEF t
      <4>. QED BY <4>1 DEF ValidateAddItems
    <3>4. CASE ~ (t <= Capacity(o))
      <4> DEFINE e == Project(o.filters[1].cap, o.fp, t, o.tr, o.expansion, limit).err
      <4>1. o.expansion # 0 /\ e = Ok
        BY <3>2, <3>4 DEF Room
      <4>2. err = IF count = 0 \/ Capacity(o) - NumItems(o) >= count THEN Ok
                  ELSE ClientError(e)
        BY <4>1 DEF ValidateAddItems, t
      <4>. HIDE DEF e, err
      <4>3. ClientError(Ok) = Ok
        BY DEF ClientError, Ok
      <4>. QED BY <4>1, <4>2, <4>3
    <3>. QED BY <3>3, <3>4
  <2>3. h.err # Ok => ~ (h.obj.vcap <= ProjectedVec(Len(h.obj.filters)))
    <3>1. ValidateAddItems(o, Cardinality(NewItems(o, items)), limit) = Ok
      BY <2>2 DEF count, new
    <3>. QED BY <1>2, <3>1, BatchFits
  <2>. HIDE DEF h
  <2>. QED BY <2>3 DEF Charged, h
<1>3. CASE ~ multi
  <2> DEFINE x == items[1]
             fresh == ~ ItemExists(o, x)
             e == AddError(o, validate, limit)
  <2>1. h = AddTurn(start, x, fresh, validate, limit)
    BY <1>3 DEF HandleAdd
  <2>2. e = Ok
    <3>1. NumItems(o) < target
      <4>1. Len(items) = 1
        BY <1>3
      <4>2. NumItems(o) + Len(items) <= target
        OBVIOUS
      <4>. QED BY <1>1, <4>1, <4>2
    <3>. QED BY <3>1, RoomAllowsAdd DEF Charged
  <2>3. h.err = Ok
    BY <2>1, <2>2 DEF AddTurn
  <2>. HIDE DEF h
  <2>. QED BY <2>3 DEF h
<1>. HIDE DEF h
<1>. QED BY <1>2, <1>3

\* A BF.INSERT that creates an object has validated the VALIDATESCALETO it was
\* given: the object it leaves has room for it.
LEMMA ValidatedCreation ==
  ASSUME NEW c, c.items \in Seq(Item), c.scaleTo # Unset, c.scaleTo \in Nat,
         NEW cfg, cfg.limit \in Nat, NEW m \in Counters, NEW obey \in BOOLEAN, ~ obey,
         NEW rnd, Properties(c, cfg, rnd) \in PropertyType,
         BloomFilterInsert(c, Absent, cfg, m, obey, rnd).reply.err = Ok
  PROVE  LET out == BloomFilterInsert(c, Absent, cfg, m, obey, rnd)
         IN  IsObject(out.val) /\ Room(out.val, c.scaleTo, cfg.limit)
<1> DEFINE p == Properties(c, cfg, rnd)
           limit == cfg.limit
           multi == TRUE
           ok == ~ obey
           o == NewReserved(p)
           k == NewReservedMetrics(m, o)
           h == HandleAdd(o, k, c.items, multi, ok, limit)
           out == BloomFilterInsert(c, Absent, cfg, m, obey, rnd)
<1>1. ScaleToError(c, p, ok, limit) = Ok
  BY DEF BloomFilterInsert, Rejected, Outcome
<1>2. p.expansion # 0 /\ Project(p.cap, p.fp, c.scaleTo, p.tr, p.expansion, limit).err = Ok
  <2>. HIDE DEF p, limit
  <2>. QED BY <1>1 DEF ScaleToError, Ok
<1>3. out.val = h.obj
  <2>1. ~ IsObject(Absent) /\ Absent # Foreign
    BY NothingCounts, ValueAssumption
  <2>2. out = CreateAndAdd(c, p, m, multi, ok, limit)
    BY <1>1, <2>1 DEF BloomFilterInsert, Rejected, Outcome, Ok
  <2>. HIDE DEF out
  <2>3. out.reply.err = Ok
    BY DEF out
  <2>. QED BY <2>2, <2>3 DEF CreateAndAdd, Rejected, Outcome
<1>4. o \in Object /\ WellFormed(o) /\ k \in Counters
  BY NewReservedPreserves
<1>5. /\ o.filters[1].cap = p.cap /\ o.fp = p.fp /\ o.tr = p.tr /\ o.expansion = p.expansion
  BY DEF NewReserved, NewFilter
<1>6. multi \in BOOLEAN /\ (~ multi => Len(c.items) = 1) /\ ok \in BOOLEAN
  OBVIOUS
<1>. HIDE DEF o, k, p, multi, ok, limit
<1>7. h.obj \in Object /\ Grown(o, h.obj)
  BY <1>4, <1>6, HandleAddPreserves
<1>. HIDE DEF h, out
<1>8. Room(o, c.scaleTo, limit)
  BY <1>2, <1>5 DEF Room
<1>9. Capacity(o) <= Capacity(h.obj)
  BY <1>4, <1>7, GrownCapacity
<1>10. Room(h.obj, c.scaleTo, limit)
  BY <1>4, <1>7, <1>8, <1>9, RoomStays
<1>. QED BY <1>3, <1>7, <1>10, ObjectsAreValues DEF out, limit

(*************************** objects read back *****************************)

\* A command leaves an object that can be read back within most, unless it found
\* one that cannot.
Refitted(v, out, most) ==
  (IsObject(v) => Refits(v, most)) /\ IsObject(out.val) => Refits(out.val, most)

\* A new object that is within the limit can be read back.
LEMMA NewReservedRefits ==
  ASSUME NEW p \in PropertyType, NEW validate \in BOOLEAN, validate,
         NEW limit \in Int, NEW most \in Int, limit <= most,
         CreateError(p, validate, limit) = Ok
  PROVE  Refits(NewReserved(p), most)
<1> DEFINE o == NewReserved(p)
<1>1. o \in Object /\ WellFormed(o) /\ OnlyPushed(o)
  <2>1. OnlyPushed(o)
    BY NewReservedPushed DEF OnlyPushed
  <2>. QED BY <2>1, NoMetricsTyped, NewReservedPreserves
<1>2. o.vcap = 1 /\ Len(o.filters) = 1
  <2>1. o.vcap = 1 /\ o.filters = <<NewFilter(p.fp, p.cap, p.seed)>>
    BY DEF NewReserved
  <2>. QED BY <2>1
<1>3. MemoryUsage(o) = ObjectSize(1) + FilterSize(p.cap, p.fp)
  BY NewReservedFootprint
<1>4. ~ (MemoryUsage(o) > limit)
  BY <1>3, Ok # "ExceedsMaxBloomSize" DEF CreateError, Ok
<1>. HIDE DEF o
<1>5. MemoryUsage(o) \in Nat /\ MemoryUsage(o) = ObjectSize(1) + FiltersSize(o)
  BY <1>1, <1>2, FootprintTyped DEF MemoryUsage
<1>6. ObjectSize(1) + FiltersSize(o) <= most
  BY <1>4, <1>5
<1>7. Pushed(1, Max({1, 1 - 1}))
  <2>1. Max({1, 1 - 1}) = 1
    BY DEF Max
  <2>. QED BY <1>1, <1>2, <2>1 DEF OnlyPushed
<1>8. Refits(o, most)
  BY <1>1, <1>2, <1>6, <1>7 DEF Refits
<1>. QED BY <1>8 DEF o

LEMMA RejectedRefits ==
  ASSUME NEW v, NEW m, NEW err, NEW most
  PROVE  Refitted(v, Rejected(v, m, err), most)
BY DEF Refitted, Rejected, Outcome

\* An add to an existing object.
LEMMA AddToExistingRefits ==
  ASSUME NEW c, c.items \in Seq(Item), NEW o \in Object, WellFormed(o), NEW m \in Counters,
         NEW multi \in BOOLEAN, ~ multi => Len(c.items) = 1,
         NEW validate \in BOOLEAN, validate,
         NEW limit \in Int, NEW most \in Int, limit <= most
  PROVE  Refitted(o, AddToExisting(c, o, m, multi, validate, limit), most)
<1> DEFINE h == HandleAdd(o, m, c.items, multi, validate, limit)
           out == AddToExisting(c, o, m, multi, validate, limit)
<1>1. AddAccounts(o, m, h, validate, limit, most)
  BY HandleAddAccounts
<1>2. out.val = h.obj /\ IsObject(o)
  BY ObjectsAreValues DEF AddToExisting, Outcome
<1>. HIDE DEF h, out
<1>. QED BY <1>1, <1>2 DEF AddAccounts, Refitted, out

\* A creation, with the adds that it makes.
LEMMA CreateAndAddRefits ==
  ASSUME NEW c, c.items \in Seq(Item), NEW p \in PropertyType, NEW m \in Counters,
         NEW multi \in BOOLEAN, ~ multi => Len(c.items) = 1,
         NEW validate \in BOOLEAN, validate,
         NEW limit \in Int, NEW most \in Int, limit <= most
  PROVE  Refitted(Absent, CreateAndAdd(c, p, m, multi, validate, limit), most)
<1> DEFINE o == NewReserved(p)
           k == NewReservedMetrics(m, o)
           e == CreateError(p, validate, limit)
           h == HandleAdd(o, k, c.items, multi, validate, limit)
           out == CreateAndAdd(c, p, m, multi, validate, limit)
<1>1. ~ IsObject(Absent)
  BY NothingCounts
<1>2. CASE e # Ok
  <2>1. out = Rejected(Absent, m, e)
    BY <1>2 DEF CreateAndAdd
  <2>. HIDE DEF e, out
  <2>. QED BY <2>1, RejectedRefits DEF out
<1>3. CASE e = Ok
  <2>1. o \in Object /\ WellFormed(o) /\ k \in Counters /\ Refits(o, most)
    BY <1>3, NewReservedPreserves, NewReservedRefits
  <2>2. out.val = h.obj
    BY <1>3 DEF CreateAndAdd, Outcome
  <2>. HIDE DEF o, k
  <2>3. AddAccounts(o, k, h, validate, limit, most)
    BY <2>1, HandleAddAccounts
  <2>. HIDE DEF h, out
  <2>. QED BY <2>1, <2>2, <2>3 DEF AddAccounts, Refitted, out
<1>. QED BY <1>2, <1>3

\* BF.ADD, BF.MADD and BF.INSERT of a client.
LEMMA AddValueRefits ==
  ASSUME NEW c, c.items \in Seq(Item), c.name = "BF.MADD" \/ Len(c.items) = 1,
         NEW v \in Object \union {Absent, Foreign}, IsObject(v) => WellFormed(v),
         NEW cfg, cfg.limit \in Int, NEW most \in Int, cfg.limit <= most,
         NEW m \in Counters, NEW obey \in BOOLEAN, ~ obey, NEW rnd,
         Properties(c, cfg, rnd) \in PropertyType
  PROVE  Refitted(v, BloomFilterAddValue(c, v, cfg, m, obey, rnd), most)
<1> DEFINE multi == c.name = "BF.MADD"
           ok == ~ obey
           limit == cfg.limit
           p == Properties(c, cfg, rnd)
           out == BloomFilterAddValue(c, v, cfg, m, obey, rnd)
<1>1. /\ multi \in BOOLEAN /\ (~ multi => Len(c.items) = 1) /\ ok \in BOOLEAN /\ ok
      /\ limit \in Int /\ limit <= most /\ p \in PropertyType
  OBVIOUS
<1>2. \/ out = Rejected(v, m, "WrongType")
      \/ IsObject(v) /\ out = AddToExisting(c, v, m, multi, ok, limit)
      \/ v = Absent /\ out = CreateAndAdd(c, p, m, multi, ok, limit)
  BY DEF BloomFilterAddValue, IsObject
<1>. HIDE DEF multi, ok, limit, p, out
<1>3. CASE IsObject(v) /\ out = AddToExisting(c, v, m, multi, ok, limit)
  <2>1. v \in Object /\ WellFormed(v)
    BY <1>3 DEF IsObject
  <2>. QED BY <1>1, <1>3, <2>1, AddToExistingRefits DEF out
<1>4. CASE v = Absent /\ out = CreateAndAdd(c, p, m, multi, ok, limit)
  BY <1>1, <1>4, CreateAndAddRefits DEF out
<1>. QED BY <1>2, <1>3, <1>4, RejectedRefits DEF out

LEMMA InsertRefits ==
  ASSUME NEW c, c.items \in Seq(Item),
         NEW v \in Object \union {Absent, Foreign}, IsObject(v) => WellFormed(v),
         NEW cfg, cfg.limit \in Int, NEW most \in Int, cfg.limit <= most,
         NEW m \in Counters, NEW obey \in BOOLEAN, ~ obey, NEW rnd,
         Properties(c, cfg, rnd) \in PropertyType
  PROVE  Refitted(v, BloomFilterInsert(c, v, cfg, m, obey, rnd), most)
<1> DEFINE p == Properties(c, cfg, rnd)
           ok == ~ obey
           limit == cfg.limit
           multi == TRUE
           err == ScaleToError(c, p, ok, limit)
           out == BloomFilterInsert(c, v, cfg, m, obey, rnd)
<1>1. /\ multi \in BOOLEAN /\ (~ multi => Len(c.items) = 1) /\ ok \in BOOLEAN /\ ok
      /\ limit \in Int /\ limit <= most /\ p \in PropertyType
  OBVIOUS
<1>2. \/ \E x : out = Rejected(v, m, x)
      \/ IsObject(v) /\ out = AddToExisting(c, v, m, multi, ok, limit)
      \/ v = Absent /\ out = CreateAndAdd(c, p, m, multi, ok, limit)
  BY DEF BloomFilterInsert, IsObject
<1>. HIDE DEF multi, ok, limit, p, out
<1>3. CASE IsObject(v) /\ out = AddToExisting(c, v, m, multi, ok, limit)
  <2>1. v \in Object /\ WellFormed(v)
    BY <1>3 DEF IsObject
  <2>. QED BY <1>1, <1>3, <2>1, AddToExistingRefits DEF out
<1>4. CASE v = Absent /\ out = CreateAndAdd(c, p, m, multi, ok, limit)
  BY <1>1, <1>4, CreateAndAddRefits DEF out
<1>. QED BY <1>2, <1>3, <1>4, RejectedRefits DEF out

\* BF.RESERVE of a client.
LEMMA ReserveRefits ==
  ASSUME NEW c, NEW v \in Object \union {Absent, Foreign},
         NEW cfg, cfg.limit \in Int, NEW most \in Int, cfg.limit <= most,
         NEW m, NEW obey \in BOOLEAN, ~ obey, NEW rnd, Properties(c, cfg, rnd) \in PropertyType
  PROVE  Refitted(v, BloomFilterReserve(c, v, cfg, m, obey, rnd), most)
<1> DEFINE p == Properties(c, cfg, rnd)
           o == NewReserved(p)
           ok == ~ obey
           limit == cfg.limit
           out == BloomFilterReserve(c, v, cfg, m, obey, rnd)
<1>1. ok \in BOOLEAN /\ ok /\ limit \in Int /\ limit <= most /\ p \in PropertyType
  OBVIOUS
<1>2. \/ \E x : out = Rejected(v, m, x)
      \/ CreateError(p, ok, limit) = Ok /\ out.val = o
  BY DEF BloomFilterReserve, IsObject, Outcome
<1>. HIDE DEF p, ok, limit, out
<1>3. CASE CreateError(p, ok, limit) = Ok /\ out.val = o
  <2>1. Refits(o, most)
    BY <1>1, <1>3, NewReservedRefits
  <2>. QED BY <1>3, <2>1 DEF Refitted, out
<1>. QED BY <1>2, <1>3, RejectedRefits DEF out

(*************************** commands of one item **************************)

\* A turn that fails is the first to say so, and one on a filter with room does not.
LEMMA FirstTurn ==
  ASSUME NEW o, NEW m, NEW x, NEW new \in BOOLEAN, NEW validate, NEW limit
  PROVE  LET s == [obj |-> o, metrics |-> m, err |-> Ok, ints |-> <<>>]
             t == AddTurn(s, x, new, validate, limit)
         IN  /\ t.err # Ok => ~ AddSucceeded(t)
             /\ ~ Full(Last(o.filters)) => t.err = Ok
<1> DEFINE s == [obj |-> o, metrics |-> m, err |-> Ok, ints |-> <<>>]
           e == AddError(s.obj, validate, limit)
           t == AddTurn(s, x, new, validate, limit)
<1>1. ~ Full(Last(o.filters)) => e = Ok
  BY DEF AddError
<1>2. CASE ~ new \/ e = Ok
  <2>1. t.err = Ok
    <3>. HIDE DEF e
    <3>1. CASE ~ new
      <4>1. t = [s EXCEPT !.ints = Append(@, 0)]
        BY <3>1 DEF AddTurn
      <4>. QED BY <4>1
    <3>2. CASE new
      <4>1. AddError(s.obj, validate, limit) = Ok
        BY <1>2, <3>2 DEF e
      <4>. QED BY <3>2, <4>1 DEF AddTurn
    <3>. QED BY <3>1, <3>2
  <2>. HIDE DEF t
  <2>. QED BY <2>1 DEF t
<1>3. CASE new /\ e # Ok
  <2>1. t = [s EXCEPT !.err = e]
    BY <1>3 DEF AddTurn
  <2>2. t.ints = <<>>
    <3>. HIDE DEF e, t
    <3>. QED BY <2>1
  <2>. HIDE DEF t, e
  <2>3. ~ AddSucceeded(t)
    BY <2>2 DEF AddSucceeded
  <2>. QED BY <1>1, <1>3, <2>3 DEF t
<1>. QED BY <1>2, <1>3

\* At most one item is added or refused, and never refused by a filter with room.
LEMMA OneItemAdds ==
  ASSUME NEW o \in Object, WellFormed(o), NEW m \in Counters,
         NEW items \in Seq(Item), Len(items) \in {0, 1},
         NEW multi \in BOOLEAN, ~ multi => Len(items) = 1,
         NEW validate \in BOOLEAN, NEW limit
  PROVE  LET h == HandleAdd(o, m, items, multi, validate, limit)
         IN  /\ h.err # Ok => ~ AddSucceeded(h)
             /\ ~ Full(Last(o.filters))
                /\ ValidateAddItems(o, Cardinality(NewItems(o, items)), limit) = Ok
                  => h.err = Ok
<1> DEFINE s == [obj |-> o, metrics |-> m, err |-> Ok, ints |-> <<>>]
           e == ValidateAddItems(o, Cardinality(NewItems(o, items)), limit)
           h == HandleAdd(o, m, items, multi, validate, limit)
           one(b) == AddTurn(s, items[1], b, validate, limit)
           good(t) == /\ t.err # Ok => ~ AddSucceeded(t)
                      /\ ~ Full(Last(o.filters)) /\ e = Ok => t.err = Ok
<1>1. ASSUME NEW b \in BOOLEAN PROVE good(one(b))
  <2> DEFINE x == items[1]
  <2>1. /\ AddTurn(s, x, b, validate, limit).err # Ok
             => ~ AddSucceeded(AddTurn(s, x, b, validate, limit))
        /\ ~ Full(Last(o.filters)) => AddTurn(s, x, b, validate, limit).err = Ok
    <3>. HIDE DEF x
    <3>. QED BY FirstTurn
  <2>. HIDE DEF s, e
  <2>. QED BY <2>1
<1>2. CASE ~ multi
  <2>1. h = one(~ ItemExists(o, items[1]))
    BY <1>2 DEF HandleAdd
  <2>. HIDE DEF one, good, h
  <2>2. good(h)
    BY <1>1, <2>1
  <2>. QED BY <2>2 DEF good, h
<1>3. CASE multi /\ Len(items) = 0
  <2>1. h.obj = o /\ h.err = Ok
    <3>1. (~ multi => FALSE) /\ Len(items) < 1
      BY <1>3
    <3>. QED BY <3>1, NothingToAdd
  <2>. HIDE DEF h
  <2>. QED BY <2>1 DEF h
<1>4. CASE multi /\ Len(items) = 1 /\ e # Ok
  <2>1. h = [s EXCEPT !.err = e]
    BY <1>4 DEF HandleAdd
  <2>. HIDE DEF e
  <2>2. h.ints = <<>> /\ h.err = e
    BY <2>1
  <2>. HIDE DEF h
  <2>3. ~ AddSucceeded(h)
    BY <2>2 DEF AddSucceeded
  <2>. QED BY <1>4, <2>3 DEF h, e
<1>5. CASE multi /\ Len(items) = 1 /\ e = Ok
  <2>1. h = AddTurns(s, items, NewItems(s.obj, items), validate, limit)
    BY <1>5 DEF HandleAdd
  <2>2. s \in Turn
    <3>1. <<>> \in Seq({0, 1}) /\ Ok \in AddErrors
      BY DEF AddErrors
    <3>. QED BY <3>1 DEF Turn
  <2> DEFINE b == 1 \in NewItems(s.obj, items)
  <2>. HIDE DEF h, e, s
  <2>3. PICK turn : /\ TurnsOf(s, items, validate, limit, turn)
                    /\ AddTurns(s, items, NewItems(s.obj, items), validate, limit)
                         = turn[Len(items)]
    BY <2>2, AddTurnsSteps
  <2>4. turn[1] = AddTurn(turn[0], items[1], 1 \in NewItems(s.obj, items), validate, limit)
        /\ turn[0] = s
    BY <1>5, <2>3 DEF TurnsOf
  <2>5. h = one(b) /\ b \in BOOLEAN
    BY <1>5, <2>1, <2>3, <2>4
  <2>. HIDE DEF one, good, b
  <2>6. good(h)
    BY <1>1, <2>5
  <2>. QED BY <2>6 DEF good, h, e
<1>. QED BY <1>2, <1>3, <1>4, <1>5

\* A handler that failed has propagated nothing.
Silent(out) == out.reply.err # Ok => ~ (out.repl # <<>>)

\* Commands of at most one item, then, are not propagated when they fail.
LEMMA OneItemToExisting ==
  ASSUME NEW c, c.items \in Seq(Item), Len(c.items) \in {0, 1},
         NEW o \in Object, WellFormed(o), NEW m \in Counters,
         NEW multi \in BOOLEAN, ~ multi => Len(c.items) = 1,
         NEW validate \in BOOLEAN, NEW limit
  PROVE  Silent(AddToExisting(c, o, m, multi, validate, limit))
<1> DEFINE h == HandleAdd(o, m, c.items, multi, validate, limit)
           out == AddToExisting(c, o, m, multi, validate, limit)
<1>1. h.err # Ok => ~ AddSucceeded(h)
  BY OneItemAdds
<1>2. out.reply.err = h.err /\ out.repl = IF AddSucceeded(h) THEN <<c>> ELSE <<>>
  BY DEF AddToExisting, Outcome
<1>. HIDE DEF h, out
<1>3. Silent(out)
  BY <1>1, <1>2 DEF Silent
<1>. QED BY <1>3 DEF out

LEMMA OneItemToCreated ==
  ASSUME NEW c, c.items \in Seq(Item), Len(c.items) \in {0, 1}, NEW p \in PropertyType,
         NEW m \in Counters, NEW multi \in BOOLEAN, ~ multi => Len(c.items) = 1,
         NEW validate \in BOOLEAN, NEW limit
  PROVE  Silent(CreateAndAdd(c, p, m, multi, validate, limit))
<1> DEFINE o == NewReserved(p)
           h == HandleAdd(o, NewReservedMetrics(m, o), c.items, multi, validate, limit)
           e == CreateError(p, validate, limit)
           out == CreateAndAdd(c, p, m, multi, validate, limit)
<1>1. CASE e # Ok
  <2>1. out = Rejected(Absent, m, e)
    BY <1>1 DEF CreateAndAdd
  <2>2. out.repl = <<>>
    BY <2>1 DEF Rejected, Outcome
  <2>. HIDE DEF out
  <2>3. Silent(out)
    BY <2>2 DEF Silent
  <2>. QED BY <2>3 DEF out
<1>2. CASE e = Ok
  <2>1. out.reply.err = h.err
    BY <1>2 DEF CreateAndAdd, Outcome
  <2>2. /\ o \in Object /\ WellFormed(o) /\ NewReservedMetrics(m, o) \in Counters
        /\ ValidateAddItems(o, Cardinality(NewItems(o, c.items)), limit) = Ok
    <3>1. Len(c.items) <= 1
      <4>1. CASE Len(c.items) = 0
        BY <4>1
      <4>2. CASE Len(c.items) = 1
        BY <4>2
      <4>. QED BY <4>1, <4>2
    <3>. QED BY <3>1, NewReservedPreserves, OneItemFits
  <2>3. ~ Full(Last(o.filters))
    <3>1. /\ Len(o.filters) = 1 /\ o.filters[1].num = 0 /\ o.filters[1].cap = p.cap
          /\ p.cap \in 1..CapacityMax
      BY DEF NewReserved, NewFilter, PropertyType
    <3>2. Last(o.filters) = o.filters[1]
      BY <2>2, <3>1, LastFilter
    <3>. QED BY <3>1, <3>2 DEF Full
  <2>. HIDE DEF o
  <2>4. h.err = Ok
    BY <2>2, <2>3, OneItemAdds
  <2>. HIDE DEF out, h
  <2>5. Silent(out)
    BY <2>1, <2>4 DEF Silent
  <2>. QED BY <2>5 DEF out
<1>. QED BY <1>1, <1>2

LEMMA OneItemOutcomes ==
  ASSUME NEW c \in CommandType, Len(c.items) \in {0, 1}, c.name = "BF.ADD" => Len(c.items) = 1,
         NEW v, IsObject(v) => v \in Object /\ WellFormed(v),
         NEW cfg \in Config, NEW m \in Counters, NEW rnd \in Seeds \ {FixedSeed},
         NEW obey \in BOOLEAN
  PROVE  /\ Silent(BloomFilterReserve(c, v, cfg, m, obey, rnd))
         /\ Silent(BloomFilterInsert(c, v, cfg, m, obey, rnd))
         /\ c.name \in {"BF.ADD", "BF.MADD"}
              => Silent(BloomFilterAddValue(c, v, cfg, m, obey, rnd))
<1> DEFINE p == Properties(c, cfg, rnd)
           yes == TRUE
<1>1. p \in PropertyType
  BY PropertiesTyped
<1>2. /\ c.items \in Seq(Item) /\ cfg.limit \in Int /\ (~ obey) \in BOOLEAN
      /\ yes \in BOOLEAN /\ (~ yes => Len(c.items) = 1)
  <2>1. c.items \in Seq(Item) /\ cfg.limit \in Int
    BY DEF CommandType, Config
  <2>2. (~ obey) \in BOOLEAN
    OBVIOUS
  <2>3. yes = TRUE
    OBVIOUS
  <2>. HIDE DEF yes
  <2>. QED BY <2>1, <2>2, <2>3
<1>3. ASSUME NEW err PROVE Silent(Rejected(v, m, err))
  BY DEF Rejected, Outcome, Silent
<1>4. Silent(BloomFilterReserve(c, v, cfg, m, obey, rnd))
  <2> DEFINE o == NewReserved(p)
             done == Outcome(o, NewReservedMetrics(m, o), Ok, <<>>,
                             <<ReplicaInsert(c.key, o, <<>>)>>, {"bloom.reserve"})
             out == BloomFilterReserve(c, v, cfg, m, obey, rnd)
  <2>1. (\E err : out = Rejected(v, m, err)) \/ out = done
    BY DEF BloomFilterReserve
  <2>2. Silent(done)
    BY DEF Outcome, Silent
  <2>. HIDE DEF done, out
  <2>3. Silent(out)
    BY <1>3, <2>1, <2>2
  <2>. QED BY <2>3 DEF out
<1>5. Silent(BloomFilterInsert(c, v, cfg, m, obey, rnd))
  <2> DEFINE old == AddToExisting(c, v, m, yes, ~ obey, cfg.limit)
             new == CreateAndAdd(c, p, m, yes, ~ obey, cfg.limit)
             out == BloomFilterInsert(c, v, cfg, m, obey, rnd)
  <2>1. (\E err : out = Rejected(v, m, err)) \/ (IsObject(v) /\ out = old) \/ out = new
    BY DEF BloomFilterInsert
  <2>2. IsObject(v) => Silent(old)
    <3>. HIDE DEF yes
    <3>. QED BY <1>2, OneItemToExisting
  <2>3. Silent(new)
    <3>. HIDE DEF yes, p
    <3>. QED BY <1>1, <1>2, OneItemToCreated
  <2>. HIDE DEF old, new, out
  <2>4. Silent(out)
    BY <1>3, <2>1, <2>2, <2>3
  <2>. QED BY <2>4 DEF out
<1>6. ASSUME c.name \in {"BF.ADD", "BF.MADD"}
      PROVE  Silent(BloomFilterAddValue(c, v, cfg, m, obey, rnd))
  <2> DEFINE multi == c.name = "BF.MADD"
             old == AddToExisting(c, v, m, multi, ~ obey, cfg.limit)
             new == CreateAndAdd(c, p, m, multi, ~ obey, cfg.limit)
             out == BloomFilterAddValue(c, v, cfg, m, obey, rnd)
  <2>1. (\E err : out = Rejected(v, m, err)) \/ (IsObject(v) /\ out = old) \/ out = new
    BY DEF BloomFilterAddValue
  <2>2. multi \in BOOLEAN /\ (~ multi => Len(c.items) = 1)
    BY <1>6
  <2>3. IsObject(v) => Silent(old)
    <3>. HIDE DEF multi
    <3>. QED BY <1>2, <2>2, OneItemToExisting
  <2>4. Silent(new)
    <3>. HIDE DEF multi, p
    <3>. QED BY <1>1, <1>2, <2>2, OneItemToCreated
  <2>. HIDE DEF old, new, out
  <2>5. Silent(out)
    BY <1>3, <2>1, <2>3, <2>4
  <2>. QED BY <2>5 DEF out
<1>. QED BY <1>4, <1>5, <1>6

=============================================================================
