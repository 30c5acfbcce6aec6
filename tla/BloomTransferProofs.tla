------------------------- MODULE BloomTransferProofs -------------------------
(***************************************************************************)
(* Lemmas about the operators of BloomTransfer: an RDB image that is       *)
(* loaded gives back the object that was saved, or nothing and the         *)
(* counters as they were; and a command that a node has propagated takes   *)
(* every node that held the same to what the first one holds now.          *)
(***************************************************************************)
EXTENDS BloomTransfer, BloomCommandsProofs

(*************************** logical equality ******************************)

\* The same object, but for the allocation of its Vec.
Alike(o, p) ==
  /\ o.expansion = p.expansion /\ o.fp = p.fp /\ o.tr = p.tr
  /\ o.seedRandom = p.seedRandom /\ o.filters = p.filters

\* It is what the digest compares.
LEMMA AlikeIsLogical ==
  ASSUME NEW o \in Object, NEW p \in Object
  PROVE  /\ IsObject(o) /\ Logical(o) = Decoded(o)
         /\ Logical(o) = Logical(p) <=> Alike(o, p)
<1>1. /\ IsObject(o) /\ IsObject(p)
      /\ Logical(o) = Decoded(o) /\ Logical(p) = Decoded(p)
  BY ObjectsAreValues DEF Logical
<1>2. /\ o = [expansion |-> o.expansion, fp |-> o.fp, tr |-> o.tr,
              seedRandom |-> o.seedRandom, vcap |-> o.vcap, filters |-> o.filters]
      /\ p = [expansion |-> p.expansion, fp |-> p.fp, tr |-> p.tr,
              seedRandom |-> p.seedRandom, vcap |-> p.vcap, filters |-> p.filters]
  BY DEF Object
<1>3. /\ Decoded(o) = [expansion |-> o.expansion, fp |-> o.fp, tr |-> o.tr,
                       seedRandom |-> o.seedRandom, vcap |-> Len(o.filters),
                       filters |-> o.filters]
      /\ Decoded(p) = [expansion |-> p.expansion, fp |-> p.fp, tr |-> p.tr,
                       seedRandom |-> p.seedRandom, vcap |-> Len(p.filters),
                       filters |-> p.filters]
  BY <1>2 DEF Decoded
<1>4. ASSUME Decoded(o) = Decoded(p) PROVE Alike(o, p)
  BY <1>3, <1>4 DEF Alike
<1>5. ASSUME Alike(o, p) PROVE Decoded(o) = Decoded(p)
  BY <1>3, <1>5 DEF Alike
<1>. QED BY <1>1, <1>4, <1>5

\* What a key may hold.
Value == {v \in Object \union {Absent, Foreign} : IsObject(v) => WellFormed(v)}

LEMMA ValueFields ==
  /\ Absent \in Value /\ Foreign \in Value /\ ~ IsObject(Absent) /\ ~ IsObject(Foreign)
  /\ \A v \in Value : IsObject(v) => v \in Object /\ WellFormed(v)
  /\ \A v \in Value : ~ IsObject(v) => v = Absent \/ v = Foreign
  /\ \A o \in Object : WellFormed(o) => o \in Value /\ IsObject(o)
BY ObjectsAreValues DEF Value, IsObject

\* A value that is not an object is told apart from everything else.
LEMMA LogicalValues ==
  ASSUME NEW v \in Value, NEW w \in Value, Logical(v) = Logical(w)
  PROVE  /\ IsObject(v) <=> IsObject(w)
         /\ ~ IsObject(v) => v = w
         /\ IsObject(v) => /\ v \in Object /\ w \in Object /\ Alike(v, w)
                           /\ WellFormed(v) /\ WellFormed(w)
<1>1. ASSUME NEW u \in Value
      PROVE  IF IsObject(u) THEN Logical(u) \in Object ELSE Logical(u) = u
  <2>1. CASE IsObject(u)
    BY <2>1, ValueFields, DecodedPreserves DEF Logical
  <2>2. CASE ~ IsObject(u)
    BY <2>2 DEF Logical
  <2>. QED BY <2>1, <2>2
<1>2. IsObject(v) <=> IsObject(w)
  <2>1. \A u \in Value : ~ IsObject(u) => u \notin Object
    BY ValueFields, ValueAssumption
  <2>. QED BY <1>1, <2>1
<1>3. ~ IsObject(v) => v = w
  BY <1>1, <1>2
<1>4. ASSUME IsObject(v)
      PROVE  v \in Object /\ w \in Object /\ Alike(v, w) /\ WellFormed(v) /\ WellFormed(w)
  BY <1>2, <1>4, ValueFields, AlikeIsLogical
<1>. QED BY <1>2, <1>3, <1>4

\* An object alike a well formed one is well formed, if its Vec has room for it.
LEMMA AlikeIsWellFormed ==
  ASSUME NEW o \in Object, WellFormed(o), NEW p \in Object, Alike(o, p),
         Len(p.filters) <= p.vcap
  PROVE  WellFormed(p)
BY DEF WellFormed, Alike

(******************************* RDB images ********************************)

\* The image of an object is an image, and no other kind of value.
LEMMA ImageTyped ==
  ASSUME NEW o \in Object, WellFormed(o)
  PROVE  /\ IsObject(RdbSave(o)) /\ Len(RdbSave(o).filters) = Len(o.filters)
         /\ RdbSave(o).expansion = o.expansion /\ RdbSave(o).fp = o.fp
         /\ RdbSave(o).tr = o.tr /\ RdbSave(o).seedRandom = o.seedRandom
<1> DEFINE n == Len(o.filters)
           fs == [i \in DOMAIN o.filters |->
                    [cap |-> o.filters[i].cap, seed |-> o.filters[i].seed,
                     fp |-> o.filters[i].fp, bits |-> o.filters[i].bits]]
           num == Last(o.filters).num
<1>1. n \in Nat /\ DOMAIN o.filters = 1..n /\ \A i \in 1..n : o.filters[i] \in Filter
  BY LastFilter
<1>2. num \in Nat
  BY LastFilter, FilterFields
<1>3. \A i \in 1..n : fs[i] \in ImageFilter
  BY <1>1 DEF ImageFilter, Filter
<1>4. fs = [i \in 1..n |-> fs[i]]
  BY <1>1
<1>5. fs \in Seq(ImageFilter) /\ Len(fs) = n
  <2>. HIDE DEF fs, n
  <2>. QED BY <1>1, <1>3, <1>4
<1>6. RdbSave(o) = [expansion |-> o.expansion, fp |-> o.fp, tr |-> o.tr,
                    seedRandom |-> o.seedRandom, num |-> num, filters |-> fs]
  BY DEF RdbSave
<1>. HIDE DEF fs, n, num
<1>7. RdbSave(o) \in Image
  BY <1>2, <1>5, <1>6 DEF Image, Object
<1>8. IsObject(RdbSave(o))
  BY <1>7, ImageAssumption DEF IsObject
<1>. QED BY <1>5, <1>6, <1>8 DEF n

\* The item count that is saved for the last filter only is known for the others.
LEMMA FilterRestored ==
  ASSUME NEW o \in Object, WellFormed(o), NEW i \in 1..Len(o.filters)
  PROVE  RdbFilter(RdbSave(o), i) = o.filters[i]
<1> DEFINE n == Len(o.filters)
           f == o.filters[i]
           g == RdbSave(o).filters[i]
<1>1. n \in Nat /\ DOMAIN o.filters = 1..n /\ f \in Filter /\ Last(o.filters) = o.filters[n]
  BY LastFilter
<1>2. /\ g = [cap |-> f.cap, seed |-> f.seed, fp |-> f.fp, bits |-> f.bits]
      /\ RdbSave(o).num = o.filters[n].num
  BY <1>1 DEF RdbSave
<1>3. Len(RdbSave(o).filters) = n
  BY ImageTyped
<1>4. i # n => f.num = f.cap
  BY <1>1 DEF WellFormed
<1>5. f = [seed |-> f.seed, fp |-> f.fp, cap |-> f.cap, num |-> f.num, bits |-> f.bits]
  BY <1>1 DEF Filter
<1>. HIDE DEF n
<1>6. (IF i = n THEN RdbSave(o).num ELSE g.cap) = f.num
  BY <1>2, <1>4
<1>7. RdbFilter(RdbSave(o), i)
        = [seed |-> g.seed, fp |-> g.fp, cap |-> g.cap,
           num |-> IF i = n THEN RdbSave(o).num ELSE g.cap, bits |-> g.bits]
  BY <1>3 DEF RdbFilter
<1>. HIDE DEF f, g
<1>8. g.seed = f.seed /\ g.fp = f.fp /\ g.cap = f.cap /\ g.bits = f.bits
  BY <1>2
<1>. QED BY <1>5, <1>6, <1>7, <1>8 DEF f

\* One more filter, and what it weighs.
LEMMA OneMoreFilter ==
  ASSUME NEW o \in Object, NEW p \in Object, NEW f \in Filter,
         p.filters = Append(o.filters, f)
  PROVE  \A c \in Names : FiltersWeight(p)[c] = FiltersWeight(o)[c] + FilterWeight(f)[c]
<1> DEFINE n == Len(o.filters)
<1>1. o.filters \in Seq(Filter) /\ n \in Nat /\ DOMAIN o.filters = 1..n
  BY DEF Object
<1>2. /\ Len(p.filters) = n + 1 /\ DOMAIN p.filters = 1..(n + 1)
      /\ p.filters[n + 1] = f /\ \A i \in 1..n : p.filters[i] = o.filters[i]
  BY <1>1
<1>. HIDE DEF n
<1>3. /\ Len(Nums(o)) = n /\ Len(Caps(o)) = n /\ Len(Sizes(o)) = n
      /\ Len(Nums(p)) = n + 1 /\ Len(Caps(p)) = n + 1 /\ Len(Sizes(p)) = n + 1
  BY <1>2, TermsTyped DEF n
<1>4. /\ Nums(p)[n + 1] = f.num /\ Caps(p)[n + 1] = f.cap
      /\ Sizes(p)[n + 1] = FilterSize(f.cap, f.fp)
      /\ \A i \in 1..n : /\ Nums(p)[i] = Nums(o)[i] /\ Caps(p)[i] = Caps(o)[i]
                         /\ Sizes(p)[i] = Sizes(o)[i]
  <2>1. n + 1 \in 1..(n + 1) /\ \A i \in 1..n : i \in 1..(n + 1)
    BY <1>1
  <2>. QED BY <1>1, <1>2, <2>1 DEF Nums, Caps, Sizes
<1>4a. /\ Nums(o) \in Seq(Int) /\ Caps(o) \in Seq(Int) /\ Sizes(o) \in Seq(Int)
       /\ Nums(p) \in Seq(Int) /\ Caps(p) \in Seq(Int) /\ Sizes(p) \in Seq(Int)
       /\ NumItems(o) = SumOf(Nums(o)) /\ NumItems(p) = SumOf(Nums(p))
       /\ Capacity(o) = SumOf(Caps(o)) /\ Capacity(p) = SumOf(Caps(p))
       /\ FiltersSize(o) = SumOf(Sizes(o)) /\ FiltersSize(p) = SumOf(Sizes(p))
  BY TermsTyped
<1>5. NumItems(p) = NumItems(o) + f.num
  <2>1. SumOf(Nums(p)) = SumOf(Nums(o)) + Nums(p)[n + 1]
    BY <1>3, <1>4, <1>4a, SumOneMore
  <2>. QED BY <1>4, <1>4a, <2>1
<1>6. Capacity(p) = Capacity(o) + f.cap
  <2>1. SumOf(Caps(p)) = SumOf(Caps(o)) + Caps(p)[n + 1]
    BY <1>3, <1>4, <1>4a, SumOneMore
  <2>. QED BY <1>4, <1>4a, <2>1
<1>7. FiltersSize(p) = FiltersSize(o) + FilterSize(f.cap, f.fp)
  <2>1. SumOf(Sizes(p)) = SumOf(Sizes(o)) + Sizes(p)[n + 1]
    BY <1>3, <1>4, <1>4a, SumOneMore
  <2>. QED BY <1>4, <1>4a, <2>1
<1>. QED BY <1>1, <1>2, <1>5, <1>6, <1>7 DEF FiltersWeight, FilterWeight, Names, n

\* The errors of a load.
LoadErrors == {Ok, "FalsePositiveReachesZero", "ExceedsMaxBloomSize"}

\* What is passed from one filter of an image to the next.
Loading == [obj : Object, metrics : Counters, err : LoadErrors]

\* p is what is there of o after its first i filters were read.
Prefix(o, p, i) ==
  /\ p.expansion = o.expansion /\ p.fp = o.fp /\ p.tr = o.tr
  /\ p.seedRandom = o.seedRandom
  /\ Len(p.filters) = i /\ i <= p.vcap
  /\ \A j \in 1..i : p.filters[j] = o.filters[j]

\* Before the first filter there is an object without filters.
LEMMA NothingRead ==
  ASSUME NEW o \in Object, WellFormed(o), NEW m \in Counters
  PROVE  LET s == [obj |-> RdbEmpty(RdbSave(o)), metrics |-> m, err |-> Ok]
         IN  /\ s \in Loading /\ Prefix(o, s.obj, 0)
             /\ Tracks(m, FiltersWeight(s.obj), s.metrics)
<1> DEFINE e == RdbEmpty(RdbSave(o))
<1>1. e = [expansion |-> o.expansion, fp |-> o.fp, tr |-> o.tr,
           seedRandom |-> o.seedRandom, vcap |-> 1, filters |-> <<>>]
  BY ImageTyped DEF RdbEmpty
<1>. HIDE DEF e
<1>2. e \in Object /\ Prefix(o, e, 0)
  <2>1. <<>> \in Seq(Filter) /\ Len(<<>>) = 0 /\ 1..0 = {}
    OBVIOUS
  <2>. QED BY <1>1, <2>1 DEF Object, Prefix
<1>3. \A c \in Names : FiltersWeight(e)[c] = 0
  <2>1. e.filters = <<>>
    BY <1>1
  <2>2. Nums(e) = <<>> /\ Caps(e) = <<>> /\ Sizes(e) = <<>>
    <3>1. \A s \in {Nums(e), Caps(e), Sizes(e)} : s \in Seq(Int) /\ Len(s) = 0
      BY <1>2, <2>1, TermsTyped
    <3>. QED BY <3>1
  <2>3. NumItems(e) = 0 /\ Capacity(e) = 0 /\ FiltersSize(e) = 0
    BY <1>2, <2>2, TermsTyped, SumOfNothing
  <2>. QED BY <2>1, <2>3 DEF FiltersWeight, Names
<1>4. Tracks(m, FiltersWeight(e), m)
  BY <1>2, <1>3, FootprintTyped, TracksEqual
<1>. QED BY <1>2, <1>4 DEF Loading, LoadErrors, e

\* Reading a filter: it is refused and nothing changes but the error, or it is
\* appended and counted.
LEMMA LoadFilterStep ==
  ASSUME NEW o \in Object, WellFormed(o), NEW m \in Counters, NEW limit,
         NEW i \in 1..Len(o.filters), NEW s \in Loading
  PROVE  LET t == RdbLoadFilter(s, RdbSave(o), i, limit)
         IN  /\ t \in Loading
             /\ t.err = Ok => s.err = Ok
             /\ Tracks(m, FiltersWeight(s.obj), s.metrics)
                  => Tracks(m, FiltersWeight(t.obj), t.metrics)
             /\ t.err = Ok /\ Prefix(o, s.obj, i - 1) => Prefix(o, t.obj, i)
<1> DEFINE r == RdbSave(o)
           g == o.filters[i]
           err == RdbError(s.obj, r, i, limit)
           t == RdbLoadFilter(s, r, i, limit)
<1>1. /\ s.obj \in Object /\ s.metrics \in Counters /\ s.err \in LoadErrors
      /\ s = [obj |-> s.obj, metrics |-> s.metrics, err |-> s.err]
  BY DEF Loading
<1>2. g \in Filter /\ RdbFilter(r, i) = g
  BY LastFilter, FilterRestored
<1>3. err \in LoadErrors
  BY DEF RdbError, LoadErrors
<1>4. CASE s.err # Ok \/ err # Ok
  <2>1. \/ t = s /\ s.err # Ok
        \/ t = [s EXCEPT !.err = err] /\ err # Ok
    <3>1. CASE s.err # Ok
      BY <3>1 DEF RdbLoadFilter
    <3>2. CASE s.err = Ok /\ err # Ok
      BY <3>2, Zenon DEF RdbLoadFilter
    <3>. QED BY <1>4, <3>1, <3>2
  <2>. HIDE DEF err, t
  <2>2. t.obj = s.obj /\ t.metrics = s.metrics /\ t.err # Ok /\ t \in Loading
    BY <1>1, <1>3, <2>1 DEF Loading
  <2>. QED BY <2>2 DEF t
<1>5. CASE s.err = Ok /\ err = Ok
  <2> DEFINE q == s.obj
             v == PushedVec(q)
             p == [q EXCEPT !.filters = Append(@, g), !.vcap = v]
             k == Gain(s.metrics, FilterWeight(g))
  <2>1. t = [err |-> Ok, metrics |-> k, obj |-> p]
    BY <1>2, <1>5 DEF RdbLoadFilter
  <2>2. /\ q \in Object /\ q.filters \in Seq(Filter) /\ q.vcap \in Nat \ {0}
        /\ Len(q.filters) \in Nat
    BY <1>1 DEF Object
  <2>3. v \in Nat \ {0} /\ (Len(q.filters) <= q.vcap => Len(q.filters) + 1 <= v)
    <3>1. Max({2 * q.vcap, 4}) \in Nat /\ Max({2 * q.vcap, 4}) >= 2 * q.vcap
      BY <2>2, MaxOfTwo
    <3>. QED BY <2>2, <3>1 DEF PushedVec
  <2>. HIDE DEF v
  <2>4. /\ p.filters = Append(q.filters, g) /\ p.vcap = v /\ p.expansion = q.expansion
        /\ p.fp = q.fp /\ p.tr = q.tr /\ p.seedRandom = q.seedRandom
        /\ p \in Object
    <3>1. Append(q.filters, g) \in Seq(Filter)
      BY <1>2, <2>2
    <3>2. p = [expansion |-> q.expansion, fp |-> q.fp, tr |-> q.tr,
               seedRandom |-> q.seedRandom, vcap |-> v, filters |-> Append(q.filters, g)]
      <4>1. q = [expansion |-> q.expansion, fp |-> q.fp, tr |-> q.tr,
                 seedRandom |-> q.seedRandom, vcap |-> q.vcap, filters |-> q.filters]
        BY <2>2 DEF Object
      <4>2. p = [q EXCEPT !.filters = Append(q.filters, g), !.vcap = v]
        OBVIOUS
      <4>. HIDE DEF p, q, g
      <4>. QED BY <4>1, <4>2
    <3>. HIDE DEF p, q
    <3>. QED BY <2>2, <2>3, <3>1, <3>2 DEF Object
  <2>5. k \in Counters /\ FilterWeight(g) \in Weights
        /\ Tracks(s.metrics, FilterWeight(g), k)
    BY <1>1, <1>2, GainAndLose, WeightsAreTyped, GainTracks
  <2>. HIDE DEF p, k, q, g, r
  <2>6. ASSUME Tracks(m, FiltersWeight(q), s.metrics)
        PROVE  Tracks(m, FiltersWeight(p), k)
    <3>1. FiltersWeight(q) \in Weights /\ FiltersWeight(p) \in Weights
      BY <2>2, <2>4, FootprintTyped
    <3>2. \A c \in Names : FiltersWeight(p)[c] = FiltersWeight(q)[c] + FilterWeight(g)[c]
      BY <1>2, <2>2, <2>4, OneMoreFilter
    <3>. QED BY <1>1, <2>5, <2>6, <3>1, <3>2, TracksChain
  <2>7. ASSUME Prefix(o, q, i - 1) PROVE Prefix(o, p, i)
    <3>1. Len(q.filters) = i - 1 /\ Len(q.filters) <= q.vcap
      BY <2>7 DEF Prefix
    <3>2. Len(p.filters) = i /\ i <= v
      BY <1>2, <2>2, <2>3, <2>4, <3>1
    <3>3. \A j \in 1..i : p.filters[j] = o.filters[j]
      <4>1. \A j \in 1..(i - 1) : p.filters[j] = q.filters[j] /\ q.filters[j] = o.filters[j]
        BY <1>2, <2>2, <2>4, <2>7, <3>1 DEF Prefix
      <4>2. p.filters[i] = g
        BY <1>2, <2>2, <2>4, <3>1
      <4>. QED BY <4>1, <4>2 DEF g
    <3>. QED BY <2>4, <2>7, <3>2, <3>3 DEF Prefix
  <2>8. t.obj = p /\ t.metrics = k /\ t.err = Ok /\ t \in Loading
    BY <2>1, <2>4, <2>5 DEF Loading, LoadErrors
  <2>. HIDE DEF t
  <2>. QED BY <1>5, <2>6, <2>7, <2>8 DEF t, q, r
<1>. QED BY <1>4, <1>5

\* load has what the filters of the image r leave, one after the other.
Loads(r, m, limit, load) ==
  /\ load \in [0..Len(r.filters) -> Loading]
  /\ load[0] = [obj |-> RdbEmpty(r), metrics |-> m, err |-> Ok]
  /\ \A i \in 1..Len(r.filters) : load[i] = RdbLoadFilter(load[i - 1], r, i, limit)

\* What a load ends with after its last filter.
Loaded(done) ==
  IF done.err # Ok THEN RdbRefused(done)
  ELSE [val |-> done.obj, metrics |-> Gain(done.metrics, ObjectWeight(done.obj)), err |-> Ok]

\* Loading an image is such a sequence of steps.
LEMMA LoadSteps ==
  ASSUME NEW o \in Object, WellFormed(o), NEW m \in Counters, NEW limit
  PROVE  \E load : /\ Loads(RdbSave(o), m, limit, load)
                   /\ RdbLoad(RdbSave(o), m, limit) = Loaded(load[Len(o.filters)])
<1> DEFINE r == RdbSave(o)
           n == Len(o.filters)
           s0 == [obj |-> RdbEmpty(r), metrics |-> m, err |-> Ok]
           step == [i \in 1..n |-> [u \in Loading |-> RdbLoadFilter(u, r, i, limit)]]
           R(g) == g = [i \in 0..Len(r.filters) |->
                          IF i = 0 THEN s0 ELSE RdbLoadFilter(g[i - 1], r, i, limit)]
<1>1. n \in Nat /\ Len(r.filters) = n /\ s0 \in Loading
  BY LastFilter, ImageTyped, NothingRead
<1>2. \A i \in 1..n, u \in Loading : RdbLoadFilter(u, r, i, limit) \in Loading
  BY LoadFilterStep
<1>. HIDE DEF n, r, s0
<1>3. step \in [1..n -> [Loading -> Loading]]
  BY <1>2
<1>4. PICK g \in [0..n -> Loading] : g[0] = s0 /\ \A i \in 1..n : g[i] = step[i][g[i - 1]]
  <2>. HIDE DEF step
  <2>1. Iterates(n, Loading, s0, step)
    BY <1>1, <1>3, IterationExists
  <2>. QED BY <2>1 DEF Iterates
<1>5. R(g)
  <2>1. \A i \in 1..n : g[i - 1] \in Loading
    BY <1>1
  <2>2. \A i \in 1..n : g[i] = RdbLoadFilter(g[i - 1], r, i, limit)
    BY <1>4, <2>1
  <2>3. g = [i \in 0..n |-> g[i]]
    OBVIOUS
  <2>4. \A i \in 0..n : g[i] = IF i = 0 THEN s0 ELSE RdbLoadFilter(g[i - 1], r, i, limit)
    BY <1>1, <1>4, <2>2
  <2>. QED BY <1>1, <2>3, <2>4
<1> DEFINE load == CHOOSE g_ : R(g_)
<1>6. R(load)
  BY <1>5
<1>7. RdbLoad(r, m, limit) = Loaded(load[Len(r.filters)])
  BY DEF RdbLoad, Loaded, s0
<1>. HIDE DEF load
<1>8. /\ load[0] = s0 /\ load = [i \in 0..n |-> load[i]]
      /\ \A i \in 1..n : load[i] = RdbLoadFilter(load[i - 1], r, i, limit)
  BY <1>1, <1>6
<1> DEFINE T == {i \in Nat : i <= n => load[i] \in Loading}
<1>9. 0 \in T
  BY <1>1, <1>8
<1>10. ASSUME NEW i \in Nat, i \in T PROVE i + 1 \in T
  <2>1. SUFFICES ASSUME i + 1 <= n PROVE load[i + 1] \in Loading
    OBVIOUS
  <2>2. i + 1 \in 1..n /\ (i + 1) - 1 = i /\ load[i] \in Loading
    BY <1>1, <1>10, <2>1
  <2>. QED BY <1>2, <1>8, <2>2
<1>11. Nat \subseteq T
  <2>. HIDE DEF T
  <2>. QED BY <1>9, <1>10, SetInduction
<1>12. load \in [0..n -> Loading]
  BY <1>1, <1>8, <1>11
<1>13. Loads(r, m, limit, load)
  BY <1>1, <1>8, <1>12 DEF Loads, s0
<1>. QED BY <1>1, <1>7, <1>13 DEF r, n

\* What the steps of a load carry along.
LEMMA LoadInvariant ==
  ASSUME NEW o \in Object, WellFormed(o), NEW m \in Counters, NEW limit, NEW load,
         Loads(RdbSave(o), m, limit, load)
  PROVE  LET done == load[Len(o.filters)]
         IN  /\ done \in Loading /\ Tracks(m, FiltersWeight(done.obj), done.metrics)
             /\ done.err = Ok => Prefix(o, done.obj, Len(o.filters))
<1> DEFINE r == RdbSave(o)
           n == Len(o.filters)
<1>1. n \in Nat /\ Len(r.filters) = n
  BY LastFilter, ImageTyped
<1>2. /\ load \in [0..n -> Loading]
      /\ load[0] = [obj |-> RdbEmpty(r), metrics |-> m, err |-> Ok]
      /\ \A i \in 1..n : load[i] = RdbLoadFilter(load[i - 1], r, i, limit)
  BY <1>1 DEF Loads
<1> DEFINE Carried(i) == /\ Tracks(m, FiltersWeight(load[i].obj), load[i].metrics)
                         /\ load[i].err = Ok => Prefix(o, load[i].obj, i)
           T == {i \in Nat : i <= n => Carried(i)}
<1>3. 0 \in T
  <2>1. Carried(0)
    BY <1>2, NothingRead
  <2>. QED BY <2>1
<1>4. ASSUME NEW i \in Nat, i \in T PROVE i + 1 \in T
  <2>1. SUFFICES ASSUME i + 1 <= n PROVE Carried(i + 1)
    OBVIOUS
  <2> DEFINE s == load[i]
             t == load[i + 1]
  <2>2. i + 1 \in 1..n /\ (i + 1) - 1 = i /\ s \in Loading /\ Carried(i)
    BY <1>1, <1>2, <1>4, <2>1
  <2>3. t = RdbLoadFilter(s, r, i + 1, limit)
    BY <1>2, <2>2
  <2>4. /\ t.err = Ok => s.err = Ok
        /\ Tracks(m, FiltersWeight(s.obj), s.metrics) => Tracks(m, FiltersWeight(t.obj), t.metrics)
        /\ t.err = Ok /\ Prefix(o, s.obj, i) => Prefix(o, t.obj, i + 1)
    <3>. HIDE DEF s, t
    <3>. QED BY <2>2, <2>3, LoadFilterStep
  <2>. QED BY <2>2, <2>4
<1>5. Nat \subseteq T
  <2>. HIDE DEF T
  <2>. QED BY <1>3, <1>4, SetInduction
<1>6. Carried(n) /\ load[n] \in Loading
  BY <1>1, <1>2, <1>5
<1>. QED BY <1>6

\* An image that is loaded gives back the object, but for its Vec, and counts it;
\* one that is refused leaves the counters as they were.
LEMMA RdbLoadOutcome ==
  ASSUME NEW o \in Object, WellFormed(o), NEW m \in Counters, NEW limit
  PROVE  LET l == RdbLoad(RdbSave(o), m, limit)
         IN  /\ l = [val |-> l.val, metrics |-> l.metrics, err |-> l.err]
             /\ l.metrics \in Counters /\ l.val \in Value
             /\ l.err # Ok => l.val = Absent /\ l.metrics = m
             /\ l.err = Ok => /\ l.val \in Object /\ WellFormed(l.val) /\ Alike(l.val, o)
                              /\ Tracks(m, Footprint(l.val), l.metrics)
<1> DEFINE l == RdbLoad(RdbSave(o), m, limit)
           n == Len(o.filters)
<1>1. PICK load : Loads(RdbSave(o), m, limit, load) /\ l = Loaded(load[n])
  BY LoadSteps
<1> DEFINE s == load[n]
<1>2. /\ s \in Loading /\ Tracks(m, FiltersWeight(s.obj), s.metrics)
      /\ s.err = Ok => Prefix(o, s.obj, n)
  BY <1>1, LoadInvariant
<1>3. l = Loaded(s)
  BY <1>1
<1>. HIDE DEF l, s, n
<1>4. s.obj \in Object /\ s.metrics \in Counters
  BY <1>2 DEF Loading
<1>5. FiltersWeight(s.obj) \in Weights
  BY <1>4, FootprintTyped
<1>6. CASE s.err # Ok
  <2> DEFINE k == LoseFilters(s.metrics, s.obj)
  <2>1. l = [val |-> Absent, metrics |-> k, err |-> s.err]
    BY <1>3, <1>6 DEF Loaded, RdbRefused
  <2>2. k = m
    <3>1. k \in Counters /\ Tracks(s.metrics, Minus(FiltersWeight(s.obj)), k)
      BY <1>4, LoseFiltersTyped, FiltersTrack
    <3> DEFINE zero == [c \in Names |-> 0]
               w == FiltersWeight(s.obj)
    <3>2. zero \in Weights /\ Minus(w) \in Weights
      BY <1>5 DEF Weights, Minus
    <3>3. \A c \in Names : zero[c] = w[c] + Minus(w)[c]
      BY <1>5 DEF Weights, Minus
    <3>. HIDE DEF zero, w, k
    <3>4. Tracks(m, zero, k)
      BY <1>2, <1>4, <1>5, <3>1, <3>2, <3>3, TracksChain DEF w
    <3>5. Tracks(m, zero, m)
      BY <3>2, TracksEqual DEF zero
    <3>. QED BY <3>1, <3>2, <3>4, <3>5, TracksEqual
  <2>. HIDE DEF k
  <2>. QED BY <1>6, <2>1, <2>2, ValueFields DEF l
<1>7. CASE s.err = Ok
  <2> DEFINE v == s.obj
             k == Gain(s.metrics, ObjectWeight(v))
  <2>1. l = [val |-> v, metrics |-> k, err |-> Ok]
    BY <1>3, <1>7 DEF Loaded
  <2>2. Prefix(o, v, n)
    BY <1>2, <1>7
  <2>3. v.filters = o.filters
    <3>1. v.filters \in Seq(Filter) /\ o.filters \in Seq(Filter)
      BY <1>4 DEF Object
    <3>2. Len(v.filters) = Len(o.filters) /\ \A j \in 1..Len(o.filters) : v.filters[j] = o.filters[j]
      BY <2>2 DEF Prefix, n
    <3>. QED BY <3>1, <3>2
  <2>4. Alike(o, v) /\ Alike(v, o) /\ Len(v.filters) <= v.vcap
    BY <2>2, <2>3 DEF Alike, Prefix
  <2>5. WellFormed(v)
    BY <1>4, <2>4, AlikeIsWellFormed
  <2>6. k \in Counters /\ ObjectWeight(v) \in Weights /\ Tracks(s.metrics, ObjectWeight(v), k)
    <3>1. ObjectWeight(v) \in Weights
      BY <1>4, LastFilter, <2>5, WeightsAreTyped
    <3>. QED BY <1>4, <3>1, GainAndLose, GainTracks
  <2>7. Tracks(m, Footprint(v), k)
    <3>1. Footprint(v) \in Weights /\ FiltersSize(v) \in Nat /\ ObjectSize(v.vcap) \in Nat
          /\ Len(v.filters) \in Nat /\ NumItems(v) \in Nat /\ Capacity(v) \in Nat
      BY <1>4, FootprintTyped, TermsTyped
    <3>2. \A c \in Names : Footprint(v)[c] = FiltersWeight(v)[c] + ObjectWeight(v)[c]
      BY <3>1 DEF Names, Footprint, FiltersWeight, ObjectWeight, MemoryUsage
    <3>. QED BY <1>2, <1>4, <1>5, <2>6, <3>1, <3>2, TracksChain
  <2>8. v \in Value
    BY <1>4, <2>5, ValueFields
  <2>. HIDE DEF v, k
  <2>. QED BY <1>4, <2>1, <2>4, <2>5, <2>6, <2>7, <2>8 DEF l, v
<1>. QED BY <1>6, <1>7

\* What one limit lets a filter be read is read under a higher one.
LEMMA ReadUnderMore ==
  ASSUME NEW o \in Object, WellFormed(o), NEW p \in Object, NEW i \in 1..Len(o.filters),
         NEW limit \in Nat, NEW more \in Nat, limit <= more,
         RdbError(p, RdbSave(o), i, limit) = Ok
  PROVE  RdbError(p, RdbSave(o), i, more) = Ok
<1> DEFINE r == RdbSave(o)
           fp == FpRate(r.fp, i - 1, r.tr)
           size == FilterSize(r.filters[i].cap, fp)
           used == MemoryUsage(p)
<1>1. used \in Nat
  BY FootprintTyped DEF MemoryUsage
<1>2. size \in Nat
  <2>1. r.fp = o.fp /\ r.tr = o.tr /\ o.fp \in Nat \ {0} /\ o.tr \in Nat \ {0} /\ i - 1 \in Nat
    BY ImageTyped DEF Object
  <2>2. r.filters[i].cap \in Nat \ {0}
    <3>1. DOMAIN o.filters = 1..Len(o.filters) /\ o.filters[i] \in Filter
      BY LastFilter
    <3>2. r.filters[i].cap = o.filters[i].cap
      BY <3>1 DEF RdbSave
    <3>. QED BY <3>1, <3>2 DEF Filter
  <2>. HIDE DEF r
  <2>3. fp \in Nat \ {0}
    <3> DEFINE k == i - 1
    <3>1. k * r.tr \in Nat
      BY <2>1
    <3>. HIDE DEF k
    <3>. QED BY <2>1, <3>1 DEF FpRate, k
  <2>. HIDE DEF fp
  <2>. QED BY <2>2, <2>3, SizesAreNatural
<1>3. ~ FpReachesZero(fp) /\ ~ (used + size > limit)
  <2>. HIDE DEF fp, size, used, r
  <2>. QED BY DEF RdbError, fp, size, used, r, Ok
<1>. HIDE DEF fp, size, used, r
<1>4. ~ (used + size > more)
  BY <1>1, <1>2, <1>3
<1>. QED BY <1>3, <1>4 DEF RdbError, fp, size, used, r

\* What is read does not depend on the counters, nor on the limit as long as it is
\* no lower than one under which the image is read.
LEMMA LoadsElsewhere ==
  ASSUME NEW o \in Object, WellFormed(o), NEW m \in Counters, NEW k \in Counters,
         NEW limit \in Nat, NEW more \in Nat, limit <= more,
         RdbLoad(RdbSave(o), m, limit).err = Ok
  PROVE  /\ RdbLoad(RdbSave(o), k, more).val = RdbLoad(RdbSave(o), m, limit).val
         /\ RdbLoad(RdbSave(o), k, more).err = Ok
<1> DEFINE r == RdbSave(o)
           n == Len(o.filters)
<1>1. PICK a : Loads(r, m, limit, a) /\ RdbLoad(r, m, limit) = Loaded(a[n])
  BY LoadSteps
<1>2. PICK b : Loads(r, k, more, b) /\ RdbLoad(r, k, more) = Loaded(b[n])
  BY LoadSteps
<1>3. n \in Nat /\ Len(r.filters) = n
  BY LastFilter, ImageTyped
<1>3a. \A p \in Object, i \in 1..n :
         RdbError(p, r, i, limit) = Ok => RdbError(p, r, i, more) = Ok
  BY ReadUnderMore
<1>. HIDE DEF n, r
<1>4. /\ a \in [0..n -> Loading] /\ b \in [0..n -> Loading]
      /\ a[0] = [obj |-> RdbEmpty(r), metrics |-> m, err |-> Ok]
      /\ b[0] = [obj |-> RdbEmpty(r), metrics |-> k, err |-> Ok]
      /\ \A i \in 1..n : /\ a[i] = RdbLoadFilter(a[i - 1], r, i, limit)
                         /\ b[i] = RdbLoadFilter(b[i - 1], r, i, more)
  BY <1>1, <1>2, <1>3 DEF Loads
<1> DEFINE Same(i) == a[i].err = Ok => b[i].err = Ok /\ a[i].obj = b[i].obj
           T == {i \in Nat : i <= n => Same(i)}
<1>5. 0 \in T
  BY <1>4
<1>6. ASSUME NEW i \in Nat, i \in T PROVE i + 1 \in T
  <2>1. SUFFICES ASSUME i + 1 <= n, a[i + 1].err = Ok
                 PROVE  b[i + 1].err = Ok /\ a[i + 1].obj = b[i + 1].obj
    OBVIOUS
  <2>2. i + 1 \in 1..n /\ (i + 1) - 1 = i /\ i \in 0..n /\ Same(i)
    BY <1>3, <1>6, <2>1
  <2>3. a[i] \in Loading /\ b[i] \in Loading
    BY <1>4, <2>2
  <2> DEFINE s == a[i]
             t == b[i]
             e == RdbError(s.obj, r, i + 1, limit)
             d == RdbError(s.obj, r, i + 1, more)
  <2>4. /\ a[i + 1] = RdbLoadFilter(s, r, i + 1, limit)
        /\ b[i + 1] = RdbLoadFilter(t, r, i + 1, more)
    BY <1>4, <2>2
  <2>5. s.obj \in Object /\ s = [obj |-> s.obj, metrics |-> s.metrics, err |-> s.err]
    BY <2>3 DEF Loading
  <2>6. s.err = Ok
    <3>1. SUFFICES ASSUME s.err # Ok PROVE FALSE
      OBVIOUS
    <3>2. a[i + 1] = s
      BY <2>4, <3>1 DEF RdbLoadFilter
    <3>. QED BY <2>1, <3>1, <3>2
  <2>7. e = Ok
    <3>1. SUFFICES ASSUME e # Ok PROVE FALSE
      OBVIOUS
    <3>2. a[i + 1] = [s EXCEPT !.err = e]
      BY <2>4, <2>6, <3>1, Zenon DEF RdbLoadFilter
    <3>. HIDE DEF s, e
    <3>3. a[i + 1].err = e
      BY <2>5, <3>2
    <3>. QED BY <2>1, <3>1, <3>3
  <2>8. d = Ok
    BY <1>3a, <2>2, <2>5, <2>7
  <2>9. t.obj = s.obj /\ t.err = Ok
    BY <2>2, <2>6
  <2>. HIDE DEF s, t, e, d
  <2> DEFINE p == [s.obj EXCEPT !.filters = Append(@, RdbFilter(r, i + 1)),
                                !.vcap = PushedVec(s.obj)]
             w == FilterWeight(RdbFilter(r, i + 1))
  <2>10. a[i + 1] = [err |-> Ok, metrics |-> Gain(s.metrics, w), obj |-> p]
    BY <2>4, <2>6, <2>7, Zenon DEF RdbLoadFilter, e
  <2>11. b[i + 1] = [err |-> Ok, metrics |-> Gain(t.metrics, w), obj |-> p]
    BY <2>4, <2>8, <2>9, Zenon DEF RdbLoadFilter, d
  <2>. HIDE DEF p, w
  <2>. QED BY <2>10, <2>11
<1>7. Nat \subseteq T
  <2>. HIDE DEF T
  <2>. QED BY <1>5, <1>6, SetInduction
<1>8. Same(n)
  BY <1>3, <1>7
<1>9. a[n].err = Ok
  <2>1. SUFFICES ASSUME a[n].err # Ok PROVE FALSE
    OBVIOUS
  <2>2. RdbLoad(r, m, limit).err = a[n].err
    BY <1>1, <2>1 DEF Loaded, RdbRefused
  <2>. QED BY <2>1, <2>2 DEF r
<1>10. b[n].err = Ok /\ a[n].obj = b[n].obj
  BY <1>8, <1>9
<1>11. Loaded(a[n]).val = a[n].obj /\ Loaded(b[n]).val = b[n].obj /\ Loaded(b[n]).err = Ok
  BY <1>9, <1>10 DEF Loaded
<1>. QED BY <1>1, <1>2, <1>10, <1>11 DEF r

(***************************** the same add ********************************)

\* Alike objects hold the same items and count the same.
LEMMA AlikeReads ==
  ASSUME NEW o \in Object, NEW p \in Object, Alike(o, p)
  PROVE  /\ \A x : ItemExists(o, x) = ItemExists(p, x)
         /\ \A items : NewItems(o, items) = NewItems(p, items)
         /\ \A count, limit : ValidateAddItems(o, count, limit) = ValidateAddItems(p, count, limit)
         /\ Full(Last(o.filters)) = Full(Last(p.filters))
         /\ NextFp(o) = NextFp(p) /\ NextCapacity(o) = NextCapacity(p)
         /\ NumItems(o) = NumItems(p)
<1>1. /\ o.expansion = p.expansion /\ o.fp = p.fp /\ o.tr = p.tr
      /\ o.filters = p.filters
  BY DEF Alike
<1>2. \A x : ItemExists(o, x) = ItemExists(p, x)
  BY <1>1 DEF ItemExists
<1>3. \A items : NewItems(o, items) = NewItems(p, items)
  BY <1>2 DEF NewItems
<1>4. Capacity(o) = Capacity(p) /\ NumItems(o) = NumItems(p)
  <2>1. Nums(o) = Nums(p) /\ Caps(o) = Caps(p)
    BY <1>1 DEF Nums, Caps
  <2>. QED BY <2>1, TermsTyped
<1>5. \A count, limit : ValidateAddItems(o, count, limit) = ValidateAddItems(p, count, limit)
  BY <1>1, <1>4 DEF ValidateAddItems
<1>6. /\ Full(Last(o.filters)) = Full(Last(p.filters))
      /\ NextFp(o) = NextFp(p) /\ NextCapacity(o) = NextCapacity(p)
  BY <1>1 DEF NextFp, NextCapacity
<1>. QED BY <1>2, <1>3, <1>4, <1>5, <1>6

\* What fits one of them under the limit is added to the other without a limit,
\* and leaves them alike.
LEMMA AlikeAdds ==
  ASSUME NEW o \in Object, WellFormed(o), NEW p \in Object, WellFormed(p), Alike(o, p),
         NEW x \in Item, NEW validate \in BOOLEAN, NEW free \in BOOLEAN, ~ free,
         NEW limit, NEW most,
         AddError(o, validate, limit) = Ok
  PROVE  /\ AddError(p, free, most) = Ok
         /\ Alike(AddItemUnchecked(o, x), AddItemUnchecked(p, x))
<1>1. /\ Full(Last(o.filters)) = Full(Last(p.filters))
      /\ NextFp(o) = NextFp(p) /\ NextCapacity(o) = NextCapacity(p)
  BY AlikeReads
<1>2. /\ o.expansion = p.expansion /\ o.fp = p.fp /\ o.tr = p.tr
      /\ o.filters = p.filters /\ o.seedRandom = p.seedRandom
  BY DEF Alike
<1>3. AddError(p, free, most) = Ok
  <2>1. CASE ~ Full(Last(o.filters))
    BY <1>1, <2>1 DEF AddError
  <2>2. CASE Full(Last(o.filters))
    <3>1. ScaleOutError(o, validate, limit) = Ok
      BY <2>2 DEF AddError
    <3>2. /\ o.expansion # 0 /\ Len(o.filters) # MaxFilters /\ ~ FpReachesZero(NextFp(o))
          /\ ~ (NextCapacity(o) > CapacityMax)
      BY <3>1 DEF ScaleOutError, Ok
    <3>3. ScaleOutError(p, free, most) = Ok
      BY <1>1, <1>2, <3>2 DEF ScaleOutError
    <3>. QED BY <1>1, <2>2, <3>3 DEF AddError
  <2>. QED BY <2>1, <2>2
<1>4. /\ o = [expansion |-> o.expansion, fp |-> o.fp, tr |-> o.tr,
               seedRandom |-> o.seedRandom, vcap |-> o.vcap, filters |-> o.filters]
      /\ p = [expansion |-> p.expansion, fp |-> p.fp, tr |-> p.tr,
               seedRandom |-> p.seedRandom, vcap |-> p.vcap, filters |-> p.filters]
  BY DEF Object
<1>5. ASSUME NEW fs, NEW v, NEW w
      PROVE  /\ Alike([o EXCEPT !.filters = fs], [p EXCEPT !.filters = fs])
             /\ Alike([o EXCEPT !.filters = fs, !.vcap = v], [p EXCEPT !.filters = fs, !.vcap = w])
  BY <1>2, <1>4 DEF Alike
<1>6. CASE ~ Full(Last(o.filters))
  <2> DEFINE fs == [o.filters EXCEPT ![Len(o.filters)] = Set(@, x)]
  <2>1. AddItemUnchecked(o, x) = [o EXCEPT !.filters = fs]
    BY <1>6 DEF AddItemUnchecked, AddToLast
  <2>2. AddItemUnchecked(p, x) = [p EXCEPT !.filters = fs]
    BY <1>1, <1>2, <1>6 DEF AddItemUnchecked, AddToLast
  <2>. HIDE DEF fs
  <2>. QED BY <1>3, <1>5, <2>1, <2>2
<1>7. CASE Full(Last(o.filters))
  <2> DEFINE f == Set(NewFilter(NextFp(o), NextCapacity(o), SeedOf(o)), x)
             fs == Append(o.filters, f)
  <2>1. SeedOf(o) = SeedOf(p)
    BY <1>2 DEF SeedOf
  <2>2. AddItemUnchecked(o, x) = [o EXCEPT !.filters = fs, !.vcap = PushedVec(o)]
    BY <1>7 DEF AddItemUnchecked, ScaledOut
  <2>3. AddItemUnchecked(p, x) = [p EXCEPT !.filters = fs, !.vcap = PushedVec(p)]
    BY <1>1, <1>2, <1>7, <2>1 DEF AddItemUnchecked, ScaledOut
  <2>. HIDE DEF fs
  <2>4. Alike([o EXCEPT !.filters = fs, !.vcap = PushedVec(o)],
              [p EXCEPT !.filters = fs, !.vcap = PushedVec(p)])
    BY <1>5
  <2>. QED BY <1>3, <2>2, <2>3, <2>4, Zenon
<1>. QED BY <1>3, <1>6, <1>7

\* A batch that is valid under a limit is valid under a higher one.
LEMMA ValidUnderMore ==
  ASSUME NEW o \in Object, WellFormed(o), NEW count \in Nat,
         NEW limit \in Nat, NEW more \in Nat, limit <= more,
         ValidateAddItems(o, count, limit) = Ok
  PROVE  ValidateAddItems(o, count, more) = Ok
<1>1. CASE count = 0 \/ Capacity(o) - NumItems(o) >= count
  BY <1>1 DEF ValidateAddItems
<1>2. CASE ~ (count = 0 \/ Capacity(o) - NumItems(o) >= count)
  <2> DEFINE target == NumItems(o) + count
             a == Project(o.filters[1].cap, o.fp, target, o.tr, o.expansion, limit).err
             b == Project(o.filters[1].cap, o.fp, target, o.tr, o.expansion, more).err
  <2>1. target \in Nat /\ target <= target
    <3>1. NumItems(o) \in Nat
      BY FootprintTyped
    <3>. QED BY <3>1
  <2>2. o.expansion # 0 /\ ClientError(a) = Ok
    <3>. HIDE DEF target
    <3>. QED BY <1>2 DEF ValidateAddItems, Ok, target
  <2>. HIDE DEF target, a
  <2>3. a = Ok
    BY <2>2 DEF ClientError, Ok
  <2>4. b = Ok
    BY <2>1, <2>3, ProjectMonotone DEF a
  <2>. HIDE DEF b
  <2>5. ClientError(b) = Ok
    BY <2>4 DEF ClientError, Ok
  <2>. QED BY <1>2, <2>2, <2>5 DEF ValidateAddItems, b, target
<1>. QED BY <1>1, <1>2

\* Turns of two objects that are alike go the same way.
Agree(s, t) == Alike(s.obj, t.obj) /\ s.ints = t.ints /\ s.err = Ok /\ t.err = Ok

LEMMA AlikeTurn ==
  ASSUME NEW s \in Turn, NEW t \in Turn, Agree(s, t), NEW x \in Item, NEW new \in BOOLEAN,
         NEW validate \in BOOLEAN, NEW free \in BOOLEAN, ~ free,
         NEW limit, NEW most,
         AddTurn(s, x, new, validate, limit).err = Ok
  PROVE  Agree(AddTurn(s, x, new, validate, limit), AddTurn(t, x, new, free, most))
<1> DEFINE o == s.obj
           p == t.obj
<1>1. /\ s.err = Ok /\ t.err = Ok /\ s.ints = t.ints /\ Alike(o, p)
      /\ o \in Object /\ WellFormed(o) /\ p \in Object /\ WellFormed(p)
      /\ s = [obj |-> s.obj, metrics |-> s.metrics, err |-> s.err, ints |-> s.ints]
      /\ t = [obj |-> t.obj, metrics |-> t.metrics, err |-> t.err, ints |-> t.ints]
  BY TurnFields DEF Agree
<1>2. CASE ~ new
  <2>1. /\ AddTurn(s, x, new, validate, limit) = [s EXCEPT !.ints = Append(@, 0)]
        /\ AddTurn(t, x, new, free, most) = [t EXCEPT !.ints = Append(@, 0)]
    BY <1>1, <1>2 DEF AddTurn
  <2> DEFINE a == AddTurn(s, x, new, validate, limit)
             b == AddTurn(t, x, new, free, most)
  <2>2. /\ a.obj = o /\ a.err = Ok /\ a.ints = Append(s.ints, 0)
        /\ b.obj = p /\ b.err = Ok /\ b.ints = Append(t.ints, 0)
    BY <1>1, <2>1
  <2>. HIDE DEF a, b, o, p
  <2>3. Agree(a, b)
    BY <1>1, <2>2 DEF Agree
  <2>. QED BY <2>3 DEF a, b
<1>3. CASE new
  <2> DEFINE a == AddTurn(s, x, new, validate, limit)
             b == AddTurn(t, x, new, free, most)
  <2>1. AddError(o, validate, limit) = Ok
    <3>1. SUFFICES ASSUME AddError(o, validate, limit) # Ok PROVE FALSE
      OBVIOUS
    <3>2. a = [s EXCEPT !.err = AddError(o, validate, limit)]
      BY <1>1, <1>3, <3>1 DEF AddTurn
    <3>. HIDE DEF o
    <3>3. a.err = AddError(o, validate, limit)
      BY <1>1, <3>2
    <3>. QED BY <3>1, <3>3
  <2>2. AddError(p, free, most) = Ok /\ Alike(AddItemUnchecked(o, x), AddItemUnchecked(p, x))
    <3>. HIDE DEF o, p
    <3>. QED BY <1>1, <2>1, AlikeAdds
  <2>3. /\ a = [obj |-> AddItemUnchecked(o, x), err |-> Ok,
                metrics |-> AddMetrics(s.metrics, o, x), ints |-> Append(s.ints, 1)]
        /\ b = [obj |-> AddItemUnchecked(p, x), err |-> Ok,
                metrics |-> AddMetrics(t.metrics, p, x), ints |-> Append(t.ints, 1)]
    BY <1>1, <1>3, <2>1, <2>2 DEF AddTurn
  <2>. HIDE DEF a, b, o, p
  <2>4. /\ a.obj = AddItemUnchecked(o, x) /\ a.err = Ok /\ a.ints = Append(s.ints, 1)
        /\ b.obj = AddItemUnchecked(p, x) /\ b.err = Ok /\ b.ints = Append(t.ints, 1)
    BY <2>3
  <2>5. Agree(a, b)
    BY <1>1, <2>2, <2>4 DEF Agree
  <2>. QED BY <2>5 DEF a, b
<1>. QED BY <1>2, <1>3

LEMMA AlikeTurns ==
  ASSUME NEW s \in Turn, NEW t \in Turn, Agree(s, t), NEW items \in Seq(Item),
         NEW validate \in BOOLEAN, NEW free \in BOOLEAN, ~ free,
         NEW limit, NEW most,
         AddTurns(s, items, NewItems(s.obj, items), validate, limit).err = Ok
  PROVE  Agree(AddTurns(s, items, NewItems(s.obj, items), validate, limit),
               AddTurns(t, items, NewItems(t.obj, items), free, most))
<1> DEFINE n == Len(items)
           new == NewItems(s.obj, items)
<1>1. PICK one : /\ TurnsOf(s, items, validate, limit, one)
                 /\ AddTurns(s, items, new, validate, limit) = one[n]
  BY AddTurnsSteps
<1>2. PICK two : /\ TurnsOf(t, items, free, most, two)
                 /\ AddTurns(t, items, NewItems(t.obj, items), free, most) = two[n]
  BY AddTurnsSteps
<1>3. NewItems(t.obj, items) = new
  <2>1. s.obj \in Object /\ t.obj \in Object /\ Alike(s.obj, t.obj)
    BY TurnFields DEF Agree
  <2>. QED BY <2>1, AlikeReads
<1>4. /\ one \in [0..n -> Turn] /\ one[0] = s
      /\ \A i \in 1..n : one[i] = AddTurn(one[i - 1], items[i], i \in new, validate, limit)
  BY <1>1 DEF TurnsOf
<1>5. /\ two \in [0..n -> Turn] /\ two[0] = t
      /\ \A i \in 1..n : two[i] = AddTurn(two[i - 1], items[i], i \in new, free, most)
  BY <1>2, <1>3 DEF TurnsOf
<1>6. n \in Nat /\ n \in 0..n /\ \A i \in 1..n : items[i] \in Item
  OBVIOUS
<1>. HIDE DEF n, new
<1> DEFINE T == {i \in Nat : i <= n /\ one[i].err = Ok => Agree(one[i], two[i])}
<1>7. 0 \in T
  BY <1>4, <1>5
<1>8. ASSUME NEW i \in Nat, i \in T PROVE i + 1 \in T
  <2>1. SUFFICES ASSUME i + 1 <= n, one[i + 1].err = Ok PROVE Agree(one[i + 1], two[i + 1])
    OBVIOUS
  <2>2. i + 1 \in 1..n /\ (i + 1) - 1 = i /\ i \in 0..n /\ i <= n
    BY <1>6, <2>1
  <2> DEFINE new1 == i + 1 \in new
             x == items[i + 1]
             a == one[i]
             b == two[i]
  <2>3. /\ one[i + 1] = AddTurn(a, x, new1, validate, limit) /\ a \in Turn
        /\ two[i + 1] = AddTurn(b, x, new1, free, most) /\ b \in Turn
        /\ x \in Item /\ new1 \in BOOLEAN
    BY <1>4, <1>5, <1>6, <2>2
  <2>4. a.err = Ok => Agree(a, b)
    BY <1>8, <2>2
  <2>. HIDE DEF a, b, x, new1, T
  <2>5. a.err = Ok
    BY <2>1, <2>3, AddTurnPreserves
  <2>. QED BY <2>1, <2>3, <2>4, <2>5, AlikeTurn
<1>9. Nat \subseteq T
  <2>. HIDE DEF T
  <2>. QED BY <1>7, <1>8, SetInduction
<1>10. one[n].err = Ok
  BY <1>1 DEF new
<1>11. Agree(one[n], two[n])
  BY <1>6, <1>9, <1>10
<1>. QED BY <1>1, <1>2, <1>11 DEF n, new

LEMMA OnlyItem ==
  ASSUME NEW items \in Seq(Item), Len(items) = 1
  PROVE  items[1] \in Item
<1>1. 1 \in 1..Len(items)
  OBVIOUS
<1>. QED BY <1>1

\* The add that a client made with success succeeds for who must be obeyed, on
\* an object that is alike, with the same answer.  A single add is replayed as a
\* batch of one when it created the object.
LEMMA AlikeHandleAdd ==
  ASSUME NEW o \in Object, WellFormed(o), NEW p \in Object, WellFormed(p), Alike(o, p),
         NEW m \in Counters, NEW k \in Counters, NEW items \in Seq(Item),
         NEW multi \in BOOLEAN, NEW other \in BOOLEAN, multi => other,
         ~ multi => Len(items) = 1, NEW validate \in BOOLEAN,
         NEW free \in BOOLEAN, ~ free,
         NEW limit \in Nat, NEW most \in Nat, limit <= most,
         HandleAdd(o, m, items, multi, validate, limit).err = Ok,
         other /\ ~ multi => ValidateAddItems(o, Cardinality(NewItems(o, items)), limit) = Ok
  PROVE  Agree(HandleAdd(o, m, items, multi, validate, limit),
               HandleAdd(p, k, items, other, free, most))
<1> DEFINE s == [obj |-> o, metrics |-> m, err |-> Ok, ints |-> <<>>]
           t == [obj |-> p, metrics |-> k, err |-> Ok, ints |-> <<>>]
           new == NewItems(o, items)
           valid == ValidateAddItems(o, Cardinality(new), limit) = Ok
           h == HandleAdd(o, m, items, multi, validate, limit)
           g == HandleAdd(p, k, items, other, free, most)
<1>1. s \in Turn /\ t \in Turn
  <2>1. <<>> \in Seq({0, 1}) /\ Ok \in AddErrors
    BY DEF AddErrors
  <2>. QED BY <2>1 DEF Turn
<1>2. Agree(s, t) /\ s.obj = o /\ t.obj = p
  BY DEF Agree
<1>3. /\ NewItems(p, items) = new
      /\ valid => ValidateAddItems(p, Cardinality(new), most) = Ok
      /\ ItemExists(p, items[1]) <=> ItemExists(o, items[1])
  <2>1. new \subseteq 1..Len(items) /\ Len(items) \in Nat
    BY DEF NewItems
  <2>2. Cardinality(new) \in Nat
    <3>. HIDE DEF new
    <3>1. IsFiniteSet(new)
      <4>1. 1 \in Int /\ Len(items) \in Int
        BY <2>1
      <4>2. IsFiniteSet(1..Len(items))
        BY <4>1, FS_Interval
      <4>. QED BY <2>1, <4>2, FS_Subset
    <3>. QED BY <3>1, FS_CardinalityType
  <2>3. valid => ValidateAddItems(o, Cardinality(new), most) = Ok
    <3>. HIDE DEF new
    <3>. QED BY <2>2, ValidUnderMore
  <2>. QED BY <2>3, AlikeReads
<1>4. CASE multi
  <2>1. valid
    <3>1. SUFFICES ASSUME ~ valid PROVE FALSE
      OBVIOUS
    <3> DEFINE e == ValidateAddItems(o, Cardinality(new), limit)
    <3>2. h = [s EXCEPT !.err = e] /\ e # Ok
      BY <1>4, <3>1 DEF HandleAdd
    <3>. HIDE DEF e
    <3>3. h.err = e
      BY <3>2
    <3>. QED BY <3>2, <3>3
  <2>2. h = AddTurns(s, items, NewItems(s.obj, items), validate, limit)
    BY <1>4, <2>1 DEF HandleAdd
  <2>3. g = AddTurns(t, items, NewItems(t.obj, items), free, most)
    <3>1. ValidateAddItems(p, Cardinality(NewItems(p, items)), most) = Ok /\ other
      BY <1>3, <1>4, <2>1
    <3>. QED BY <3>1 DEF HandleAdd
  <2>. HIDE DEF s, t
  <2>. QED BY <1>1, <1>2, <2>2, <2>3, AlikeTurns
<1>5. CASE ~ multi
  <2> DEFINE x == items[1]
             fresh == ~ ItemExists(o, x)
             b == AddTurn(t, x, fresh, free, most)
  <2>1. h = AddTurn(s, x, fresh, validate, limit)
    BY <1>5 DEF HandleAdd
  <2>2. x \in Item /\ fresh \in BOOLEAN /\ Len(items) = 1
    <3>1. Len(items) = 1
      BY <1>5
    <3>2. items[1] \in Item
      BY <3>1, OnlyItem
    <3>. QED BY <3>1, <3>2
  <2>3. CASE ~ other
    <3>1. g = b
      BY <1>3, <2>3 DEF HandleAdd
    <3>. HIDE DEF s, t, x, fresh
    <3>. QED BY <1>1, <1>2, <2>1, <2>2, <3>1, AlikeTurn
  <2>4. CASE other
    <3>1. ValidateAddItems(p, Cardinality(NewItems(p, items)), most) = Ok
      BY <1>3, <1>5, <2>4
    <3>2. g = AddTurns(t, items, NewItems(t.obj, items), free, most)
      BY <2>4, <3>1 DEF HandleAdd
    <3>3. PICK turn : /\ TurnsOf(t, items, free, most, turn)
                      /\ AddTurns(t, items, NewItems(t.obj, items), free, most)
                           = turn[Len(items)]
      BY <1>1, AddTurnsSteps
    <3>4. 1 \in NewItems(p, items) <=> fresh
      BY <1>3, <2>2 DEF NewItems
    <3>5. turn[1] = AddTurn(turn[0], items[1], 1 \in NewItems(t.obj, items), free, most)
          /\ turn[0] = t
      BY <2>2, <3>3 DEF TurnsOf
    <3>6. turn[1] = b
      BY <3>4, <3>5
    <3>7. g = b
      BY <2>2, <3>2, <3>3, <3>6
    <3>. HIDE DEF s, t, x, fresh
    <3>. QED BY <1>1, <1>2, <2>1, <2>2, <3>7, AlikeTurn
  <2>. QED BY <2>3, <2>4
<1>. QED BY <1>4, <1>5

(***************************************************************************)
(* Commands that are obeyed.  A node that holds a value alike to the one a  *)
(* client's command found, and obeys what that command propagated, answers *)
(* without an error and ends with a value alike.                           *)
(***************************************************************************)

\* What out, answered on the value v and the counters m, is to be: a success
\* that leaves a value alike to w and a counter for everything in it.
Answers(v, m, w, out) ==
  /\ out.reply.err = Ok
  /\ out.val \in Value /\ Logical(out.val) = Logical(w)
  /\ Balanced(v, m, out)

LEMMA AddToExistingAnswers ==
  ASSUME NEW c, c.items \in Seq(Item),
         NEW o \in Object, WellFormed(o), NEW p \in Object, WellFormed(p), Alike(o, p),
         NEW m \in Counters, NEW k \in Counters,
         NEW multi \in BOOLEAN, ~ multi => Len(c.items) = 1,
         NEW validate \in BOOLEAN, NEW free \in BOOLEAN, ~ free,
         NEW limit \in Nat, NEW most \in Nat, limit <= most,
         AddToExisting(c, o, m, multi, validate, limit).reply.err = Ok
  PROVE  Answers(p, k, AddToExisting(c, o, m, multi, validate, limit).val,
                 AddToExisting(c, p, k, multi, free, most))
<1> DEFINE h == HandleAdd(o, m, c.items, multi, validate, limit)
           g == HandleAdd(p, k, c.items, multi, free, most)
           out == AddToExisting(c, o, m, multi, validate, limit)
           new == AddToExisting(c, p, k, multi, free, most)
<1>1. out.val = h.obj /\ out.reply.err = h.err /\ new.val = g.obj /\ new.reply.err = g.err
  BY DEF AddToExisting, Outcome
<1>2. Balanced(p, k, new)
  <2>1. most \in Int
    OBVIOUS
  <2>. QED BY <2>1, AddToExistingAccounts DEF Kept
<1>. HIDE DEF out, new
<1>3. h.err = Ok
  BY <1>1 DEF out
<1>4. Agree(h, g)
  <2>. HIDE DEF h, g
  <2>. QED BY <1>3, AlikeHandleAdd DEF h, g
<1>5. h.obj \in Object /\ g.obj \in Object /\ WellFormed(g.obj)
  BY HandleAddPreserves
<1>. HIDE DEF h, g
<1>6. Logical(g.obj) = Logical(h.obj) /\ g.obj \in Value
  BY <1>4, <1>5, AlikeIsLogical, ValueFields DEF Agree
<1>7. Answers(p, k, out.val, new)
  BY <1>1, <1>2, <1>4, <1>6 DEF Answers, Agree
<1>. QED BY <1>7 DEF out, new

LEMMA CreateAnswers ==
  ASSUME NEW c, c.items \in Seq(Item), NEW p \in PropertyType,
         NEW m \in Counters, NEW k \in Counters,
         NEW multi \in BOOLEAN, ~ multi => Len(c.items) = 1, NEW other \in BOOLEAN, ~ other => FALSE,
         NEW validate \in BOOLEAN, NEW free \in BOOLEAN, ~ free,
         NEW limit \in Nat, NEW most \in Nat, limit <= most,
         NEW cmd, cmd.items = c.items,
         CreateAndAdd(c, p, m, multi, validate, limit).reply.err = Ok
  PROVE  Answers(Absent, k, CreateAndAdd(c, p, m, multi, validate, limit).val,
                 CreateAndAdd(cmd, p, k, other, free, most))
<1> DEFINE o == NewReserved(p)
           h == HandleAdd(o, NewReservedMetrics(m, o), c.items, multi, validate, limit)
           g == HandleAdd(o, NewReservedMetrics(k, o), c.items, other, free, most)
           out == CreateAndAdd(c, p, m, multi, validate, limit)
           new == CreateAndAdd(cmd, p, k, other, free, most)
<1>1. CreateError(p, validate, limit) = Ok
  <2>1. SUFFICES ASSUME CreateError(p, validate, limit) # Ok PROVE FALSE
    OBVIOUS
  <2>2. out = Rejected(Absent, m, CreateError(p, validate, limit))
    BY <2>1 DEF CreateAndAdd
  <2>3. out.reply.err = CreateError(p, validate, limit)
    BY <2>2 DEF Rejected, Outcome
  <2>. QED BY <2>1, <2>3
<1>2. CreateError(p, free, most) = Ok
  BY DEF CreateError
<1>3. out.val = h.obj /\ out.reply.err = h.err /\ new.val = g.obj /\ new.reply.err = g.err
  BY <1>1, <1>2 DEF CreateAndAdd, Outcome
<1>4. Balanced(Absent, k, new)
  <2>1. most \in Int
    OBVIOUS
  <2>. QED BY <2>1, CreateAndAddAccounts DEF Kept
<1>5. o \in Object /\ WellFormed(o) /\ Alike(o, o)
      /\ NewReservedMetrics(m, o) \in Counters /\ NewReservedMetrics(k, o) \in Counters
  BY NewReservedPreserves DEF Alike
<1>6. other /\ ~ multi => ValidateAddItems(o, Cardinality(NewItems(o, c.items)), limit) = Ok
  <2>1. ASSUME ~ multi
        PROVE  ValidateAddItems(o, Cardinality(NewItems(o, c.items)), limit) = Ok
    <3>1. Len(c.items) = 1
      BY <2>1
    <3>2. Len(c.items) <= 1
      BY <3>1
    <3>. QED BY <3>2, OneItemFits
  <2>. HIDE DEF o
  <2>. QED BY <2>1
<1>. HIDE DEF out, new, o
<1>7. h.err = Ok
  BY <1>3 DEF out
<1>8. Agree(h, g)
  <2>1. HandleAdd(o, NewReservedMetrics(m, o), c.items, multi, validate, limit).err = Ok
    BY <1>7
  <2>. HIDE DEF h, g
  <2>. QED BY <1>5, <1>6, <2>1, AlikeHandleAdd DEF h, g
<1>9. h.obj \in Object /\ g.obj \in Object /\ WellFormed(g.obj)
  BY <1>5, HandleAddPreserves
<1>. HIDE DEF h, g
<1>10. Logical(g.obj) = Logical(h.obj) /\ g.obj \in Value
  BY <1>8, <1>9, AlikeIsLogical, ValueFields DEF Agree
<1>11. Answers(Absent, k, out.val, new)
  BY <1>3, <1>4, <1>8, <1>10 DEF Answers, Agree
<1>. QED BY <1>11 DEF out, new

\* A reserve is replayed as the creation by a batch of no items.
LEMMA ReserveAnswers ==
  ASSUME NEW p \in PropertyType, NEW k \in Counters,
         NEW other \in BOOLEAN, ~ other => FALSE, NEW free \in BOOLEAN, ~ free, NEW limit \in Int,
         NEW cmd, cmd.items \in Seq(Item), Len(cmd.items) < 1
  PROVE  Answers(Absent, k, NewReserved(p), CreateAndAdd(cmd, p, k, other, free, limit))
<1> DEFINE o == NewReserved(p)
           g == HandleAdd(o, NewReservedMetrics(k, o), cmd.items, other, free, limit)
           new == CreateAndAdd(cmd, p, k, other, free, limit)
<1>1. o \in Object /\ WellFormed(o) /\ NewReservedMetrics(k, o) \in Counters
  BY NewReservedPreserves
<1>2. CreateError(p, free, limit) = Ok
  BY DEF CreateError
<1>3. new.val = g.obj /\ new.reply.err = g.err
  BY <1>2 DEF CreateAndAdd, Outcome
<1>4. Balanced(Absent, k, new)
  BY CreateAndAddAccounts DEF Kept
<1>. HIDE DEF o
<1>5. g.obj = o /\ g.err = Ok
  BY <1>1, NothingToAdd
<1>6. o \in Value
  BY <1>1, ValueFields
<1>. HIDE DEF g, new
<1>7. Answers(Absent, k, o, new)
  BY <1>3, <1>4, <1>5, <1>6 DEF Answers
<1>. QED BY <1>7 DEF o, new

(***************************************************************************)
(* What a propagated command does to any node that must obey and holds     *)
(* what the node it comes from held.                                       *)
(***************************************************************************)

LogicalOf(keys) == [k \in Key |-> Logical(keys[k])]

Node == [keys : [Key -> Value], metrics : Counters, err : {Ok}]

Draws == Seeds \ {FixedSeed}

Leads(cmd, before, after, cfg) ==
  /\ cmd.key \in Key
  /\ \A n \in Node, rnd \in Draws :
       LogicalOf(n.keys) = before =>
         /\ Obey(n, cmd, cfg, rnd) \in Node
         /\ LogicalOf(Obey(n, cmd, cfg, rnd).keys) = after
         /\ Balanced(n.keys[cmd.key], n.metrics, ObeyOutcome(n, cmd, cfg, rnd))

\* What a node, and a value it holds, is.
LEMMA NodeFields ==
  ASSUME NEW n \in Node
  PROVE  /\ n.keys \in [Key -> Value] /\ n.metrics \in Counters /\ n.err = Ok
         /\ n = [keys |-> n.keys, metrics |-> n.metrics, err |-> n.err]
         /\ \A k \in Key : n.keys[k] \in Value
BY DEF Node

LEMMA LogicalAt ==
  ASSUME NEW keys, NEW other, LogicalOf(keys) = LogicalOf(other), NEW k \in Key
  PROVE  Logical(keys[k]) = Logical(other[k])
<1>1. LogicalOf(keys)[k] = LogicalOf(other)[k]
  OBVIOUS
<1>. QED BY <1>1 DEF LogicalOf

\* A command that answers as the node it comes from did leads where that went.
LEMMA AnswerLeads ==
  ASSUME NEW keys \in [Key -> Value], NEW k \in Key, NEW w, NEW cmd, cmd.key = k, NEW cfg,
         \A n \in Node, rnd \in Draws :
           LogicalOf(n.keys) = LogicalOf(keys)
             => Answers(n.keys[k], n.metrics, w, ObeyOutcome(n, cmd, cfg, rnd))
  PROVE  Leads(cmd, LogicalOf(keys), LogicalOf([keys EXCEPT ![k] = w]), cfg)
<1>1. SUFFICES ASSUME NEW n \in Node, NEW rnd \in Draws, LogicalOf(n.keys) = LogicalOf(keys)
               PROVE  /\ Obey(n, cmd, cfg, rnd) \in Node
                      /\ LogicalOf(Obey(n, cmd, cfg, rnd).keys)
                           = LogicalOf([keys EXCEPT ![k] = w])
                      /\ Balanced(n.keys[k], n.metrics, ObeyOutcome(n, cmd, cfg, rnd))
  BY DEF Leads
<1> DEFINE out == ObeyOutcome(n, cmd, cfg, rnd)
           next == Obey(n, cmd, cfg, rnd)
<1>2. Answers(n.keys[k], n.metrics, w, out)
  BY <1>1
<1>. HIDE DEF out
<1>3. /\ n.keys \in [Key -> Value] /\ n.metrics \in Counters /\ n.err = Ok
      /\ \A j \in Key : Logical(n.keys[j]) = Logical(keys[j])
  BY <1>1, NodeFields, LogicalAt
<1>4. /\ out.reply.err = Ok /\ out.val \in Value /\ Logical(out.val) = Logical(w)
      /\ Balanced(n.keys[k], n.metrics, out) /\ out.metrics \in Counters
  BY <1>2 DEF Answers, Balanced
<1>5. next = [keys |-> [n.keys EXCEPT ![k] = out.val], metrics |-> out.metrics, err |-> Ok]
  BY <1>3, <1>4 DEF Obey, Obeyed, out
<1>. HIDE DEF next
<1>6. [n.keys EXCEPT ![k] = out.val] \in [Key -> Value]
  BY <1>3, <1>4
<1>7. next \in Node /\ next.keys = [n.keys EXCEPT ![k] = out.val]
  BY <1>4, <1>5, <1>6 DEF Node
<1>8. ASSUME NEW j \in Key PROVE Logical(next.keys[j]) = Logical([keys EXCEPT ![k] = w][j])
  BY <1>3, <1>4, <1>7
<1>9. LogicalOf(next.keys) = LogicalOf([keys EXCEPT ![k] = w])
  <2>. HIDE DEF next
  <2>. QED BY <1>8 DEF LogicalOf
<1>. QED BY <1>4, <1>7, <1>9 DEF out, next

\* The replica's own default cannot turn a validated scale-out away.
LEMMA ScaleToObeyed ==
  ASSUME NEW c, NEW cfg, NEW rnd, NEW limit, NEW free \in BOOLEAN, ~ free,
         c.scaleTo # Unset => (IF c.expansion = Unset THEN cfg.expansion ELSE c.expansion) # 0
  PROVE  ScaleToError(c, Properties(c, cfg, rnd), free, limit) = Ok
<1>1. Properties(c, cfg, rnd).expansion
        = IF c.expansion = Unset THEN cfg.expansion ELSE c.expansion
  BY DEF Properties, Given
<1> DEFINE p == Properties(c, cfg, rnd)
<1>. HIDE DEF p
<1>2. c.scaleTo # Unset => p.expansion # 0
  BY <1>1 DEF p
<1>3. ScaleToError(c, p, free, limit) = Ok
  BY <1>2 DEF ScaleToError
<1>. QED BY <1>3 DEF p

\* What an add to an existing object propagates is the client's command.
LEMMA AddedLeads ==
  ASSUME NEW keys \in [Key -> Value], NEW c \in CommandType, IsObject(keys[c.key]),
         c.name \in {"BF.ADD", "BF.MADD", "BF.INSERT"}, c.name = "BF.ADD" => Len(c.items) = 1,
         NEW m \in Counters, NEW limit \in Nat, NEW cfg, cfg.limit \in Nat, limit <= cfg.limit,
         c.scaleTo # Unset => (IF c.expansion = Unset THEN cfg.expansion ELSE c.expansion) # 0,
         NEW multi \in BOOLEAN, multi <=> c.name # "BF.ADD",
         NEW validate \in BOOLEAN, NEW out,
         out = AddToExisting(c, keys[c.key], m, multi, validate, limit),
         out.reply.err = Ok
  PROVE  Leads(c, LogicalOf(keys), LogicalOf([keys EXCEPT ![c.key] = out.val]), cfg)
<1> DEFINE k == c.key
           o == keys[k]
<1>1. k \in Key /\ c.items \in Seq(Item) /\ (~ multi => Len(c.items) = 1)
  BY DEF CommandType
<1>2. ASSUME NEW n \in Node, NEW rnd \in Draws, LogicalOf(n.keys) = LogicalOf(keys)
      PROVE  Answers(n.keys[k], n.metrics, out.val, ObeyOutcome(n, c, cfg, rnd))
  <2> DEFINE p == n.keys[k]
             free == ~ TRUE
  <2>1. /\ o \in Object /\ WellFormed(o) /\ p \in Object /\ WellFormed(p) /\ Alike(o, p)
        /\ IsObject(p)
    <3>1. o \in Value /\ p \in Value /\ Logical(o) = Logical(p)
      BY <1>1, <1>2, NodeFields, LogicalAt
    <3>. HIDE DEF o, p
    <3>. QED BY <3>1, LogicalValues DEF o
  <2>2. p # Foreign
    BY <2>1, ValueFields
  <2>3. ObeyOutcome(n, c, cfg, rnd) = AddToExisting(c, p, n.metrics, multi, free, cfg.limit)
    <3>1. CASE c.name \in {"BF.ADD", "BF.MADD"}
      <4>1. ObeyOutcome(n, c, cfg, rnd) = BloomFilterAddValue(c, p, cfg, n.metrics, TRUE, rnd)
        BY <3>1 DEF ObeyOutcome
      <4>2. multi = (c.name = "BF.MADD")
        BY <3>1
      <4>. HIDE DEF p, o
      <4>. QED BY <2>1, <2>2, <4>1, <4>2 DEF BloomFilterAddValue
    <3>2. CASE c.name = "BF.INSERT"
      <4>1. ObeyOutcome(n, c, cfg, rnd) = BloomFilterInsert(c, p, cfg, n.metrics, TRUE, rnd)
        BY <3>2 DEF ObeyOutcome
      <4>2. ScaleToError(c, Properties(c, cfg, rnd), free, cfg.limit) = Ok
        <5>1. free \in BOOLEAN /\ ~ free
          OBVIOUS
        <5>. HIDE DEF free
        <5>. QED BY <5>1, ScaleToObeyed
      <4>3. multi = TRUE
        BY <3>2
      <4>. HIDE DEF p, o
      <4>. QED BY <2>1, <2>2, <4>1, <4>2, <4>3 DEF BloomFilterInsert
    <3>. QED BY <3>1, <3>2
  <2>4. free \in BOOLEAN /\ ~ free /\ n.metrics \in Counters
    BY NodeFields
  <2>5. out = AddToExisting(c, o, m, multi, validate, limit)
    OBVIOUS
  <2>. HIDE DEF free, o, p
  <2>6. Answers(p, n.metrics, out.val, AddToExisting(c, p, n.metrics, multi, free, cfg.limit))
    BY <1>1, <2>1, <2>4, <2>5, AddToExistingAnswers
  <2>. QED BY <2>3, <2>6 DEF p
<1>. QED BY <1>1, <1>2, AnswerLeads

\* A node where the key is absent and that obeys what a creation propagated
\* creates the object with the properties spelled out.
LEMMA CreationObeyed ==
  ASSUME NEW n \in Node, NEW p \in PropertyType, NEW key \in Key, NEW items,
         n.keys[key] = Absent, NEW cfg, NEW rnd,
         NEW other \in BOOLEAN, ~ other => FALSE, NEW free \in BOOLEAN, ~ free
  PROVE  LET cmd == ReplicaInsert(key, NewReserved(p), items)
         IN  ObeyOutcome(n, cmd, cfg, rnd)
               = CreateAndAdd(cmd, p, n.metrics, other, free, cfg.limit)
<1> DEFINE cmd == ReplicaInsert(key, NewReserved(p), items)
<1>1. /\ Properties(cmd, cfg, rnd) = p /\ cmd.name = "BF.INSERT" /\ cmd.key = key
      /\ cmd.scaleTo = Unset /\ ~ cmd.nocreate
  BY PropertiesReplicated
<1>. HIDE DEF cmd
<1>2. ScaleToError(cmd, p, free, cfg.limit) = Ok
  BY <1>1 DEF ScaleToError
<1>3. ~ IsObject(Absent) /\ Absent # Foreign
  BY ValueAssumption, ValueFields
<1>4. ObeyOutcome(n, cmd, cfg, rnd) = BloomFilterInsert(cmd, Absent, cfg, n.metrics, TRUE, rnd)
  BY <1>1 DEF ObeyOutcome
<1>5. other = TRUE /\ free = ~ TRUE
  OBVIOUS
<1>6. BloomFilterInsert(cmd, Absent, cfg, n.metrics, TRUE, rnd)
        = CreateAndAdd(cmd, p, n.metrics, TRUE, ~ TRUE, cfg.limit)
  BY <1>1, <1>2, <1>3, <1>5 DEF BloomFilterInsert
<1>. QED BY <1>4, <1>5, <1>6 DEF cmd

\* What propagates one command.
Single(repl) == repl = <<repl[1]>>

LEMMA CreatedLeads ==
  ASSUME NEW keys \in [Key -> Value], NEW c, c.key \in Key, c.items \in Seq(Item),
         ~ IsObject(keys[c.key]), keys[c.key] # Foreign, NEW p \in PropertyType,
         NEW m \in Counters, NEW limit \in Nat, NEW cfg, cfg.limit \in Nat, limit <= cfg.limit,
         NEW multi \in BOOLEAN, ~ multi => Len(c.items) = 1,
         NEW validate \in BOOLEAN,
         CreateAndAdd(c, p, m, multi, validate, limit).reply.err = Ok
  PROVE  LET out == CreateAndAdd(c, p, m, multi, validate, limit)
         IN  /\ Single(out.repl)
             /\ Leads(out.repl[1], LogicalOf(keys), LogicalOf([keys EXCEPT ![c.key] = out.val]), cfg)
<1> DEFINE out == CreateAndAdd(c, p, m, multi, validate, limit)
           k == c.key
           cmd == ReplicaInsert(k, NewReserved(p), c.items)
           e == CreateError(p, validate, limit)
<1>1. out.repl = <<cmd>>
  <2>1. CASE e # Ok
    <3>1. out = Rejected(Absent, m, e)
      BY <2>1 DEF CreateAndAdd
    <3>. HIDE DEF e
    <3>2. out.reply.err = e
      BY <3>1 DEF Rejected, Outcome
    <3>. QED BY <2>1, <3>2
  <2>2. CASE e = Ok
    BY <2>2 DEF CreateAndAdd, Outcome
  <2>. QED BY <2>1, <2>2
<1>2. cmd.key = k /\ cmd.items = c.items
  BY PropertiesReplicated
<1>3. ASSUME NEW n \in Node, NEW rnd \in Draws, LogicalOf(n.keys) = LogicalOf(keys)
      PROVE  Answers(n.keys[k], n.metrics, out.val, ObeyOutcome(n, cmd, cfg, rnd))
  <2> DEFINE other == TRUE
             free == FALSE
  <2>1. n.keys[k] = Absent
    <3>1. keys[k] = Absent /\ Absent \in Value
      BY ValueFields
    <3>2. n.keys[k] \in Value /\ Logical(n.keys[k]) = Logical(Absent)
      BY <1>3, <3>1, NodeFields, LogicalAt
    <3>. QED BY <3>1, <3>2, LogicalValues, ValueFields
  <2>2. /\ other \in BOOLEAN /\ (~ other => FALSE) /\ free \in BOOLEAN /\ ~ free
        /\ n.metrics \in Counters
    BY NodeFields
  <2>. HIDE DEF other, free, cmd
  <2>3. ObeyOutcome(n, cmd, cfg, rnd) = CreateAndAdd(cmd, p, n.metrics, other, free, cfg.limit)
    BY <2>1, <2>2, CreationObeyed DEF cmd
  <2>4. Answers(Absent, n.metrics, out.val, CreateAndAdd(cmd, p, n.metrics, other, free, cfg.limit))
    BY <1>2, <2>2, CreateAnswers
  <2>. QED BY <2>1, <2>3, <2>4
<1>. HIDE DEF cmd, out
<1>4. Leads(cmd, LogicalOf(keys), LogicalOf([keys EXCEPT ![k] = out.val]), cfg)
  BY <1>2, <1>3, AnswerLeads
<1>5. Single(out.repl) /\ out.repl[1] = cmd
  BY <1>1 DEF out, Single
<1>. QED BY <1>4, <1>5 DEF out

LEMMA ReservedLeads ==
  ASSUME NEW keys \in [Key -> Value], NEW k \in Key,
         ~ IsObject(keys[k]), keys[k] # Foreign, NEW p \in PropertyType, NEW cfg, cfg.limit \in Int
  PROVE  Leads(ReplicaInsert(k, NewReserved(p), <<>>), LogicalOf(keys),
               LogicalOf([keys EXCEPT ![k] = NewReserved(p)]), cfg)
<1> DEFINE cmd == ReplicaInsert(k, NewReserved(p), <<>>)
           o == NewReserved(p)
<1>1. cmd.key = k /\ cmd.items = <<>>
  BY PropertiesReplicated
<1>2. ASSUME NEW n \in Node, NEW rnd \in Draws, LogicalOf(n.keys) = LogicalOf(keys)
      PROVE  Answers(n.keys[k], n.metrics, o, ObeyOutcome(n, cmd, cfg, rnd))
  <2> DEFINE other == TRUE
             free == FALSE
  <2>1. n.keys[k] = Absent
    <3>1. keys[k] = Absent /\ Absent \in Value
      BY ValueFields
    <3>2. n.keys[k] \in Value /\ Logical(n.keys[k]) = Logical(Absent)
      BY <1>2, <3>1, NodeFields, LogicalAt
    <3>. QED BY <3>1, <3>2, LogicalValues, ValueFields
  <2>2. /\ other \in BOOLEAN /\ (~ other => FALSE) /\ free \in BOOLEAN /\ ~ free
        /\ n.metrics \in Counters
    BY NodeFields
  <2>. HIDE DEF other, free, cmd
  <2>3. ObeyOutcome(n, cmd, cfg, rnd) = CreateAndAdd(cmd, p, n.metrics, other, free, cfg.limit)
    BY <2>1, <2>2, CreationObeyed DEF cmd
  <2>4. Answers(Absent, n.metrics, o, CreateAndAdd(cmd, p, n.metrics, other, free, cfg.limit))
    <3>1. cmd.items \in Seq(Item) /\ Len(cmd.items) < 1
      BY <1>1
    <3>. QED BY <2>2, <3>1, ReserveAnswers
  <2>. QED BY <2>1, <2>3, <2>4
<1>. HIDE DEF cmd, o
<1>3. Leads(cmd, LogicalOf(keys), LogicalOf([keys EXCEPT ![k] = o]), cfg)
  BY <1>1, <1>2, AnswerLeads
<1>. QED BY <1>3 DEF cmd, o

\* An add that propagates something leaves more items than it found.
LEMMA AddedIsChange ==
  ASSUME NEW c, c.items \in Seq(Item), NEW o \in Object, WellFormed(o), NEW m \in Counters,
         NEW multi \in BOOLEAN, ~ multi => Len(c.items) = 1,
         NEW validate \in BOOLEAN, NEW limit \in Int, NEW out,
         out = AddToExisting(c, o, m, multi, validate, limit), out.repl # <<>>
  PROVE  out.repl = <<c>> /\ Logical(out.val) # Logical(o)
<1> DEFINE h == HandleAdd(o, m, c.items, multi, validate, limit)
<1>1. /\ out.val = h.obj
      /\ out.repl = IF AddSucceeded(h) THEN <<c>> ELSE <<>>
  BY DEF AddToExisting, Outcome
<1>2. AddAccounts(o, m, h, validate, limit, limit) /\ h.obj \in Object
  BY HandleAddAccounts, HandleAddPreserves
<1>. HIDE DEF h
<1>3. AddSucceeded(h)
  BY <1>1
<1>4. NumItems(h.obj) # NumItems(o)
  <2>1. NumItems(o) \in Nat /\ NumItems(h.obj) \in Nat
    BY <1>2, ChangeTyped, ObjectsAreValues
  <2>2. /\ NumItems(h.obj) = NumItems(o) + Cardinality(Ones(h.ints))
        /\ Cardinality(Ones(h.ints)) \in Nat /\ Cardinality(Ones(h.ints)) > 0
    BY <1>2, <1>3 DEF AddAccounts
  <2>. QED BY <2>1, <2>2
<1>5. Logical(h.obj) # Logical(o)
  BY <1>2, <1>4, AlikeIsLogical, AlikeReads
<1>. QED BY <1>1, <1>3, <1>5

LEMMA LogicalApart ==
  \A v \in Value : IsObject(v) => Logical(v) # Logical(Absent)
BY LogicalValues, ValueFields

\* What a client's command propagates, unless it failed: at most one command,
\* and then its key has changed and the command leads any node from what the
\* keyspace was to what it is.
LEMMA AddValueLeads ==
  ASSUME NEW keys \in [Key -> Value], NEW c \in CommandType,
         c.name \in {"BF.ADD", "BF.MADD"}, c.name = "BF.ADD" => Len(c.items) = 1,
         NEW cfg \in Config, NEW m \in Counters, NEW rnd \in Draws,
         NEW other, other.limit \in Nat, cfg.limit <= other.limit,
         c.scaleTo # Unset => (IF c.expansion = Unset THEN other.expansion ELSE c.expansion) # 0,
         NEW obey \in BOOLEAN
  PROVE  LET out == BloomFilterAddValue(c, keys[c.key], cfg, m, obey, rnd)
         IN  out.repl # <<>> /\ out.reply.err = Ok =>
               /\ Single(out.repl)
               /\ Logical(out.val) # Logical(keys[c.key])
               /\ Leads(out.repl[1], LogicalOf(keys),
                        LogicalOf([keys EXCEPT ![c.key] = out.val]), other)
<1> DEFINE k == c.key
           v == keys[k]
           multi == c.name = "BF.MADD"
           validate == ~ obey
           limit == cfg.limit
           p == Properties(c, cfg, rnd)
           out == BloomFilterAddValue(c, v, cfg, m, obey, rnd)
<1>1. k \in Key /\ c.items \in Seq(Item) /\ v \in Value /\ limit \in Nat /\ limit \in Int
      /\ other.limit \in Nat /\ other.limit \in Int /\ limit <= other.limit
  BY DEF CommandType, Config
<1>2. /\ multi \in BOOLEAN /\ validate \in BOOLEAN /\ (~ multi => Len(c.items) = 1)
      /\ (multi <=> c.name # "BF.ADD")
  OBVIOUS
<1>3. p \in PropertyType
  BY PropertiesTyped DEF Draws
<1>0. SUFFICES ASSUME out.repl # <<>> /\ out.reply.err = Ok
              PROVE  /\ Single(out.repl)
                     /\ Logical(out.val) # Logical(v)
                     /\ Leads(out.repl[1], LogicalOf(keys),
                              LogicalOf([keys EXCEPT ![k] = out.val]), other)
  OBVIOUS
<1>4. CASE v = Foreign
  <2>1. out = Rejected(v, m, "WrongType")
    BY <1>4 DEF BloomFilterAddValue
  <2>. QED BY <1>0, <2>1 DEF Rejected, Outcome
<1>5. CASE v # Foreign /\ IsObject(v)
  <2>1. out = AddToExisting(c, v, m, multi, validate, limit)
    BY <1>5 DEF BloomFilterAddValue
  <2>. HIDE DEF out
  <2>2. v \in Object /\ WellFormed(v)
    BY <1>1, <1>5, ValueFields
  <2>. HIDE DEF multi, validate, limit
  <2>3. out.repl = <<c>> /\ Logical(out.val) # Logical(v)
    <3>. HIDE DEF v
    <3>. QED BY <1>0, <1>1, <1>2, <2>1, <2>2, AddedIsChange
  <2>4. Leads(c, LogicalOf(keys), LogicalOf([keys EXCEPT ![k] = out.val]), other)
    BY <1>0, <1>1, <1>2, <1>5, <2>1, AddedLeads
  <2>5. Single(out.repl) /\ out.repl[1] = c
    BY <2>3 DEF Single
  <2>. QED BY <2>3, <2>4, <2>5
<1>6. CASE v # Foreign /\ ~ IsObject(v)
  <2>1. out = CreateAndAdd(c, p, m, multi, validate, limit)
    BY <1>6 DEF BloomFilterAddValue
  <2>2. v = Absent
    BY <1>1, <1>6, ValueFields
  <2>. HIDE DEF multi, validate, limit, p, out
  <2>3. /\ Single(out.repl)
        /\ Leads(out.repl[1], LogicalOf(keys), LogicalOf([keys EXCEPT ![k] = out.val]), other)
    <3> DEFINE new == CreateAndAdd(c, p, m, multi, validate, limit)
    <3>1. new.reply.err = Ok
      BY <1>0, <2>1
    <3>2. /\ Single(new.repl)
          /\ Leads(new.repl[1], LogicalOf(keys), LogicalOf([keys EXCEPT ![k] = new.val]), other)
      BY <1>1, <1>2, <1>3, <1>6, <3>1, CreatedLeads
    <3>. QED BY <2>1, <3>2
  <2>4. Logical(out.val) # Logical(v)
    <3>1. out.val \in Value /\ IsObject(out.val)
      <4>1. Sound(c, Absent, out)
        BY <1>1, <1>2, <1>3, <2>1, CreateAndAddIsSound
      <4>. QED BY <1>0, <4>1, ValueFields DEF Sound
    <3>. QED BY <2>2, <3>1, LogicalApart
  <2>. QED BY <2>3, <2>4
<1>. QED BY <1>4, <1>5, <1>6

LEMMA InsertLeads ==
  ASSUME NEW keys \in [Key -> Value], NEW c \in CommandType, c.name = "BF.INSERT",
         NEW cfg \in Config, NEW m \in Counters, NEW rnd \in Draws,
         NEW other, other.limit \in Nat, cfg.limit <= other.limit,
         c.scaleTo # Unset => (IF c.expansion = Unset THEN other.expansion ELSE c.expansion) # 0,
         NEW obey \in BOOLEAN
  PROVE  LET out == BloomFilterInsert(c, keys[c.key], cfg, m, obey, rnd)
         IN  out.repl # <<>> /\ out.reply.err = Ok =>
               /\ Single(out.repl)
               /\ Logical(out.val) # Logical(keys[c.key])
               /\ Leads(out.repl[1], LogicalOf(keys),
                        LogicalOf([keys EXCEPT ![c.key] = out.val]), other)
<1> DEFINE k == c.key
           v == keys[k]
           multi == TRUE
           validate == ~ obey
           limit == cfg.limit
           p == Properties(c, cfg, rnd)
           e == ScaleToError(c, p, validate, limit)
           out == BloomFilterInsert(c, v, cfg, m, obey, rnd)
<1>1. k \in Key /\ c.items \in Seq(Item) /\ v \in Value /\ limit \in Nat /\ limit \in Int
      /\ other.limit \in Nat /\ other.limit \in Int /\ limit <= other.limit
  BY DEF CommandType, Config
<1>2. /\ multi \in BOOLEAN /\ validate \in BOOLEAN /\ (~ multi => Len(c.items) = 1)
  OBVIOUS
<1>2a. multi <=> c.name # "BF.ADD"
  OBVIOUS
<1>3. p \in PropertyType
  BY PropertiesTyped DEF Draws
<1>0. SUFFICES ASSUME out.repl # <<>> /\ out.reply.err = Ok
               PROVE  /\ Single(out.repl)
                      /\ Logical(out.val) # Logical(v)
                      /\ Leads(out.repl[1], LogicalOf(keys),
                               LogicalOf([keys EXCEPT ![k] = out.val]), other)
  OBVIOUS
<1>4. CASE e # Ok \/ v = Foreign \/ (~ IsObject(v) /\ c.nocreate)
  <2>1. \E err : out = Rejected(v, m, err)
    BY <1>4 DEF BloomFilterInsert
  <2>2. out.repl = <<>>
    BY <2>1 DEF Rejected, Outcome
  <2>. QED BY <1>0, <2>2
<1>5. CASE e = Ok /\ v # Foreign /\ IsObject(v)
  <2>1. out = AddToExisting(c, v, m, multi, validate, limit)
    BY <1>5 DEF BloomFilterInsert
  <2>. HIDE DEF out
  <2>2. v \in Object /\ WellFormed(v)
    BY <1>1, <1>5, ValueFields
  <2>. HIDE DEF multi, validate, limit, e
  <2>3. out.repl = <<c>> /\ Logical(out.val) # Logical(v)
    <3>. HIDE DEF v
    <3>. QED BY <1>0, <1>1, <1>2, <2>1, <2>2, AddedIsChange
  <2>4. Leads(c, LogicalOf(keys), LogicalOf([keys EXCEPT ![k] = out.val]), other)
    BY <1>0, <1>1, <1>2, <1>2a, <1>5, <2>1, AddedLeads
  <2>5. Single(out.repl) /\ out.repl[1] = c
    BY <2>3 DEF Single
  <2>. QED BY <2>3, <2>4, <2>5
<1>6. CASE e = Ok /\ v # Foreign /\ ~ IsObject(v) /\ ~ c.nocreate
  <2>1. out = CreateAndAdd(c, p, m, multi, validate, limit)
    BY <1>6 DEF BloomFilterInsert
  <2>2. v = Absent
    BY <1>1, <1>6, ValueFields
  <2>. HIDE DEF multi, validate, limit, p, out, e
  <2>3. /\ Single(out.repl)
        /\ Leads(out.repl[1], LogicalOf(keys), LogicalOf([keys EXCEPT ![k] = out.val]), other)
    <3> DEFINE new == CreateAndAdd(c, p, m, multi, validate, limit)
    <3>1. new.reply.err = Ok
      BY <1>0, <2>1
    <3>2. /\ Single(new.repl)
          /\ Leads(new.repl[1], LogicalOf(keys), LogicalOf([keys EXCEPT ![k] = new.val]), other)
      BY <1>1, <1>2, <1>3, <1>6, <3>1, CreatedLeads
    <3>. QED BY <2>1, <3>2
  <2>4. Logical(out.val) # Logical(v)
    <3>1. out.val \in Value /\ IsObject(out.val)
      <4>1. Sound(c, Absent, out)
        BY <1>1, <1>2, <1>3, <2>1, CreateAndAddIsSound
      <4>. QED BY <1>0, <4>1, ValueFields DEF Sound
    <3>. QED BY <2>2, <3>1, LogicalApart
  <2>. QED BY <2>3, <2>4
<1>. QED BY <1>4, <1>5, <1>6

LEMMA ReserveLeads ==
  ASSUME NEW keys \in [Key -> Value], NEW c \in CommandType,
         NEW cfg \in Config, NEW m \in Counters, NEW rnd \in Draws,
         NEW other, other.limit \in Nat, cfg.limit <= other.limit, NEW obey \in BOOLEAN
  PROVE  LET out == BloomFilterReserve(c, keys[c.key], cfg, m, obey, rnd)
         IN  out.repl # <<>> =>
               /\ Single(out.repl)
               /\ Logical(out.val) # Logical(keys[c.key])
               /\ Leads(out.repl[1], LogicalOf(keys),
                        LogicalOf([keys EXCEPT ![c.key] = out.val]), other)
<1> DEFINE k == c.key
           v == keys[k]
           validate == ~ obey
           limit == cfg.limit
           p == Properties(c, cfg, rnd)
           e == CreateError(p, validate, limit)
           out == BloomFilterReserve(c, v, cfg, m, obey, rnd)
<1>1. k \in Key /\ v \in Value /\ limit \in Nat /\ limit \in Int
      /\ other.limit \in Nat /\ other.limit \in Int /\ limit <= other.limit
  BY DEF CommandType, Config
<1>3. p \in PropertyType
  BY PropertiesTyped DEF Draws
<1>0. SUFFICES ASSUME out.repl # <<>>
               PROVE  /\ Single(out.repl)
                      /\ Logical(out.val) # Logical(v)
                      /\ Leads(out.repl[1], LogicalOf(keys),
                               LogicalOf([keys EXCEPT ![k] = out.val]), other)
  OBVIOUS
<1>4. CASE v = Foreign \/ IsObject(v) \/ e # Ok
  <2>1. \E err : out = Rejected(v, m, err)
    BY <1>4 DEF BloomFilterReserve
  <2>2. out.repl = <<>>
    BY <2>1 DEF Rejected, Outcome
  <2>. QED BY <1>0, <2>2
<1>5. CASE v # Foreign /\ ~ IsObject(v) /\ e = Ok
  <2> DEFINE o == NewReserved(p)
             cmd == ReplicaInsert(k, o, <<>>)
  <2>1. out.val = o /\ out.repl = <<cmd>>
    BY <1>5 DEF BloomFilterReserve, Outcome
  <2>2. v = Absent
    BY <1>1, <1>5, ValueFields
  <2>. HIDE DEF out, limit, e, p
  <2>3. Leads(cmd, LogicalOf(keys), LogicalOf([keys EXCEPT ![k] = o]), other)
    BY <1>1, <1>3, <1>5, ReservedLeads
  <2>4. o \in Value /\ IsObject(o)
    BY <1>3, NewReservedPreserves, ValueFields
  <2>. HIDE DEF o, cmd
  <2>5. Single(out.repl) /\ out.repl[1] = cmd
    BY <2>1 DEF Single
  <2>. QED BY <2>1, <2>2, <2>3, <2>4, <2>5, LogicalApart
<1>. QED BY <1>4, <1>5

(***************************************************************************)
(* The server's own commands.                                              *)
(***************************************************************************)

LEMMA DropTracks ==
  ASSUME NEW v \in Value, NEW m \in Counters, NEW w \in {Absent, Foreign}
  PROVE  DropValue(m, v) \in Counters /\ Tracks(m, Change(v, w), DropValue(m, v))
<1> DEFINE d == Change(v, w)
<1>1. ~ IsObject(w) /\ (\A c \in Names : Figures(w)[c] = 0)
  BY NothingCounts
<1>2. d \in Weights /\ Figures(v) \in Weights /\ \A c \in Names : d[c] = - Figures(v)[c]
  <2>1. d \in Weights /\ Figures(v) \in Weights
    BY ChangeTyped DEF Value
  <2>. QED BY <1>1, <2>1 DEF Change, Weights
<1>. HIDE DEF d
<1>3. CASE IsObject(v)
  <2>1. v \in Object /\ WellFormed(v) /\ Figures(v) = Footprint(v)
    BY <1>3, ValueFields DEF Figures
  <2>2. Tracks(m, Minus(Footprint(v)), DropValue(m, v)) /\ DropValue(m, v) \in Counters
    BY <1>3, <2>1, ObjectTracks DEF DropValue
  <2>3. \A c \in Names : d[c] = Minus(Footprint(v))[c]
    BY <1>2, <2>1 DEF Minus
  <2>. QED BY <2>2, <2>3 DEF Tracks, d
<1>4. CASE ~ IsObject(v)
  <2>1. \A c \in Names : d[c] = 0
    BY <1>2, <1>4, NothingCounts
  <2>2. DropValue(m, v) = m
    BY <1>4 DEF DropValue
  <2>. QED BY <1>2, <2>1, <2>2, TracksEqual DEF d
<1>. QED BY <1>3, <1>4

LEMMA FootprintGained ==
  ASSUME NEW v, ~ IsObject(v), NEW o \in Object, NEW m \in Counters, NEW k \in Counters,
         Tracks(m, Footprint(o), k)
  PROVE  Tracks(m, Change(v, o), k)
<1>1. /\ Figures(o) = Footprint(o) /\ Footprint(o) \in Weights
      /\ \A c \in Names : Figures(v)[c] = 0
  BY ObjectsAreValues, NothingCounts, FootprintTyped DEF Figures
<1>2. \A c \in Names : Change(v, o)[c] = Footprint(o)[c]
  BY <1>1 DEF Change, Weights
<1>. QED BY <1>2 DEF Tracks

LEMMA OverwriteLeads ==
  ASSUME NEW keys \in [Key -> Value], NEW k \in Key, NEW cfg, NEW v \in {Absent, Foreign}
  PROVE  Leads(IF v = Absent THEN DelCommand(k) ELSE SetCommand(k),
               LogicalOf(keys), LogicalOf([keys EXCEPT ![k] = v]), cfg)
<1> DEFINE cmd == IF v = Absent THEN DelCommand(k) ELSE SetCommand(k)
<1>1. cmd.key = k /\ cmd.name = (IF v = Absent THEN "DEL" ELSE "SET")
  BY DEF DelCommand, SetCommand
<1>. HIDE DEF cmd
<1>2. v \in Value
  BY ValueFields
<1>3. ASSUME NEW n \in Node, NEW rnd \in Draws, LogicalOf(n.keys) = LogicalOf(keys)
      PROVE  Answers(n.keys[k], n.metrics, v, ObeyOutcome(n, cmd, cfg, rnd))
  <2> DEFINE out == ObeyOutcome(n, cmd, cfg, rnd)
  <2>1. out = Done(v, DropValue(n.metrics, n.keys[k]))
    BY <1>1, ValueAssumption DEF ObeyOutcome
  <2>2. out.val = v /\ out.reply.err = Ok /\ out.metrics = DropValue(n.metrics, n.keys[k])
    BY <2>1 DEF Done, Outcome
  <2>3. n.keys[k] \in Value /\ n.metrics \in Counters
    BY NodeFields
  <2>. HIDE DEF out
  <2>4. Balanced(n.keys[k], n.metrics, out)
    BY <2>2, <2>3, DropTracks DEF Balanced
  <2>5. Answers(n.keys[k], n.metrics, v, out)
    BY <1>2, <2>2, <2>4 DEF Answers
  <2>. QED BY <2>5 DEF out
<1>4. Leads(cmd, LogicalOf(keys), LogicalOf([keys EXCEPT ![k] = v]), cfg)
  BY <1>1, <1>3, AnswerLeads
<1>. QED BY <1>4 DEF cmd

\* A node whose keys are alike holds an object where the other does, alike.
LEMMA AlikeAt ==
  ASSUME NEW keys \in [Key -> Value], NEW n \in Node, LogicalOf(n.keys) = LogicalOf(keys),
         NEW k \in Key
  PROVE  /\ n.keys[k] \in Value /\ keys[k] \in Value
         /\ Logical(n.keys[k]) = Logical(keys[k])
         /\ IsObject(n.keys[k]) <=> IsObject(keys[k])
         /\ ~ IsObject(keys[k]) => n.keys[k] = keys[k]
         /\ IsObject(keys[k]) => /\ n.keys[k] \in Object /\ WellFormed(n.keys[k])
                                 /\ keys[k] \in Object /\ WellFormed(keys[k])
                                 /\ Alike(n.keys[k], keys[k])
BY NodeFields, LogicalAt, LogicalValues

LEMMA CopyLeads ==
  ASSUME NEW keys \in [Key -> Value], NEW src \in Key, NEW dst \in Key, NEW cfg,
         IsObject(keys[src]), ~ IsObject(keys[dst])
  PROVE  Leads(CopyCommand(src, dst), LogicalOf(keys),
               LogicalOf([keys EXCEPT ![dst] = keys[src]]), cfg)
<1> DEFINE cmd == CopyCommand(src, dst)
           w == keys[src]
<1>1. cmd.key = dst /\ cmd.name = "COPY" /\ cmd.from = src
  BY DEF CopyCommand
<1>. HIDE DEF cmd
<1>3. ASSUME NEW n \in Node, NEW rnd \in Draws, LogicalOf(n.keys) = LogicalOf(keys)
      PROVE  Answers(n.keys[dst], n.metrics, w, ObeyOutcome(n, cmd, cfg, rnd))
  <2> DEFINE out == ObeyOutcome(n, cmd, cfg, rnd)
             o == n.keys[src]
  <2>1. out = Done(o, CopyMetrics(n.metrics, o))
    BY <1>1 DEF ObeyOutcome
  <2>2. out.val = o /\ out.reply.err = Ok /\ out.metrics = CopyMetrics(n.metrics, o)
    BY <2>1 DEF Done, Outcome
  <2>3. /\ o \in Value /\ o \in Object /\ WellFormed(o) /\ Logical(o) = Logical(w)
        /\ ~ IsObject(n.keys[dst]) /\ n.metrics \in Counters
    BY <1>3, AlikeAt, NodeFields
  <2>. HIDE DEF out, o, w
  <2>4. Tracks(n.metrics, Footprint(o), out.metrics) /\ out.metrics \in Counters
    BY <2>2, <2>3, ObjectTracks DEF CopyMetrics
  <2>5. Balanced(n.keys[dst], n.metrics, out)
    BY <2>2, <2>3, <2>4, FootprintGained DEF Balanced
  <2>6. Answers(n.keys[dst], n.metrics, w, out)
    BY <2>2, <2>3, <2>5 DEF Answers
  <2>. QED BY <2>6 DEF out
<1>. HIDE DEF w
<1>4. Leads(cmd, LogicalOf(keys), LogicalOf([keys EXCEPT ![dst] = w]), cfg)
  BY <1>1, <1>3, AnswerLeads
<1>. QED BY <1>4 DEF cmd, w

(***************************** a whole image *******************************)

\* The key a fold takes out of a set.
One(K) == CHOOSE k \in K : TRUE

\* The values a fold of F over the keys goes through, one for each set of keys.
Folding(g, S, s0, F) ==
  /\ g \in [SUBSET Key -> S]
  /\ g[{}] = s0
  /\ \A K \in SUBSET Key : K # {} => g[K] = F[One(K)][g[K \ {One(K)}]]

\* Folding a step over the keys goes through one set of keys after another.
LEMMA KeyFold ==
  ASSUME NEW S, NEW s0 \in S, NEW F \in [Key -> [S -> S]]
  PROVE  \E g : Folding(g, S, s0, F)
<1> DEFINE one(K) == CHOOSE k \in K : TRUE
           Steps(n, g) ==
             /\ g[{}] = s0
             /\ \A K \in SUBSET Key : K # {} /\ Cardinality(K) <= n =>
                  g[K] = F[one(K)][g[K \ {one(K)}]]
           Good(n) == \E g \in [SUBSET Key -> S] : Steps(n, g)
           T == {n \in Nat : Good(n)}
<1>1. 0 \in T
  <2> DEFINE g == [K \in SUBSET Key |-> s0]
  <2>1. g \in [SUBSET Key -> S] /\ g[{}] = s0
    OBVIOUS
  <2>2. \A K \in SUBSET Key : ~ (K # {} /\ Cardinality(K) <= 0)
    BY KeySets
  <2>. HIDE DEF g
  <2>3. Good(0)
    BY <2>1, <2>2
  <2>. HIDE DEF Good
  <2>. QED BY <2>3
<1>2. ASSUME NEW n \in Nat, n \in T PROVE n + 1 \in T
  <2>1. PICK g \in [SUBSET Key -> S] : Steps(n, g)
    BY <1>2
  <2> DEFINE h == [K \in SUBSET Key |->
                     IF K = {} THEN s0 ELSE F[one(K)][g[K \ {one(K)}]]]
  <2>2. ASSUME NEW K \in SUBSET Key, K # {}
        PROVE  /\ one(K) \in Key /\ K \ {one(K)} \in SUBSET Key
               /\ F[one(K)][g[K \ {one(K)}]] \in S
               /\ Cardinality(K \ {one(K)}) = Cardinality(K) - 1 /\ Cardinality(K) \in Nat
    <3>1. one(K) \in K /\ one(K) \in Key
      BY <2>2, KeySets
    <3>2. K \ {one(K)} \in SUBSET Key /\ Cardinality(K \ {one(K)}) = Cardinality(K) - 1
      BY <3>1, KeySets
    <3>3. g[K \ {one(K)}] \in S
      BY <3>2
    <3>4. F[one(K)][g[K \ {one(K)}]] \in S
      <4>. HIDE DEF one, Good
      <4>. QED BY <3>1, <3>3
    <3>. HIDE DEF one
    <3>. QED BY <3>1, <3>2, <3>4, KeySets
  <2>3. h \in [SUBSET Key -> S]
    <3>. HIDE DEF one
    <3>. QED BY <2>2
  <2>4. h[{}] = s0
    OBVIOUS
  <2>5. ASSUME NEW K \in SUBSET Key, K # {}, Cardinality(K) <= n + 1
        PROVE  h[K] = F[one(K)][h[K \ {one(K)}]]
    <3> DEFINE R == K \ {one(K)}
    <3>1. R \in SUBSET Key /\ Cardinality(R) <= n
      <4>1. /\ R \in SUBSET Key /\ Cardinality(R) = Cardinality(K) - 1 /\ Cardinality(K) \in Nat
        BY <2>2, <2>5
      <4>. HIDE DEF R, one, Good, h
      <4>. QED BY <2>5, <4>1
    <3>2. h[K] = F[one(K)][g[R]]
      BY <2>5
    <3>3. h[R] = g[R]
      <4>1. R = {} => g[R] = s0
        BY <2>1
      <4>2. R # {} => g[R] = F[one(R)][g[R \ {one(R)}]]
        BY <2>1, <3>1
      <4>3. h[R] = IF R = {} THEN s0 ELSE F[one(R)][g[R \ {one(R)}]]
        <5>. HIDE DEF R, one
        <5>. QED BY <3>1
      <4>. HIDE DEF R, one, h
      <4>. QED BY <4>1, <4>2, <4>3
    <3>. QED BY <3>2, <3>3
  <2>. HIDE DEF h
  <2>6. Good(n + 1)
    BY <2>3, <2>4, <2>5
  <2>. HIDE DEF Good
  <2>. QED BY <2>6
<1>. HIDE DEF Good
<1>3. \A n \in Nat : n \in T
  <2>. HIDE DEF T
  <2>. QED BY <1>1, <1>2, SetInduction
<1>4. Cardinality(Key) \in Nat
  BY KeySets
<1>5. Good(Cardinality(Key))
  BY <1>3, <1>4
<1>6. PICK g \in [SUBSET Key -> S] : Steps(Cardinality(Key), g)
  BY <1>5 DEF Good
<1>7. \A K \in SUBSET Key : K # {} => g[K] = F[one(K)][g[K \ {one(K)}]]
  BY <1>6, KeySets
<1>. QED BY <1>6, <1>7 DEF One, Folding

\* Values that are no objects count for nothing.
LEMMA NothingTracks ==
  ASSUME NEW v \in Value, ~ IsObject(v), NEW w \in Value, ~ IsObject(w), NEW m \in Counters
  PROVE  Tracks(m, Change(v, w), m)
<1>1. Change(v, w) \in Weights
  BY ChangeTyped DEF Value
<1>2. \A c \in Names : Change(v, w)[c] = 0
  BY NothingCounts DEF Change
<1>. QED BY <1>1, <1>2, TracksEqual

\* A node while it reads an image.
Reading == [keys : [Key -> Value], metrics : Counters, err : LoadErrors]

LEMMA SnapshotAt ==
  ASSUME NEW keys \in [Key -> Value], NEW k \in Key
  PROVE  /\ IsObject(Snapshot(keys)[k]) <=> IsObject(keys[k])
         /\ Snapshot(keys)[k] = IF IsObject(keys[k]) THEN RdbSave(keys[k]) ELSE keys[k]
<1>1. Snapshot(keys)[k] = IF IsObject(keys[k]) THEN RdbSave(keys[k]) ELSE keys[k]
  BY DEF Snapshot
<1>2. keys[k] \in Value
  OBVIOUS
<1>3. IsObject(keys[k]) => IsObject(RdbSave(keys[k]))
  BY <1>2, ValueFields, ImageTyped
<1>. QED BY <1>1, <1>3

\* Reading a key fills in its value, which is what was saved, or is refused;
\* the counters follow.
LEMMA LoadKeyStep ==
  ASSUME NEW keys \in [Key -> Value], NEW limit, NEW k \in Key, NEW n \in Reading
  PROVE  LET t == LoadKey(Snapshot(keys), limit, k, n)
         IN  /\ t \in Reading
             /\ \A j \in Key : j # k => t.keys[j] = n.keys[j]
             /\ t.err = Ok => n.err = Ok /\ Logical(t.keys[k]) = Logical(keys[k])
             /\ ~ IsObject(n.keys[k])
                  => Tracks(n.metrics, Change(n.keys[k], t.keys[k]), t.metrics)
<1> DEFINE d == Snapshot(keys)
           t == LoadKey(d, limit, k, n)
           v == keys[k]
<1>1. /\ n.keys \in [Key -> Value] /\ n.metrics \in Counters /\ n.err \in LoadErrors
      /\ n = [keys |-> n.keys, metrics |-> n.metrics, err |-> n.err]
      /\ v \in Value /\ n.keys[k] \in Value
  BY DEF Reading
<1>2. (IsObject(d[k]) <=> IsObject(v)) /\ d[k] = IF IsObject(v) THEN RdbSave(v) ELSE v
  BY SnapshotAt
<1>3. CASE ~ IsObject(v)
  <2>1. t = [keys |-> [n.keys EXCEPT ![k] = v], metrics |-> n.metrics, err |-> n.err]
    <3>1. t = [n EXCEPT !.keys[k] = v]
      BY <1>2, <1>3 DEF LoadKey
    <3>. HIDE DEF t, d, v
    <3>. QED BY <1>1, <3>1
  <2>2. /\ t.keys = [n.keys EXCEPT ![k] = v] /\ t.metrics = n.metrics /\ t.err = n.err
        /\ t.keys \in [Key -> Value] /\ t.keys[k] = v
        /\ \A j \in Key : j # k => t.keys[j] = n.keys[j]
    <3>. HIDE DEF t, d, v
    <3>. QED BY <1>1, <2>1
  <2>3. t \in Reading
    <3>. HIDE DEF t, d, v
    <3>. QED BY <1>1, <2>1, <2>2 DEF Reading
  <2>4. ~ IsObject(n.keys[k]) => Tracks(n.metrics, Change(n.keys[k], v), n.metrics)
    <3>. HIDE DEF t, d, v
    <3>. QED BY <1>1, <1>3, NothingTracks
  <2>. HIDE DEF t, d, v
  <2>5. /\ t.err = Ok => n.err = Ok /\ Logical(t.keys[k]) = Logical(v)
        /\ ~ IsObject(n.keys[k])
             => Tracks(n.metrics, Change(n.keys[k], t.keys[k]), t.metrics)
    BY <2>2, <2>4
  <2>. QED BY <2>2, <2>3, <2>5 DEF t, d, v
<1>4. CASE IsObject(v)
  <2> DEFINE l == RdbLoad(RdbSave(v), n.metrics, limit)
  <2>1. v \in Object /\ WellFormed(v)
    <3>. HIDE DEF v
    <3>. QED BY <1>1, <1>4, ValueFields
  <2>2. /\ l.metrics \in Counters /\ l.val \in Value
        /\ l.err # Ok => l.val = Absent /\ l.metrics = n.metrics
        /\ l.err = Ok => /\ l.val \in Object /\ WellFormed(l.val) /\ Alike(l.val, v)
                         /\ Tracks(n.metrics, Footprint(l.val), l.metrics)
    <3>. HIDE DEF v
    <3>. QED BY <1>1, <2>1, RdbLoadOutcome
  <2>3. l.err \in LoadErrors
    <3>. HIDE DEF v
    <3>1. PICK load : /\ Loads(RdbSave(v), n.metrics, limit, load)
                      /\ l = Loaded(load[Len(v.filters)])
      BY <1>1, <2>1, LoadSteps
    <3>2. load[Len(v.filters)] \in Loading
      BY <1>1, <2>1, <3>1, LoadInvariant
    <3>. HIDE DEF l
    <3>. QED BY <3>1, <3>2 DEF Loaded, RdbRefused, Loading
  <2>4. /\ t.keys = [n.keys EXCEPT ![k] = l.val] /\ t.metrics = l.metrics
        /\ t.err = IF n.err = Ok THEN l.err ELSE n.err
        /\ t = [keys |-> t.keys, metrics |-> t.metrics, err |-> t.err]
    BY <1>2, <1>4 DEF LoadKey
  <2>. HIDE DEF t, d, v, l
  <2>5. t.keys \in [Key -> Value] /\ t.keys[k] = l.val /\ \A j \in Key : j # k => t.keys[j] = n.keys[j]
    BY <1>1, <2>2, <2>4
  <2>6. t.err \in LoadErrors /\ (t.err = Ok => n.err = Ok /\ l.err = Ok)
    BY <1>1, <2>3, <2>4 DEF LoadErrors
  <2>7. t \in Reading
    BY <2>2, <2>4, <2>5, <2>6 DEF Reading
  <2>8. l.err = Ok => Logical(l.val) = Logical(v)
    BY <2>1, <2>2, AlikeIsLogical
  <2>9. ASSUME ~ IsObject(n.keys[k])
        PROVE  Tracks(n.metrics, Change(n.keys[k], l.val), l.metrics)
    <3>1. CASE l.err = Ok
      BY <1>1, <2>2, <2>9, <3>1, FootprintGained
    <3>2. CASE l.err # Ok
      <4>1. l.val \in Value /\ ~ IsObject(l.val) /\ l.metrics = n.metrics
        BY <2>2, <3>2, NothingCounts
      <4>2. Tracks(n.metrics, Change(n.keys[k], l.val), n.metrics)
        BY <1>1, <2>9, <4>1, NothingTracks
      <4>. QED BY <4>1, <4>2
    <3>. QED BY <3>1, <3>2
  <2>10. /\ t.err = Ok => n.err = Ok /\ Logical(t.keys[k]) = Logical(v)
         /\ ~ IsObject(n.keys[k])
              => Tracks(n.metrics, Change(n.keys[k], t.keys[k]), t.metrics)
    BY <2>4, <2>5, <2>6, <2>8, <2>9
  <2>. QED BY <2>5, <2>7, <2>10 DEF t, d, v
<1>. QED BY <1>3, <1>4

LEMMA EmptyNodeFields ==
  /\ EmptyNode \in Reading
  /\ \A k \in Key : EmptyNode.keys[k] = Absent
  /\ EmptyNode.keys \in [Key -> Value]
  /\ EmptyNode.metrics = NoMetrics /\ EmptyNode.err = Ok
<1>1. [k \in Key |-> Absent] \in [Key -> Value]
  BY ValueFields
<1>2. Ok \in LoadErrors
  BY DEF LoadErrors
<1>. QED BY <1>1, <1>2, NoMetricsTyped DEF EmptyNode, Reading

\* The nodes that reading an image goes through, one for each set of keys read.
ReadUpTo(keys, limit, g) ==
  /\ g \in [SUBSET Key -> Reading]
  /\ g[{}] = EmptyNode
  /\ \A K \in SUBSET Key : K # {} =>
       g[K] = LoadKey(Snapshot(keys), limit, One(K), g[K \ {One(K)}])

\* They exist, and the last of them is the node that has read the image.
LEMMA SnapshotSteps ==
  ASSUME NEW keys \in [Key -> Value], NEW limit
  PROVE  \E g : ReadUpTo(keys, limit, g) /\ LoadSnapshot(Snapshot(keys), limit) = g[Key]
<1> DEFINE d == Snapshot(keys)
           R(h) == h = [K \in SUBSET Key |->
                          IF K = {} THEN EmptyNode
                          ELSE LoadKey(d, limit, One(K), h[K \ {One(K)}])]
           iter == CHOOSE h : R(h)
           F == [k \in Key |-> [n \in Reading |-> LoadKey(d, limit, k, n)]]
<1>1. LoadSnapshot(d, limit) = iter[Key]
  BY DEF LoadSnapshot, FoldSet, MapThenFoldSet, One
<1>2. \A k \in Key, n \in Reading : LoadKey(d, limit, k, n) \in Reading
  BY LoadKeyStep
<1>. HIDE DEF d
<1>3. F \in [Key -> [Reading -> Reading]]
  BY <1>2
<1>4. \A k \in Key, n \in Reading : F[k][n] = LoadKey(d, limit, k, n)
  OBVIOUS
<1>. HIDE DEF F
<1>5. PICK g \in [SUBSET Key -> Reading] :
        /\ g[{}] = EmptyNode
        /\ \A K \in SUBSET Key : K # {} => g[K] = F[One(K)][g[K \ {One(K)}]]
  <2>1. EmptyNode \in Reading
    BY EmptyNodeFields
  <2>2. \E g : Folding(g, Reading, EmptyNode, F)
    BY <1>3, <2>1, KeyFold
  <2>. QED BY <2>2 DEF Folding
<1>6. ASSUME NEW K \in SUBSET Key, K # {}
      PROVE  /\ One(K) \in Key /\ K \ {One(K)} \in SUBSET Key
             /\ Cardinality(K \ {One(K)}) = Cardinality(K) - 1 /\ Cardinality(K) \in Nat
  <2>1. One(K) \in K /\ One(K) \in Key
    BY <1>6, KeySets DEF One
  <2>. QED BY <2>1, KeySets
<1>7. ASSUME NEW K \in SUBSET Key, K # {}
      PROVE  g[K] = LoadKey(d, limit, One(K), g[K \ {One(K)}])
  <2>1. g[K \ {One(K)}] \in Reading
    BY <1>6, <1>7
  <2>. QED BY <1>4, <1>5, <1>6, <1>7, <2>1
<1>8. R(g)
  <2>1. g = [K \in SUBSET Key |-> g[K]]
    BY <1>5
  <2>. QED BY <1>5, <1>7, <2>1
<1>9. R(iter)
  BY <1>8
<1>. HIDE DEF iter
<1>10. \A K \in SUBSET Key :
         iter[K] = IF K = {} THEN EmptyNode
                   ELSE LoadKey(d, limit, One(K), iter[K \ {One(K)}])
  BY <1>9
<1>. HIDE DEF R
<1> DEFINE T == {n \in Nat : \A K \in SUBSET Key : Cardinality(K) <= n => iter[K] = g[K]}
<1>11. 0 \in T
  <2>1. ASSUME NEW K \in SUBSET Key, Cardinality(K) <= 0 PROVE iter[K] = g[K]
    <3>1. K = {}
      BY <2>1, KeySets
    <3>. QED BY <1>5, <1>10, <3>1
  <2>. QED BY <2>1
<1>12. ASSUME NEW n \in Nat, n \in T PROVE n + 1 \in T
  <2>1. ASSUME NEW K \in SUBSET Key, Cardinality(K) <= n + 1, K # {} PROVE iter[K] = g[K]
    <3>1. iter[K \ {One(K)}] = g[K \ {One(K)}]
      <4>1. /\ K \ {One(K)} \in SUBSET Key /\ Cardinality(K \ {One(K)}) <= n
        BY <1>6, <2>1
      <4>. QED BY <1>12, <4>1
    <3>. QED BY <1>7, <1>10, <2>1, <3>1
  <2>2. ASSUME NEW K \in SUBSET Key, K = {} PROVE iter[K] = g[K]
    BY <1>5, <1>10, <2>2
  <2>3. \A K \in SUBSET Key : Cardinality(K) <= n + 1 => iter[K] = g[K]
    BY <2>1, <2>2
  <2>. QED BY <2>3
<1>13. \A n \in Nat : n \in T
  <2>. HIDE DEF T
  <2>. QED BY <1>11, <1>12, SetInduction
<1>14. Key \in SUBSET Key /\ Cardinality(Key) \in Nat
  BY KeySets
<1>15. iter[Key] = g[Key]
  BY <1>13, <1>14
<1>16. ReadUpTo(keys, limit, g)
  BY <1>5, <1>7 DEF ReadUpTo, d
<1>. QED BY <1>1, <1>15, <1>16 DEF d

\* A node that could read the image of a keyspace holds what that keyspace holds.
LEMMA SnapshotIsCopy ==
  ASSUME NEW keys \in [Key -> Value], NEW limit
  PROVE  LET n == LoadSnapshot(Snapshot(keys), limit)
         IN  /\ n \in Reading
             /\ n.err = Ok => LogicalOf(n.keys) = LogicalOf(keys) /\ n \in Node
<1> DEFINE n == LoadSnapshot(Snapshot(keys), limit)
<1>1. PICK g : ReadUpTo(keys, limit, g) /\ n = g[Key]
  BY SnapshotSteps
<1>. HIDE DEF n
<1> DEFINE Same(K) == g[K].err = Ok => \A k \in K : Logical(g[K].keys[k]) = Logical(keys[k])
           T == {i \in Nat : \A K \in SUBSET Key : Cardinality(K) <= i => Same(K)}
<1>2. Same({})
  OBVIOUS
<1>3. 0 \in T
  <2>1. \A K \in SUBSET Key : Cardinality(K) <= 0 => K = {}
    BY KeySets
  <2>. HIDE DEF Same
  <2>. QED BY <1>2, <2>1
<1>4. ASSUME NEW i \in Nat, i \in T PROVE i + 1 \in T
  <2>1. ASSUME NEW K \in SUBSET Key, Cardinality(K) <= i + 1, K # {} PROVE Same(K)
    <3> DEFINE x == One(K)
               L == K \ {x}
    <3>1. x \in K /\ x \in Key
      BY <2>1, KeySets DEF One
    <3>2. g[K] = LoadKey(Snapshot(keys), limit, x, g[L])
      BY <1>1, <2>1 DEF ReadUpTo
    <3>. HIDE DEF x
    <3>3. L \in SUBSET Key /\ Cardinality(L) <= i
      <4>1. L \in SUBSET Key /\ Cardinality(L) = Cardinality(K) - 1 /\ Cardinality(K) \in Nat
        BY <3>1, KeySets
      <4>. HIDE DEF L
      <4>. QED BY <2>1, <4>1
    <3>4. Same(L)
      <4>. HIDE DEF L, Same
      <4>. QED BY <1>4, <3>3
    <3>5. g[L] \in Reading
      BY <1>1, <3>3 DEF ReadUpTo
    <3>6. /\ \A j \in Key : j # x => g[K].keys[j] = g[L].keys[j]
          /\ g[K].err = Ok => g[L].err = Ok /\ Logical(g[K].keys[x]) = Logical(keys[x])
      <4>. HIDE DEF L
      <4>. QED BY <3>1, <3>2, <3>5, LoadKeyStep
    <3>7. \A j \in K : j # x => j \in L
      OBVIOUS
    <3>. HIDE DEF L
    <3>. QED BY <3>4, <3>6, <3>7
  <2>. HIDE DEF Same
  <2>2. \A K \in SUBSET Key : Cardinality(K) <= i + 1 => Same(K)
    BY <1>2, <2>1
  <2>. QED BY <2>2
<1>5. \A i \in Nat : i \in T
  <2>. HIDE DEF T
  <2>. QED BY <1>3, <1>4, SetInduction
<1>6. Key \in SUBSET Key /\ Cardinality(Key) \in Nat
  BY KeySets
<1>7. Same(Key)
  <2>. HIDE DEF Same
  <2>. QED BY <1>5, <1>6
<1>8. n \in Reading
  BY <1>1, <1>6 DEF ReadUpTo
<1>9. n.err = Ok => LogicalOf(n.keys) = LogicalOf(keys)
  BY <1>1, <1>7 DEF LogicalOf
<1>10. n.err = Ok => n \in Node
  BY <1>8 DEF Reading, Node
<1>. QED BY <1>8, <1>9, <1>10 DEF n

(*********************** objects that are read back ************************)

\* The filters before the next one and the next one take no more than all.
LEMMA PrefixSize ==
  ASSUME NEW o \in Object, NEW p \in Object, NEW i \in Nat, i < Len(o.filters), Prefix(o, p, i)
  PROVE  LET f == o.filters[i + 1]
         IN  /\ FilterSize(f.cap, f.fp) \in Nat
             /\ FiltersSize(p) + FilterSize(f.cap, f.fp) <= FiltersSize(o)
<1> DEFINE n == Len(o.filters)
           s == Sizes(o)
           q == Sizes(p)
           u == [j \in 1..(i + 1) |-> s[j]]
<1>1. /\ n \in Nat /\ DOMAIN o.filters = 1..n /\ s \in Seq(Int) /\ Len(s) = n
      /\ \A j \in 1..n : s[j] \in Nat
      /\ FiltersSize(o) = SumOf(s)
  BY TermsTyped
<1>2. /\ Len(p.filters) = i /\ DOMAIN p.filters = 1..i /\ q \in Seq(Int) /\ Len(q) = i
      /\ FiltersSize(p) = SumOf(q) /\ FiltersSize(p) \in Nat
  BY TermsTyped, FootprintTyped DEF Prefix
<1>3. i + 1 \in 1..n /\ 1..(i + 1) \subseteq 1..n /\ i + 1 \in Nat
  BY <1>1
<1>4. s[i + 1] = FilterSize(o.filters[i + 1].cap, o.filters[i + 1].fp)
  BY <1>1, <1>3 DEF Sizes
<1>5. \A j \in 1..i : q[j] = s[j]
  BY <1>1, <1>2, <1>3 DEF Sizes, Prefix
<1>. HIDE DEF n, s, q
<1>6. u \in Seq(Int) /\ Len(u) = i + 1 /\ \A j \in 1..(i + 1) : u[j] = s[j]
  BY <1>1, <1>3
<1>. HIDE DEF u
<1>7. SumOf(u) = SumOf(q) + u[i + 1]
  <2>1. Len(u) = Len(q) + 1 /\ \A j \in 1..Len(q) : u[j] = q[j]
    BY <1>2, <1>5, <1>6
  <2>. QED BY <1>2, <1>6, <2>1, SumOneMore
<1>8. SumOf(u) <= SumOf(s)
  <2>1. Len(u) <= Len(s)
    BY <1>1, <1>3, <1>6
  <2>2. \A j \in 1..Len(u) : u[j] <= s[j]
    BY <1>1, <1>3, <1>6
  <2>3. \A j \in 1..Len(s) : s[j] \in Nat
    BY <1>1
  <2>. QED BY <1>1, <1>6, <2>1, <2>2, <2>3, SumMonotone
<1>9. u[i + 1] = s[i + 1] /\ s[i + 1] \in Nat
  BY <1>1, <1>3, <1>6
<1>. QED BY <1>1, <1>2, <1>4, <1>7, <1>8, <1>9

\* None of an object's rates is zero if its first and its last are not.
LEMMA RatesAboveZero ==
  ASSUME NEW o \in Object, WellFormed(o), ~ FpReachesZero(o.fp), NEW limit, Refits(o, limit),
         NEW i \in Nat, i < Len(o.filters)
  PROVE  /\ ~ FpReachesZero(FpRate(o.fp, i, o.tr))
         /\ o.filters[i + 1].fp = FpRate(o.fp, i, o.tr)
<1> DEFINE n == Len(o.filters)
           k == n - 1
           tr == o.tr
<1>1. n \in Nat \ {0} /\ o.fp \in Nat /\ tr \in Nat /\ FpFloor \in Nat
  BY LastFilter, SizeAssumption DEF Object
<1>2. ~ FpReachesZero(FpRate(o.fp, i, tr))
  <2>1. k \in Nat /\ i <= k
    BY <1>1
  <2>2. i = 0 \/ n > 1
    BY <1>1
  <2>3. n > 1 => ~ (o.fp + k * tr >= FpFloor)
    BY DEF Refits, FpReachesZero, FpRate
  <2>4. ~ (o.fp >= FpFloor)
    BY DEF FpReachesZero
  <2>. HIDE DEF k, tr, n
  <2>5. i * tr <= k * tr /\ i * tr \in Nat /\ k * tr \in Nat
    BY <1>1, <2>1
  <2>6. i = 0 => i * tr = 0
    BY <1>1
  <2>7. ~ (o.fp + i * tr >= FpFloor)
    BY <1>1, <2>2, <2>3, <2>4, <2>5, <2>6
  <2>. QED BY <2>7 DEF FpReachesZero, FpRate
<1>3. o.filters[i + 1].fp = o.fp + ((i + 1) - 1) * tr
  <2>1. i + 1 \in 1..n
    BY <1>1
  <2>. QED BY <2>1 DEF WellFormed
<1>4. (i + 1) - 1 = i
  OBVIOUS
<1>. QED BY <1>2, <1>3, <1>4 DEF FpRate

\* Reading another filter of an object that refits is not refused, and pushes it.
LEMMA FilterIsRead ==
  ASSUME NEW o \in Object, WellFormed(o), ~ FpReachesZero(o.fp),
         NEW limit \in Int, Refits(o, limit), NEW i \in Nat, i < Len(o.filters),
         NEW s \in Loading, s.err = Ok, Prefix(o, s.obj, i), Pushed(s.obj.vcap, i)
  PROVE  LET t == RdbLoadFilter(s, RdbSave(o), i + 1, limit)
         IN  t.err = Ok /\ Pushed(t.obj.vcap, i + 1)
<1> DEFINE n == Len(o.filters)
           r == RdbSave(o)
           p == s.obj
           f == o.filters[i + 1]
           fp == FpRate(r.fp, (i + 1) - 1, r.tr)
           size == FilterSize(f.cap, f.fp)
           err == RdbError(p, r, i + 1, limit)
           t == RdbLoadFilter(s, r, i + 1, limit)
<1>1. n \in Nat \ {0} /\ DOMAIN o.filters = 1..n /\ i + 1 \in 1..n /\ (i + 1) - 1 = i
  BY LastFilter
<1>2. p \in Object
  BY DEF Loading
<1>3. r.fp = o.fp /\ r.tr = o.tr /\ r.filters[i + 1].cap = f.cap
  BY <1>1 DEF RdbSave
<1>4. ~ FpReachesZero(fp) /\ f.fp = fp
  <2>. HIDE DEF r, f
  <2>. QED BY <1>1, <1>3, RatesAboveZero DEF f
<1>5. size \in Nat /\ FiltersSize(p) + size <= FiltersSize(o)
  BY <1>2, PrefixSize
<1>6. PICK w : Pushed(w, Max({1, n - 1})) /\ ObjectSize(w) + FiltersSize(o) <= limit
  BY DEF Refits
<1>7. ObjectSize(p.vcap) <= ObjectSize(w) /\ ObjectSize(p.vcap) \in Nat /\ ObjectSize(w) \in Nat
  <2> DEFINE k == Max({1, n - 1})
             v == p.vcap
  <2>1. k \in Nat /\ i <= k
    <3>1. n - 1 \in Nat /\ i <= n - 1
      BY <1>1
    <3>. QED BY <3>1, MaxOfTwo
  <2>2. Pushed(v, i) /\ Pushed(w, k)
    BY <1>6
  <2>. HIDE DEF k, v
  <2>3. v \in Nat /\ w \in Nat /\ v <= w
    BY <2>1, <2>2, PushedMonotone
  <2>4. ObjectSize(v) <= ObjectSize(w) /\ ObjectSize(v) \in Nat /\ ObjectSize(w) \in Nat
    BY <2>3, ObjectSizeGrows, ObjectSizeIsNatural
  <2>. QED BY <2>4 DEF v
<1>8. MemoryUsage(p) = ObjectSize(p.vcap) + FiltersSize(p) /\ FiltersSize(p) \in Nat
      /\ FiltersSize(o) \in Nat
  BY <1>2, FootprintTyped DEF MemoryUsage
<1>9. ~ (MemoryUsage(p) + size > limit)
  <2>. HIDE DEF size, p, n
  <2>. QED BY <1>5, <1>6, <1>7, <1>8
<1>10. err = Ok
  <2>. HIDE DEF size, p, r, f
  <2>1. FilterSize(r.filters[i + 1].cap, fp) = size
    BY <1>3, <1>4 DEF size
  <2>. HIDE DEF fp
  <2>2. ~ FpReachesZero(fp) /\ ~ (MemoryUsage(p) + FilterSize(r.filters[i + 1].cap, fp) > limit)
    BY <1>4, <1>9, <2>1
  <2>. QED BY <2>2 DEF RdbError, fp
<1>11. /\ t.err = Ok /\ t.obj.vcap = PushedVec(p)
  <2> DEFINE g == RdbFilter(r, i + 1)
  <2>1. t = [err |-> Ok, metrics |-> Gain(s.metrics, FilterWeight(g)),
             obj |-> [p EXCEPT !.filters = Append(@, g), !.vcap = PushedVec(p)]]
    BY <1>10 DEF RdbLoadFilter
  <2>2. "vcap" \in DOMAIN p
    BY <1>2 DEF Object
  <2>. HIDE DEF g, t
  <2>. QED BY <2>1, <2>2
<1>12. Pushed(PushedVec(p), i + 1)
  <2>1. PushedVec(p) = IF i < p.vcap THEN p.vcap ELSE Max({2 * p.vcap, 4})
    BY DEF PushedVec, Prefix
  <2>. HIDE DEF p
  <2>2. Pushed(p.vcap, i)
    BY DEF p
  <2>. QED BY <2>1, <2>2, PushedOnce
<1>. QED BY <1>11, <1>12

\* The image of an object that refits is read back as the object it is of.
LEMMA RefitIsRead ==
  ASSUME NEW o \in Object, WellFormed(o), ~ FpReachesZero(o.fp),
         NEW limit \in Int, Refits(o, limit), NEW m \in Counters
  PROVE  LET l == RdbLoad(RdbSave(o), m, limit)
         IN  /\ l = [val |-> o, metrics |-> l.metrics, err |-> Ok]
             /\ l.metrics \in Counters /\ Tracks(m, Footprint(o), l.metrics)
<1> DEFINE r == RdbSave(o)
           n == Len(o.filters)
           l == RdbLoad(r, m, limit)
<1>1. PICK load : Loads(r, m, limit, load) /\ l = Loaded(load[n])
  BY LoadSteps
<1>2. n \in Nat /\ Len(r.filters) = n
  BY LastFilter, ImageTyped
<1>3. /\ load \in [0..n -> Loading]
      /\ load[0] = [obj |-> RdbEmpty(r), metrics |-> m, err |-> Ok]
      /\ \A i \in 1..n : load[i] = RdbLoadFilter(load[i - 1], r, i, limit)
  BY <1>1, <1>2 DEF Loads
<1> DEFINE Read(i) == /\ load[i].err = Ok /\ Prefix(o, load[i].obj, i)
                      /\ Pushed(load[i].obj.vcap, i)
           T == {i \in Nat : i <= n => Read(i)}
<1>4. 0 \in T
  <2>1. Prefix(o, load[0].obj, 0) /\ load[0].err = Ok
    BY <1>3, NothingRead
  <2>2. load[0].obj.vcap = 1
    BY <1>3 DEF RdbEmpty
  <2>3. Pushed(1, 0)
    BY PowersOfTwoGrow DEF Pushed
  <2>. QED BY <2>1, <2>2, <2>3
<1>5. ASSUME NEW i \in Nat, i \in T PROVE i + 1 \in T
  <2>1. SUFFICES ASSUME i + 1 <= n PROVE Read(i + 1)
    OBVIOUS
  <2> DEFINE s == load[i]
             t == load[i + 1]
  <2>2. /\ i + 1 \in 1..n /\ (i + 1) - 1 = i /\ i < n /\ s \in Loading
        /\ s.err = Ok /\ Prefix(o, s.obj, i) /\ Pushed(s.obj.vcap, i)
    BY <1>2, <1>3, <1>5, <2>1
  <2>3. t = RdbLoadFilter(s, r, i + 1, limit)
    BY <1>3, <2>2
  <2>. HIDE DEF s, t
  <2>4. t.err = Ok /\ Pushed(t.obj.vcap, i + 1)
    BY <2>2, <2>3, FilterIsRead
  <2>5. Prefix(o, t.obj, i + 1)
    BY <2>2, <2>3, <2>4, LoadFilterStep
  <2>. QED BY <2>4, <2>5 DEF t
<1>6. Read(n)
  <2>1. n \in T
    <3>. HIDE DEF T
    <3>. QED BY <1>2, <1>4, <1>5, SetInduction
  <2>. QED BY <1>2, <2>1
<1> DEFINE v == load[n].obj
<1>7. l.err = Ok /\ l.val = v
  BY <1>1, <1>6 DEF Loaded
<1>8. /\ l = [val |-> l.val, metrics |-> l.metrics, err |-> l.err]
      /\ l.metrics \in Counters
      /\ v \in Object /\ Alike(v, o) /\ Tracks(m, Footprint(v), l.metrics)
  BY <1>7, RdbLoadOutcome
<1>9. v.vcap = o.vcap
  <2>1. Pushed(v.vcap, n) /\ Pushed(o.vcap, n)
    BY <1>6 DEF Refits, OnlyPushed
  <2>. HIDE DEF v, n
  <2>. QED BY <1>2, <2>1, PushedUniquely
<1>. HIDE DEF v, l
<1>10. v = o
  <2>1. /\ v = [expansion |-> v.expansion, fp |-> v.fp, tr |-> v.tr,
                seedRandom |-> v.seedRandom, vcap |-> v.vcap, filters |-> v.filters]
        /\ o = [expansion |-> o.expansion, fp |-> o.fp, tr |-> o.tr,
                seedRandom |-> o.seedRandom, vcap |-> o.vcap, filters |-> o.filters]
    BY <1>8 DEF Object
  <2>. QED BY <1>8, <1>9, <2>1 DEF Alike
<1>. QED BY <1>7, <1>8, <1>10 DEF l, r

(********************* images and encodings that are obeyed ****************)

\* A RESTORE that succeeded on the node it comes from does so on every node whose
\* limit is no lower, and brings the object that was dumped.
LEMMA RestoreLeads ==
  ASSUME NEW keys \in [Key -> Value], NEW dst \in Key, ~ IsObject(keys[dst]),
         NEW o \in Object, WellFormed(o), NEW m \in Counters, NEW limit \in Nat,
         RdbLoad(RdbSave(o), m, limit).err = Ok, NEW w, w = RdbLoad(RdbSave(o), m, limit).val,
         NEW cfg, cfg.limit \in Nat, limit <= cfg.limit
  PROVE  Leads(RestoreCommand(dst, RdbSave(o)), LogicalOf(keys),
               LogicalOf([keys EXCEPT ![dst] = w]), cfg)
<1> DEFINE cmd == RestoreCommand(dst, RdbSave(o))
<1>1. cmd.key = dst /\ cmd.name = "RESTORE" /\ cmd.image = RdbSave(o)
  BY DEF RestoreCommand
<1>2. w \in Object /\ WellFormed(w) /\ w \in Value
  BY RdbLoadOutcome
<1>. HIDE DEF cmd
<1>3. ASSUME NEW n \in Node, NEW rnd \in Draws, LogicalOf(n.keys) = LogicalOf(keys)
      PROVE  Answers(n.keys[dst], n.metrics, w, ObeyOutcome(n, cmd, cfg, rnd))
  <2> DEFINE out == ObeyOutcome(n, cmd, cfg, rnd)
             l == RdbLoad(RdbSave(o), n.metrics, cfg.limit)
  <2>1. out = Outcome(l.val, l.metrics, l.err, <<>>, <<>>, {})
    BY <1>1 DEF ObeyOutcome
  <2>2. out.val = l.val /\ out.reply.err = l.err /\ out.metrics = l.metrics
    BY <2>1 DEF Outcome
  <2>3. n.metrics \in Counters /\ ~ IsObject(n.keys[dst])
    BY <1>3, NodeFields, AlikeAt
  <2>4. l.err = Ok /\ l.val = w
    BY <2>3, LoadsElsewhere
  <2>5. l.metrics \in Counters /\ (l.err = Ok => Tracks(n.metrics, Footprint(l.val), l.metrics))
    BY <2>3, RdbLoadOutcome
  <2>. HIDE DEF out, l
  <2>6. Balanced(n.keys[dst], n.metrics, out)
    BY <1>2, <2>2, <2>3, <2>4, <2>5, FootprintGained DEF Balanced
  <2>7. Answers(n.keys[dst], n.metrics, w, out)
    BY <1>2, <2>2, <2>4, <2>6 DEF Answers
  <2>. QED BY <2>7 DEF out
<1>4. Leads(cmd, LogicalOf(keys), LogicalOf([keys EXCEPT ![dst] = w]), cfg)
  BY <1>1, <1>3, AnswerLeads
<1>. QED BY <1>4 DEF cmd

\* The BF.LOAD that a rewritten AOF has for an object creates that object, unless
\* it has the maximum number of filters.
LEMMA LoadLeads ==
  ASSUME NEW keys \in [Key -> Value], NEW k \in Key, keys[k] = Absent,
         NEW o \in Object, WellFormed(o), Len(o.filters) < MaxFilters,
         NEW cfg, cfg.limit \in Int
  PROVE  Leads(LoadCommand(k, o), LogicalOf(keys), LogicalOf([keys EXCEPT ![k] = o]), cfg)
<1> DEFINE cmd == LoadCommand(k, o)
           p == Decoded(o)
           yes == TRUE
<1>1. cmd.key = k /\ cmd.name = "BF.LOAD" /\ cmd.dump = o
  BY DEF LoadCommand, Command
<1>2. p \in Object /\ WellFormed(p) /\ p.filters = o.filters /\ yes \in BOOLEAN
  BY DecodedPreserves
<1>3. p \in Value /\ Logical(p) = Logical(o)
  <2>1. Alike(o, p)
    BY DEF Alike, Decoded, Object
  <2>. QED BY <1>2, <2>1, AlikeIsLogical, ValueFields
<1>4. DecodeError(p) = Ok
  <2>. HIDE DEF p
  <2>. QED BY <1>2, NothingToReject
<1>. HIDE DEF cmd
<1>5. ASSUME NEW n \in Node, NEW rnd \in Draws, LogicalOf(n.keys) = LogicalOf(keys)
      PROVE  Answers(n.keys[k], n.metrics, o, ObeyOutcome(n, cmd, cfg, rnd))
  <2> DEFINE out == ObeyOutcome(n, cmd, cfg, rnd)
             counted == Gain(GainFilters(n.metrics, p), ObjectWeight(p))
  <2>1. out = BloomFilterLoad(cmd, n.keys[k], cfg, n.metrics, TRUE)
    BY <1>1 DEF ObeyOutcome
  <2>2. n.metrics \in Counters /\ n.keys[k] = Absent
    BY <1>5, NodeFields, AlikeAt, ValueFields
  <2>3. ~ IsObject(Absent) /\ Absent # Foreign
    BY ValueFields, ValueAssumption
  <2>4. out = Outcome(p, counted, Ok, <<>>, <<ReplicaInsert(cmd.key, p, <<DumpItem>>)>>,
                      {"bloom.reserve"})
    <3>. HIDE DEF p
    <3>1. Decoded(cmd.dump) = p
      BY <1>1 DEF p
    <3>. HIDE DEF counted
    <3>. QED BY <1>4, <2>1, <2>2, <2>3, <3>1 DEF BloomFilterLoad, counted
  <2>5. out.val = p /\ out.reply.err = Ok /\ out.metrics = counted
    BY <2>4 DEF Outcome
  <2>. HIDE DEF out, p
  <2>6. counted \in Counters /\ Tracks(n.metrics, Footprint(p), counted)
    BY <1>2, <2>2, ObjectTracks
  <2>. HIDE DEF counted
  <2>7. Balanced(n.keys[k], n.metrics, out)
    BY <1>2, <2>2, <2>3, <2>5, <2>6, FootprintGained DEF Balanced
  <2>8. Answers(n.keys[k], n.metrics, o, out)
    BY <1>3, <2>5, <2>7 DEF Answers
  <2>. QED BY <2>8 DEF out
<1>6. Leads(cmd, LogicalOf(keys), LogicalOf([keys EXCEPT ![k] = o]), cfg)
  <2>. HIDE DEF p
  <2>. QED BY <1>1, <1>5, AnswerLeads
<1>. QED BY <1>6 DEF cmd

(******************************* replaying *********************************)

\* The nodes that replaying a log goes through.
Replays(n, log, cfg, rnd, g) ==
  /\ g = [i \in 0..Len(log) |-> g[i]]
  /\ g[0] = n
  /\ \A i \in 1..Len(log) : g[i] = Obey(g[i - 1], log[i], cfg, rnd)

\* They exist, and the last of them is the node that has replayed the log.
LEMMA ReplaySteps ==
  ASSUME NEW n, NEW log, Len(log) \in Nat, NEW cfg, NEW rnd
  PROVE  \E g : Replays(n, log, cfg, rnd, g) /\ Replay(n, log, cfg, rnd) = g[Len(log)]
<1> DEFINE len == Len(log)
           Upto(m, g) ==
             /\ g = [i \in 0..m |-> g[i]]
             /\ g[0] = n
             /\ \A i \in 1..m : g[i] = Obey(g[i - 1], log[i], cfg, rnd)
           T == {m \in Nat : \E g : Upto(m, g)}
           R(g) == g = [i \in 0..Len(log) |->
                          IF i = 0 THEN n ELSE Obey(g[i - 1], log[i], cfg, rnd)]
<1>1. 0 \in T
  <2> DEFINE g == [i \in 0..0 |-> n]
  <2>1. Upto(0, g)
    OBVIOUS
  <2>. HIDE DEF Upto, g
  <2>. QED BY <2>1
<1>2. ASSUME NEW m \in Nat, m \in T PROVE m + 1 \in T
  <2>1. PICK g : Upto(m, g)
    BY <1>2
  <2> DEFINE next == Obey(g[m], log[m + 1], cfg, rnd)
             h == [i \in 0..(m + 1) |-> IF i = m + 1 THEN next ELSE g[i]]
  <2>. HIDE DEF next
  <2>2. h = [i \in 0..(m + 1) |-> h[i]] /\ h[0] = g[0] /\ h[m + 1] = next
    OBVIOUS
  <2>3. \A i \in 0..m : h[i] = g[i]
    OBVIOUS
  <2>. HIDE DEF h
  <2>4. ASSUME NEW i \in 1..(m + 1) PROVE h[i] = Obey(h[i - 1], log[i], cfg, rnd)
    <3>1. CASE i = m + 1
      <4>1. i - 1 = m /\ m \in 0..m
        BY <3>1
      <4>. QED BY <2>2, <2>3, <3>1, <4>1 DEF next
    <3>2. CASE i # m + 1
      <4>1. i \in 1..m /\ i \in 0..m /\ i - 1 \in 0..m
        BY <3>2
      <4>. QED BY <2>1, <2>3, <4>1
    <3>. QED BY <3>1, <3>2
  <2>5. Upto(m + 1, h)
    BY <2>1, <2>2, <2>4
  <2>. HIDE DEF Upto
  <2>. QED BY <2>5
<1>3. len \in T
  <2>. HIDE DEF T
  <2>. QED BY <1>1, <1>2, SetInduction
<1>4. PICK g : Upto(len, g)
  BY <1>3
<1>5. R(g)
  <2>1. \A i \in 0..len : i = 0 \/ i \in 1..len
    OBVIOUS
  <2>2. \A i \in 0..len : g[i] = IF i = 0 THEN n ELSE Obey(g[i - 1], log[i], cfg, rnd)
    BY <1>4, <2>1
  <2>. QED BY <1>4, <2>2
<1> DEFINE node == CHOOSE g_ : R(g_)
<1>6. R(node)
  BY <1>5
<1>7. Replay(n, log, cfg, rnd) = node[Len(log)]
  BY DEF Replay
<1>. HIDE DEF node
<1>8. Replays(n, log, cfg, rnd, node)
  <2>1. \A i \in 1..len : i \in 0..len /\ i # 0
    OBVIOUS
  <2>2. 0 \in 0..len
    OBVIOUS
  <2>. QED BY <1>6, <2>1, <2>2 DEF Replays
<1>. QED BY <1>7, <1>8

\* Any such sequence ends there.
LEMMA ReplayEnds ==
  ASSUME NEW n, NEW log, Len(log) \in Nat, NEW cfg, NEW rnd, NEW g,
         Replays(n, log, cfg, rnd, g)
  PROVE  Replay(n, log, cfg, rnd) = g[Len(log)]
<1>1. PICK h : Replays(n, log, cfg, rnd, h) /\ Replay(n, log, cfg, rnd) = h[Len(log)]
  BY ReplaySteps
<1> DEFINE T == {i \in Nat : i <= Len(log) => h[i] = g[i]}
<1>2. 0 \in T
  BY <1>1 DEF Replays
<1>3. ASSUME NEW i \in Nat, i \in T PROVE i + 1 \in T
  <2>1. SUFFICES ASSUME i + 1 <= Len(log) PROVE h[i + 1] = g[i + 1]
    OBVIOUS
  <2>2. i + 1 \in 1..Len(log) /\ (i + 1) - 1 = i /\ i <= Len(log)
    BY <2>1
  <2>3. h[i] = g[i]
    BY <1>3, <2>2
  <2>4. /\ h[i + 1] = Obey(h[(i + 1) - 1], log[i + 1], cfg, rnd)
        /\ g[i + 1] = Obey(g[(i + 1) - 1], log[i + 1], cfg, rnd)
    BY <1>1, <2>2 DEF Replays
  <2>. QED BY <2>2, <2>3, <2>4
<1>4. Len(log) \in T
  <2>. HIDE DEF T
  <2>. QED BY <1>2, <1>3, SetInduction
<1>. QED BY <1>1, <1>4

\* Nothing to replay, and one more command to replay.
LEMMA ReplayNothing ==
  ASSUME NEW n, NEW cfg, NEW rnd
  PROVE  Replay(n, <<>>, cfg, rnd) = n
<1> DEFINE g == [i \in 0..0 |-> n]
<1>1. Len(<<>>) = 0 /\ 0 \in Nat
  OBVIOUS
<1>2. g[0] = n /\ g = [i \in 0..0 |-> g[i]] /\ 1..0 = {}
  OBVIOUS
<1>. HIDE DEF g
<1>3. Replays(n, <<>>, cfg, rnd, g)
  BY <1>1, <1>2 DEF Replays
<1>. QED BY <1>1, <1>2, <1>3, ReplayEnds

LEMMA ReplayGrows ==
  ASSUME NEW n, NEW S, NEW log \in Seq(S), NEW c, NEW cfg, NEW rnd
  PROVE  Replay(n, Append(log, c), cfg, rnd) = Obey(Replay(n, log, cfg, rnd), c, cfg, rnd)
<1> DEFINE len == Len(log)
           t == Append(log, c)
<1>1. /\ len \in Nat /\ Len(t) = len + 1 /\ t[len + 1] = c
      /\ \A i \in 1..len : t[i] = log[i]
  OBVIOUS
<1>. HIDE DEF t
<1>2. PICK g : Replays(n, log, cfg, rnd, g) /\ Replay(n, log, cfg, rnd) = g[len]
  BY <1>1, ReplaySteps
<1> DEFINE last == Obey(g[len], c, cfg, rnd)
           h == [i \in 0..(len + 1) |-> IF i = len + 1 THEN last ELSE g[i]]
<1>. HIDE DEF last, len
<1>3. /\ h = [i \in 0..(len + 1) |-> h[i]] /\ h[0] = g[0] /\ h[len + 1] = last
      /\ \A i \in 0..len : h[i] = g[i]
  BY <1>1
<1>. HIDE DEF h
<1>4. ASSUME NEW i \in 1..(len + 1) PROVE h[i] = Obey(h[i - 1], t[i], cfg, rnd)
  <2>1. CASE i = len + 1
    <3>1. i - 1 = len /\ len \in 0..len
      BY <1>1, <2>1
    <3>. QED BY <1>1, <1>3, <2>1, <3>1 DEF last
  <2>2. CASE i # len + 1
    <3>1. i \in 1..len /\ i \in 0..len /\ i - 1 \in 0..len
      BY <1>1, <2>2
    <3>2. g[i] = Obey(g[i - 1], log[i], cfg, rnd)
      BY <1>2, <3>1 DEF Replays, len
    <3>. QED BY <1>1, <1>3, <3>1, <3>2
  <2>. QED BY <2>1, <2>2
<1>5. Replays(n, t, cfg, rnd, h)
  <2>1. h[0] = n
    BY <1>2, <1>3 DEF Replays
  <2>. QED BY <1>1, <1>3, <1>4, <2>1 DEF Replays
<1>6. Len(t) \in Nat
  BY <1>1
<1>7. Replay(n, t, cfg, rnd) = h[len + 1]
  BY <1>1, <1>5, <1>6, ReplayEnds
<1>. QED BY <1>2, <1>3, <1>7 DEF last, t

=============================================================================
