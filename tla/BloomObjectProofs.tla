-------------------------- MODULE BloomObjectProofs --------------------------
(***************************************************************************)
(* Lemmas about the operators of BloomObject and BloomScaling: what adding *)
(* an item does to a well formed object and to the counters.               *)
(* BloomCommandsProofs builds the lemmas about the handlers on them.       *)
(***************************************************************************)
EXTENDS BloomScaling, SequenceTheorems, WellFoundedInduction, TLAPS

(***************************************************************************)
(* Induction on the natural numbers, for a set instead of a predicate: a   *)
(* lemma that takes an operator cannot be instantiated by the provers.     *)
(***************************************************************************)

\* Every non-empty set of natural numbers has a least element.
LEMMA LeastNat ==
  ASSUME NEW T \in SUBSET Nat, T # {}
  PROVE  \E x \in T : \A y \in T : x <= y
<1>1. PICK x \in T : \A y \in T : ~ (<<y, x>> \in OpToRel(<, Nat))
  BY WFMin, NatLessThanWellFounded
<1>2. \A y \in T : ~ (y < x)
  BY <1>1 DEF OpToRel
<1>3. \A y \in T : x \in Nat /\ y \in Nat
  OBVIOUS
<1>. QED BY <1>2, <1>3

\* A set that holds 0 and the successor of each of its members holds them all.
LEMMA SetInduction ==
  ASSUME NEW T, 0 \in T, \A n \in Nat : n \in T => n + 1 \in T
  PROVE  Nat \subseteq T
<1>. SUFFICES ASSUME Nat \ T # {} PROVE FALSE
  OBVIOUS
<1>1. PICK x \in Nat \ T : \A y \in Nat \ T : x <= y
  BY LeastNat
<1>2. x # 0 /\ x - 1 \in Nat /\ x - 1 \in T
  BY <1>1
<1>. QED BY <1>1, <1>2

\* F holds a step as a function of the turn, then of the state before it.
Iterates(n, S, s0, F) ==
  \E g \in [0..n -> S] : g[0] = s0 /\ \A i \in 1..n : g[i] = F[i][g[i - 1]]

\* A recursive function that applies a step n times exists.
LEMMA IterationExists ==
  ASSUME NEW n \in Nat, NEW S, NEW s0 \in S, NEW F \in [1..n -> [S -> S]]
  PROVE  Iterates(n, S, s0, F)
<1> DEFINE Good(m) ==
             \E g \in [0..m -> S] : g[0] = s0 /\ \A i \in 1..m : g[i] = F[i][g[i - 1]]
           T == {m \in Nat : m <= n => Good(m)}
<1>1. 0 \in T
  <2> DEFINE h == [i \in 0..0 |-> s0]
  <2>1. h \in [0..0 -> S] /\ h[0] = s0 /\ \A i \in 1..0 : FALSE
    OBVIOUS
  <2>2. Good(0)
    <3>. HIDE DEF h
    <3>. QED BY <2>1
  <2>. HIDE DEF Good
  <2>. QED BY <2>2
<1>2. ASSUME NEW m \in Nat, m \in T PROVE m + 1 \in T
  <2>1. SUFFICES ASSUME m + 1 <= n PROVE Good(m + 1)
    <3>. HIDE DEF Good
    <3>. QED OBVIOUS
  <2>2. Good(m) /\ m + 1 \in Nat /\ m + 1 \in 1..n
    <3>. HIDE DEF Good
    <3>. QED BY <1>2, <2>1
  <2>3. PICK g \in [0..m -> S] : g[0] = s0 /\ \A i \in 1..m : g[i] = F[i][g[i - 1]]
    BY <2>2
  <2>. HIDE DEF T
  <2> DEFINE h == [i \in 0..(m + 1) |-> IF i = m + 1 THEN F[m + 1][g[m]] ELSE g[i]]
  <2>4. g[m] \in S /\ F[m + 1] \in [S -> S] /\ F[m + 1][g[m]] \in S
    <3>. HIDE DEF Good
    <3>. QED BY <2>2
  <2>5. h \in [0..(m + 1) -> S]
    <3>1. \A i \in 0..(m + 1) : i # m + 1 => i \in 0..m /\ g[i] \in S
      OBVIOUS
    <3>. QED BY <2>4, <3>1
  <2>6. h[0] = s0
    BY <2>3
  <2>7. ASSUME NEW i \in 1..(m + 1) PROVE h[i] = F[i][h[i - 1]]
    <3>1. i - 1 \in 0..(m + 1) /\ i - 1 # m + 1 /\ i \in 0..(m + 1)
      OBVIOUS
    <3>2. h[i - 1] = g[i - 1]
      BY <3>1
    <3>3. CASE i = m + 1
      <4>1. h[i] = F[i][g[m]] /\ i - 1 = m
        BY <3>3
      <4>. QED BY <4>1, <3>2
    <3>4. CASE i # m + 1
      <4>1. i \in 1..m /\ h[i] = g[i]
        BY <3>4
      <4>2. g[i] = F[i][g[i - 1]]
        BY <4>1, <2>3
      <4>. QED BY <4>1, <4>2, <3>2
    <3>. QED BY <3>3, <3>4
  <2>. HIDE DEF h
  <2>. QED BY <2>5, <2>6, <2>7
<1>. HIDE DEF T
<1>3. Nat \subseteq T
  BY <1>1, <1>2, SetInduction
<1>4. n \in T /\ n <= n
  BY <1>3
<1>. HIDE DEF Good
<1>5. Good(n)
  BY <1>4 DEF T
<1>. QED BY <1>5 DEF Good, Iterates

(**************************** the counters *********************************)

\* The remainder of a division by a positive number is below it.
LEMMA ModRange ==
  ASSUME NEW a \in Int, NEW b \in Nat \ {0}
  PROVE  a % b \in 0..(b - 1)
OBVIOUS

\* A bit vector takes at least a byte, and sizes are natural numbers.
LEMMA SizesAreNatural ==
  ASSUME NEW cap \in Nat \ {0}, NEW fp \in Nat \ {0}
  PROVE  /\ BitmapBytes(cap, fp) \in Nat \ {0}
         /\ FilterSize(cap, fp) \in Nat
<1>1. FilterBytes \in Nat
  BY SizeAssumption
<1>2. cap * fp \in Nat \ {0} /\ 18 * cap * fp = 18 * (cap * fp)
  OBVIOUS
<1>3. ASSUME NEW n \in Nat \ {0} PROVE (18 * n + 99) \div 100 \in Nat \ {0}
  OBVIOUS
<1>4. BitmapBytes(cap, fp) \in Nat \ {0}
  BY <1>2, <1>3 DEF BitmapBytes
<1>. QED BY <1>1, <1>4 DEF FilterSize

\* So is the size of an object without its filters.
LEMMA ObjectSizeIsNatural ==
  ASSUME NEW vcap \in Nat
  PROVE  ObjectSize(vcap) \in Nat
<1>1. ObjectBytes \in Nat /\ BoxBytes \in Nat
  BY SizeAssumption
<1>2. vcap * BoxBytes \in Nat
  BY <1>1
<1>. QED BY <1>1, <1>2 DEF ObjectSize

\* The names of the counters, and what can be added to them.
Names == {"objects", "filters", "items", "capacity", "bytes"}
Weights == [Names -> Int]

\* The counters are functions of their five names.
LEMMA CountersDomain ==
  DOMAIN NoMetrics = Names /\ NoMetrics \in Weights /\ Counters = [Names -> 0..(Word - 1)]
<1>1. DOMAIN NoMetrics = Names
  BY DEF NoMetrics, Names
<1>2. \A c \in Names : NoMetrics[c] \in Int
  BY DEF NoMetrics, Names
<1>. QED BY <1>1, <1>2 DEF NoMetrics, Counters, Weights

\* Wrapping addition and subtraction keep the counters in their type.
LEMMA GainAndLose ==
  ASSUME NEW m \in Counters, NEW w \in Weights
  PROVE  Gain(m, w) \in Counters /\ Lose(m, w) \in Counters
<1>1. Word \in Nat \ {0}
  BY SizeAssumption
<1>2. \A c \in Names : m[c] \in Int /\ w[c] \in Int
  BY <1>1, CountersDomain DEF Weights
<1>3. ASSUME NEW c \in Names
      PROVE  (m[c] + w[c]) % Word \in 0..(Word - 1) /\ (m[c] - w[c]) % Word \in 0..(Word - 1)
  <2>1. m[c] + w[c] \in Int /\ m[c] - w[c] \in Int
    BY <1>2
  <2>. QED BY <1>1, <2>1, ModRange
<1>4. DOMAIN m = Names
  BY CountersDomain
<1>. QED BY <1>3, <1>4, CountersDomain DEF Gain, Lose

\* What a filter and an object weigh can be added to the counters.
LEMMA WeightsAreTyped ==
  ASSUME NEW f \in Filter, NEW o \in Object
  PROVE  FilterWeight(f) \in Weights /\ ObjectWeight(o) \in Weights
<1>1. f.num \in Int /\ f.cap \in Nat \ {0} /\ f.fp \in Nat \ {0} /\ o.vcap \in Nat
  BY SizeAssumption DEF Filter, Object
<1>2. FilterSize(f.cap, f.fp) \in Int /\ ObjectSize(o.vcap) \in Int
  BY <1>1, SizesAreNatural, ObjectSizeIsNatural
<1>3. FilterWeight(f) \in Weights
  <2>1. \A c \in Names : FilterWeight(f)[c] \in Int
    BY <1>1, <1>2 DEF FilterWeight, Names
  <2>2. DOMAIN FilterWeight(f) = Names
    BY DEF FilterWeight, Names
  <2>. QED BY <2>1, <2>2 DEF FilterWeight, Weights
<1>4. ObjectWeight(o) \in Weights
  <2>1. \A c \in Names : ObjectWeight(o)[c] \in Int
    BY <1>2 DEF ObjectWeight, Names
  <2>2. DOMAIN ObjectWeight(o) = Names
    BY DEF ObjectWeight, Names
  <2>. QED BY <2>1, <2>2 DEF ObjectWeight, Weights
<1>. QED BY <1>3, <1>4

\* Counting the filters of an object is a sequence of additions, one for each.
LEMMA GainFiltersSteps ==
  ASSUME NEW m \in Counters, NEW o \in Object
  PROVE  \E sum \in [0..Len(o.filters) -> Counters] :
           /\ sum[0] = m
           /\ \A i \in 1..Len(o.filters) :
                sum[i] = Gain(sum[i - 1], FilterWeight(o.filters[i]))
           /\ GainFilters(m, o) = sum[Len(o.filters)]
<1> DEFINE n == Len(o.filters)
           step == [i \in 1..n |-> [s \in Counters |-> Gain(s, FilterWeight(o.filters[i]))]]
           R(g) == g = [i \in 0..n |-> IF i = 0 THEN m
                                       ELSE Gain(g[i - 1], FilterWeight(o.filters[i]))]
<1>1. n \in Nat /\ \A i \in 1..n : o.filters[i] \in Filter
  BY DEF Object
<1>2. step \in [1..n -> [Counters -> Counters]]
  BY <1>1, GainAndLose, WeightsAreTyped
<1>. HIDE DEF n
<1>3. PICK g \in [0..n -> Counters] : g[0] = m /\ \A i \in 1..n : g[i] = step[i][g[i - 1]]
  <2>. HIDE DEF step, R
  <2>1. Iterates(n, Counters, m, step)
    BY <1>1, <1>2, IterationExists
  <2>. QED BY <2>1 DEF Iterates
<1>4. R(g)
  <2>1. \A i \in 1..n : g[i - 1] \in Counters
    BY <1>1
  <2>2. \A i \in 1..n : g[i] = Gain(g[i - 1], FilterWeight(o.filters[i]))
    BY <1>3, <2>1
  <2>3. g = [i \in 0..n |-> g[i]]
    OBVIOUS
  <2>4. \A i \in 0..n : g[i] = IF i = 0 THEN m ELSE Gain(g[i - 1], FilterWeight(o.filters[i]))
    BY <1>1, <1>3, <2>2
  <2>. QED BY <2>3, <2>4
<1> DEFINE sum == CHOOSE r : R(r)
<1>5. R(sum)
  BY <1>4
<1>6. GainFilters(m, o) = sum[n]
  BY DEF GainFilters, n
<1>. HIDE DEF sum
<1>7. sum[0] = m /\ \A i \in 1..n : sum[i] = Gain(sum[i - 1], FilterWeight(o.filters[i]))
  BY <1>1, <1>5
<1> DEFINE T == {i \in Nat : i <= n => sum[i] \in Counters}
<1>8. 0 \in T
  BY <1>7
<1>9. ASSUME NEW i \in Nat, i \in T PROVE i + 1 \in T
  <2>1. SUFFICES ASSUME i + 1 <= n PROVE sum[i + 1] \in Counters
    OBVIOUS
  <2>2. i + 1 \in 1..n /\ (i + 1) - 1 = i /\ sum[i] \in Counters
    BY <1>1, <1>9, <2>1
  <2>. QED BY <1>1, <1>7, <2>2, GainAndLose, WeightsAreTyped
<1>. HIDE DEF T
<1>10. Nat \subseteq T
  BY <1>8, <1>9, SetInduction
<1>11. \A i \in 0..n : sum[i] \in Counters
  BY <1>1, <1>10 DEF T
<1>12. sum = [i \in 0..n |-> sum[i]]
  BY <1>5
<1>13. sum \in [0..n -> Counters]
  BY <1>11, <1>12
<1>. QED BY <1>6, <1>7, <1>13 DEF n

\* Counting an object's filters keeps the counters in their type.
LEMMA GainFiltersTyped ==
  ASSUME NEW m \in Counters, NEW o \in Object
  PROVE  GainFilters(m, o) \in Counters
<1>1. Len(o.filters) \in Nat
  BY DEF Object
<1>. QED BY <1>1, GainFiltersSteps

\* Dropping them is a sequence of subtractions.
LEMMA LoseFiltersSteps ==
  ASSUME NEW m \in Counters, NEW o \in Object
  PROVE  \E sum \in [0..Len(o.filters) -> Counters] :
           /\ sum[0] = m
           /\ \A i \in 1..Len(o.filters) :
                sum[i] = Lose(sum[i - 1], FilterWeight(o.filters[i]))
           /\ LoseFilters(m, o) = sum[Len(o.filters)]
<1> DEFINE n == Len(o.filters)
           step == [i \in 1..n |-> [s \in Counters |-> Lose(s, FilterWeight(o.filters[i]))]]
           R(g) == g = [i \in 0..n |-> IF i = 0 THEN m
                                       ELSE Lose(g[i - 1], FilterWeight(o.filters[i]))]
<1>1. n \in Nat /\ \A i \in 1..n : o.filters[i] \in Filter
  BY DEF Object
<1>2. step \in [1..n -> [Counters -> Counters]]
  BY <1>1, GainAndLose, WeightsAreTyped
<1>. HIDE DEF n
<1>3. PICK g \in [0..n -> Counters] : g[0] = m /\ \A i \in 1..n : g[i] = step[i][g[i - 1]]
  <2>. HIDE DEF step, R
  <2>1. Iterates(n, Counters, m, step)
    BY <1>1, <1>2, IterationExists
  <2>. QED BY <2>1 DEF Iterates
<1>4. R(g)
  <2>1. \A i \in 1..n : g[i - 1] \in Counters
    BY <1>1
  <2>2. \A i \in 1..n : g[i] = Lose(g[i - 1], FilterWeight(o.filters[i]))
    BY <1>3, <2>1
  <2>3. g = [i \in 0..n |-> g[i]]
    OBVIOUS
  <2>4. \A i \in 0..n : g[i] = IF i = 0 THEN m ELSE Lose(g[i - 1], FilterWeight(o.filters[i]))
    BY <1>1, <1>3, <2>2
  <2>. QED BY <2>3, <2>4
<1> DEFINE sum == CHOOSE r : R(r)
<1>5. R(sum)
  BY <1>4
<1>6. LoseFilters(m, o) = sum[n]
  BY DEF LoseFilters, n
<1>. HIDE DEF sum
<1>7. sum[0] = m /\ \A i \in 1..n : sum[i] = Lose(sum[i - 1], FilterWeight(o.filters[i]))
  BY <1>1, <1>5
<1> DEFINE T == {i \in Nat : i <= n => sum[i] \in Counters}
<1>8. 0 \in T
  BY <1>7
<1>9. ASSUME NEW i \in Nat, i \in T PROVE i + 1 \in T
  <2>1. SUFFICES ASSUME i + 1 <= n PROVE sum[i + 1] \in Counters
    OBVIOUS
  <2>2. i + 1 \in 1..n /\ (i + 1) - 1 = i /\ sum[i] \in Counters
    BY <1>1, <1>9, <2>1
  <2>. QED BY <1>1, <1>7, <2>2, GainAndLose, WeightsAreTyped
<1>. HIDE DEF T
<1>10. Nat \subseteq T
  BY <1>8, <1>9, SetInduction
<1>11. \A i \in 0..n : sum[i] \in Counters
  BY <1>1, <1>10 DEF T
<1>12. sum = [i \in 0..n |-> sum[i]]
  BY <1>5
<1>13. sum \in [0..n -> Counters]
  BY <1>11, <1>12
<1>. QED BY <1>6, <1>7, <1>13 DEF n

\* So does dropping them.
LEMMA LoseFiltersTyped ==
  ASSUME NEW m \in Counters, NEW o \in Object
  PROVE  LoseFilters(m, o) \in Counters
<1>1. Len(o.filters) \in Nat
  BY DEF Object
<1>. QED BY <1>1, LoseFiltersSteps

\* Synonym of the range lemma, for natural numbers.
LEMMA ModNatural ==
  ASSUME NEW a \in Nat, NEW b \in Nat \ {0}
  PROVE  a % b \in Nat
OBVIOUS

(******************************* filters ***********************************)

\* The larger of two numbers.
LEMMA MaxOfTwo ==
  ASSUME NEW a \in Nat, NEW b \in Nat
  PROVE  Max({a, b}) \in Nat /\ Max({a, b}) >= a /\ Max({a, b}) >= b
<1>1. \E x \in {a, b} : \A y \in {a, b} : x >= y
  OBVIOUS
<1>. QED BY <1>1 DEF Max

\* The fields of a filter.
LEMMA FilterFields ==
  ASSUME NEW f \in Filter
  PROVE  /\ f.seed \in Seeds /\ f.fp \in Nat \ {0} /\ f.cap \in Nat \ {0}
         /\ f.num \in Nat /\ f.bits \in SUBSET Nat /\ f.cap <= CapacityMax
BY SizeAssumption DEF Filter

\* A well formed object has a last filter.
LEMMA LastFilter ==
  ASSUME NEW o \in Object, WellFormed(o)
  PROVE  /\ Len(o.filters) \in Nat \ {0}
         /\ \A i \in 1..Len(o.filters) : o.filters[i] \in Filter
         /\ Last(o.filters) = o.filters[Len(o.filters)]
         /\ Last(o.filters) \in Filter
         /\ DOMAIN o.filters = 1..Len(o.filters)
         /\ SeedOf(o) \in Seeds
<1>1. o.filters \in Seq(Filter)
  BY DEF Object
<1>2. Len(o.filters) \in Nat \ {0}
  BY <1>1 DEF WellFormed
<1>3. \A i \in 1..Len(o.filters) : o.filters[i] \in Filter
  BY <1>1
<1>4. 1 \in 1..Len(o.filters) /\ Len(o.filters) \in 1..Len(o.filters)
  BY <1>2
<1>5. DOMAIN o.filters = 1..Len(o.filters)
  BY <1>1
<1>6. Last(o.filters) = o.filters[Len(o.filters)]
  BY DEF Last
<1>7. SeedOf(o) \in Seeds
  BY <1>3, <1>4, FilterFields DEF SeedOf
<1>. QED BY <1>2, <1>3, <1>4, <1>5, <1>6, <1>7

\* A filter that an item was added to.
LEMMA SetFilter ==
  ASSUME NEW f \in Filter, NEW x \in Item
  PROVE  /\ Set(f, x) \in Filter
         /\ Set(f, x).num = f.num + 1
         /\ Set(f, x).seed = f.seed /\ Set(f, x).fp = f.fp /\ Set(f, x).cap = f.cap
         /\ Set(f, x).bits = f.bits \union BitsOf(f, x)
<1>1. BitsOf(f, x) \subseteq Nat
  <2>1. f.seed \in Seeds /\ f.cap \in Nat \ {0} /\ f.fp \in Nat \ {0}
    BY FilterFields
  <2>2. Hash[f.seed, x] \in SUBSET Nat
    BY <2>1, HashAssumption
  <2>3. 8 * BitmapBytes(f.cap, f.fp) \in Nat \ {0}
    <3>1. BitmapBytes(f.cap, f.fp) \in Nat \ {0}
      BY <2>1, SizesAreNatural
    <3>2. ASSUME NEW b \in Nat \ {0} PROVE 8 * b \in Nat \ {0}
      OBVIOUS
    <3>. QED BY <3>1, <3>2
  <2> DEFINE b == 8 * BitmapBytes(f.cap, f.fp)
  <2>. HIDE DEF b
  <2>4. ASSUME NEW h \in Hash[f.seed, x] PROVE h % b \in Nat
    <3>1. h \in Nat /\ b \in Nat \ {0}
      BY <2>2, <2>3 DEF b
    <3>. QED BY <3>1, ModNatural
  <2>. QED BY <2>4 DEF BitsOf, b
<1>2. f.num + 1 \in Nat /\ f.bits \union BitsOf(f, x) \in SUBSET Nat
  BY <1>1, FilterFields
<1>3. Set(f, x) = [f EXCEPT !.bits = f.bits \union BitsOf(f, x), !.num = f.num + 1]
  BY DEF Set
<1>. QED BY <1>2, <1>3 DEF Filter

\* A filter that was just made.
LEMMA NewFilterTyped ==
  ASSUME NEW fp \in Nat \ {0}, NEW cap \in 1..CapacityMax, NEW seed \in Seeds
  PROVE  NewFilter(fp, cap, seed) \in Filter
BY DEF NewFilter, Filter

\* An add that finds room in the last filter.
LEMMA AddToLastPreserves ==
  ASSUME NEW o \in Object, WellFormed(o), NEW x \in Item, ~ Full(Last(o.filters))
  PROVE  AddToLast(o, x) \in Object /\ WellFormed(AddToLast(o, x))
<1> DEFINE n == Len(o.filters)
           fs == [o.filters EXCEPT ![n] = Set(o.filters[n], x)]
<1>1. /\ n \in Nat \ {0} /\ o.filters \in Seq(Filter) /\ o.filters[n] \in Filter
      /\ \A i \in 1..n : o.filters[i] \in Filter
      /\ o.filters[n].num < o.filters[n].cap
  <2>1. Last(o.filters).num \in Nat /\ Last(o.filters).cap \in Nat
    BY LastFilter, SizeAssumption DEF Filter
  <2>. QED BY <2>1, LastFilter DEF Object, Full
<1>2. AddToLast(o, x) = [o EXCEPT !.filters = fs]
  BY DEF AddToLast
<1>3. fs \in Seq(Filter) /\ Len(fs) = n
  BY <1>1, SetFilter, ExceptSeq
<1>4. \A i \in 1..n : /\ fs[i].seed = o.filters[i].seed
                      /\ fs[i].fp = o.filters[i].fp
                      /\ fs[i].cap = o.filters[i].cap
                      /\ fs[i].num = IF i = n THEN o.filters[i].num + 1 ELSE o.filters[i].num
  BY <1>1, SetFilter
<1>. HIDE DEF fs
<1>5. AddToLast(o, x) \in Object
  BY <1>2, <1>3 DEF Object
<1>6. /\ AddToLast(o, x).filters = fs /\ AddToLast(o, x).fp = o.fp
      /\ AddToLast(o, x).tr = o.tr /\ AddToLast(o, x).vcap = o.vcap
      /\ AddToLast(o, x).expansion = o.expansion
      /\ AddToLast(o, x).seedRandom = o.seedRandom
  BY <1>2 DEF Object
<1>7. WellFormed(AddToLast(o, x))
  <2>1. ASSUME NEW i \in 1..n
        PROVE  /\ fs[i].seed = fs[1].seed
               /\ fs[i].fp = o.fp + (i - 1) * o.tr
               /\ fs[i].num <= fs[i].cap
               /\ i < n => /\ fs[i].num = fs[i].cap
                           /\ fs[i + 1].cap = fs[i].cap * o.expansion
    <3>1. 1 \in 1..n /\ (i < n => i + 1 \in 1..n) /\ i \in 1..n
      BY <1>1
    <3>2. o.filters[i].num \in Nat /\ o.filters[i].cap \in Nat
      BY <1>1, FilterFields
    <3>. QED BY <1>1, <1>4, <3>1, <3>2 DEF WellFormed
  <2>. QED BY <1>1, <1>3, <1>4, <1>6, <2>1 DEF WellFormed
<1>. QED BY <1>5, <1>7

\* The filter that a scale-out adds, and the Vec that it is pushed to.
LEMMA NextFilter ==
  ASSUME NEW o \in Object, WellFormed(o), o.expansion # 0, NextCapacity(o) <= CapacityMax
  PROVE  /\ NextFp(o) = o.fp + Len(o.filters) * o.tr /\ NextFp(o) \in Nat \ {0}
         /\ NextCapacity(o) = o.filters[Len(o.filters)].cap * o.expansion
         /\ NextCapacity(o) \in 1..CapacityMax
         /\ PushedVec(o) \in Nat \ {0} /\ Len(o.filters) + 1 <= PushedVec(o)
<1> DEFINE n == Len(o.filters)
<1>1. /\ n \in Nat \ {0} /\ \A i \in 1..n : o.filters[i] \in Filter
      /\ Last(o.filters) = o.filters[n]
  BY LastFilter DEF Object
<1>2. /\ o.expansion \in Nat \ {0} /\ o.tr \in Nat \ {0} /\ o.fp \in Nat \ {0}
      /\ o.vcap \in Nat \ {0} /\ n <= o.vcap
  BY DEF Object, WellFormed
<1>3. NextFp(o) = o.fp + n * o.tr /\ NextFp(o) \in Nat \ {0}
  <2>1. n * o.tr \in Nat
    BY <1>1, <1>2
  <2>. QED BY <1>2, <2>1 DEF NextFp, FpRate
<1>4. NextCapacity(o) = o.filters[n].cap * o.expansion /\ NextCapacity(o) \in 1..CapacityMax
  <2>1. o.filters[n].cap \in Nat \ {0} /\ CapacityMax \in Nat
    BY <1>1, FilterFields, SizeAssumption
  <2>2. o.filters[n].cap * o.expansion \in Nat \ {0}
    <3>1. \A c, e \in Nat \ {0} : c * e \in Nat \ {0}
      OBVIOUS
    <3>. QED BY <1>2, <2>1, <3>1, Zenon
  <2>3. NextCapacity(o) = o.filters[n].cap * o.expansion
    BY <1>1 DEF NextCapacity
  <2>. QED BY <2>1, <2>2, <2>3
<1>5. PushedVec(o) \in Nat \ {0} /\ n + 1 <= PushedVec(o)
  <2>1. CASE n < o.vcap
    BY <1>1, <1>2, <2>1 DEF PushedVec
  <2>2. CASE ~ (n < o.vcap)
    <3>1. 2 * o.vcap \in Nat /\ 2 * o.vcap >= n + 1
      BY <1>1, <1>2
    <3>2. Max({2 * o.vcap, 4}) \in Nat /\ Max({2 * o.vcap, 4}) >= 2 * o.vcap
      BY <3>1, MaxOfTwo
    <3>3. PushedVec(o) = Max({2 * o.vcap, 4})
      BY <2>2 DEF PushedVec
    <3>. QED BY <1>1, <3>1, <3>2, <3>3
  <2>. QED BY <2>1, <2>2
<1>. QED BY <1>3, <1>4, <1>5

\* Scaling out: the new filter continues the progression of the others.
LEMMA ScaledOutPreserves ==
  ASSUME NEW o \in Object, WellFormed(o), NEW x \in Item, Full(Last(o.filters)),
         o.expansion # 0, NextCapacity(o) <= CapacityMax
  PROVE  ScaledOut(o, x) \in Object /\ WellFormed(ScaledOut(o, x))
<1> DEFINE n == Len(o.filters)
           new == NewFilter(NextFp(o), NextCapacity(o), SeedOf(o))
           fs == Append(o.filters, Set(new, x))
           a == ScaledOut(o, x)
<1>1. /\ n \in Nat \ {0} /\ o.filters \in Seq(Filter)
      /\ \A i \in 1..n : o.filters[i] \in Filter
      /\ Last(o.filters) = o.filters[n] /\ SeedOf(o) \in Seeds
  BY LastFilter DEF Object
<1>2. /\ o.expansion \in Nat \ {0} /\ o.tr \in Nat \ {0} /\ o.fp \in Nat \ {0}
      /\ o.vcap \in Nat \ {0} /\ n <= o.vcap
  BY DEF Object, WellFormed
<1>3. NextFp(o) = o.fp + n * o.tr /\ NextFp(o) \in Nat \ {0}
  BY NextFilter
<1>4. NextCapacity(o) = o.filters[n].cap * o.expansion /\ NextCapacity(o) \in 1..CapacityMax
  BY NextFilter
<1>5. /\ Set(new, x) \in Filter /\ Set(new, x).num = 1
      /\ Set(new, x).seed = SeedOf(o) /\ Set(new, x).fp = NextFp(o)
      /\ Set(new, x).cap = NextCapacity(o)
  <2>1. new \in Filter
    BY <1>1, <1>3, <1>4, NewFilterTyped
  <2>2. new.num = 0 /\ new.seed = SeedOf(o) /\ new.fp = NextFp(o) /\ new.cap = NextCapacity(o)
    BY DEF NewFilter
  <2>. HIDE DEF new
  <2>. QED BY <2>1, <2>2, SetFilter
<1>6. PushedVec(o) \in Nat \ {0} /\ n + 1 <= PushedVec(o)
  BY NextFilter
<1>. HIDE DEF new
<1>7. a = [o EXCEPT !.filters = fs, !.vcap = PushedVec(o)]
  BY DEF ScaledOut, new
<1>8. /\ fs \in Seq(Filter) /\ Len(fs) = n + 1 /\ fs[n + 1] = Set(new, x)
      /\ \A i \in 1..n : fs[i] = o.filters[i]
  BY <1>1, <1>5, AppendProperties
<1>. HIDE DEF fs, a
<1>9. /\ a \in Object /\ a.filters = fs /\ a.fp = o.fp /\ a.tr = o.tr
      /\ a.vcap = PushedVec(o) /\ a.expansion = o.expansion
      /\ a.seedRandom = o.seedRandom
  BY <1>6, <1>7, <1>8 DEF Object
<1>10. ASSUME NEW i \in 1..(n + 1)
       PROVE  /\ fs[i].seed = fs[1].seed
              /\ fs[i].fp = o.fp + (i - 1) * o.tr
              /\ fs[i].num <= fs[i].cap
              /\ i < n + 1 => /\ fs[i].num = fs[i].cap
                              /\ fs[i + 1].cap = fs[i].cap * o.expansion
  <2>1. fs[1] = o.filters[1] /\ SeedOf(o) = fs[1].seed
    BY <1>1, <1>8 DEF SeedOf
  <2>2. CASE i = n + 1
    <3>1. fs[i] = Set(new, x) /\ i - 1 = n
      BY <1>1, <1>8, <2>2
    <3>. QED BY <1>1, <1>3, <1>4, <1>5, <2>1, <2>2, <3>1
  <2>3. CASE i = n
    <3>1. fs[i] = o.filters[i] /\ fs[i + 1] = Set(new, x)
      BY <1>1, <1>8, <2>3
    <3>2. o.filters[n].num = o.filters[n].cap
      <4>1. o.filters[n].num \in Nat /\ o.filters[n].cap \in Nat
        BY <1>1, FilterFields
      <4>2. o.filters[n].num <= o.filters[n].cap
        BY <1>1 DEF WellFormed
      <4>. QED BY <1>1, <4>1, <4>2 DEF Full
    <3>3. o.filters[i].seed = o.filters[1].seed /\ o.filters[i].fp = o.fp + (i - 1) * o.tr
      BY <1>1, <2>3 DEF WellFormed
    <3>4. o.filters[i].num <= o.filters[i].cap
      BY <1>1, <2>3 DEF WellFormed
    <3>. QED BY <1>4, <1>5, <2>1, <2>3, <3>1, <3>2, <3>3, <3>4
  <2>4. CASE i < n
    <3>1. i \in 1..n /\ i + 1 \in 1..n
      BY <1>1, <2>4
    <3>2. fs[i] = o.filters[i] /\ fs[i + 1] = o.filters[i + 1]
      BY <1>8, <3>1
    <3>. QED BY <2>1, <2>4, <3>1, <3>2 DEF WellFormed
  <2>. QED BY <1>1, <2>2, <2>3, <2>4
<1>11. WellFormed(a)
  <2>1. a.seedRandom <=> fs[1].seed # FixedSeed
    BY <1>1, <1>8, <1>9 DEF WellFormed
  <2>2. Len(a.filters) = n + 1 /\ n + 1 > 0 /\ n + 1 <= a.vcap
    BY <1>1, <1>6, <1>8, <1>9
  <2>. QED BY <1>2, <1>9, <1>10, <2>1, <2>2 DEF WellFormed
<1>. QED BY <1>9, <1>11 DEF a

\* When an add to a full object meets no error, the object may scale out.
LEMMA ScaleOutAllowed ==
  ASSUME NEW o \in Object, WellFormed(o), NEW validate, NEW limit,
         AddError(o, validate, limit) = Ok, Full(Last(o.filters))
  PROVE  o.expansion # 0 /\ NextCapacity(o) <= CapacityMax
<1>1. ScaleOutError(o, validate, limit) = Ok
  BY DEF AddError
<1>2. o.expansion # 0 /\ ~ (NextCapacity(o) > CapacityMax)
  BY <1>1 DEF ScaleOutError, Ok
<1>3. NextCapacity(o) \in Int /\ CapacityMax \in Int
  <2>1. Last(o.filters).cap \in Int /\ o.expansion \in Int
    BY LastFilter, FilterFields DEF Object
  <2>. QED BY <2>1, SizeAssumption DEF NextCapacity
<1>. QED BY <1>2, <1>3

\* An add that meets no error keeps the object well formed.
LEMMA AddPreserves ==
  ASSUME NEW o \in Object, WellFormed(o), NEW x \in Item, NEW validate, NEW limit,
         AddError(o, validate, limit) = Ok
  PROVE  AddItemUnchecked(o, x) \in Object /\ WellFormed(AddItemUnchecked(o, x))
<1>1. CASE Full(Last(o.filters))
  BY <1>1, ScaleOutAllowed, ScaledOutPreserves DEF AddItemUnchecked
<1>2. CASE ~ Full(Last(o.filters))
  BY <1>2, AddToLastPreserves DEF AddItemUnchecked
<1>. QED BY <1>1, <1>2

\* An add that meets no error keeps the counters in their type.
LEMMA AddMetricsTyped ==
  ASSUME NEW m \in Counters, NEW o \in Object, WellFormed(o), NEW x \in Item,
         NEW validate, NEW limit, AddError(o, validate, limit) = Ok
  PROVE  AddMetrics(m, o, x) \in Counters
<1> DEFINE item == [NoMetrics EXCEPT !.items = 1]
           new  == NewFilter(NextFp(o), NextCapacity(o), SeedOf(o))
           vec  == [NoMetrics EXCEPT !.bytes = ObjectSize(PushedVec(o)) - ObjectSize(o.vcap)]
<1>1. item \in Weights
  BY CountersDomain DEF Weights, Names
<1>2. CASE ~ Full(Last(o.filters))
  BY <1>1, <1>2, GainAndLose DEF AddMetrics
<1>3. CASE Full(Last(o.filters))
  <2>1. o.expansion # 0 /\ NextCapacity(o) <= CapacityMax
    BY <1>3, ScaleOutAllowed
  <2>2. vec \in Weights
    <3>1. PushedVec(o) \in Nat /\ o.vcap \in Nat
      BY <2>1, NextFilter DEF Object
    <3>2. ObjectSize(PushedVec(o)) - ObjectSize(o.vcap) \in Int
      BY <3>1, ObjectSizeIsNatural
    <3>. QED BY <3>2, CountersDomain DEF Weights, Names
  <2>3. FilterWeight(new) \in Weights
    <3>1. new \in Filter
      BY <2>1, NextFilter, LastFilter, NewFilterTyped
    <3>. QED BY <3>1, WeightsAreTyped
  <2>. HIDE DEF item, new, vec
  <2>4. Gain(m, FilterWeight(new)) \in Counters
    BY <2>3, GainAndLose
  <2>5. Gain(Gain(m, FilterWeight(new)), vec) \in Counters
    BY <2>2, <2>4, GainAndLose
  <2>6. Gain(Gain(Gain(m, FilterWeight(new)), vec), item) \in Counters
    BY <1>1, <2>5, GainAndLose
  <2>. QED BY <1>3, <2>6 DEF AddMetrics, item, new, vec
<1>. QED BY <1>2, <1>3

\* What a key holds is found in whatever it grows into.
LEMMA GrownKeepsItems ==
  ASSUME NEW o, NEW p, Grown(o, p), NEW x, ItemExists(o, x)
  PROVE  ItemExists(p, x)
<1>1. PICK i \in DOMAIN o.filters : Check(o.filters[i], x)
  BY DEF ItemExists
<1>2. BitsOf(p.filters[i], x) = BitsOf(o.filters[i], x)
  BY DEF Grown, BitsOf
<1>. QED BY <1>1, <1>2 DEF Grown, ItemExists, Check

\* Growing is reflexive and transitive.
LEMMA GrownReflexive ==
  ASSUME NEW o \in Object
  PROVE  Grown(o, o)
<1>1. \A i \in DOMAIN o.filters : o.filters[i].num \in Nat
  BY FilterFields DEF Object
<1>. QED BY <1>1 DEF Grown

\* Two growths in a row are one: what add_item_unchecked, repeated, does.
LEMMA GrownTransitive ==
  ASSUME NEW o \in Object, NEW p \in Object, NEW q \in Object, Grown(o, p), Grown(p, q)
  PROVE  Grown(o, q)
<1>1. ASSUME NEW r \in Object, NEW i \in DOMAIN r.filters PROVE r.filters[i].num \in Nat
  <2>1. r.filters \in Seq(Filter)
    BY DEF Object
  <2>2. r.filters[i] \in Filter
    BY <2>1
  <2>. QED BY <2>2, FilterFields
<1>2. ASSUME NEW i \in DOMAIN o.filters
      PROVE  /\ i \in DOMAIN q.filters
             /\ q.filters[i].seed = o.filters[i].seed
             /\ q.filters[i].fp = o.filters[i].fp
             /\ q.filters[i].cap = o.filters[i].cap
             /\ o.filters[i].num <= q.filters[i].num
             /\ o.filters[i].bits \subseteq q.filters[i].bits
  <2>1. i \in DOMAIN p.filters /\ i \in DOMAIN q.filters
    BY DEF Grown
  <2>2. /\ o.filters[i].num \in Nat /\ p.filters[i].num \in Nat /\ q.filters[i].num \in Nat
    BY <1>1, <2>1
  <2>3. o.filters[i].num <= p.filters[i].num /\ p.filters[i].num <= q.filters[i].num
    BY <2>1 DEF Grown
  <2>4. o.filters[i].num <= q.filters[i].num
    BY <2>2, <2>3
  <2>. QED BY <2>1, <2>4 DEF Grown
<1>. QED BY <1>2 DEF Grown

\* An add grows the object, and the item is found afterwards.
LEMMA AddGrows ==
  ASSUME NEW o \in Object, WellFormed(o), NEW x \in Item, NEW validate, NEW limit,
         AddError(o, validate, limit) = Ok
  PROVE  /\ Grown(o, AddItemUnchecked(o, x))
         /\ ItemExists(AddItemUnchecked(o, x), x)
<1> DEFINE n == Len(o.filters)
           new == NewFilter(NextFp(o), NextCapacity(o), SeedOf(o))
           a == AddItemUnchecked(o, x)
<1>1. /\ n \in Nat \ {0} /\ o.filters \in Seq(Filter)
      /\ DOMAIN o.filters = 1..n
      /\ \A i \in 1..n : o.filters[i] \in Filter /\ o.filters[i].num \in Nat
  BY LastFilter, FilterFields DEF Object
<1>2. ASSUME NEW f \in Filter PROVE Check(Set(f, x), x)
  <2>1. BitsOf(Set(f, x), x) = BitsOf(f, x)
    BY SetFilter DEF BitsOf
  <2>. QED BY <2>1, SetFilter DEF Check
<1>3. CASE Full(Last(o.filters))
  <2> DEFINE fs == Append(o.filters, Set(new, x))
  <2>1. new \in Filter
    BY <1>3, ScaleOutAllowed, NextFilter, LastFilter, NewFilterTyped
  <2>2. a = [o EXCEPT !.filters = fs, !.vcap = PushedVec(o)]
    BY <1>3 DEF AddItemUnchecked, ScaledOut
  <2>. HIDE DEF new, a
  <2>3. /\ fs \in Seq(Filter) /\ Len(fs) = n + 1 /\ fs[n + 1] = Set(new, x)
        /\ \A i \in 1..n : fs[i] = o.filters[i]
    BY <1>1, <2>1, SetFilter, AppendProperties
  <2>. HIDE DEF fs
  <2>4. /\ a.filters = fs /\ a.fp = o.fp /\ a.tr = o.tr
        /\ a.expansion = o.expansion /\ a.seedRandom = o.seedRandom
    BY <2>2 DEF Object
  <2>5. DOMAIN fs = 1..(n + 1)
    BY <2>3
  <2>6. Grown(o, a)
    BY <1>1, <2>3, <2>4, <2>5 DEF Grown
  <2>7. ItemExists(a, x)
    <3>1. n + 1 \in DOMAIN fs
      BY <1>1, <2>5
    <3>. QED BY <1>2, <2>1, <2>3, <2>4, <3>1 DEF ItemExists
  <2>. QED BY <2>6, <2>7 DEF a
<1>4. CASE ~ Full(Last(o.filters))
  <2> DEFINE fs == [o.filters EXCEPT ![n] = Set(o.filters[n], x)]
  <2>1. a = [o EXCEPT !.filters = fs]
    BY <1>4 DEF AddItemUnchecked, AddToLast
  <2>. HIDE DEF a
  <2>2. o.filters[n] \in Filter /\ n \in 1..n
    BY <1>1
  <2>3. DOMAIN fs = 1..n /\ fs[n] = Set(o.filters[n], x) /\ \A i \in 1..n : i # n => fs[i] = o.filters[i]
    BY <1>1
  <2>. HIDE DEF fs
  <2>4. /\ a.filters = fs /\ a.fp = o.fp /\ a.tr = o.tr
        /\ a.expansion = o.expansion /\ a.seedRandom = o.seedRandom
    BY <2>1 DEF Object
  <2>5. ASSUME NEW i \in 1..n
        PROVE  /\ fs[i].seed = o.filters[i].seed /\ fs[i].fp = o.filters[i].fp
               /\ fs[i].cap = o.filters[i].cap /\ o.filters[i].num <= fs[i].num
               /\ o.filters[i].bits \subseteq fs[i].bits
    <3>1. CASE i = n
      BY <1>1, <2>2, <2>3, <3>1, SetFilter
    <3>2. CASE i # n
      BY <1>1, <2>3, <3>2
    <3>. QED BY <3>1, <3>2
  <2>6. Grown(o, a)
    BY <1>1, <2>3, <2>4, <2>5 DEF Grown
  <2>7. ItemExists(a, x)
    BY <1>2, <2>2, <2>3, <2>4 DEF ItemExists
  <2>. QED BY <2>6, <2>7 DEF a
<1>. QED BY <1>3, <1>4

(***************************************************************************)
(* The sums of BloomObject (items, capacity, bytes of an object's filters) *)
(* and the arithmetic of the wrapping counters: what every constructor,    *)
(* add and Drop does to the counters is, modulo Word, what it does to the  *)
(* object's Footprint.                                                     *)
(***************************************************************************)

(****************************** sums ***************************************)

\* The equation of the function that FoldLeft builds: the sum over every set of
\* positions, the last one taken off first.
Folds(n, s, g) ==
  \A S \in SUBSET (1..n) :
    g[S] = IF S = {} THEN 0 ELSE g[S \ {Max(S)}] + s[Max(S)]

\* The maximum of a set of positions that holds the greatest one.
LEMMA MaxIsGreatest ==
  ASSUME NEW n \in Nat \ {0}, NEW S \in SUBSET (1..n), n \in S
  PROVE  Max(S) = n
<1>1. \A x \in S : x \in Nat /\ x <= n
  OBVIOUS
<1>2. \A x \in S : (\A y \in S : x >= y) <=> x = n
  BY <1>1
<1>. QED BY <1>2 DEF Max

\* A function with that equation exists.
LEMMA FoldExists ==
  ASSUME NEW n \in Nat, NEW s \in [1..n -> Int]
  PROVE  \E g \in [SUBSET (1..n) -> Int] : Folds(n, s, g)
<1> DEFINE Good(m) == \E g \in [SUBSET (1..m) -> Int] : Folds(m, s, g)
           T == {m \in Nat : m <= n => Good(m)}
<1>1. 0 \in T
  <2> DEFINE g == [S \in SUBSET (1..0) |-> 0]
  <2>1. \A S \in SUBSET (1..0) : S = {}
    OBVIOUS
  <2>2. g \in [SUBSET (1..0) -> Int] /\ \A S \in SUBSET (1..0) : g[S] = 0
    OBVIOUS
  <2>. HIDE DEF g
  <2>3. Good(0)
    BY <2>1, <2>2 DEF Folds
  <2>. HIDE DEF Good
  <2>. QED BY <2>3
<1>2. ASSUME NEW m \in Nat, m \in T PROVE m + 1 \in T
  <2>1. SUFFICES ASSUME m + 1 <= n PROVE Good(m + 1)
    <3>. HIDE DEF Good
    <3>. QED OBVIOUS
  <2>2. Good(m)
    <3>. HIDE DEF Good
    <3>. QED BY <1>2, <2>1
  <2>3. PICK g \in [SUBSET (1..m) -> Int] : Folds(m, s, g)
    BY <2>2
  <2>. HIDE DEF T
  <2> DEFINE h == [S \in SUBSET (1..(m + 1)) |->
                     IF m + 1 \in S THEN g[S \ {m + 1}] + s[m + 1] ELSE g[S]]
  <2>4. ASSUME NEW S \in SUBSET (1..(m + 1))
        PROVE  S \ {m + 1} \in SUBSET (1..m) /\ (m + 1 \notin S => S \in SUBSET (1..m))
    <3>1. \A x \in S : x # m + 1 => x \in 1..m
      OBVIOUS
    <3>. QED BY <3>1
  <2>5. m + 1 \in 1..n /\ s[m + 1] \in Int /\ m + 1 \in Nat \ {0}
    BY <2>1
  <2>6. h \in [SUBSET (1..(m + 1)) -> Int]
    <3>1. ASSUME NEW S \in SUBSET (1..(m + 1))
          PROVE  (IF m + 1 \in S THEN g[S \ {m + 1}] + s[m + 1] ELSE g[S]) \in Int
      <4>1. g[S \ {m + 1}] \in Int /\ (m + 1 \notin S => g[S] \in Int)
        BY <2>4
      <4>. QED BY <2>5, <4>1
    <3>. QED BY <3>1
  <2>7. ASSUME NEW S \in SUBSET (1..(m + 1))
        PROVE  h[S] = IF S = {} THEN 0 ELSE h[S \ {Max(S)}] + s[Max(S)]
    <3>1. CASE m + 1 \in S
      <4>1. Max(S) = m + 1
        BY <2>5, <3>1, MaxIsGreatest
      <4>2. h[S] = g[S \ {m + 1}] + s[m + 1]
        BY <3>1
      <4>3. S \ {m + 1} \in SUBSET (1..(m + 1)) /\ m + 1 \notin S \ {m + 1}
        OBVIOUS
      <4>4. h[S \ {m + 1}] = g[S \ {m + 1}]
        BY <4>3
      <4>. QED BY <3>1, <4>1, <4>2, <4>4
    <3>2. CASE m + 1 \notin S
      <4>1. S \in SUBSET (1..m) /\ h[S] = g[S]
        BY <2>4, <3>2
      <4>2. g[S] = IF S = {} THEN 0 ELSE g[S \ {Max(S)}] + s[Max(S)]
        BY <2>3, <4>1 DEF Folds
      <4>3. m + 1 \notin S \ {Max(S)} /\ S \ {Max(S)} \in SUBSET (1..(m + 1))
        BY <3>2
      <4>4. h[S \ {Max(S)}] = g[S \ {Max(S)}]
        BY <4>3
      <4>. QED BY <4>1, <4>2, <4>4
    <3>. QED BY <3>1, <3>2
  <2>. HIDE DEF h
  <2>. QED BY <2>6, <2>7 DEF Folds
<1>. HIDE DEF T, Good
<1>3. n \in T /\ n <= n
  <2>1. \A i \in Nat : i \in T
    BY <1>1, <1>2, SetInduction
  <2>2. n <= n
    OBVIOUS
  <2>. QED BY <2>1, <2>2
<1>4. Good(n)
  BY <1>3 DEF T
<1>. QED BY <1>4 DEF Good

\* g has the sums of the first 0, 1, .. elements of s.
PartialSums(s, g) ==
  /\ g \in [0..Len(s) -> Int] /\ g[0] = 0
  /\ \A i \in 1..Len(s) : g[i] = g[i - 1] + s[i]

\* A sum is the last of its partial sums.
LEMMA SumHasPrefixes ==
  ASSUME NEW s \in Seq(Int)
  PROVE  \E g : PartialSums(s, g) /\ SumOf(s) = g[Len(s)]
<1> DEFINE n == Len(s)
           R(h) == h = [S \in SUBSET (1..n) |->
                          IF S = {} THEN 0 ELSE h[S \ {Max(S)}] + s[Max(S)]]
           iter == CHOOSE h : R(h)
<1>1. n \in Nat /\ s \in [1..n -> Int] /\ DOMAIN s = 1..n
  OBVIOUS
<1>2. SumOf(s) = iter[1..n]
  BY <1>1 DEF SumOf, FoldLeft, MapThenFoldSet
<1>. HIDE DEF n
<1>3. PICK f \in [SUBSET (1..n) -> Int] : Folds(n, s, f)
  BY <1>1, FoldExists
<1>4. R(f)
  <2>1. f = [S \in SUBSET (1..n) |-> f[S]]
    OBVIOUS
  <2>. QED BY <1>3, <2>1 DEF Folds
<1>5. R(iter)
  BY <1>4
<1>. HIDE DEF iter
<1>6. \A S \in SUBSET (1..n) :
        iter[S] = IF S = {} THEN 0 ELSE iter[S \ {Max(S)}] + s[Max(S)]
  BY <1>5
<1>. HIDE DEF R
<1> DEFINE g == [i \in 0..n |-> iter[1..i]]
<1>7. iter[1..0] = 0
  <2>1. 1..0 = {} /\ 1..0 \in SUBSET (1..n)
    OBVIOUS
  <2>. QED BY <1>6, <2>1
<1>8. ASSUME NEW i \in 1..n PROVE iter[1..i] = iter[1..(i - 1)] + s[i]
  <2>1. i \in Nat \ {0} /\ 1..i \in SUBSET (1..n) /\ i \in 1..i
    BY <1>1
  <2>2. Max(1..i) = i /\ (1..i) \ {i} = 1..(i - 1) /\ 1..i # {}
    <3>1. 1..i \in SUBSET (1..i)
      OBVIOUS
    <3>2. Max(1..i) = i
      BY <2>1, <3>1, MaxIsGreatest
    <3>3. (1..i) \ {i} = 1..(i - 1)
      BY <2>1
    <3>. QED BY <2>1, <3>2, <3>3
  <2>. QED BY <1>6, <2>1, <2>2
<1>9. \A i \in 0..n : iter[1..i] \in Int
  <2> DEFINE T == {i \in Nat : i <= n => iter[1..i] \in Int}
  <2>1. 0 \in T
    BY <1>7
  <2>2. ASSUME NEW i \in Nat, i \in T PROVE i + 1 \in T
    <3>1. SUFFICES ASSUME i + 1 <= n PROVE iter[1..(i + 1)] \in Int
      OBVIOUS
    <3>2. i + 1 \in 1..n /\ (i + 1) - 1 = i /\ iter[1..i] \in Int /\ s[i + 1] \in Int
      BY <1>1, <2>2, <3>1
    <3>3. iter[1..(i + 1)] = iter[1..((i + 1) - 1)] + s[i + 1]
      BY <1>8, <3>2
    <3>4. 1..((i + 1) - 1) = 1..i
      BY <3>2
    <3>. QED BY <3>2, <3>3, <3>4
  <2>. HIDE DEF T
  <2>3. Nat \subseteq T
    BY <2>1, <2>2, SetInduction
  <2>. QED BY <1>1, <2>3 DEF T
<1>10. PartialSums(s, g)
  <2>1. g \in [0..n -> Int] /\ g[0] = 0
    BY <1>1, <1>7, <1>9
  <2>2. ASSUME NEW i \in 1..n PROVE g[i] = g[i - 1] + s[i]
    <3>1. i \in 0..n /\ i - 1 \in 0..n
      BY <1>1
    <3>2. g[i] = iter[1..i] /\ g[i - 1] = iter[1..(i - 1)]
      BY <3>1
    <3>. QED BY <1>8, <3>2
  <2>. QED BY <2>1, <2>2 DEF PartialSums, n
<1>11. g[n] = iter[1..n]
  BY <1>1
<1>. HIDE DEF g
<1>. QED BY <1>2, <1>10, <1>11 DEF n

\* A sum is an integer, and a natural number if its terms are.
LEMMA SumTyped ==
  ASSUME NEW s \in Seq(Int)
  PROVE  SumOf(s) \in Int /\ ((\A i \in 1..Len(s) : s[i] \in Nat) => SumOf(s) \in Nat)
<1>1. PICK g : PartialSums(s, g) /\ SumOf(s) = g[Len(s)]
  BY SumHasPrefixes
<1> DEFINE n == Len(s)
           T == {i \in Nat : i <= n => g[i] \in Nat}
<1>2. n \in Nat /\ n \in 0..n /\ g \in [0..n -> Int] /\ g[0] = 0
  BY <1>1 DEF PartialSums
<1>3. ASSUME \A i \in 1..n : s[i] \in Nat PROVE g[n] \in Nat
  <2>1. 0 \in T
    BY <1>2
  <2>2. ASSUME NEW i \in Nat, i \in T PROVE i + 1 \in T
    <3>1. SUFFICES ASSUME i + 1 <= n PROVE g[i + 1] \in Nat
      OBVIOUS
    <3>2. i + 1 \in 1..n /\ (i + 1) - 1 = i /\ g[i] \in Nat /\ s[i + 1] \in Nat
      BY <1>2, <1>3, <2>2, <3>1
    <3>3. g[i + 1] = g[(i + 1) - 1] + s[i + 1]
      BY <1>1, <3>2 DEF PartialSums
    <3>. QED BY <3>2, <3>3
  <2>. HIDE DEF T
  <2>3. Nat \subseteq T
    BY <2>1, <2>2, SetInduction
  <2>. QED BY <1>2, <2>3 DEF T
<1>. QED BY <1>1, <1>2, <1>3

\* Terms that are not below b add up to at least b each.
LEMMA SumAtLeast ==
  ASSUME NEW s \in Seq(Int), NEW b \in Nat, \A i \in 1..Len(s) : s[i] >= b
  PROVE  SumOf(s) >= Len(s) * b
<1>1. PICK g : PartialSums(s, g) /\ SumOf(s) = g[Len(s)]
  BY SumHasPrefixes
<1> DEFINE n == Len(s)
           T == {i \in Nat : i <= n => g[i] >= i * b}
<1>2. n \in Nat /\ n \in 0..n /\ g \in [0..n -> Int] /\ g[0] = 0
  BY <1>1 DEF PartialSums
<1>3. 0 \in T
  BY <1>2
<1>4. ASSUME NEW i \in Nat, i \in T PROVE i + 1 \in T
  <2>1. SUFFICES ASSUME i + 1 <= n PROVE g[i + 1] >= (i + 1) * b
    OBVIOUS
  <2>2. i + 1 \in 1..n /\ (i + 1) - 1 = i /\ i \in 0..n /\ i <= n
    BY <1>2, <2>1
  <2>3. g[i + 1] = g[i] + s[i + 1] /\ g[i] \in Int /\ s[i + 1] \in Int /\ s[i + 1] >= b
    BY <1>1, <1>2, <2>2 DEF PartialSums
  <2>4. g[i] >= i * b
    BY <1>4, <2>2
  <2>5. (i + 1) * b = i * b + b /\ i * b \in Int
    OBVIOUS
  <2>. QED BY <2>3, <2>4, <2>5
<1>. HIDE DEF T
<1>5. Nat \subseteq T
  BY <1>3, <1>4, SetInduction
<1>. QED BY <1>1, <1>2, <1>5 DEF T

\* The sum over nothing is 0.
LEMMA SumOfNothing ==
  SumOf(<<>>) = 0
<1>1. <<>> \in Seq(Int) /\ Len(<<>>) = 0
  OBVIOUS
<1>. QED BY <1>1, SumHasPrefixes DEF PartialSums

\* A term more at the end is added to the sum.
LEMMA SumOneMore ==
  ASSUME NEW s \in Seq(Int), NEW t \in Seq(Int), Len(t) = Len(s) + 1,
         \A i \in 1..Len(s) : t[i] = s[i]
  PROVE  SumOf(t) = SumOf(s) + t[Len(t)]
<1>1. PICK g : PartialSums(s, g) /\ SumOf(s) = g[Len(s)]
  BY SumHasPrefixes
<1>2. PICK h : PartialSums(t, h) /\ SumOf(t) = h[Len(t)]
  BY SumHasPrefixes
<1> DEFINE n == Len(s)
           T == {i \in Nat : i <= n => g[i] = h[i]}
<1>3. n \in Nat /\ Len(t) = n + 1
  OBVIOUS
<1>4. 0 \in T
  BY <1>1, <1>2 DEF PartialSums
<1>5. ASSUME NEW i \in Nat, i \in T PROVE i + 1 \in T
  <2>1. SUFFICES ASSUME i + 1 <= n PROVE g[i + 1] = h[i + 1]
    OBVIOUS
  <2>2. i + 1 \in 1..n /\ i + 1 \in 1..Len(t) /\ (i + 1) - 1 = i /\ g[i] = h[i]
    BY <1>3, <1>5, <2>1
  <2>3. g[i + 1] = g[i] + s[i + 1] /\ h[i + 1] = h[i] + t[i + 1]
    BY <1>1, <1>2, <2>2 DEF PartialSums
  <2>. QED BY <2>2, <2>3
<1>6. Nat \subseteq T
  <2>. HIDE DEF T
  <2>. QED BY <1>4, <1>5, SetInduction
<1>7. g[n] = h[n]
  BY <1>3, <1>6
<1>8. n + 1 \in 1..Len(t) /\ (n + 1) - 1 = n
  BY <1>3
<1>9. h[n + 1] = h[n] + t[n + 1]
  BY <1>2, <1>8 DEF PartialSums
<1>. QED BY <1>1, <1>2, <1>3, <1>7, <1>9

\* Sums that differ in their last term only.
LEMMA SumLastChanged ==
  ASSUME NEW n \in Nat \ {0}, NEW s \in Seq(Int), NEW t \in Seq(Int),
         Len(s) = n, Len(t) = n, \A i \in 1..n : i # n => t[i] = s[i]
  PROVE  SumOf(t) = SumOf(s) + (t[n] - s[n])
<1> DEFINE front == [i \in 1..(n - 1) |-> s[i]]
<1>1. n - 1 \in Nat /\ \A i \in 1..(n - 1) : i \in 1..n /\ i # n /\ s[i] \in Int
  OBVIOUS
<1>2. front \in Seq(Int) /\ Len(front) = n - 1 /\ \A i \in 1..(n - 1) : front[i] = s[i]
  BY <1>1
<1>. HIDE DEF front
<1>3. SumOf(s) = SumOf(front) + s[n]
  BY <1>1, <1>2, SumOneMore
<1>4. SumOf(t) = SumOf(front) + t[n]
  BY <1>1, <1>2, SumOneMore
<1>5. SumOf(front) \in Int /\ s[n] \in Int /\ t[n] \in Int
  BY <1>2, SumTyped
<1>. QED BY <1>3, <1>4, <1>5

(************************ arithmetic modulo Word ***************************)

\* The integers a and b wrap to the same counter value.
Congruent(a, b) == \E q \in Int : a = b + q * Word

\* Wrapping is a congruence: it can be left to the end of a computation.
LEMMA Congruence ==
  /\ \A a \in Int : Congruent(a, a) /\ Congruent(a % Word, a)
  /\ \A a, b, c \in Int : Congruent(a, b) => Congruent(a + c, b + c)
  /\ \A a, b, c \in Int : Congruent(a, b) /\ Congruent(b, c) => Congruent(a, c)
  /\ \A a, b \in 0..(Word - 1) : \A c \in Int :
       Congruent(a, c) /\ Congruent(b, c) => a = b
<1>1. Word \in Nat \ {0}
  BY SizeAssumption
<1>2. ASSUME NEW a \in Int PROVE Congruent(a, a) /\ Congruent(a % Word, a)
  <2>1. a = a + 0 * Word
    BY <1>1
  <2>2. a = Word * (a \div Word) + (a % Word) /\ a \div Word \in Int /\ a % Word \in Int
    BY <1>1
  <2>3. -(a \div Word) \in Int /\ a % Word = a + (-(a \div Word)) * Word
    BY <1>1, <2>2
  <2>. QED BY <2>1, <2>3 DEF Congruent
<1>3. ASSUME NEW a \in Int, NEW b \in Int, NEW c \in Int, Congruent(a, b)
      PROVE  Congruent(a + c, b + c) /\ (Congruent(b, c) => Congruent(a, c))
  <2>1. PICK q \in Int : a = b + q * Word
    BY <1>3 DEF Congruent
  <2>2. q * Word \in Int
    BY <1>1
  <2>3. a + c = (b + c) + q * Word
    BY <2>1, <2>2
  <2>4. ASSUME Congruent(b, c) PROVE Congruent(a, c)
    <3>1. PICK r \in Int : b = c + r * Word
      BY <2>4 DEF Congruent
    <3>2. (q + r) * Word = q * Word + r * Word /\ r * Word \in Int /\ q + r \in Int
      BY <1>1
    <3>3. a = c + (q + r) * Word
      BY <2>1, <2>2, <3>1, <3>2
    <3>. QED BY <3>2, <3>3 DEF Congruent
  <2>. QED BY <2>3, <2>4 DEF Congruent
<1>4. ASSUME NEW a \in 0..(Word - 1), NEW b \in 0..(Word - 1), NEW c \in Int,
             Congruent(a, c), Congruent(b, c)
      PROVE  a = b
  <2>1. PICK q \in Int : a = c + q * Word
    BY <1>4 DEF Congruent
  <2>2. PICK r \in Int : b = c + r * Word
    BY <1>4 DEF Congruent
  <2>3. (q - r) * Word = q * Word - r * Word /\ q * Word \in Int /\ r * Word \in Int
    BY <1>1
  <2>4. a - b = (q - r) * Word /\ a - b < Word /\ b - a < Word /\ q - r \in Int
    BY <1>1, <2>1, <2>2, <2>3
  <2>5. ASSUME NEW x \in Int, x * Word < Word, -(x * Word) < Word PROVE x = 0
    <3>1. CASE x >= 1
      <4>1. x * Word >= Word
        BY <1>1, <3>1
      <4>. QED BY <1>1, <2>5, <4>1
    <3>2. CASE x <= -1
      <4>1. (-x) * Word >= Word /\ -(x * Word) = (-x) * Word
        BY <1>1, <3>2
      <4>. QED BY <1>1, <2>5, <4>1
    <3>. QED BY <3>1, <3>2
  <2>6. (q - r) * Word < Word /\ -((q - r) * Word) < Word
    BY <1>1, <2>4
  <2>7. q - r = 0
    BY <2>4, <2>5, <2>6
  <2>. QED BY <1>1, <2>4, <2>7
<1>. QED BY <1>2, <1>3, <1>4

\* The counters k are those of m with the weights w added, up to wrapping.
Tracks(m, w, k) == \A c \in Names : Congruent(k[c], m[c] + w[c])

\* The weights that a subtraction adds.
Minus(w) == [c \in Names |-> - w[c]]

\* The values of counters and weights are integers.
LEMMA CountersAreIntegers ==
  ASSUME NEW m \in Counters, NEW c \in Names
  PROVE  m[c] \in Int /\ m[c] \in 0..(Word - 1)
BY SizeAssumption, CountersDomain

\* fetch_add and fetch_sub move the counters by what they are given.
LEMMA GainTracks ==
  ASSUME NEW m \in Counters, NEW w \in Weights
  PROVE  /\ Tracks(m, w, Gain(m, w))
         /\ Tracks(m, Minus(w), Lose(m, w)) /\ Minus(w) \in Weights
<1>1. DOMAIN m = Names
  BY CountersDomain
<1>2. ASSUME NEW c \in Names
      PROVE  /\ Congruent(Gain(m, w)[c], m[c] + w[c])
             /\ Congruent(Lose(m, w)[c], m[c] + Minus(w)[c])
  <2>1. m[c] \in Int /\ w[c] \in Int
    BY CountersAreIntegers DEF Weights
  <2>2. Gain(m, w)[c] = (m[c] + w[c]) % Word /\ Lose(m, w)[c] = (m[c] - w[c]) % Word
    BY <1>1 DEF Gain, Lose
  <2>3. m[c] + w[c] \in Int /\ m[c] - w[c] \in Int /\ m[c] + Minus(w)[c] = m[c] - w[c]
    BY <2>1 DEF Minus
  <2>. QED BY <2>2, <2>3, Congruence
<1>3. Minus(w) \in Weights
  BY DEF Minus, Weights
<1>. QED BY <1>2, <1>3 DEF Tracks

\* Two movements in a row are one by the sum of the weights.
LEMMA TracksChain ==
  ASSUME NEW m \in Counters, NEW k \in Counters, NEW l \in Counters,
         NEW w \in Weights, NEW u \in Weights, NEW x \in Weights,
         Tracks(m, w, k), Tracks(k, u, l), \A c \in Names : x[c] = w[c] + u[c]
  PROVE  Tracks(m, x, l)
<1>1. ASSUME NEW c \in Names PROVE Congruent(l[c], m[c] + x[c])
  <2>1. /\ m[c] \in Int /\ k[c] \in Int /\ l[c] \in Int
        /\ w[c] \in Int /\ u[c] \in Int /\ x[c] = w[c] + u[c]
    BY CountersAreIntegers DEF Weights
  <2>2. Congruent(k[c], m[c] + w[c]) /\ Congruent(l[c], k[c] + u[c])
    BY DEF Tracks
  <2>3. Congruent(k[c] + u[c], (m[c] + w[c]) + u[c])
    <3>1. m[c] + w[c] \in Int
      BY <2>1
    <3>. QED BY <2>1, <2>2, <3>1, Congruence
  <2>4. (m[c] + w[c]) + u[c] = m[c] + x[c] /\ k[c] + u[c] \in Int /\ m[c] + x[c] \in Int
    BY <2>1
  <2>5. Congruent(k[c] + u[c], m[c] + x[c])
    BY <2>3, <2>4
  <2>. QED BY <2>1, <2>2, <2>4, <2>5, Congruence
<1>. QED BY <1>1 DEF Tracks

\* Counters that were moved by nothing are those they were, and counters that
\* were moved by the same weights are the same.
LEMMA TracksEqual ==
  ASSUME NEW m \in Counters, NEW k \in Counters, NEW l \in Counters, NEW w \in Weights
  PROVE  /\ (\A c \in Names : w[c] = 0) => Tracks(m, w, m)
         /\ Tracks(m, w, k) /\ Tracks(m, w, l) => k = l
<1>1. ASSUME \A c \in Names : w[c] = 0 PROVE Tracks(m, w, m)
  <2>1. \A c \in Names : m[c] \in Int /\ m[c] + w[c] = m[c]
    BY <1>1, CountersAreIntegers
  <2>. QED BY <2>1, Congruence DEF Tracks
<1>2. ASSUME Tracks(m, w, k), Tracks(m, w, l) PROVE k = l
  <2>1. ASSUME NEW c \in Names PROVE k[c] = l[c]
    <3>1. /\ k[c] \in 0..(Word - 1) /\ l[c] \in 0..(Word - 1)
          /\ m[c] \in Int /\ w[c] \in Int
      BY CountersAreIntegers DEF Weights
    <3>2. m[c] + w[c] \in Int
      BY <3>1
    <3>. QED BY <1>2, <3>1, <3>2, Congruence DEF Tracks
  <2>2. k \in [Names -> 0..(Word - 1)] /\ l \in [Names -> 0..(Word - 1)]
    BY CountersDomain
  <2>. QED BY <2>1, <2>2
<1>. QED BY <1>1, <1>2

(************************ an object's footprint ****************************)

\* The terms of the sums over an object's filters.
Nums(o) == [i \in DOMAIN o.filters |-> o.filters[i].num]
Caps(o) == [i \in DOMAIN o.filters |-> o.filters[i].cap]
Sizes(o) == [i \in DOMAIN o.filters |-> FilterSize(o.filters[i].cap, o.filters[i].fp)]

\* What the filters of an object add to the counters.
FiltersWeight(o) ==
  [objects |-> 0, filters |-> Len(o.filters), items |-> NumItems(o),
   capacity |-> Capacity(o), bytes |-> FiltersSize(o)]

\* They are natural numbers, one for each filter.
LEMMA TermsTyped ==
  ASSUME NEW o \in Object
  PROVE  /\ Len(o.filters) \in Nat /\ DOMAIN o.filters = 1..Len(o.filters)
         /\ \A s \in {Nums(o), Caps(o), Sizes(o)} :
              s \in Seq(Int) /\ Len(s) = Len(o.filters) /\ \A i \in 1..Len(s) : s[i] \in Nat
         /\ NumItems(o) = SumOf(Nums(o)) /\ Capacity(o) = SumOf(Caps(o))
         /\ FiltersSize(o) = SumOf(Sizes(o))
<1> DEFINE n == Len(o.filters)
<1>1. n \in Nat /\ DOMAIN o.filters = 1..n /\ \A i \in 1..n : o.filters[i] \in Filter
  BY DEF Object
<1>2. ASSUME NEW i \in 1..n
      PROVE  /\ o.filters[i].num \in Nat /\ o.filters[i].cap \in Nat
             /\ FilterSize(o.filters[i].cap, o.filters[i].fp) \in Nat
  <2>1. o.filters[i].num \in Nat /\ o.filters[i].cap \in Nat \ {0} /\ o.filters[i].fp \in Nat \ {0}
    BY <1>1, FilterFields
  <2>. QED BY <2>1, SizesAreNatural
<1>3. ASSUME NEW s, s = [i \in 1..n |-> s[i]], \A i \in 1..n : s[i] \in Nat
      PROVE  s \in Seq(Int) /\ Len(s) = n
  <2>1. s \in [1..n -> Int]
    BY <1>3
  <2>. QED BY <1>1, <2>1
<1>4. ASSUME NEW s \in {Nums(o), Caps(o), Sizes(o)}
      PROVE  s = [i \in 1..n |-> s[i]] /\ \A i \in 1..n : s[i] \in Nat
  BY <1>1, <1>2, <1>4 DEF Nums, Caps, Sizes
<1>5. /\ NumItems(o) = SumOf(Nums(o)) /\ Capacity(o) = SumOf(Caps(o))
      /\ FiltersSize(o) = SumOf(Sizes(o))
  BY DEF NumItems, Capacity, FiltersSize, Nums, Caps, Sizes
<1>. QED BY <1>1, <1>3, <1>4, <1>5

\* The footprint of an object is made of natural numbers.
LEMMA FootprintTyped ==
  ASSUME NEW o \in Object
  PROVE  /\ NumItems(o) \in Nat /\ Capacity(o) \in Nat /\ FiltersSize(o) \in Nat
         /\ ObjectSize(o.vcap) \in Nat /\ MemoryUsage(o) \in Nat
         /\ Footprint(o) \in Weights /\ FiltersWeight(o) \in Weights
<1>1. NumItems(o) \in Nat /\ Capacity(o) \in Nat /\ FiltersSize(o) \in Nat
  BY TermsTyped, SumTyped
<1>2. ObjectSize(o.vcap) \in Nat
  BY ObjectSizeIsNatural DEF Object
<1>3. MemoryUsage(o) \in Nat /\ Len(o.filters) \in Nat
  BY <1>1, <1>2, TermsTyped DEF MemoryUsage
<1>4. DOMAIN Footprint(o) = Names /\ DOMAIN FiltersWeight(o) = Names
  BY DEF Footprint, FiltersWeight, Names
<1>5. \A c \in Names : Footprint(o)[c] \in Int /\ FiltersWeight(o)[c] \in Int
  BY <1>1, <1>3 DEF Footprint, FiltersWeight, Names
<1>6. /\ Footprint(o) = [c \in Names |-> Footprint(o)[c]]
      /\ FiltersWeight(o) = [c \in Names |-> FiltersWeight(o)[c]]
  BY <1>4 DEF Footprint, FiltersWeight
<1>. QED BY <1>1, <1>2, <1>3, <1>5, <1>6 DEF Weights

\* The weights of an object's filters, added up one filter at a time.
LEMMA FiltersWeightIsSum ==
  ASSUME NEW o \in Object
  PROVE  \E W \in [0..Len(o.filters) -> Weights] :
           /\ \A c \in Names : W[0][c] = 0
           /\ \A i \in 1..Len(o.filters), c \in Names :
                W[i][c] = W[i - 1][c] + FilterWeight(o.filters[i])[c]
           /\ W[Len(o.filters)] = FiltersWeight(o)
<1> DEFINE n == Len(o.filters)
<1>1. /\ n \in Nat /\ DOMAIN o.filters = 1..n
      /\ Nums(o) \in Seq(Int) /\ Caps(o) \in Seq(Int) /\ Sizes(o) \in Seq(Int)
      /\ Len(Nums(o)) = n /\ Len(Caps(o)) = n /\ Len(Sizes(o)) = n
      /\ NumItems(o) = SumOf(Nums(o)) /\ Capacity(o) = SumOf(Caps(o))
      /\ FiltersSize(o) = SumOf(Sizes(o))
  BY TermsTyped
<1>. HIDE DEF n
<1>2. PICK num : PartialSums(Nums(o), num) /\ NumItems(o) = num[n]
  BY <1>1, SumHasPrefixes
<1>3. PICK cap : PartialSums(Caps(o), cap) /\ Capacity(o) = cap[n]
  BY <1>1, SumHasPrefixes
<1>4. PICK size : PartialSums(Sizes(o), size) /\ FiltersSize(o) = size[n]
  BY <1>1, SumHasPrefixes
<1> DEFINE W == [i \in 0..n |->
                   [objects |-> 0, filters |-> i, items |-> num[i],
                    capacity |-> cap[i], bytes |-> size[i]]]
<1>5. /\ num \in [0..n -> Int] /\ cap \in [0..n -> Int] /\ size \in [0..n -> Int]
      /\ num[0] = 0 /\ cap[0] = 0 /\ size[0] = 0
  BY <1>1, <1>2, <1>3, <1>4 DEF PartialSums
<1>6. W \in [0..n -> Weights]
  <2>1. ASSUME NEW i \in 0..n PROVE W[i] \in Weights
    <3> DEFINE r == [objects |-> 0, filters |-> i, items |-> num[i],
                     capacity |-> cap[i], bytes |-> size[i]]
    <3>1. num[i] \in Int /\ cap[i] \in Int /\ size[i] \in Int /\ i \in Int
      BY <1>1, <1>5
    <3>2. \A c \in Names : r[c] \in Int
      BY <3>1 DEF Names
    <3>3. W[i] = r
      OBVIOUS
    <3>4. r = [c \in Names |-> r[c]]
      BY DEF Names
    <3>. HIDE DEF W, r
    <3>. QED BY <3>2, <3>3, <3>4 DEF Weights
  <2>. QED BY <2>1
<1>7. \A c \in Names : W[0][c] = 0
  BY <1>1, <1>5 DEF Names
<1>8. W[n] = FiltersWeight(o)
  BY <1>1, <1>2, <1>3, <1>4 DEF FiltersWeight, n
<1>9. ASSUME NEW i \in 1..n, NEW c \in Names
      PROVE  W[i][c] = W[i - 1][c] + FilterWeight(o.filters[i])[c]
  <2>1. i \in 0..n /\ i - 1 \in 0..n /\ i = (i - 1) + 1
    BY <1>1
  <2>2. num[i] = num[i - 1] + o.filters[i].num
    BY <1>1, <1>2 DEF PartialSums, Nums
  <2>3. cap[i] = cap[i - 1] + o.filters[i].cap
    BY <1>1, <1>3 DEF PartialSums, Caps
  <2>4. size[i] = size[i - 1] + FilterSize(o.filters[i].cap, o.filters[i].fp)
    BY <1>1, <1>4 DEF PartialSums, Sizes
  <2>. QED BY <2>1, <2>2, <2>3, <2>4 DEF Names, FilterWeight
<1>. HIDE DEF W
<1>. QED BY <1>6, <1>7, <1>8, <1>9 DEF n

\* Counting the filters of an object moves the counters by their weights, and
\* dropping them moves them back.
LEMMA FiltersTrack ==
  ASSUME NEW m \in Counters, NEW o \in Object
  PROVE  /\ Tracks(m, FiltersWeight(o), GainFilters(m, o))
         /\ Tracks(m, Minus(FiltersWeight(o)), LoseFilters(m, o))
<1> DEFINE n == Len(o.filters)
           f(i) == o.filters[i]
<1>1. n \in Nat /\ \A i \in 1..n : FilterWeight(f(i)) \in Weights
  BY WeightsAreTyped DEF Object
<1>2. PICK W \in [0..n -> Weights] :
        /\ \A c \in Names : W[0][c] = 0
        /\ \A i \in 1..n, c \in Names : W[i][c] = W[i - 1][c] + FilterWeight(f(i))[c]
        /\ W[n] = FiltersWeight(o)
  BY FiltersWeightIsSum
<1>3. PICK g \in [0..n -> Counters] :
        /\ g[0] = m /\ \A i \in 1..n : g[i] = Gain(g[i - 1], FilterWeight(f(i)))
        /\ GainFilters(m, o) = g[n]
  BY GainFiltersSteps
<1>4. PICK l \in [0..n -> Counters] :
        /\ l[0] = m /\ \A i \in 1..n : l[i] = Lose(l[i - 1], FilterWeight(f(i)))
        /\ LoseFilters(m, o) = l[n]
  BY LoseFiltersSteps
<1>. HIDE DEF n, f
<1> DEFINE T == {i \in Nat : i <= n => /\ Tracks(m, W[i], g[i])
                                       /\ Tracks(m, Minus(W[i]), l[i])}
<1>5. 0 \in T
  <2>1. W[0] \in Weights /\ Minus(W[0]) \in Weights
    BY <1>1 DEF Minus, Weights
  <2>2. \A c \in Names : W[0][c] = 0 /\ Minus(W[0])[c] = 0
    BY <1>2 DEF Minus
  <2>. QED BY <1>3, <1>4, <2>1, <2>2, TracksEqual
<1>6. ASSUME NEW i \in Nat, i \in T PROVE i + 1 \in T
  <2>1. SUFFICES ASSUME i + 1 <= n
                 PROVE  Tracks(m, W[i + 1], g[i + 1]) /\ Tracks(m, Minus(W[i + 1]), l[i + 1])
    OBVIOUS
  <2> DEFINE j == i + 1
             w == FilterWeight(f(j))
  <2>2. j \in 1..n /\ j - 1 = i /\ i \in 0..n /\ j \in 0..n
    BY <1>1, <2>1
  <2>3. Tracks(m, W[i], g[i]) /\ Tracks(m, Minus(W[i]), l[i])
    BY <1>6, <2>2
  <2>. HIDE DEF T, j, w
  <2>4. /\ w \in Weights /\ W[i] \in Weights /\ W[j] \in Weights
        /\ g[i] \in Counters /\ g[j] \in Counters /\ l[i] \in Counters /\ l[j] \in Counters
    BY <1>1, <2>2 DEF w
  <2>5. \A c \in Names : W[j][c] = W[i][c] + w[c]
    BY <1>2, <2>2 DEF w
  <2>6. g[j] = Gain(g[i], w) /\ l[j] = Lose(l[i], w)
    BY <1>3, <1>4, <2>2 DEF w
  <2>7. Tracks(m, W[j], g[j])
    BY <2>3, <2>4, <2>5, <2>6, GainTracks, TracksChain
  <2>8. Tracks(m, Minus(W[j]), l[j])
    <3>1. /\ Minus(W[i]) \in Weights /\ Minus(W[j]) \in Weights /\ Minus(w) \in Weights
          /\ Tracks(l[i], Minus(w), l[j])
      BY <2>4, <2>6, GainTracks
    <3>2. \A c \in Names : Minus(W[j])[c] = Minus(W[i])[c] + Minus(w)[c]
      BY <2>4, <2>5 DEF Minus, Weights
    <3>. QED BY <2>3, <2>4, <3>1, <3>2, TracksChain
  <2>. QED BY <2>7, <2>8 DEF j
<1>7. Nat \subseteq T
  <2>. HIDE DEF T
  <2>. QED BY <1>5, <1>6, SetInduction
<1>. QED BY <1>1, <1>2, <1>3, <1>4, <1>7

\* Creating, copying and decoding an object count its footprint; Drop takes it
\* back.
LEMMA ObjectTracks ==
  ASSUME NEW m \in Counters, NEW o \in Object, WellFormed(o)
  PROVE  /\ Tracks(m, Footprint(o), Gain(GainFilters(m, o), ObjectWeight(o)))
         /\ Tracks(m, Minus(Footprint(o)), DropObject(m, o))
         /\ Gain(GainFilters(m, o), ObjectWeight(o)) \in Counters
         /\ DropObject(m, o) \in Counters
<1> DEFINE w == ObjectWeight(o)
           u == FiltersWeight(o)
           x == Footprint(o)
<1>1. w \in Weights /\ u \in Weights /\ x \in Weights
  BY LastFilter, WeightsAreTyped, FootprintTyped
<1>2. \A c \in Names : x[c] = u[c] + w[c] /\ x[c] = w[c] + u[c]
  <2>1. /\ ObjectSize(o.vcap) \in Int /\ FiltersSize(o) \in Int
        /\ NumItems(o) \in Int /\ Capacity(o) \in Int /\ Len(o.filters) \in Int
    BY FootprintTyped, TermsTyped
  <2>. QED BY <2>1 DEF Names, Footprint, FiltersWeight, ObjectWeight, MemoryUsage
<1>. HIDE DEF w, u, x
<1>3. Tracks(m, x, Gain(GainFilters(m, o), w)) /\ Gain(GainFilters(m, o), w) \in Counters
  <2> DEFINE k == GainFilters(m, o)
  <2>1. k \in Counters /\ Tracks(m, u, k)
    BY GainFiltersTyped, FiltersTrack DEF u
  <2>. HIDE DEF k
  <2>2. Gain(k, w) \in Counters /\ Tracks(k, w, Gain(k, w))
    BY <1>1, <2>1, GainAndLose, GainTracks
  <2>3. Tracks(m, x, Gain(k, w))
    BY <1>1, <1>2, <2>1, <2>2, TracksChain
  <2>. QED BY <2>2, <2>3 DEF k
<1>4. Tracks(m, Minus(x), DropObject(m, o)) /\ DropObject(m, o) \in Counters
  <2> DEFINE k == Lose(m, w)
             l == LoseFilters(k, o)
  <2>1. /\ k \in Counters /\ Tracks(m, Minus(w), k)
        /\ Minus(w) \in Weights /\ Minus(u) \in Weights /\ Minus(x) \in Weights
    BY <1>1, GainAndLose, GainTracks
  <2>. HIDE DEF k
  <2>2. l \in Counters /\ Tracks(k, Minus(u), l)
    BY <2>1, LoseFiltersTyped, FiltersTrack DEF u
  <2>3. \A c \in Names : Minus(x)[c] = Minus(w)[c] + Minus(u)[c]
    BY <1>1, <1>2 DEF Minus, Weights
  <2>4. DropObject(m, o) = l
    BY DEF DropObject, k, w
  <2>. HIDE DEF l
  <2>. QED BY <2>1, <2>2, <2>3, <2>4, TracksChain
<1>. QED BY <1>3, <1>4 DEF w, x

(***************************** an add **************************************)

\* An add that finds room changes the last filter's count only.
LEMMA AddToLastFootprint ==
  ASSUME NEW o \in Object, WellFormed(o), NEW x \in Item, ~ Full(Last(o.filters))
  PROVE  LET a == AddToLast(o, x)
         IN  /\ Len(a.filters) = Len(o.filters) /\ a.vcap = o.vcap
             /\ NumItems(a) = NumItems(o) + 1
             /\ Capacity(a) = Capacity(o) /\ FiltersSize(a) = FiltersSize(o)
<1> DEFINE n == Len(o.filters)
           a == AddToLast(o, x)
           fs == [o.filters EXCEPT ![n] = Set(o.filters[n], x)]
<1>1. /\ n \in Nat \ {0} /\ o.filters \in Seq(Filter) /\ DOMAIN o.filters = 1..n
      /\ \A i \in 1..n : o.filters[i] \in Filter
  BY LastFilter DEF Object
<1>2. a \in Object /\ a = [o EXCEPT !.filters = fs]
  BY AddToLastPreserves DEF AddToLast
<1>3. a.filters = fs /\ a.vcap = o.vcap /\ DOMAIN fs = 1..n
  BY <1>1, <1>2 DEF Object
<1>4. \A i \in 1..n : /\ fs[i].fp = o.filters[i].fp
                      /\ fs[i].cap = o.filters[i].cap
                      /\ fs[i].num = IF i = n THEN o.filters[i].num + 1 ELSE o.filters[i].num
  BY <1>1, SetFilter
<1>5. Len(fs) = n
  <2>1. Set(o.filters[n], x) \in Filter
    BY <1>1, SetFilter
  <2>. QED BY <1>1, <2>1, ExceptSeq
<1>. HIDE DEF a, fs
<1>6. Caps(a) = Caps(o) /\ Sizes(a) = Sizes(o)
  BY <1>1, <1>3, <1>4 DEF Caps, Sizes
<1>7. NumItems(a) = NumItems(o) + 1
  <2>1. /\ Nums(o) \in Seq(Int) /\ Len(Nums(o)) = n /\ NumItems(o) = SumOf(Nums(o))
        /\ Nums(a) \in Seq(Int) /\ Len(Nums(a)) = n /\ NumItems(a) = SumOf(Nums(a))
    BY <1>2, <1>3, <1>5, TermsTyped
  <2>2. /\ \A i \in 1..n : i # n => Nums(a)[i] = Nums(o)[i]
        /\ Nums(a)[n] = o.filters[n].num + 1 /\ Nums(o)[n] = o.filters[n].num
    BY <1>1, <1>3, <1>4 DEF Nums
  <2>3. SumOf(Nums(a)) = SumOf(Nums(o)) + (Nums(a)[n] - Nums(o)[n])
    BY <1>1, <2>1, <2>2, SumLastChanged
  <2>4. o.filters[n].num \in Int
    BY <1>1, FilterFields
  <2>. QED BY <2>1, <2>2, <2>3, <2>4
<1>. QED BY <1>2, <1>3, <1>5, <1>6, <1>7, TermsTyped DEF a

\* A scale-out adds a filter that holds the item, and may reallocate the Vec.
LEMMA ScaledOutFootprint ==
  ASSUME NEW o \in Object, WellFormed(o), NEW x \in Item, Full(Last(o.filters)),
         o.expansion # 0, NextCapacity(o) <= CapacityMax
  PROVE  LET a == ScaledOut(o, x)
         IN  /\ Len(a.filters) = Len(o.filters) + 1 /\ a.vcap = PushedVec(o)
             /\ NumItems(a) = NumItems(o) + 1
             /\ Capacity(a) = Capacity(o) + NextCapacity(o)
             /\ FiltersSize(a) = FiltersSize(o) + FilterSize(NextCapacity(o), NextFp(o))
<1> DEFINE n == Len(o.filters)
           a == ScaledOut(o, x)
           new == NewFilter(NextFp(o), NextCapacity(o), SeedOf(o))
           fs == Append(o.filters, Set(new, x))
<1>1. n \in Nat \ {0} /\ o.filters \in Seq(Filter) /\ DOMAIN o.filters = 1..n
  BY LastFilter DEF Object
<1>2. /\ Set(new, x) \in Filter /\ Set(new, x).num = 1
      /\ Set(new, x).cap = NextCapacity(o) /\ Set(new, x).fp = NextFp(o)
  <2>1. new \in Filter
    BY NextFilter, LastFilter, NewFilterTyped
  <2>2. new.num = 0 /\ new.cap = NextCapacity(o) /\ new.fp = NextFp(o)
    BY DEF NewFilter
  <2>. HIDE DEF new
  <2>. QED BY <2>1, <2>2, SetFilter
<1>3. a \in Object /\ a = [o EXCEPT !.filters = fs, !.vcap = PushedVec(o)]
  BY ScaledOutPreserves DEF ScaledOut
<1>. HIDE DEF new, a
<1>4. a.filters = fs /\ a.vcap = PushedVec(o)
  BY <1>3 DEF Object
<1>5. /\ Len(fs) = n + 1 /\ DOMAIN fs = 1..(n + 1) /\ fs[n + 1] = Set(new, x)
      /\ \A i \in 1..n : fs[i] = o.filters[i]
  BY <1>1, <1>2, AppendProperties
<1>. HIDE DEF fs
<1>6. n + 1 \in 1..(n + 1) /\ \A i \in 1..n : i \in 1..(n + 1)
  BY <1>1
<1>7. /\ \A i \in 1..n : /\ Nums(a)[i] = Nums(o)[i]
                         /\ Caps(a)[i] = Caps(o)[i]
                         /\ Sizes(a)[i] = Sizes(o)[i]
      /\ Nums(a)[n + 1] = 1 /\ Caps(a)[n + 1] = NextCapacity(o)
      /\ Sizes(a)[n + 1] = FilterSize(NextCapacity(o), NextFp(o))
  BY <1>1, <1>2, <1>4, <1>5, <1>6 DEF Nums, Caps, Sizes
<1>8. /\ \A s \in {Nums(o), Caps(o), Sizes(o)} : s \in Seq(Int) /\ Len(s) = n
      /\ \A s \in {Nums(a), Caps(a), Sizes(a)} : s \in Seq(Int) /\ Len(s) = n + 1
      /\ NumItems(o) = SumOf(Nums(o)) /\ Capacity(o) = SumOf(Caps(o))
      /\ FiltersSize(o) = SumOf(Sizes(o))
      /\ NumItems(a) = SumOf(Nums(a)) /\ Capacity(a) = SumOf(Caps(a))
      /\ FiltersSize(a) = SumOf(Sizes(a))
  BY <1>3, <1>4, <1>5, TermsTyped
<1>9. /\ SumOf(Nums(a)) = SumOf(Nums(o)) + Nums(a)[n + 1]
      /\ SumOf(Caps(a)) = SumOf(Caps(o)) + Caps(a)[n + 1]
      /\ SumOf(Sizes(a)) = SumOf(Sizes(o)) + Sizes(a)[n + 1]
  BY <1>7, <1>8, SumOneMore
<1>. QED BY <1>4, <1>5, <1>7, <1>8, <1>9 DEF a

\* An add that meets no error makes the object hold one item more.
LEMMA AddCounts ==
  ASSUME NEW o \in Object, WellFormed(o), NEW x \in Item, NEW validate, NEW limit,
         AddError(o, validate, limit) = Ok
  PROVE  NumItems(AddItemUnchecked(o, x)) = NumItems(o) + 1
BY ScaleOutAllowed, AddToLastFootprint, ScaledOutFootprint DEF AddItemUnchecked

\* What p's footprint has more than o's.
Growth(o, p) == [c \in Names |-> Footprint(p)[c] - Footprint(o)[c]]

\* The difference of two footprints can be added to the counters.
LEMMA GrowthTyped ==
  ASSUME NEW o \in Object, NEW p \in Object
  PROVE  Growth(o, p) \in Weights
BY FootprintTyped DEF Growth, Weights

\* An add moves the counters by what the object grows by.
LEMMA AddTracks ==
  ASSUME NEW m \in Counters, NEW o \in Object, WellFormed(o), NEW x \in Item,
         NEW validate, NEW limit, AddError(o, validate, limit) = Ok
  PROVE  Tracks(m, Growth(o, AddItemUnchecked(o, x)), AddMetrics(m, o, x))
<1> DEFINE a == AddItemUnchecked(o, x)
           item == [NoMetrics EXCEPT !.items = 1]
           new == NewFilter(NextFp(o), NextCapacity(o), SeedOf(o))
           vec == [NoMetrics EXCEPT !.bytes = ObjectSize(PushedVec(o)) - ObjectSize(o.vcap)]
<1>1. a \in Object /\ Growth(o, a) \in Weights /\ item \in Weights
  BY AddPreserves, GrowthTyped, CountersDomain DEF Weights, Names
<1>2. /\ ObjectSize(o.vcap) \in Int /\ FiltersSize(o) \in Int /\ NumItems(o) \in Int
      /\ Capacity(o) \in Int /\ Len(o.filters) \in Int
      /\ ObjectSize(a.vcap) \in Int
  BY <1>1, FootprintTyped, TermsTyped
<1>3. CASE ~ Full(Last(o.filters))
  <2>1. /\ Len(a.filters) = Len(o.filters) /\ a.vcap = o.vcap
        /\ NumItems(a) = NumItems(o) + 1
        /\ Capacity(a) = Capacity(o) /\ FiltersSize(a) = FiltersSize(o)
    BY <1>3, AddToLastFootprint DEF AddItemUnchecked
  <2>2. AddMetrics(m, o, x) = Gain(m, item)
    BY <1>3 DEF AddMetrics
  <2>. HIDE DEF a
  <2>3. \A c \in Names : Growth(o, a)[c] = item[c]
    BY <1>2, <2>1 DEF Growth, Footprint, MemoryUsage, Names, NoMetrics
  <2>4. Growth(o, a) = item
    BY <1>1, <2>3 DEF Weights
  <2>. HIDE DEF item
  <2>. QED BY <1>1, <2>2, <2>4, GainTracks DEF a
<1>4. CASE Full(Last(o.filters))
  <2>1. o.expansion # 0 /\ NextCapacity(o) <= CapacityMax
    BY <1>4, ScaleOutAllowed
  <2>2. /\ Len(a.filters) = Len(o.filters) + 1 /\ a.vcap = PushedVec(o)
        /\ NumItems(a) = NumItems(o) + 1
        /\ Capacity(a) = Capacity(o) + NextCapacity(o)
        /\ FiltersSize(a) = FiltersSize(o) + FilterSize(NextCapacity(o), NextFp(o))
    BY <1>4, <2>1, ScaledOutFootprint DEF AddItemUnchecked
  <2>3. AddMetrics(m, o, x) = Gain(Gain(Gain(m, FilterWeight(new)), vec), item)
    BY <1>4 DEF AddMetrics
  <2>4. /\ NextCapacity(o) \in Int /\ FilterSize(NextCapacity(o), NextFp(o)) \in Int
        /\ new \in Filter
    <3>1. NextCapacity(o) \in 1..CapacityMax /\ NextFp(o) \in Nat \ {0} /\ SeedOf(o) \in Seeds
      BY <2>1, NextFilter, LastFilter
    <3>2. NextCapacity(o) \in Nat \ {0}
      BY <3>1, SizeAssumption
    <3>. QED BY <3>1, <3>2, SizesAreNatural, NewFilterTyped
  <2>5. FilterWeight(new) \in Weights /\ vec \in Weights
    <3>1. FilterWeight(new) \in Weights
      BY <2>4, WeightsAreTyped
    <3>2. ObjectSize(PushedVec(o)) - ObjectSize(o.vcap) \in Int
      BY <1>2, <2>2
    <3>. QED BY <3>1, <3>2, CountersDomain DEF Weights, Names
  <2> DEFINE w == FilterWeight(new)
             u == [c \in Names |-> w[c] + vec[c]]
  <2>6. u \in Weights
    BY <2>5 DEF Weights
  <2>7. /\ new.num = 0 /\ new.cap = NextCapacity(o) /\ new.fp = NextFp(o)
    BY DEF NewFilter
  <2>. HIDE DEF a, new
  <2>8. \A c \in Names : Growth(o, a)[c] = u[c] + item[c]
    <3> DEFINE size == FilterSize(NextCapacity(o), NextFp(o))
               slots == ObjectSize(PushedVec(o)) - ObjectSize(o.vcap)
    <3>1. /\ Growth(o, a)["objects"] = 0 /\ Growth(o, a)["filters"] = 1
          /\ Growth(o, a)["items"] = 1 /\ Growth(o, a)["capacity"] = NextCapacity(o)
          /\ Growth(o, a)["bytes"] = size + slots
      <4>1. \A c \in Names : Growth(o, a)[c] = Footprint(a)[c] - Footprint(o)[c]
        BY DEF Growth
      <4>2. /\ MemoryUsage(o) = ObjectSize(o.vcap) + FiltersSize(o)
            /\ MemoryUsage(a) = ObjectSize(PushedVec(o)) + (FiltersSize(o) + size)
        BY <2>2 DEF MemoryUsage
      <4>3. size \in Int /\ ObjectSize(PushedVec(o)) \in Int
        BY <1>2, <2>2, <2>4
      <4>. HIDE DEF size
      <4>4. Footprint(a)["bytes"] - Footprint(o)["bytes"] = size + slots
        BY <1>2, <4>2, <4>3 DEF Footprint
      <4>5. /\ Footprint(a)["objects"] - Footprint(o)["objects"] = 0
            /\ Footprint(a)["filters"] - Footprint(o)["filters"] = 1
            /\ Footprint(a)["items"] - Footprint(o)["items"] = 1
            /\ Footprint(a)["capacity"] - Footprint(o)["capacity"] = NextCapacity(o)
        BY <1>2, <2>2, <2>4 DEF Footprint
      <4>. QED BY <4>1, <4>4, <4>5 DEF Names
    <3>2. /\ w["objects"] = 0 /\ w["filters"] = 1 /\ w["items"] = 0
          /\ w["capacity"] = NextCapacity(o) /\ w["bytes"] = size
      BY <2>7 DEF FilterWeight
    <3>3. \A c \in Names : /\ vec[c] = IF c = "bytes" THEN slots ELSE 0
                           /\ item[c] = IF c = "items" THEN 1 ELSE 0
      BY DEF NoMetrics, Names
    <3>4. size \in Int /\ slots \in Int
      BY <1>2, <2>2, <2>4
    <3>. HIDE DEF w, vec, item, size, slots
    <3>. QED BY <2>4, <3>1, <3>2, <3>3, <3>4 DEF Names
  <2>9. \A c \in Names : u[c] = w[c] + vec[c]
    OBVIOUS
  <2>. HIDE DEF w, u, vec, item
  <2>10. w \in Weights
    BY <2>5 DEF w
  <2>11. Gain(m, w) \in Counters /\ Tracks(m, w, Gain(m, w))
    BY <2>10, GainAndLose, GainTracks
  <2> DEFINE k == Gain(m, w)
             l == Gain(k, vec)
  <2>12. l \in Counters /\ Tracks(k, vec, l)
    BY <2>5, <2>11, GainAndLose, GainTracks
  <2>13. Tracks(m, u, l)
    BY <2>5, <2>6, <2>9, <2>10, <2>11, <2>12, TracksChain
  <2>. HIDE DEF k, l
  <2>14. Gain(l, item) \in Counters /\ Tracks(l, item, Gain(l, item))
    BY <1>1, <2>12, GainAndLose, GainTracks
  <2>15. Tracks(m, Growth(o, a), Gain(l, item))
    BY <1>1, <2>6, <2>8, <2>12, <2>13, <2>14, TracksChain DEF a
  <2>. QED BY <2>3, <2>15 DEF k, l, w, a
<1>. QED BY <1>3, <1>4

(***************** the Vec that the projection charges for *****************)

\* The powers of two: what is in every set that holds 1 and is closed under
\* doubling.
PowersOfTwo ==
  {p \in Nat : \A S \in SUBSET Nat : 1 \in S /\ (\A q \in S : 2 * q \in S) => p \in S}

LEMMA PowersOfTwoGrow ==
  /\ 1 \in PowersOfTwo /\ PowersOfTwo \subseteq Nat \ {0}
  /\ \A p \in PowersOfTwo : 2 * p \in PowersOfTwo
  /\ \A p, q \in PowersOfTwo : p < q => 2 * p <= q
<1>1. 1 \in PowersOfTwo
  BY DEF PowersOfTwo
<1>2. ASSUME NEW p \in PowersOfTwo PROVE 2 * p \in PowersOfTwo
  <2>1. p \in Nat
    BY DEF PowersOfTwo
  <2>2. ASSUME NEW S \in SUBSET Nat, 1 \in S, \A q \in S : 2 * q \in S PROVE 2 * p \in S
    <3>1. p \in S
      BY <2>2 DEF PowersOfTwo
    <3>. QED BY <2>2, <3>1
  <2>. QED BY <2>1, <2>2 DEF PowersOfTwo
<1>3. ASSUME NEW S \in SUBSET Nat, 1 \in S, \A q \in S : 2 * q \in S
      PROVE  PowersOfTwo \subseteq S
  BY <1>3 DEF PowersOfTwo
<1>4. PowersOfTwo \subseteq Nat \ {0}
  <2> DEFINE S == Nat \ {0}
  <2>1. S \in SUBSET Nat /\ 1 \in S /\ \A q \in S : 2 * q \in S
    OBVIOUS
  <2>. HIDE DEF S
  <2>2. PowersOfTwo \subseteq S
    BY <1>3, <2>1
  <2>. QED BY <2>2 DEF S
<1>5. ASSUME NEW q \in PowersOfTwo
      PROVE  q = 1 \/ \E p \in PowersOfTwo : q = 2 * p
  <2> DEFINE S == {r \in Nat : r = 1 \/ \E p \in PowersOfTwo : r = 2 * p}
  <2>1. \A r \in S : r \in PowersOfTwo
    BY <1>1, <1>2
  <2>2. S \in SUBSET Nat /\ 1 \in S
    OBVIOUS
  <2>3. \A r \in S : 2 * r \in S
    BY <2>1
  <2>. HIDE DEF S
  <2>4. PowersOfTwo \subseteq S
    BY <1>3, <2>2, <2>3
  <2>. QED BY <2>4 DEF S
<1>6. \A p, q \in PowersOfTwo : p < q => 2 * p <= q
  <2> DEFINE S == {p \in PowersOfTwo : \A q \in PowersOfTwo : p < q => 2 * p <= q}
  <2>1. S \in SUBSET Nat
    BY <1>4
  <2>2. 1 \in S
    BY <1>1, <1>4
  <2>3. ASSUME NEW p \in S PROVE 2 * p \in S
    <3>1. p \in PowersOfTwo /\ p \in Nat /\ 2 * p \in PowersOfTwo
      BY <1>2, <1>4
    <3>2. ASSUME NEW q \in PowersOfTwo, 2 * p < q PROVE 2 * (2 * p) <= q
      <4>1. q \in Nat \ {0} /\ q # 1
        BY <1>4, <3>1, <3>2
      <4>2. PICK r \in PowersOfTwo : q = 2 * r
        BY <1>5, <4>1
      <4>3. r \in Nat /\ p < r
        BY <1>4, <3>1, <3>2, <4>2
      <4>4. 2 * p <= r
        BY <4>3
      <4>. QED BY <3>1, <4>2, <4>3, <4>4
    <3>. QED BY <3>1, <3>2
  <2>. HIDE DEF S
  <2>4. PowersOfTwo \subseteq S
    BY <1>3, <2>1, <2>2, <2>3
  <2>. QED BY <2>4 DEF S
<1>. QED BY <1>1, <1>2, <1>4, <1>6

\* The projection rounds a length up to a power of two.
LEMMA NextPowerOfTwoRounds ==
  ASSUME NEW n \in Nat \ {0}
  PROVE  NextPowerOfTwo(n) \in PowersOfTwo /\ NextPowerOfTwo(n) >= n
<1> DEFINE step == [i \in 1..n |-> [p \in Nat |-> 2 * p]]
           one == 1
           R(g) == g = [k \in 0..n |-> IF k = 0 THEN 1 ELSE 2 * g[k - 1]]
<1>1. step \in [1..n -> [Nat -> Nat]] /\ one \in Nat
  OBVIOUS
<1>2. PICK g \in [0..n -> Nat] : g[0] = one /\ \A i \in 1..n : g[i] = step[i][g[i - 1]]
  <2>. HIDE DEF step, one
  <2>1. Iterates(n, Nat, one, step)
    BY <1>1, IterationExists
  <2>. QED BY <2>1 DEF Iterates
<1>3. R(g)
  <2>1. \A i \in 1..n : g[i - 1] \in Nat
    OBVIOUS
  <2>2. \A i \in 1..n : g[i] = 2 * g[i - 1]
    BY <1>2, <2>1
  <2>3. g = [i \in 0..n |-> g[i]]
    OBVIOUS
  <2>4. \A i \in 0..n : g[i] = IF i = 0 THEN 1 ELSE 2 * g[i - 1]
    BY <1>2, <2>2
  <2>. HIDE DEF step, one
  <2>. QED BY <2>3, <2>4
<1> DEFINE power == CHOOSE g_ : R(g_)
<1>4. R(power)
  BY <1>3
<1> DEFINE ps == {power[k] : k \in 0..n} \ 0..(n - 1)
<1>5. NextPowerOfTwo(n) = Min(ps)
  BY DEF NextPowerOfTwo
<1>. HIDE DEF power
<1>6. power[0] = 1 /\ \A k \in 1..n : power[k] = 2 * power[k - 1]
  BY <1>4
<1> DEFINE T == {k \in Nat : k <= n => power[k] \in PowersOfTwo /\ power[k] >= k}
<1>7. Nat \subseteq T
  <2>1. 0 \in T
    BY <1>6, PowersOfTwoGrow
  <2>2. ASSUME NEW k \in Nat, k \in T PROVE k + 1 \in T
    <3>1. SUFFICES ASSUME k + 1 <= n
                   PROVE  power[k + 1] \in PowersOfTwo /\ power[k + 1] >= k + 1
      OBVIOUS
    <3>2. k + 1 \in 1..n /\ (k + 1) - 1 = k
      BY <3>1
    <3>3. power[k + 1] = 2 * power[k] /\ power[k] \in PowersOfTwo /\ power[k] >= k
      BY <1>6, <2>2, <3>1, <3>2
    <3>4. power[k] \in Nat \ {0}
      BY <3>3, PowersOfTwoGrow
    <3>5. 2 * power[k] \in PowersOfTwo
      BY <3>3, PowersOfTwoGrow
    <3>6. 2 * power[k] >= k + 1
      BY <3>3, <3>4
    <3>. QED BY <3>3, <3>5, <3>6
  <2>. HIDE DEF T
  <2>. QED BY <2>1, <2>2, SetInduction
<1>8. \A k \in 0..n : power[k] \in PowersOfTwo /\ power[k] \in Nat /\ power[k] >= k
  <2>1. SUFFICES ASSUME NEW k \in 0..n
                 PROVE  power[k] \in PowersOfTwo /\ power[k] \in Nat /\ power[k] >= k
    OBVIOUS
  <2>2. k \in T
    BY <1>7
  <2>3. power[k] \in PowersOfTwo /\ power[k] >= k
    BY <2>2
  <2>. QED BY <2>3, PowersOfTwoGrow
<1>9. ps \in SUBSET Nat /\ power[n] \in ps
  BY <1>8
<1>10. PICK x \in ps : \A y \in ps : x <= y
  BY <1>9, LeastNat
<1>11. Min(ps) \in ps
  BY <1>10 DEF Min
<1>. HIDE DEF ps
<1>12. NextPowerOfTwo(n) \in ps
  BY <1>5, <1>11
<1>. QED BY <1>8, <1>12 DEF ps

LEMMA ProjectedVecRounds ==
  ASSUME NEW n \in Nat
  PROVE  /\ ProjectedVec(n) \in PowersOfTwo /\ ProjectedVec(n) \in Nat
         /\ n > 0 => ProjectedVec(n) >= 4 /\ ProjectedVec(n) > n
<1>1. CASE n = 0
  BY <1>1, PowersOfTwoGrow DEF ProjectedVec
<1>2. CASE n # 0
  <2>1. /\ Max({4, n + 1}) \in Nat /\ Max({4, n + 1}) >= 4 /\ Max({4, n + 1}) >= n + 1
    BY MaxOfTwo
  <2> DEFINE most == Max({4, n + 1})
             p == NextPowerOfTwo(most)
  <2>. HIDE DEF most
  <2>2. p \in PowersOfTwo /\ p >= most
    BY <2>1, NextPowerOfTwoRounds DEF most
  <2>3. ProjectedVec(n) = p
    BY <1>2 DEF ProjectedVec, most
  <2>4. p \in Nat
    BY <2>2, PowersOfTwoGrow
  <2>. HIDE DEF p
  <2>. QED BY <2>1, <2>2, <2>3, <2>4 DEF most
<1>. QED BY <1>1, <1>2

\* The capacity w of a Vec that n filters were pushed onto, one by one, from the
\* capacity 1 on: no reallocation gave up a slot.
Pushed(w, n) ==
  /\ w \in PowersOfTwo /\ n <= w
  /\ n < 2 => w = 1
  /\ n >= 2 => w >= 4 /\ (w = 4 \/ w < 2 * n)

\* RawVec grows a Vec that was only pushed onto to one that was only pushed onto.
LEMMA PushedOnce ==
  ASSUME NEW n \in Nat, NEW w, Pushed(w, n)
  PROVE  Pushed(IF n < w THEN w ELSE Max({2 * w, 4}), n + 1)
<1>1. w \in PowersOfTwo /\ w \in Nat \ {0} /\ 2 * w \in PowersOfTwo
  BY PowersOfTwoGrow DEF Pushed
<1>2. CASE n < w
  BY <1>1, <1>2 DEF Pushed
<1>3. CASE ~ (n < w)
  <2>1. w = n /\ n # 0
    BY <1>1, <1>3 DEF Pushed
  <2>2. CASE n = 1
    <3>1. 4 \in PowersOfTwo /\ Max({2 * w, 4}) = 4
      <4>1. 2 * (2 * w) \in PowersOfTwo /\ 2 * (2 * w) = 4
        BY <1>1, <2>1, <2>2, PowersOfTwoGrow
      <4>. QED BY <2>1, <2>2, <4>1 DEF Max
    <3>. QED BY <1>3, <2>2, <3>1 DEF Pushed
  <2>3. CASE n >= 2
    <3>1. Max({2 * w, 4}) = 2 * w
      BY <1>1, <2>1, <2>3 DEF Max
    <3>. QED BY <1>1, <1>3, <2>1, <2>3, <3>1 DEF Pushed
  <2>. QED BY <2>1, <2>2, <2>3
<1>. QED BY <1>2, <1>3

LEMMA PushedUniquely ==
  ASSUME NEW n \in Nat, NEW w, Pushed(w, n), NEW u, Pushed(u, n)
  PROVE  w = u
<1>1. w \in PowersOfTwo /\ u \in PowersOfTwo /\ w \in Nat \ {0} /\ u \in Nat \ {0}
  BY PowersOfTwoGrow DEF Pushed
<1>2. (w < u => 2 * w <= u) /\ (u < w => 2 * u <= w)
  BY <1>1, PowersOfTwoGrow
<1>. QED BY <1>1, <1>2 DEF Pushed

\* The projection charges for no less than a Vec that was only pushed onto.
LEMMA PushedIsProjected ==
  ASSUME NEW n \in Nat, NEW w, Pushed(w, n)
  PROVE  w \in Nat \ {0} /\ w <= ProjectedVec(n)
<1>1. w \in PowersOfTwo /\ w \in Nat \ {0}
  BY PowersOfTwoGrow DEF Pushed
<1>2. CASE n = 0
  BY <1>1, <1>2 DEF Pushed, ProjectedVec
<1>3. CASE n # 0
  <2> DEFINE p == ProjectedVec(n)
  <2>1. p \in PowersOfTwo /\ p \in Nat /\ p >= 4 /\ p > n
    BY <1>3, ProjectedVecRounds
  <2>. HIDE DEF p
  <2>2. p < w => 2 * p <= w
    BY <1>1, <2>1, PowersOfTwoGrow
  <2>3. w <= p
    BY <1>1, <2>1, <2>2 DEF Pushed
  <2>. QED BY <1>1, <2>3 DEF p
<1>. QED BY <1>2, <1>3

(*************** the projection of what an object may hold *****************)

\* The layout after s: the filter of capacity s.cap is laid out, too.
NextLayout(s, startFp, tr, expansion) ==
  [n |-> s.n + 1, cap |-> s.cap * expansion, total |-> s.total + s.cap,
   bytes |-> s.bytes + FilterSize(s.cap, FpRate(startFp, s.n, tr))]

\* What stops the loop of calculate_max_scaled_capacity at s, in its order.
TargetReached(s, target) == target # NoTarget /\ s.total >= target

TooLarge(s, startFp, tr, expansion, limit) ==
  ObjectSize(ProjectedVec(s.n)) + NextLayout(s, startFp, tr, expansion).bytes > limit

\* What the loop returns at s, if it returns further from the layout after it.
Turned(s, further, startFp, target, tr, expansion, limit) ==
  LET stop(err) == IF target = NoTarget THEN [err |-> Ok, capacity |-> s.total]
                                        ELSE [err |-> err, capacity |-> 0]
  IN  IF TargetReached(s, target) THEN [err |-> Ok, capacity |-> s.total]
      ELSE IF FpReachesZero(FpRate(startFp, s.n, tr))
      THEN stop("ValidateScaleToFalsePositiveInvalid")
      ELSE IF TooLarge(s, startFp, tr, expansion, limit) THEN stop("ValidateScaleToExceedsMaxSize")
      ELSE IF NextLayout(s, startFp, tr, expansion).cap > CapacityMax
      THEN [err |-> "BadCapacity", capacity |-> 0]
      ELSE further

\* loop is what calculate_max_scaled_capacity computes, turn by turn.
Projecting(loop, startFp, target, tr, expansion, limit) ==
  \A s \in Layout :
    loop[s] = Turned(s, loop[NextLayout(s, startFp, tr, expansion)],
                     startFp, target, tr, expansion, limit)

StartLayout(cap) == [n |-> 0, cap |-> cap, total |-> 0, bytes |-> 0]

LEMMA FilterTakesBytes ==
  ASSUME NEW cap \in Nat, NEW startFp \in Nat, NEW n \in Nat, NEW tr \in Nat
  PROVE  LET size == FilterSize(cap, FpRate(startFp, n, tr))
         IN  size \in Nat /\ size >= FilterBytes
<1> DEFINE fp == FpRate(startFp, n, tr)
           a == 18 * cap * fp
<1>1. n * tr \in Nat
  OBVIOUS
<1>2. fp \in Nat
  BY <1>1 DEF FpRate
<1>. HIDE DEF fp
<1>3. a \in Nat
  BY <1>2
<1>4. BitmapBytes(cap, fp) = (a + 99) \div 100
  BY DEF BitmapBytes
<1>. HIDE DEF a
<1>5. BitmapBytes(cap, fp) \in Nat
  BY <1>3, <1>4
<1>. QED BY <1>5, SizeAssumption DEF FilterSize, fp

\* A layout goes on to one that takes more bytes; one that takes more than the
\* limit is too large.
LEMMA LayoutGrows ==
  ASSUME NEW s \in Layout, NEW startFp \in Nat, NEW tr \in Nat, NEW expansion \in Nat,
         NEW limit \in Nat
  PROVE  LET t == NextLayout(s, startFp, tr, expansion)
         IN  /\ t \in Layout /\ t.bytes >= s.bytes + FilterBytes
             /\ t.bytes > limit => TooLarge(s, startFp, tr, expansion, limit)
<1> DEFINE size == FilterSize(s.cap, FpRate(startFp, s.n, tr))
           t == NextLayout(s, startFp, tr, expansion)
<1>1. s.n \in Nat /\ s.cap \in Nat /\ s.total \in Nat /\ s.bytes \in Nat
  BY DEF Layout
<1>2. size \in Nat /\ size >= FilterBytes
  BY <1>1, FilterTakesBytes
<1>3. s.cap * expansion \in Nat
  BY <1>1
<1>. HIDE DEF size
<1>4. t = [n |-> s.n + 1, cap |-> s.cap * expansion, total |-> s.total + s.cap,
           bytes |-> s.bytes + size]
  BY DEF NextLayout, size
<1>5. t \in Layout /\ t.bytes >= s.bytes + FilterBytes
  BY <1>1, <1>2, <1>3, <1>4, SizeAssumption DEF Layout
<1>6. ObjectSize(ProjectedVec(s.n)) \in Nat
  BY <1>1, ProjectedVecRounds, ObjectSizeIsNatural
<1>. HIDE DEF t
<1>7. t.bytes > limit => TooLarge(s, startFp, tr, expansion, limit)
  <2>1. t.bytes \in Nat
    BY <1>5 DEF Layout
  <2>. QED BY <1>6, <2>1 DEF TooLarge, t
<1>. QED BY <1>5, <1>7 DEF t

\* The loop ends, since every turn lays out bytes: what it computes exists.
LEMMA ProjectTurns ==
  ASSUME NEW startCap, NEW startFp \in Nat, NEW target, NEW tr \in Nat,
         NEW expansion \in Nat, NEW limit \in Nat
  PROVE  \E loop : /\ Projecting(loop, startFp, target, tr, expansion, limit)
                   /\ Project(startCap, startFp, target, tr, expansion, limit)
                        = loop[StartLayout(startCap)]
<1> DEFINE F == FilterBytes
           after(s) == NextLayout(s, startFp, tr, expansion)
           Turn(g, s) == Turned(s, g[after(s)], startFp, target, tr, expansion, limit)
           After(g) == [s \in Layout |-> Turn(g, s)]
           Solves(g, k) ==
             /\ g = [s \in Layout |-> g[s]]
             /\ \A s \in Layout : s.bytes + k * F > limit => g[s] = Turn(g, s)
           T == {k \in Nat : \E g : Solves(g, k)}
<1>1. F \in Nat \ {0}
  BY SizeAssumption
<1>2. ASSUME NEW s \in Layout
      PROVE  /\ after(s) \in Layout /\ after(s).bytes >= s.bytes + F
             /\ after(s).bytes > limit => TooLarge(s, startFp, tr, expansion, limit)
  BY LayoutGrows
<1>3. ASSUME NEW s \in Layout
      PROVE  s.bytes \in Nat /\ after(s).bytes \in Nat
  BY <1>2 DEF Layout
<1>4. ASSUME NEW g, NEW h, NEW s \in Layout, after(s).bytes <= limit => g[after(s)] = h[after(s)]
      PROVE  Turn(g, s) = Turn(h, s)
  <2>1. CASE after(s).bytes <= limit
    BY <1>4, <2>1
  <2>2. CASE ~ (after(s).bytes <= limit)
    <3>1. TooLarge(s, startFp, tr, expansion, limit)
      BY <1>2, <1>3, <2>2
    <3>. QED BY <3>1 DEF Turned
  <2>. QED BY <2>1, <2>2
<1>. HIDE DEF Turn, after
<1>5. \A g : /\ After(g) = [s \in Layout |-> After(g)[s]]
             /\ \A s \in Layout : After(g)[s] = Turn(g, s)
  OBVIOUS
<1>6. 0 \in T
  <2> DEFINE g == [s \in Layout |-> 0]
             h == After(g)
  <2>1. \A s \in Layout : s.bytes > limit => h[s] = Turn(h, s)
    <3>. TAKE s \in Layout
    <3>1. HAVE s.bytes > limit
    <3>2. ~ (after(s).bytes <= limit)
      BY <1>1, <1>2, <1>3, <3>1
    <3>. HIDE DEF h, g
    <3>3. Turn(g, s) = Turn(h, s)
      BY <1>4, <3>2
    <3>. QED BY <1>5, <3>3 DEF h
  <2>2. Solves(h, 0)
    <3>. HIDE DEF g, After
    <3>. QED BY <1>1, <1>3, <1>5, <2>1
  <2>. HIDE DEF Solves, h
  <2>. QED BY <2>2
<1>7. ASSUME NEW k \in Nat, k \in T PROVE k + 1 \in T
  <2>1. PICK g : Solves(g, k)
    BY <1>7
  <2> DEFINE h == After(g)
  <2>2. \A s \in Layout : s.bytes + (k + 1) * F > limit => h[s] = Turn(h, s)
    <3>. TAKE s \in Layout
    <3>1. HAVE s.bytes + (k + 1) * F > limit
    <3>2. after(s) \in Layout /\ after(s).bytes \in Nat /\ after(s).bytes >= s.bytes + F
      BY <1>2, <1>3
    <3>3. (k + 1) * F = k * F + F /\ k * F \in Nat
      BY <1>1
    <3>4. after(s).bytes + k * F > limit
      <4>. HIDE DEF F
      <4>. QED BY <1>1, <1>3, <3>1, <3>2, <3>3
    <3>5. g[after(s)] = h[after(s)]
      <4>1. g[after(s)] = Turn(g, after(s))
        BY <2>1, <3>2, <3>4
      <4>. HIDE DEF After
      <4>. QED BY <1>5, <3>2, <4>1
    <3>. HIDE DEF h
    <3>6. Turn(g, s) = Turn(h, s)
      BY <1>4, <3>5
    <3>. QED BY <1>5, <3>6 DEF h
  <2>3. Solves(h, k + 1)
    <3>. HIDE DEF After, F
    <3>. QED BY <1>5, <2>2
  <2>. HIDE DEF Solves, h
  <2>. QED BY <2>3
<1>8. limit + 1 \in T
  <2>. HIDE DEF T
  <2>. QED BY <1>6, <1>7, SetInduction
<1>9. PICK g : Solves(g, limit + 1)
  BY <1>8
<1>10. \A s \in Layout : g[s] = Turn(g, s)
  <2>1. \A s \in Layout : s.bytes + (limit + 1) * F > limit
    <3>1. (limit + 1) * F >= limit + 1 /\ (limit + 1) * F \in Nat
      BY <1>1
    <3>. HIDE DEF F
    <3>. QED BY <1>3, <3>1
  <2>. HIDE DEF F
  <2>. QED BY <1>9, <2>1
<1>11. g = After(g)
  BY <1>9, <1>10
<1> DEFINE loop == CHOOSE loop_ : loop_ = After(loop_)
<1>12. loop = After(loop)
  <2>. HIDE DEF After
  <2>. QED BY <1>11
<1>13. Project(startCap, startFp, target, tr, expansion, limit) = loop[StartLayout(startCap)]
  BY DEF Project, Turned, Turn, after, NextLayout, TargetReached, TooLarge, StartLayout
<1>14. Projecting(loop, startFp, target, tr, expansion, limit)
  <2>1. \A s \in Layout : loop[s] = Turn(loop, s)
    <3>. HIDE DEF loop
    <3>. QED BY <1>5, <1>12
  <2>. HIDE DEF loop
  <2>. QED BY <2>1 DEF Projecting, Turn, after
<1>. HIDE DEF loop
<1>. QED BY <1>13, <1>14

\* Before its target the loop returns Ok only from a turn that goes on.
LEMMA TurnGoesOn ==
  ASSUME NEW loop, NEW startFp, NEW target \in Nat, NEW tr, NEW expansion, NEW limit,
         Projecting(loop, startFp, target, tr, expansion, limit),
         NEW s \in Layout, loop[s].err = Ok, s.total < target
  PROVE  /\ ~ FpReachesZero(FpRate(startFp, s.n, tr))
         /\ ~ TooLarge(s, startFp, tr, expansion, limit)
         /\ ~ (NextLayout(s, startFp, tr, expansion).cap > CapacityMax)
         /\ loop[NextLayout(s, startFp, tr, expansion)].err = Ok
<1> DEFINE t == NextLayout(s, startFp, tr, expansion)
           large == TooLarge(s, startFp, tr, expansion, limit)
           zero == FpReachesZero(FpRate(startFp, s.n, tr))
           stop(err) == [err |-> err, capacity |-> 0]
<1>1. ~ TargetReached(s, target) /\ target # NoTarget
  <2>1. s.total \in Nat
    BY DEF Layout
  <2>. QED BY <2>1 DEF TargetReached, NoTarget
<1>2. loop[s] = IF zero THEN stop("ValidateScaleToFalsePositiveInvalid")
                ELSE IF large THEN stop("ValidateScaleToExceedsMaxSize")
                ELSE IF t.cap > CapacityMax THEN stop("BadCapacity")
                ELSE loop[t]
  BY <1>1 DEF Projecting, Turned
<1>. HIDE DEF zero, large, t
<1>3. ~ zero /\ ~ large /\ ~ (t.cap > CapacityMax) /\ loop[t].err = Ok
  BY <1>2 DEF Ok
<1>. QED BY <1>3 DEF zero, large, t

\* L are the layouts the projection meets on the way to o: those of o's first
\* filters, as many as there are in turn.
LayoutsOf(o, L) ==
  /\ L \in [0..Len(o.filters) -> Layout]
  /\ L[0] = StartLayout(o.filters[1].cap)
  /\ \A i \in 1..Len(o.filters) : L[i] = NextLayout(L[i - 1], o.fp, o.tr, o.expansion)
  /\ \A i \in 0..Len(o.filters) :
       L[i].n = i /\ (i < Len(o.filters) => L[i].total < Capacity(o))
  /\ L[Len(o.filters)] = [n |-> Len(o.filters), cap |-> NextCapacity(o),
                          total |-> Capacity(o), bytes |-> FiltersSize(o)]

LEMMA LayoutsExist ==
  ASSUME NEW o \in Object, WellFormed(o)
  PROVE  \E L : LayoutsOf(o, L)
<1> DEFINE n == Len(o.filters)
           cap(i) == IF i < n THEN o.filters[i + 1].cap ELSE NextCapacity(o)
<1>1. /\ n \in Nat \ {0} /\ \A i \in 1..n : o.filters[i] \in Filter
      /\ Last(o.filters) = o.filters[n] /\ DOMAIN o.filters = 1..n
  BY LastFilter
<1>2. \A i \in 1..n : o.filters[i].cap \in Nat \ {0}
  BY <1>1, FilterFields
<1>3. o.fp \in Nat /\ o.tr \in Nat /\ o.expansion \in Nat
  BY DEF Object
<1>4. /\ Caps(o) \in Seq(Int) /\ Len(Caps(o)) = n /\ Capacity(o) = SumOf(Caps(o))
      /\ Sizes(o) \in Seq(Int) /\ Len(Sizes(o)) = n /\ FiltersSize(o) = SumOf(Sizes(o))
      /\ \A i \in 1..n : Sizes(o)[i] \in Nat
  BY TermsTyped
<1>5. PICK C : PartialSums(Caps(o), C) /\ SumOf(Caps(o)) = C[n]
  BY <1>4, SumHasPrefixes
<1>6. PICK S : PartialSums(Sizes(o), S) /\ SumOf(Sizes(o)) = S[n]
  BY <1>4, SumHasPrefixes
<1>7. \A i \in 1..n : Caps(o)[i] = o.filters[i].cap
                      /\ Sizes(o)[i] = FilterSize(o.filters[i].cap, o.filters[i].fp)
  BY <1>1 DEF Caps, Sizes
<1>8. C \in [0..n -> Int] /\ C[0] = 0 /\ \A i \in 1..n : C[i] = C[i - 1] + o.filters[i].cap
  BY <1>4, <1>5, <1>7 DEF PartialSums
<1>9. /\ S \in [0..n -> Int] /\ S[0] = 0
      /\ \A i \in 1..n : S[i] = S[i - 1] + FilterSize(o.filters[i].cap, o.filters[i].fp)
  BY <1>4, <1>6, <1>7 DEF PartialSums
<1>10. \A i \in 1..n : FilterSize(o.filters[i].cap, o.filters[i].fp) \in Nat
  BY <1>4, <1>7
<1>11. \A i \in 1..n : o.filters[i].fp = FpRate(o.fp, i - 1, o.tr)
  BY <1>1 DEF WellFormed, FpRate
<1>12. \A i \in 1..n : cap(i) = o.filters[i].cap * o.expansion
  BY <1>1 DEF WellFormed, NextCapacity
<1>13. \A i \in 1..n : cap(i - 1) = o.filters[i].cap
  BY <1>1
<1>14. \A i \in 0..n : cap(i) \in Nat
  <2>1. NextCapacity(o) \in Nat
    <3>1. o.filters[n].cap \in Nat
      BY <1>1, <1>2
    <3>2. o.filters[n].cap * o.expansion \in Nat
      BY <1>3, <3>1
    <3>. QED BY <1>1, <3>2 DEF NextCapacity
  <2>. QED BY <1>1, <1>2, <2>1
<1>15. \A i \in 0..n : C[i] \in Nat /\ S[i] \in Nat /\ (i < n => C[i] < C[n])
  <2> DEFINE T == {i \in Nat : i <= n => C[i] \in Nat /\ S[i] \in Nat}
             U == {k \in Nat : 0 < k /\ k <= n => C[n - k] < C[n]}
  <2>1. 0 \in T
    BY <1>8, <1>9
  <2>2. ASSUME NEW i \in Nat, i \in T PROVE i + 1 \in T
    <3>1. SUFFICES ASSUME i + 1 <= n PROVE C[i + 1] \in Nat /\ S[i + 1] \in Nat
      OBVIOUS
    <3>2. i + 1 \in 1..n /\ (i + 1) - 1 = i /\ C[i] \in Nat /\ S[i] \in Nat
      BY <1>1, <2>2, <3>1
    <3>3. C[i + 1] = C[i] + o.filters[i + 1].cap /\ o.filters[i + 1].cap \in Nat
      BY <1>2, <1>8, <3>2
    <3>4. S[i + 1] = S[i] + FilterSize(o.filters[i + 1].cap, o.filters[i + 1].fp)
      BY <1>9, <3>2
    <3>. QED BY <1>10, <3>2, <3>3, <3>4
  <2>3. 0 \in U
    OBVIOUS
  <2>4. ASSUME NEW k \in Nat, k \in U PROVE k + 1 \in U
    <3>1. SUFFICES ASSUME k + 1 <= n PROVE C[n - (k + 1)] < C[n]
      OBVIOUS
    <3>2. n - k \in 1..n /\ (n - k) - 1 = n - (k + 1) /\ n - (k + 1) \in 0..n /\ n \in 0..n
      BY <1>1, <3>1
    <3>3. C[n - k] = C[n - (k + 1)] + o.filters[n - k].cap /\ o.filters[n - k].cap \in Nat \ {0}
      BY <1>2, <1>8, <3>2
    <3>4. C[n - k] <= C[n] /\ C[n - k] \in Int /\ C[n - (k + 1)] \in Int /\ C[n] \in Int
      <4>1. k = 0 \/ C[n - k] < C[n]
        BY <2>4, <3>1, <1>1
      <4>2. k = 0 => n - k = n
        BY <1>1
      <4>3. C[n - k] \in Int /\ C[n - (k + 1)] \in Int /\ C[n] \in Int
        <5>1. n - k \in 0..n
          BY <1>1, <3>2
        <5>. HIDE DEF n
        <5>. QED BY <1>8, <3>2, <5>1
      <4>4. C[n - k] = C[n] \/ C[n - k] < C[n]
        BY <4>1, <4>2
      <4>. QED BY <4>3, <4>4
    <3>. QED BY <3>3, <3>4
  <2>5. Nat \subseteq T /\ Nat \subseteq U
    <3>. HIDE DEF T, U
    <3>. QED BY <2>1, <2>2, <2>3, <2>4, SetInduction
  <2>6. SUFFICES ASSUME NEW i \in 0..n
                 PROVE  C[i] \in Nat /\ S[i] \in Nat /\ (i < n => C[i] < C[n])
    OBVIOUS
  <2>7. i \in Nat /\ n - i \in Nat /\ n - (n - i) = i /\ i <= n /\ n - i <= n
    BY <1>1, <2>6
  <2>8. i \in T /\ n - i \in U
    <3>. HIDE DEF T, U
    <3>. QED BY <2>5, <2>7
  <2>9. C[i] \in Nat /\ S[i] \in Nat
    BY <2>7, <2>8
  <2>10. i < n => 0 < n - i
    BY <1>1, <2>6
  <2>11. i < n => C[n - (n - i)] < C[n]
    BY <2>7, <2>8, <2>10
  <2>. QED BY <2>7, <2>9, <2>11
<1> DEFINE L == [i \in 0..n |-> [n |-> i, cap |-> cap(i), total |-> C[i], bytes |-> S[i]]]
<1>16. L \in [0..n -> Layout]
  <2>. HIDE DEF cap
  <2>. QED BY <1>14, <1>15 DEF Layout
<1>17. L[0] = StartLayout(o.filters[1].cap)
  <2>1. cap(0) = o.filters[1].cap
    BY <1>1
  <2>. HIDE DEF cap
  <2>. QED BY <1>1, <1>8, <1>9, <2>1 DEF StartLayout
<1>18. \A i \in 1..n : L[i] = NextLayout(L[i - 1], o.fp, o.tr, o.expansion)
  <2>. TAKE i \in 1..n
  <2>1. L[i - 1] = [n |-> i - 1, cap |-> o.filters[i].cap, total |-> C[i - 1], bytes |-> S[i - 1]]
    <3>. HIDE DEF cap
    <3>. QED BY <1>1, <1>13
  <2>2. L[i] = [n |-> i, cap |-> o.filters[i].cap * o.expansion,
                total |-> C[i - 1] + o.filters[i].cap,
                bytes |-> S[i - 1] + FilterSize(o.filters[i].cap, FpRate(o.fp, i - 1, o.tr))]
    <3>. HIDE DEF cap
    <3>. QED BY <1>1, <1>8, <1>9, <1>11, <1>12
  <2>3. (i - 1) + 1 = i
    OBVIOUS
  <2>. HIDE DEF L
  <2>. QED BY <2>1, <2>2, <2>3 DEF NextLayout
<1>19. L[n] = [n |-> n, cap |-> NextCapacity(o), total |-> Capacity(o), bytes |-> FiltersSize(o)]
  BY <1>1, <1>4, <1>5, <1>6
<1>20. \A i \in 0..n : L[i].n = i /\ (i < n => L[i].total < Capacity(o))
  BY <1>4, <1>5, <1>15
<1>. HIDE DEF L
<1>. QED BY <1>16, <1>17, <1>18, <1>19, <1>20 DEF LayoutsOf

\* The filters of an object take at least the bytes of their structures.
LEMMA FiltersTakeBytes ==
  ASSUME NEW o \in Object, WellFormed(o)
  PROVE  FiltersSize(o) \in Nat /\ FiltersSize(o) >= Len(o.filters) * FilterBytes
<1> DEFINE n == Len(o.filters)
<1>1. n \in Nat \ {0} /\ FilterBytes \in Nat /\ FiltersSize(o) \in Nat
  BY LastFilter, SizeAssumption, FootprintTyped
<1>2. \A i \in 1..n : Sizes(o)[i] >= FilterBytes
  <2>1. ASSUME NEW i \in 1..n PROVE Sizes(o)[i] >= FilterBytes
    <3>1. i \in DOMAIN o.filters /\ o.filters[i] \in Filter
      BY TermsTyped DEF Object
    <3>2. o.filters[i].cap \in Nat \ {0} /\ o.filters[i].fp \in Nat \ {0}
      BY <3>1, SizeAssumption DEF Filter
    <3>3. BitmapBytes(o.filters[i].cap, o.filters[i].fp) \in Nat
      BY <3>2, SizesAreNatural
    <3>. QED BY <1>1, <3>1, <3>3 DEF Sizes, FilterSize
  <2>. QED BY <2>1
<1>3. Sizes(o) \in Seq(Int) /\ Len(Sizes(o)) = n /\ FiltersSize(o) = SumOf(Sizes(o))
  BY TermsTyped
<1>. HIDE DEF n
<1>4. FiltersSize(o) >= n * FilterBytes
  BY <1>1, <1>2, <1>3, SumAtLeast
<1>. QED BY <1>1, <1>4 DEF n

LEMMA FewFiltersFit ==
  ASSUME NEW o \in Object, WellFormed(o), NEW most \in Int, FiltersSize(o) <= most,
         most < MaxFilters * FilterBytes
  PROVE  Len(o.filters) < MaxFilters
<1> DEFINE n == Len(o.filters)
<1>1. n \in Nat \ {0} /\ MaxFilters \in Nat /\ FilterBytes \in Nat
  BY LastFilter, SizeAssumption
<1>2. n * FilterBytes <= most
  <2>1. n * FilterBytes \in Nat /\ FiltersSize(o) \in Nat /\ FiltersSize(o) >= n * FilterBytes
    BY <1>1, FiltersTakeBytes
  <2>. HIDE DEF n
  <2>. QED BY <2>1
<1>3. ASSUME n >= MaxFilters PROVE FALSE
  <2>1. n * FilterBytes >= MaxFilters * FilterBytes
    BY <1>1, <1>3
  <2>2. n * FilterBytes \in Int /\ MaxFilters * FilterBytes \in Int
    BY <1>1
  <2>. QED BY <1>2, <2>1, <2>2
<1>. QED BY <1>1, <1>3

\* A projection with the properties of o that allows a target beyond o's capacity
\* went through o's own filters, and lays out the next one.
LEMMA ProjectionPasses ==
  ASSUME NEW o \in Object, WellFormed(o), NEW limit \in Nat, NEW target \in Nat,
         NEW loop, Projecting(loop, o.fp, target, o.tr, o.expansion, limit),
         loop[StartLayout(o.filters[1].cap)].err = Ok, Capacity(o) <= target,
         NEW L, LayoutsOf(o, L)
  PROVE  \A i \in 0..Len(o.filters) :
           /\ loop[L[i]].err = Ok
           /\ i > 0 => ~ (L[i].cap > CapacityMax)
<1> DEFINE n == Len(o.filters)
           T == {i \in Nat : i <= n => loop[L[i]].err = Ok /\ (i > 0 => ~ (L[i].cap > CapacityMax))}
<1>1. n \in Nat \ {0} /\ Capacity(o) \in Nat
  BY LastFilter, FootprintTyped
<1>2. 0 \in T
  BY DEF LayoutsOf
<1>3. ASSUME NEW i \in Nat, i \in T PROVE i + 1 \in T
  <2>1. SUFFICES ASSUME i + 1 <= n
                 PROVE  loop[L[i + 1]].err = Ok /\ ~ (L[i + 1].cap > CapacityMax)
    OBVIOUS
  <2>2. i \in 0..n /\ i < n /\ i + 1 \in 1..n /\ (i + 1) - 1 = i
    BY <1>1, <2>1
  <2>3. L[i] \in Layout /\ L[i].total < Capacity(o)
    BY <2>2 DEF LayoutsOf
  <2>4. L[i].total \in Nat
    BY <2>3 DEF Layout
  <2>5. L[i].total < target
    BY <1>1, <2>3, <2>4
  <2>6. L[i + 1] = NextLayout(L[i], o.fp, o.tr, o.expansion)
    BY <2>2 DEF LayoutsOf
  <2>7. loop[L[i]].err = Ok
    BY <1>3, <2>2
  <2>. HIDE DEF T
  <2>. QED BY <2>3, <2>5, <2>6, <2>7, TurnGoesOn
<1>4. Nat \subseteq T
  <2>. HIDE DEF T
  <2>. QED BY <1>2, <1>3, SetInduction
<1>5. SUFFICES ASSUME NEW i \in 0..n
               PROVE  loop[L[i]].err = Ok /\ (i > 0 => ~ (L[i].cap > CapacityMax))
  OBVIOUS
<1>6. i \in T /\ i <= n
  <2>. HIDE DEF T
  <2>. QED BY <1>1, <1>4, <1>5
<1>. QED BY <1>6

LEMMA ProjectionCovers ==
  ASSUME NEW o \in Object, WellFormed(o), NEW limit \in Nat, NEW target \in Nat,
         Capacity(o) < target,
         Project(o.filters[1].cap, o.fp, target, o.tr, o.expansion, limit).err = Ok
  PROVE  /\ ~ FpReachesZero(NextFp(o)) /\ NextCapacity(o) \in Nat
         /\ ~ (NextCapacity(o) > CapacityMax)
         /\ ObjectSize(ProjectedVec(Len(o.filters))) + FiltersSize(o)
              + FilterSize(NextCapacity(o), NextFp(o)) <= limit
<1> DEFINE n == Len(o.filters)
           size == FilterSize(NextCapacity(o), NextFp(o))
           start == StartLayout(o.filters[1].cap)
<1>1. n \in Nat \ {0} /\ Capacity(o) \in Nat /\ FiltersSize(o) \in Nat
  BY LastFilter, FootprintTyped
<1>2. o.fp \in Nat /\ o.tr \in Nat /\ o.expansion \in Nat
  BY DEF Object
<1>3. PICK loop : /\ Projecting(loop, o.fp, target, o.tr, o.expansion, limit)
                  /\ Project(o.filters[1].cap, o.fp, target, o.tr, o.expansion, limit)
                       = loop[start]
  BY <1>2, ProjectTurns
<1>4. PICK L : LayoutsOf(o, L)
  BY LayoutsExist
<1>5. loop[L[n]].err = Ok /\ ~ (L[n].cap > CapacityMax)
  <2>1. \A i \in 0..n : loop[L[i]].err = Ok /\ (i > 0 => ~ (L[i].cap > CapacityMax))
    BY <1>1, <1>3, <1>4, ProjectionPasses
  <2>. QED BY <1>1, <2>1
<1>6. /\ L[n] \in Layout
      /\ L[n] = [n |-> n, cap |-> NextCapacity(o), total |-> Capacity(o), bytes |-> FiltersSize(o)]
  BY <1>1, <1>4 DEF LayoutsOf
<1>7. L[n].n = n /\ L[n].cap = NextCapacity(o) /\ L[n].bytes = FiltersSize(o) /\ L[n].total < target
  BY <1>6
<1>8. NextFp(o) = FpRate(o.fp, L[n].n, o.tr)
  BY <1>7 DEF NextFp
<1>9. /\ ~ FpReachesZero(NextFp(o))
      /\ ~ TooLarge(L[n], o.fp, o.tr, o.expansion, limit)
  <2> DEFINE s == L[n]
  <2>1. s \in Layout /\ loop[s].err = Ok /\ s.total < target
    BY <1>5, <1>6, <1>7
  <2>. HIDE DEF s
  <2>2. ~ FpReachesZero(FpRate(o.fp, s.n, o.tr)) /\ ~ TooLarge(s, o.fp, o.tr, o.expansion, limit)
    BY <1>3, <2>1, TurnGoesOn
  <2>. QED BY <1>8, <2>2 DEF s
<1>10. NextCapacity(o) \in Nat
  BY <1>6, <1>7 DEF Layout
<1>11. NextLayout(L[n], o.fp, o.tr, o.expansion).bytes = FiltersSize(o) + size
  BY <1>7, <1>8 DEF NextLayout
<1>12. size \in Nat
  BY <1>2, <1>7, <1>8, <1>1, <1>10, FilterTakesBytes
<1>13. ObjectSize(ProjectedVec(n)) \in Nat
  BY <1>1, ProjectedVecRounds, ObjectSizeIsNatural
<1>. HIDE DEF size
<1>14. ObjectSize(ProjectedVec(n)) + FiltersSize(o) + size <= limit
  BY <1>1, <1>7, <1>9, <1>11, <1>12, <1>13 DEF TooLarge
<1>. QED BY <1>5, <1>7, <1>9, <1>10, <1>14 DEF size

\* An object whose Vec the projection charges for in full can scale out whenever
\* the projection says so.
LEMMA ScaleOutFits ==
  ASSUME NEW o \in Object, WellFormed(o), NEW limit \in Nat, NEW target \in Nat,
         limit < MaxFilters * FilterBytes, o.vcap <= ProjectedVec(Len(o.filters)),
         o.expansion # 0, Capacity(o) < target,
         Project(o.filters[1].cap, o.fp, target, o.tr, o.expansion, limit).err = Ok,
         NEW validate
  PROVE  ScaleOutError(o, validate, limit) = Ok
<1> DEFINE n == Len(o.filters)
           size == FilterSize(NextCapacity(o), NextFp(o))
           most == ObjectSize(ProjectedVec(n))
<1>1. /\ ~ FpReachesZero(NextFp(o)) /\ NextCapacity(o) \in Nat
      /\ ~ (NextCapacity(o) > CapacityMax)
      /\ most + FiltersSize(o) + size <= limit
  BY ProjectionCovers
<1>2. n \in Nat \ {0} /\ FiltersSize(o) \in Nat /\ o.vcap \in Nat /\ ObjectSize(o.vcap) \in Nat
  BY LastFilter, FootprintTyped DEF Object
<1>3. size \in Nat
  <2>1. o.fp \in Nat /\ o.tr \in Nat
    BY DEF Object
  <2>. QED BY <1>1, <1>2, <2>1, FilterTakesBytes DEF NextFp
<1>4. most \in Nat /\ ObjectSize(o.vcap) <= most
  <2>1. ProjectedVec(n) \in Nat
    BY <1>2, ProjectedVecRounds
  <2>2. most \in Nat
    BY <2>1, ObjectSizeIsNatural
  <2>3. BoxBytes \in Nat /\ ObjectBytes \in Nat
    BY SizeAssumption
  <2>4. o.vcap * BoxBytes <= ProjectedVec(n) * BoxBytes
    <3> DEFINE w == ProjectedVec(n)
               v == o.vcap
    <3>1. w \in Nat /\ v \in Nat /\ v <= w
      BY <1>2, <2>1
    <3>. HIDE DEF w, v
    <3>2. v * BoxBytes <= w * BoxBytes
      BY <2>3, <3>1
    <3>. QED BY <3>2 DEF w, v
  <2>5. o.vcap * BoxBytes \in Nat /\ ProjectedVec(n) * BoxBytes \in Nat
    BY <1>2, <2>1, <2>3
  <2>. QED BY <2>2, <2>3, <2>4, <2>5 DEF ObjectSize
<1>. HIDE DEF size, most
<1>5. n # MaxFilters
  <2>1. FiltersSize(o) <= limit
    BY <1>1, <1>2, <1>3, <1>4
  <2>2. n < MaxFilters /\ MaxFilters \in Nat
    BY <2>1, FewFiltersFit, SizeAssumption
  <2>. QED BY <1>2, <2>2
<1>6. ~ (MemoryUsage(o) + size > limit)
  BY <1>1, <1>2, <1>3, <1>4 DEF MemoryUsage
<1>. QED BY <1>1, <1>5, <1>6 DEF ScaleOutError, size

\* An object whose last filter is full holds as many items as its capacity.
LEMMA FullHoldsCapacity ==
  ASSUME NEW o \in Object, WellFormed(o), Full(Last(o.filters))
  PROVE  NumItems(o) = Capacity(o)
<1> DEFINE n == Len(o.filters)
<1>1. /\ n \in Nat \ {0} /\ \A i \in 1..n : o.filters[i] \in Filter
      /\ Last(o.filters) = o.filters[n] /\ DOMAIN o.filters = 1..n
  BY LastFilter
<1>2. \A i \in 1..n : o.filters[i].num = o.filters[i].cap
  <2>1. SUFFICES ASSUME NEW i \in 1..n PROVE o.filters[i].num = o.filters[i].cap
    OBVIOUS
  <2>2. CASE i < n
    BY <1>1, <2>2 DEF WellFormed
  <2>3. CASE i = n
    <3>1. o.filters[n].num \in Nat /\ o.filters[n].cap \in Nat
      BY <1>1, FilterFields
    <3>2. o.filters[n].num <= o.filters[n].cap
      BY <1>1 DEF WellFormed
    <3>3. o.filters[n].num >= o.filters[n].cap
      BY <1>1 DEF Full
    <3>. QED BY <2>3, <3>1, <3>2, <3>3
  <2>. QED BY <1>1, <2>2, <2>3
<1>3. Nums(o) = Caps(o)
  BY <1>1, <1>2 DEF Nums, Caps
<1>. QED BY <1>3, TermsTyped

\* An add never lowers the capacity, and leaves a Vec that was only pushed onto
\* one that was only pushed onto.
LEMMA AddKeepsRoom ==
  ASSUME NEW o \in Object, WellFormed(o), NEW x \in Item, NEW validate, NEW limit,
         AddError(o, validate, limit) = Ok
  PROVE  LET a == AddItemUnchecked(o, x)
         IN  /\ Capacity(a) >= Capacity(o)
             /\ Pushed(o.vcap, Len(o.filters)) => Pushed(a.vcap, Len(a.filters))
<1>1. Len(o.filters) \in Nat /\ Capacity(o) \in Nat
  BY LastFilter, FootprintTyped
<1>2. CASE Full(Last(o.filters))
  <2> DEFINE a == ScaledOut(o, x)
  <2>1. AddItemUnchecked(o, x) = a
    BY <1>2 DEF AddItemUnchecked
  <2>2. o.expansion # 0 /\ NextCapacity(o) <= CapacityMax
    BY <1>2, ScaleOutAllowed
  <2>3. /\ Len(a.filters) = Len(o.filters) + 1 /\ a.vcap = PushedVec(o)
        /\ Capacity(a) = Capacity(o) + NextCapacity(o)
    BY <1>2, <2>2, ScaledOutFootprint
  <2>4. NextCapacity(o) \in Nat
    BY <2>2, NextFilter
  <2>5. Pushed(o.vcap, Len(o.filters)) => Pushed(PushedVec(o), Len(o.filters) + 1)
    BY <1>1, PushedOnce DEF PushedVec
  <2>. HIDE DEF a
  <2>. QED BY <1>1, <2>1, <2>3, <2>4, <2>5
<1>3. CASE ~ Full(Last(o.filters))
  <2> DEFINE a == AddToLast(o, x)
  <2>1. AddItemUnchecked(o, x) = a
    BY <1>3 DEF AddItemUnchecked
  <2>2. Len(a.filters) = Len(o.filters) /\ a.vcap = o.vcap /\ Capacity(a) = Capacity(o)
    BY <1>3, AddToLastFootprint
  <2>. HIDE DEF a
  <2>. QED BY <1>1, <2>1, <2>2
<1>. QED BY <1>2, <1>3

\* o holds target items or the projection lets it grow until it does.
Room(o, target, limit) ==
  \/ target <= Capacity(o)
  \/ o.expansion # 0
     /\ Project(o.filters[1].cap, o.fp, target, o.tr, o.expansion, limit).err = Ok

LEMMA RoomStays ==
  ASSUME NEW o \in Object, WellFormed(o), NEW p \in Object, Grown(o, p),
         Capacity(o) <= Capacity(p), NEW target \in Nat, NEW limit, Room(o, target, limit)
  PROVE  Room(p, target, limit)
<1>1. 1 \in DOMAIN o.filters
  BY LastFilter
<1>2. p.filters[1].cap = o.filters[1].cap
  BY <1>1 DEF Grown
<1>3. p.fp = o.fp /\ p.tr = o.tr /\ p.expansion = o.expansion
  BY DEF Grown
<1>4. Capacity(o) \in Nat /\ Capacity(p) \in Nat
  BY FootprintTyped
<1>. QED BY <1>2, <1>3, <1>4 DEF Room

\* An object with room for more items takes the next one, if the projection
\* charges for its Vec in full.
LEMMA RoomAllowsAdd ==
  ASSUME NEW o \in Object, WellFormed(o), NEW limit \in Nat, NEW target \in Nat,
         limit < MaxFilters * FilterBytes, o.vcap <= ProjectedVec(Len(o.filters)),
         Room(o, target, limit), NumItems(o) < target, NEW validate
  PROVE  AddError(o, validate, limit) = Ok
<1>1. CASE ~ Full(Last(o.filters))
  BY <1>1 DEF AddError
<1>2. CASE Full(Last(o.filters))
  <2>1. NumItems(o) = Capacity(o) /\ Capacity(o) \in Nat
    BY <1>2, FullHoldsCapacity, FootprintTyped
  <2>2. Capacity(o) < target
    BY <2>1
  <2>3. /\ o.expansion # 0
        /\ Project(o.filters[1].cap, o.fp, target, o.tr, o.expansion, limit).err = Ok
    BY <2>1, <2>2 DEF Room
  <2>4. ScaleOutError(o, validate, limit) = Ok
    BY <2>2, <2>3, ScaleOutFits
  <2>. QED BY <2>4 DEF AddError
<1>. QED BY <1>1, <1>2

LEMMA ValidatedHasRoom ==
  ASSUME NEW o \in Object, WellFormed(o), NEW count \in Nat \ {0}, NEW limit,
         ValidateAddItems(o, count, limit) = Ok
  PROVE  Room(o, NumItems(o) + count, limit)
<1> DEFINE err == Project(o.filters[1].cap, o.fp, NumItems(o) + count, o.tr, o.expansion, limit).err
<1>1. NumItems(o) \in Nat /\ Capacity(o) \in Nat
  BY FootprintTyped
<1>2. CASE Capacity(o) - NumItems(o) >= count
  BY <1>1, <1>2 DEF Room
<1>3. CASE ~ (Capacity(o) - NumItems(o) >= count)
  <2>1. o.expansion # 0 /\ ClientError(err) = Ok
    BY <1>3 DEF ValidateAddItems, Ok
  <2>. HIDE DEF err
  <2>2. err = Ok
    BY <2>1 DEF ClientError, Ok
  <2>. QED BY <2>1, <2>2 DEF Room, err
<1>. QED BY <1>2, <1>3

\* A sequence that is below another one, entry by entry, has the smaller sum.
LEMMA SumMonotone ==
  ASSUME NEW s \in Seq(Int), NEW t \in Seq(Int), Len(s) <= Len(t),
         \A i \in 1..Len(s) : s[i] <= t[i], \A i \in 1..Len(t) : t[i] \in Nat
  PROVE  SumOf(s) <= SumOf(t)
<1> DEFINE n == Len(s)
           m == Len(t)
<1>0. n \in Nat /\ m \in Nat /\ n <= m
  OBVIOUS
<1>1. PICK g : PartialSums(s, g) /\ SumOf(s) = g[n]
  BY SumHasPrefixes
<1>2. PICK h : PartialSums(t, h) /\ SumOf(t) = h[m]
  BY SumHasPrefixes
<1>. HIDE DEF n, m
<1>3. /\ g[0] = 0 /\ h[0] = 0
      /\ \A i \in 0..n : g[i] \in Int
      /\ \A i \in 0..m : h[i] \in Int
  BY <1>1, <1>2 DEF PartialSums, n, m
<1>4. /\ \A i \in 1..n : g[i] = g[i - 1] + s[i] /\ s[i] \in Int /\ s[i] <= t[i]
      /\ \A i \in 1..m : h[i] = h[i - 1] + t[i] /\ t[i] \in Nat
  BY <1>1, <1>2 DEF PartialSums, n, m
<1> DEFINE T == {i \in Nat : i <= m => h[i] >= g[IF i <= n THEN i ELSE n]}
<1>5. 0 \in T
  BY <1>0, <1>3
<1>6. ASSUME NEW i \in Nat, i \in T PROVE i + 1 \in T
  <2>1. SUFFICES ASSUME i + 1 <= m PROVE h[i + 1] >= g[IF i + 1 <= n THEN i + 1 ELSE n]
    OBVIOUS
  <2>2. i + 1 \in 1..m /\ i \in 0..m /\ (i + 1) - 1 = i
    BY <1>0, <2>1
  <2>3. h[i] >= g[IF i <= n THEN i ELSE n]
    BY <1>6, <2>2
  <2>4. h[i + 1] = h[i] + t[i + 1] /\ t[i + 1] \in Nat /\ h[i] \in Int
    BY <1>3, <1>4, <2>2
  <2>5. CASE i + 1 <= n
    <3>1. i + 1 \in 1..n /\ i <= n /\ i \in 0..n
      BY <1>0, <2>5
    <3>2. /\ g[i + 1] = g[i] + s[i + 1] /\ s[i + 1] \in Int /\ s[i + 1] <= t[i + 1]
          /\ g[i] \in Int
      BY <1>3, <1>4, <2>2, <3>1
    <3>3. h[i] >= g[i]
      BY <2>3, <3>1
    <3>4. ASSUME NEW u \in Int, NEW v \in Int, NEW p \in Int, NEW q \in Int, u >= v, p <= q
          PROVE  u + q >= v + p
      BY <3>4
    <3>5. h[i] + t[i + 1] >= g[i] + s[i + 1]
      BY <2>4, <3>2, <3>3, <3>4
    <3>6. h[i + 1] >= g[i + 1]
      BY <2>4, <3>2, <3>5
    <3>. QED BY <2>5, <3>6
  <2>6. CASE ~ (i + 1 <= n)
    <3>1. (IF i <= n THEN i ELSE n) = n /\ n \in 0..n
      BY <1>0, <2>6
    <3>2. g[n] \in Int
      BY <1>3, <3>1
    <3>3. h[i] >= g[n]
      BY <2>3, <3>1
    <3>4. ASSUME NEW u \in Int, NEW v \in Int, NEW q \in Nat, u >= v PROVE u + q >= v
      BY <3>4
    <3>5. h[i] + t[i + 1] >= g[n]
      BY <2>4, <3>2, <3>3, <3>4
    <3>6. h[i + 1] >= g[n]
      BY <2>4, <3>5
    <3>. QED BY <2>6, <3>6
  <2>. QED BY <2>5, <2>6
<1>7. m \in T
  <2>1. Nat \subseteq T
    <3>. HIDE DEF T
    <3>. QED BY <1>5, <1>6, SetInduction
  <2>. HIDE DEF T
  <2>. QED BY <1>0, <2>1
<1>8. h[m] >= g[n]
  <2>1. h[m] >= g[IF m <= n THEN m ELSE n]
    BY <1>7
  <2>2. (IF m <= n THEN m ELSE n) = n
    BY <1>0
  <2>. QED BY <2>1, <2>2
<1>9. h[m] \in Int /\ g[n] \in Int
  BY <1>0, <1>3
<1>. QED BY <1>1, <1>2, <1>8, <1>9

\* An object that grows keeps its capacity or adds to it.
LEMMA GrownCapacity ==
  ASSUME NEW o \in Object, NEW p \in Object, Grown(o, p)
  PROVE  Capacity(o) <= Capacity(p)
<1> DEFINE s == Caps(o)
           t == Caps(p)
           n == Len(o.filters)
           m == Len(p.filters)
<1>1. /\ n \in Nat /\ DOMAIN o.filters = 1..n
      /\ s \in Seq(Int) /\ Len(s) = n /\ Capacity(o) = SumOf(s)
  BY TermsTyped
<1>2. /\ m \in Nat /\ DOMAIN p.filters = 1..m
      /\ t \in Seq(Int) /\ Len(t) = m /\ Capacity(p) = SumOf(t)
      /\ \A i \in 1..m : t[i] \in Nat
  BY TermsTyped
<1>3. \A i \in 1..n : i \in 1..m /\ p.filters[i].cap = o.filters[i].cap
  BY <1>1, <1>2 DEF Grown
<1>4. \A i \in 1..n : s[i] = t[i]
  BY <1>1, <1>2, <1>3 DEF Caps
<1>. HIDE DEF s, t, n, m
<1>5. n <= m
  <2>1. CASE n = 0
    BY <1>2, <2>1
  <2>2. CASE n # 0
    <3>1. n \in 1..n
      BY <1>1, <2>2
    <3>2. n \in 1..m
      BY <1>3, <3>1
    <3>. QED BY <1>2, <3>2
  <2>. QED BY <2>1, <2>2
<1>6. \A i \in 1..n : s[i] <= t[i]
  BY <1>1, <1>2, <1>3, <1>4
<1>. QED BY <1>1, <1>2, <1>5, <1>6, SumMonotone

\* A turn returns Ok at the target, and where it goes on to one that does.
LEMMA TurnSucceeds ==
  ASSUME NEW loop, NEW startFp, NEW target \in Nat, NEW tr, NEW expansion, NEW limit,
         Projecting(loop, startFp, target, tr, expansion, limit), NEW s \in Layout,
         \/ s.total >= target
         \/ /\ ~ FpReachesZero(FpRate(startFp, s.n, tr))
            /\ ~ TooLarge(s, startFp, tr, expansion, limit)
            /\ ~ (NextLayout(s, startFp, tr, expansion).cap > CapacityMax)
            /\ loop[NextLayout(s, startFp, tr, expansion)].err = Ok
  PROVE  loop[s].err = Ok
<1> DEFINE t == NextLayout(s, startFp, tr, expansion)
           large == TooLarge(s, startFp, tr, expansion, limit)
           zero == FpReachesZero(FpRate(startFp, s.n, tr))
           stop(err) == [err |-> err, capacity |-> 0]
           there == TargetReached(s, target)
<1>1. s.total >= target => there
  BY DEF TargetReached, NoTarget
<1>2. loop[s] = IF there THEN [err |-> Ok, capacity |-> s.total]
                ELSE IF zero THEN stop("ValidateScaleToFalsePositiveInvalid")
                ELSE IF large THEN stop("ValidateScaleToExceedsMaxSize")
                ELSE IF t.cap > CapacityMax THEN stop("BadCapacity")
                ELSE loop[t]
  <2>1. target # NoTarget
    BY DEF NoTarget
  <2>. QED BY <2>1 DEF Projecting, Turned
<1>3. s.total >= target \/ (~ zero /\ ~ large /\ ~ (t.cap > CapacityMax) /\ loop[t].err = Ok)
  OBVIOUS
<1>. HIDE DEF zero, large, t, there
<1>. QED BY <1>1, <1>2, <1>3

\* What can be projected for a target and a limit can be for less and under more.
LEMMA ProjectMonotone ==
  ASSUME NEW o \in Object, WellFormed(o), NEW target \in Nat, NEW less \in Nat,
         less <= target, NEW limit \in Nat, NEW more \in Nat, limit <= more,
         Project(o.filters[1].cap, o.fp, target, o.tr, o.expansion, limit).err = Ok
  PROVE  Project(o.filters[1].cap, o.fp, less, o.tr, o.expansion, more).err = Ok
<1> DEFINE startCap == o.filters[1].cap
           startFp == o.fp
           tr == o.tr
           expansion == o.expansion
<1>0. /\ startCap \in Nat /\ startFp \in Nat /\ tr \in Nat /\ expansion \in Nat
      /\ Project(startCap, startFp, target, tr, expansion, limit).err = Ok
  <2>1. startCap \in Nat
    BY LastFilter, FilterFields
  <2>. QED BY <2>1 DEF Object
<1>. HIDE DEF startCap, startFp, tr, expansion
<1> DEFINE F == FilterBytes
           after(s) == NextLayout(s, startFp, tr, expansion)
           start == StartLayout(startCap)
<1>1. F \in Nat \ {0}
  BY SizeAssumption
<1>2. PICK loop : /\ Projecting(loop, startFp, target, tr, expansion, limit)
                  /\ loop[start].err = Ok
  BY <1>0, ProjectTurns
<1>3. PICK turn : /\ Projecting(turn, startFp, less, tr, expansion, more)
                  /\ Project(startCap, startFp, less, tr, expansion, more) = turn[start]
  BY <1>0, ProjectTurns
<1>4. ASSUME NEW s \in Layout
      PROVE  /\ after(s) \in Layout /\ after(s).bytes >= s.bytes + F
             /\ after(s).bytes > limit => TooLarge(s, startFp, tr, expansion, limit)
  BY <1>0, LayoutGrows
<1>5. ASSUME NEW s \in Layout
      PROVE  s.bytes \in Nat /\ after(s).bytes \in Nat /\ s.total \in Nat /\ s.n \in Nat
  BY <1>4 DEF Layout
<1>6. ASSUME NEW s \in Layout, s.total >= less PROVE turn[s].err = Ok
  BY <1>3, <1>6, TurnSucceeds
<1>7. ASSUME NEW s \in Layout, ~ TooLarge(s, startFp, tr, expansion, limit)
      PROVE  ~ TooLarge(s, startFp, tr, expansion, more)
  <2>1. ObjectSize(ProjectedVec(s.n)) \in Nat
    BY <1>5, ProjectedVecRounds, ObjectSizeIsNatural
  <2>2. ObjectSize(ProjectedVec(s.n)) + after(s).bytes <= limit
    BY <1>5, <1>7, <2>1 DEF TooLarge
  <2>. QED BY <1>5, <2>1, <2>2 DEF TooLarge
<1>8. ASSUME NEW s \in Layout, ~ FpReachesZero(FpRate(startFp, s.n, tr)),
             ~ TooLarge(s, startFp, tr, expansion, more), ~ (after(s).cap > CapacityMax),
             turn[after(s)].err = Ok
      PROVE  turn[s].err = Ok
  BY <1>3, <1>8, TurnSucceeds
<1>9. ASSUME NEW s \in Layout, loop[s].err = Ok, s.total < target
      PROVE  /\ ~ FpReachesZero(FpRate(startFp, s.n, tr))
             /\ ~ TooLarge(s, startFp, tr, expansion, limit)
             /\ ~ (after(s).cap > CapacityMax)
             /\ loop[after(s)].err = Ok
  <2>1. loop[s].err = Ok /\ s.total < target
    BY <1>9
  <2>2. Projecting(loop, startFp, target, tr, expansion, limit)
    BY <1>2
  <2>. QED BY <2>1, <2>2, TurnGoesOn
<1> DEFINE T == {k \in Nat : \A s \in Layout :
                   s.bytes + k * F > limit /\ loop[s].err = Ok => turn[s].err = Ok}
<1>. HIDE DEF after, start
<1>10. 0 \in T
  <2>1. ASSUME NEW s \in Layout, s.bytes > limit, loop[s].err = Ok PROVE turn[s].err = Ok
    <3>1. TooLarge(s, startFp, tr, expansion, limit)
      BY <1>1, <1>4, <1>5, <2>1
    <3>2. ~ (s.total < target)
      BY <1>9, <2>1, <3>1
    <3>3. s.total >= less
      BY <1>5, <3>2
    <3>. QED BY <1>6, <3>3
  <2>2. 0 * F = 0
    BY <1>1
  <2>3. \A s \in Layout : s.bytes + 0 * F = s.bytes
    BY <1>5, <2>2
  <2>. QED BY <2>1, <2>3
<1>11. ASSUME NEW k \in Nat, k \in T PROVE k + 1 \in T
  <2>1. ASSUME NEW s \in Layout, s.bytes + (k + 1) * F > limit, loop[s].err = Ok
        PROVE  turn[s].err = Ok
    <3>1. CASE s.total >= less
      BY <1>6, <3>1
    <3>2. CASE ~ (s.total >= less)
      <4>1. s.total < target
        BY <1>5, <3>2
      <4>2. /\ ~ FpReachesZero(FpRate(startFp, s.n, tr))
            /\ ~ TooLarge(s, startFp, tr, expansion, limit)
            /\ ~ (after(s).cap > CapacityMax)
            /\ loop[after(s)].err = Ok
        BY <1>9, <2>1, <4>1
      <4>3. after(s) \in Layout /\ after(s).bytes \in Nat /\ after(s).bytes >= s.bytes + F
        BY <1>4, <1>5
      <4>4. (k + 1) * F = k * F + F /\ k * F \in Nat
        BY <1>1
      <4>5. after(s).bytes + k * F > limit
        <5>. HIDE DEF F
        <5>. QED BY <1>1, <1>5, <2>1, <4>3, <4>4
      <4>6. turn[after(s)].err = Ok
        BY <1>11, <4>2, <4>3, <4>5
      <4>. QED BY <1>7, <1>8, <4>2, <4>6
    <3>. QED BY <3>1, <3>2
  <2>. QED BY <2>1
<1>12. limit + 1 \in T
  <2>. HIDE DEF T
  <2>. QED BY <1>10, <1>11, SetInduction
<1>13. start \in Layout
  BY <1>0 DEF start, StartLayout, Layout
<1>14. start.bytes + (limit + 1) * F > limit
  <2>1. (limit + 1) * F >= limit + 1 /\ (limit + 1) * F \in Nat
    BY <1>1
  <2>. HIDE DEF F
  <2>. QED BY <1>5, <1>13, <2>1
<1>15. turn[start].err = Ok
  BY <1>2, <1>12, <1>13, <1>14
<1>. QED BY <1>3, <1>15 DEF startCap, startFp, tr, expansion

\* Room for a target under a limit is room for less and under more.
LEMMA RoomMonotone ==
  ASSUME NEW o \in Object, WellFormed(o), NEW target \in Nat, NEW less \in Nat,
         less <= target, NEW limit \in Nat, NEW more \in Nat, limit <= more,
         Room(o, target, limit)
  PROVE  Room(o, less, more)
<1>1. Capacity(o) \in Nat
  BY FootprintTyped
<1>2. CASE target <= Capacity(o)
  BY <1>1, <1>2 DEF Room
<1>3. CASE ~ (target <= Capacity(o))
  BY <1>3, ProjectMonotone DEF Room
<1>. QED BY <1>2, <1>3

(****************** the maximum that BF.INFO projects **********************)

\* o with its last filter filled up, and what the next add makes of that.
FilledUp(o) == [o EXCEPT !.filters[Len(o.filters)].num = Last(o.filters).cap]
FilledOut(o, x) == ScaledOut(FilledUp(o), x)

\* The layout the projection is at when it has laid out o's filters.
LayoutOf(o) ==
  [n |-> Len(o.filters), cap |-> NextCapacity(o), total |-> Capacity(o),
   bytes |-> FiltersSize(o)]

\* Filling up the last filter changes nothing but the number of items.
LEMMA FilledUpShape ==
  ASSUME NEW o \in Object, WellFormed(o)
  PROVE  LET a == FilledUp(o)
         IN  /\ a \in Object /\ WellFormed(a) /\ Full(Last(a.filters))
             /\ Len(a.filters) = Len(o.filters) /\ a.vcap = o.vcap
             /\ a.expansion = o.expansion /\ a.fp = o.fp /\ a.tr = o.tr
             /\ NextFp(a) = NextFp(o) /\ NextCapacity(a) = NextCapacity(o)
             /\ Capacity(a) = Capacity(o) /\ FiltersSize(a) = FiltersSize(o)
<1> DEFINE n == Len(o.filters)
           f == [o.filters[n] EXCEPT !.num = o.filters[n].cap]
           fs == [o.filters EXCEPT ![n] = f]
           a == FilledUp(o)
<1>1. /\ n \in Nat \ {0} /\ o.filters \in Seq(Filter) /\ DOMAIN o.filters = 1..n
      /\ \A i \in 1..n : o.filters[i] \in Filter
      /\ Last(o.filters) = o.filters[n]
  BY LastFilter DEF Object
<1>2. \A i \in 1..n : o.filters[i].num \in Nat /\ o.filters[i].cap \in Nat
  BY <1>1, FilterFields
<1>3. /\ f \in Filter /\ f.num = f.cap /\ f.cap = o.filters[n].cap
      /\ f.seed = o.filters[n].seed /\ f.fp = o.filters[n].fp
  <2>1. o.filters[n] \in Filter /\ o.filters[n].cap \in Nat
    BY <1>1, <1>2
  <2>. QED BY <2>1 DEF Filter
<1>4. a = [o EXCEPT !.filters = fs]
  BY <1>1 DEF FilledUp, Object
<1>. HIDE DEF f
<1>5. fs \in Seq(Filter) /\ Len(fs) = n /\ DOMAIN fs = 1..n
  BY <1>1, <1>3, ExceptSeq
<1>6. \A i \in 1..n : /\ fs[i].seed = o.filters[i].seed
                      /\ fs[i].fp = o.filters[i].fp
                      /\ fs[i].cap = o.filters[i].cap
                      /\ fs[i].num = IF i = n THEN o.filters[i].cap ELSE o.filters[i].num
  BY <1>1, <1>3
<1>. HIDE DEF fs, a
<1>7. /\ a \in Object /\ a.filters = fs /\ a.fp = o.fp /\ a.tr = o.tr /\ a.vcap = o.vcap
      /\ a.expansion = o.expansion /\ a.seedRandom = o.seedRandom
  BY <1>4, <1>5 DEF Object
<1>8. WellFormed(a)
  <2>1. ASSUME NEW i \in 1..n
        PROVE  /\ fs[i].seed = fs[1].seed
               /\ fs[i].fp = o.fp + (i - 1) * o.tr
               /\ fs[i].num <= fs[i].cap
               /\ i < n => /\ fs[i].num = fs[i].cap
                           /\ fs[i + 1].cap = fs[i].cap * o.expansion
    <3>1. 1 \in 1..n /\ (i < n => i + 1 \in 1..n) /\ i \in 1..n
      BY <1>1
    <3>. QED BY <1>1, <1>2, <1>6, <3>1 DEF WellFormed
  <2>. QED BY <1>1, <1>5, <1>6, <1>7, <2>1 DEF WellFormed
<1>9. Last(a.filters) = fs[n] /\ n \in 1..n
  BY <1>1, <1>5, <1>7 DEF Last
<1>10. Full(Last(a.filters)) /\ Last(a.filters).cap = Last(o.filters).cap
  BY <1>1, <1>2, <1>6, <1>9 DEF Full
<1>11. NextFp(a) = NextFp(o) /\ NextCapacity(a) = NextCapacity(o)
  BY <1>5, <1>7, <1>10 DEF NextFp, NextCapacity
<1>12. Caps(a) = Caps(o) /\ Sizes(a) = Sizes(o)
  BY <1>1, <1>5, <1>6, <1>7 DEF Caps, Sizes
<1>13. Capacity(a) = Capacity(o) /\ FiltersSize(a) = FiltersSize(o)
  BY <1>7, <1>12, TermsTyped
<1>. QED BY <1>5, <1>7, <1>8, <1>10, <1>11, <1>13 DEF a

\* Where the filled object scales out it gets the filter that the projection
\* lays out next, under a limit that its filters keep to.
LEMMA FilledOutShape ==
  ASSUME NEW o \in Object, WellFormed(o), NEW x \in Item, NEW limit \in Nat,
         ScaleOutError(FilledUp(o), TRUE, limit) = Ok
  PROVE  LET q == FilledOut(o, x)
         IN  /\ q \in Object /\ WellFormed(q) /\ Len(q.filters) = Len(o.filters) + 1
             /\ q.expansion = o.expansion /\ q.fp = o.fp /\ q.tr = o.tr
             /\ Pushed(o.vcap, Len(o.filters)) => Pushed(q.vcap, Len(q.filters))
             /\ Capacity(o) <= Capacity(q)
             /\ LayoutOf(q) = NextLayout(LayoutOf(o), o.fp, o.tr, o.expansion)
             /\ Len(o.filters) <= limit
<1> DEFINE a == FilledUp(o)
           n == Len(o.filters)
           q == FilledOut(o, x)
           new == NewFilter(NextFp(a), NextCapacity(a), SeedOf(a))
<1>1. /\ a \in Object /\ WellFormed(a) /\ Full(Last(a.filters))
      /\ Len(a.filters) = n /\ a.vcap = o.vcap
      /\ a.expansion = o.expansion /\ a.fp = o.fp /\ a.tr = o.tr
      /\ NextFp(a) = NextFp(o) /\ NextCapacity(a) = NextCapacity(o)
      /\ Capacity(a) = Capacity(o) /\ FiltersSize(a) = FiltersSize(o)
  BY FilledUpShape
<1>2. n \in Nat \ {0} /\ Capacity(o) \in Nat /\ FiltersSize(o) \in Nat
  BY LastFilter, FootprintTyped
<1>3. q = ScaledOut(a, x)
  BY DEF FilledOut
<1>. HIDE DEF a, n
<1>4. /\ a.expansion # 0 /\ NextCapacity(a) <= CapacityMax
      /\ ~ (MemoryUsage(a) + FilterSize(NextCapacity(a), NextFp(a)) > limit)
  <2>1. NextCapacity(a) \in Int
    <3>1. a.expansion \in Nat /\ Last(a.filters).cap \in Nat
      BY <1>1, LastFilter, FilterFields DEF Object
    <3>. QED BY <3>1 DEF NextCapacity
  <2>2. CapacityMax \in Nat
    BY SizeAssumption
  <2>3. ScaleOutError(a, TRUE, limit) = Ok
    BY DEF a
  <2>4. a.expansion # 0 /\ ~ (NextCapacity(a) > CapacityMax)
        /\ ~ (MemoryUsage(a) + FilterSize(NextCapacity(a), NextFp(a)) > limit)
    BY <2>3 DEF ScaleOutError, Ok
  <2>. QED BY <2>1, <2>2, <2>4
<1>5. q \in Object /\ WellFormed(q)
  BY <1>1, <1>3, <1>4, ScaledOutPreserves
<1>6. /\ Len(q.filters) = n + 1 /\ q.vcap = PushedVec(a)
      /\ Capacity(q) = Capacity(o) + NextCapacity(o)
      /\ FiltersSize(q) = FiltersSize(o) + FilterSize(NextCapacity(o), NextFp(o))
  BY <1>1, <1>3, <1>4, ScaledOutFootprint
<1>7. q.expansion = o.expansion /\ q.fp = o.fp /\ q.tr = o.tr
      /\ q.filters = Append(a.filters, Set(new, x))
  BY <1>1, <1>3 DEF ScaledOut, Object
<1>8. NextCapacity(o) \in 1..CapacityMax /\ NextFp(o) \in Nat \ {0}
  BY <1>1, <1>4, NextFilter
<1>9. NextCapacity(q) = NextCapacity(o) * o.expansion
  <2>1. Last(q.filters) = q.filters[n + 1]
    BY <1>2, <1>6 DEF Last
  <2>2. q.filters[n + 1] = Set(new, x)
    <3>1. a.filters \in Seq(Filter)
      BY <1>1 DEF Object
    <3>. QED BY <1>1, <1>7, <3>1, AppendProperties
  <2>3. Set(new, x).cap = NextCapacity(o)
    BY <1>1 DEF Set, NewFilter
  <2>. QED BY <1>7, <2>1, <2>2, <2>3 DEF NextCapacity
<1>10. Capacity(o) <= Capacity(q)
  BY <1>2, <1>6, <1>8, SizeAssumption
<1>11. Pushed(o.vcap, n) => Pushed(q.vcap, n + 1)
  <2>1. PushedVec(a) = IF n < o.vcap THEN o.vcap ELSE Max({2 * o.vcap, 4})
    BY <1>1 DEF PushedVec
  <2>. HIDE DEF q
  <2>. QED BY <1>2, <1>6, <2>1, PushedOnce
<1>12. LayoutOf(q) = NextLayout(LayoutOf(o), o.fp, o.tr, o.expansion)
  <2>. HIDE DEF q
  <2>1. LayoutOf(q) = [n |-> n + 1, cap |-> NextCapacity(o) * o.expansion,
                       total |-> Capacity(o) + NextCapacity(o),
                       bytes |-> FiltersSize(o) + FilterSize(NextCapacity(o), NextFp(o))]
    BY <1>6, <1>9 DEF LayoutOf
  <2>2. NextFp(o) = FpRate(o.fp, n, o.tr)
    BY DEF NextFp, n
  <2>. QED BY <2>1, <2>2 DEF LayoutOf, NextLayout, n
<1>13. n <= limit
  <2> DEFINE size == FilterSize(NextCapacity(a), NextFp(a))
  <2>1. size \in Nat
    <3> DEFINE cap == NextCapacity(a)
               fp == NextFp(a)
    <3>1. cap \in Nat \ {0} /\ fp \in Nat \ {0}
      BY <1>1, <1>8, SizeAssumption
    <3>. HIDE DEF cap, fp
    <3>2. FilterSize(cap, fp) \in Nat
      BY <3>1, SizesAreNatural
    <3>. QED BY <3>2 DEF cap, fp
  <2>2. MemoryUsage(a) = ObjectSize(a.vcap) + FiltersSize(a) /\ ObjectSize(a.vcap) \in Nat
    BY <1>1, FootprintTyped DEF MemoryUsage
  <2>3. FiltersSize(a) <= limit
    <3>1. ~ (ObjectSize(a.vcap) + FiltersSize(a) + size > limit)
      BY <1>4, <2>2
    <3>. HIDE DEF size
    <3>. QED BY <1>1, <1>2, <2>1, <2>2, <3>1
  <2>4. FiltersSize(a) >= n * FilterBytes
    BY <1>1, FiltersTakeBytes
  <2>5. n * FilterBytes >= n /\ n * FilterBytes \in Nat
    <3>1. FilterBytes \in Nat \ {0}
      BY SizeAssumption
    <3>. QED BY <1>2, <3>1
  <2>. QED BY <1>1, <1>2, <2>3, <2>4, <2>5
<1>. QED BY <1>5, <1>6, <1>7, <1>10, <1>11, <1>12, <1>13 DEF q, n

\* Without a target the loop answers what it has laid out when there is no more
\* room, and fails where a capacity overflows.
LEMMA UntargetedTurn ==
  ASSUME NEW loop, NEW startFp, NEW tr, NEW expansion, NEW limit,
         Projecting(loop, startFp, NoTarget, tr, expansion, limit), NEW s \in Layout,
         loop[s].err = Ok
  PROVE  \/ loop[s].capacity = s.total
      \/ /\ ~ FpReachesZero(FpRate(startFp, s.n, tr))
         /\ ~ TooLarge(s, startFp, tr, expansion, limit)
         /\ ~ (NextLayout(s, startFp, tr, expansion).cap > CapacityMax)
         /\ loop[s] = loop[NextLayout(s, startFp, tr, expansion)]
<1> DEFINE t == NextLayout(s, startFp, tr, expansion)
           large == TooLarge(s, startFp, tr, expansion, limit)
           zero == FpReachesZero(FpRate(startFp, s.n, tr))
           done == [err |-> Ok, capacity |-> s.total]
<1>1. loop[s] = IF zero THEN done ELSE IF large THEN done
                ELSE IF t.cap > CapacityMax THEN [err |-> "BadCapacity", capacity |-> 0]
                ELSE loop[t]
  BY DEF Projecting, Turned, TargetReached
<1>. HIDE DEF zero, large, t
<1>2. \/ loop[s].capacity = s.total
      \/ ~ zero /\ ~ large /\ ~ (t.cap > CapacityMax) /\ loop[s] = loop[t]
  BY <1>1 DEF Ok
<1>. QED BY <1>2 DEF zero, large, t

\* From an object that pushes alone have grown the loop goes no further than the
\* object: where it is filled and no filter can be added, the loop stops.
LEMMA FullWhereProjected ==
  ASSUME NEW o \in Object, WellFormed(o), o.expansion # 0,
         Pushed(o.vcap, Len(o.filters)),
         NEW limit \in Nat, limit < MaxFilters * FilterBytes,
         NEW loop, Projecting(loop, o.fp, NoTarget, o.tr, o.expansion, limit),
         LayoutOf(o) \in Layout, loop[LayoutOf(o)].err = Ok,
         ScaleOutError(FilledUp(o), TRUE, limit) # Ok
  PROVE  loop[LayoutOf(o)].capacity = Capacity(o)
<1> DEFINE s == LayoutOf(o)
           a == FilledUp(o)
           n == Len(o.filters)
           size == FilterSize(NextCapacity(o), NextFp(o))
           most == ObjectSize(ProjectedVec(n))
           t == NextLayout(s, o.fp, o.tr, o.expansion)
<1>1. SUFFICES ASSUME ~ FpReachesZero(FpRate(o.fp, s.n, o.tr)),
                      ~ TooLarge(s, o.fp, o.tr, o.expansion, limit),
                      ~ (t.cap > CapacityMax)
               PROVE  FALSE
  <2>1. s.total = Capacity(o)
    BY DEF LayoutOf
  <2>. HIDE DEF s
  <2>. QED BY <2>1, UntargetedTurn DEF s
<1>2. /\ a \in Object /\ WellFormed(a) /\ Len(a.filters) = n /\ a.vcap = o.vcap
      /\ a.expansion = o.expansion
      /\ NextFp(a) = NextFp(o) /\ NextCapacity(a) = NextCapacity(o)
      /\ FiltersSize(a) = FiltersSize(o)
  BY FilledUpShape
<1>3. /\ n \in Nat \ {0} /\ o.vcap \in Nat \ {0} /\ FiltersSize(o) \in Nat
      /\ ObjectSize(o.vcap) \in Nat
      /\ o.fp \in Nat /\ o.tr \in Nat /\ o.expansion \in Nat \ {0}
      /\ Last(o.filters).cap \in Nat \ {0}
  BY LastFilter, FilterFields, FootprintTyped DEF Object
<1>4. /\ s.n = n /\ s.cap = NextCapacity(o) /\ s.bytes = FiltersSize(o)
      /\ FpRate(o.fp, s.n, o.tr) = NextFp(o)
  BY DEF LayoutOf, NextFp
<1>5. t.bytes = FiltersSize(o) + size /\ t.cap = NextCapacity(o) * o.expansion
  BY <1>4 DEF NextLayout
<1>6. NextCapacity(o) \in Nat /\ size \in Nat
  <2>1. NextCapacity(o) \in Nat
    BY <1>3 DEF NextCapacity
  <2>. QED BY <1>3, <2>1, FilterTakesBytes DEF NextFp
<1>7. most \in Nat /\ ObjectSize(o.vcap) <= most
  <2> DEFINE w == ProjectedVec(n)
             v == o.vcap
  <2>1. w \in Nat /\ v \in Nat /\ v <= w
    BY <1>3, ProjectedVecRounds, PushedIsProjected
  <2>2. BoxBytes \in Nat /\ ObjectBytes \in Nat
    BY SizeAssumption
  <2>. HIDE DEF w, v
  <2>3. v * BoxBytes <= w * BoxBytes /\ v * BoxBytes \in Nat /\ w * BoxBytes \in Nat
    BY <2>1, <2>2
  <2>4. ObjectSize(v) = ObjectBytes + v * BoxBytes /\ ObjectSize(w) = ObjectBytes + w * BoxBytes
    BY DEF ObjectSize
  <2>5. ObjectSize(v) <= ObjectSize(w) /\ ObjectSize(w) \in Nat
    BY <2>2, <2>3, <2>4
  <2>. QED BY <2>5 DEF w, v
<1>8. most + (FiltersSize(o) + size) <= limit
  <2>1. ~ (most + t.bytes > limit)
    BY <1>1, <1>4 DEF TooLarge
  <2>. HIDE DEF most, size, t
  <2>. QED BY <1>3, <1>5, <1>6, <1>7, <2>1
<1>9. ~ (NextCapacity(o) > CapacityMax)
  <2> DEFINE cap == NextCapacity(o)
             e == o.expansion
  <2>1. cap \in Nat /\ e \in Nat \ {0} /\ CapacityMax \in Nat
    BY <1>3, <1>6, SizeAssumption
  <2>2. ~ (cap * e > CapacityMax)
    BY <1>1, <1>5
  <2>. HIDE DEF cap, e
  <2>3. cap * e >= cap /\ cap * e \in Nat
    BY <2>1
  <2>4. ~ (cap > CapacityMax)
    BY <2>1, <2>2, <2>3
  <2>. QED BY <2>4 DEF cap
<1>. HIDE DEF size, most, a, n, t, s
<1>10. n # MaxFilters
  <2>1. FiltersSize(o) <= limit
    BY <1>3, <1>6, <1>7, <1>8
  <2>2. n < MaxFilters /\ MaxFilters \in Nat
    BY <2>1, FewFiltersFit, SizeAssumption DEF n
  <2>. QED BY <1>3, <2>2
<1>11. ~ (MemoryUsage(a) + size > limit)
  <2>1. MemoryUsage(a) = ObjectSize(o.vcap) + FiltersSize(o)
    BY <1>2 DEF MemoryUsage
  <2>. QED BY <1>3, <1>6, <1>7, <1>8, <2>1
<1>12. ScaleOutError(a, TRUE, limit) = Ok
  BY <1>1, <1>2, <1>4, <1>9, <1>10, <1>11 DEF ScaleOutError, size
<1>. QED BY <1>12 DEF a

\* On the way to o the loop stops at less than o holds, or gets there.
LEMMA UntargetedStart ==
  ASSUME NEW o \in Object, WellFormed(o), NEW limit \in Nat, NEW loop,
         Projecting(loop, o.fp, NoTarget, o.tr, o.expansion, limit),
         loop[StartLayout(o.filters[1].cap)].err = Ok
  PROVE  /\ LayoutOf(o) \in Layout
         /\ \/ loop[StartLayout(o.filters[1].cap)].capacity \in 0..Capacity(o)
            \/ loop[StartLayout(o.filters[1].cap)] = loop[LayoutOf(o)]
<1> DEFINE n == Len(o.filters)
           start == StartLayout(o.filters[1].cap)
<1>1. n \in Nat \ {0} /\ Capacity(o) \in Nat
  BY LastFilter, FootprintTyped
<1>2. PICK L : LayoutsOf(o, L)
  BY LayoutsExist
<1>3. /\ L \in [0..n -> Layout] /\ L[0] = start /\ L[n] = LayoutOf(o)
      /\ \A i \in 1..n : L[i] = NextLayout(L[i - 1], o.fp, o.tr, o.expansion)
      /\ \A i \in 0..n : i < n => L[i].total < Capacity(o)
  BY <1>2 DEF LayoutsOf, LayoutOf
<1> DEFINE Less == loop[start].capacity \in 0..Capacity(o)
           T == {i \in Nat : i <= n => Less \/ loop[start] = loop[L[i]]}
<1>. HIDE DEF n, start, Less
<1>4. 0 \in T
  BY <1>3
<1>5. ASSUME NEW i \in Nat, i \in T PROVE i + 1 \in T
  <2>1. SUFFICES ASSUME i + 1 <= n, ~ Less PROVE loop[start] = loop[L[i + 1]]
    OBVIOUS
  <2>2. i \in 0..n /\ i < n /\ i + 1 \in 1..n /\ (i + 1) - 1 = i
    BY <1>1, <2>1
  <2>3. L[i] \in Layout /\ L[i].total < Capacity(o) /\ L[i].total \in Nat
    <3>1. L[i] \in Layout
      BY <1>3, <2>2
    <3>. QED BY <1>3, <2>2, <3>1 DEF Layout
  <2>4. loop[start] = loop[L[i]]
    BY <1>5, <2>1, <2>2
  <2>5. loop[L[i]].err = Ok
    BY <2>4 DEF start
  <2>6. loop[L[i]].capacity # L[i].total
    <3>1. L[i].total \in 0..Capacity(o)
      BY <1>1, <2>3
    <3>. QED BY <2>1, <2>4, <3>1 DEF Less
  <2>7. loop[L[i]] = loop[NextLayout(L[i], o.fp, o.tr, o.expansion)]
    BY <2>3, <2>5, <2>6, UntargetedTurn
  <2>. QED BY <1>3, <2>2, <2>4, <2>7
<1>6. n \in T
  <2>1. Nat \subseteq T
    <3>. HIDE DEF T
    <3>. QED BY <1>4, <1>5, SetInduction
  <2>. HIDE DEF T
  <2>. QED BY <1>1, <2>1
<1>7. LayoutOf(o) \in Layout
  <2>1. n \in 0..n
    BY <1>1
  <2>. QED BY <1>3, <2>1
<1>8. Less \/ loop[start] = loop[LayoutOf(o)]
  BY <1>1, <1>3, <1>6
<1>. QED BY <1>7, <1>8 DEF Less, start

\* More pushes make no smaller Vec.
LEMMA PushedMonotone ==
  ASSUME NEW i \in Nat, NEW j \in Nat, i <= j, NEW v, Pushed(v, i), NEW w, Pushed(w, j)
  PROVE  v \in Nat /\ w \in Nat /\ v <= w
<1>1. v \in PowersOfTwo /\ w \in PowersOfTwo /\ v \in Nat \ {0} /\ w \in Nat \ {0}
  BY PowersOfTwoGrow DEF Pushed
<1>2. w < v => 2 * w <= v
  BY <1>1, PowersOfTwoGrow
<1>. QED BY <1>1, <1>2 DEF Pushed

=============================================================================
