------------------------ MODULE BloomMaintenanceProofs ------------------------
(***************************************************************************)
(* What BloomMaintenance guarantees, for every set of keys and commands,   *)
(* objects of any number of filters and any scheduling: a call of          *)
(* bloom_defrag leaves the object's contents and the shared placeholder as *)
(* they were, a pass covers its object, and with defragmentation in steps  *)
(* and freeing in the background the whole still implements BloomServer.   *)
(***************************************************************************)
EXTENDS BloomMaintenance, BloomServerProofs

(***************************** one call ************************************)

\* Taking an element out of a sequence and putting it back changes nothing.
LEMMA TakenAndPutBack ==
  ASSUME NEW S, NEW s \in Seq(S), NEW i \in 1..Len(s)
  PROVE  InsertAt(RemoveAt(s, i), i, s[i]) = s
<1> DEFINE n == Len(s)
           a == SubSeq(s, 1, i - 1)
           b == SubSeq(s, i + 1, n)
           r == a \o b
           p == SubSeq(r, 1, i - 1)
           q == SubSeq(r, i, n - 1)
<1>1. n \in Nat /\ i \in Nat /\ 1 <= i /\ i <= n /\ \A j \in 1..n : s[j] \in S
  OBVIOUS
<1>. HIDE DEF n
<1>2. /\ a \in Seq(S) /\ Len(a) = i - 1 /\ \A j \in 1..(i - 1) : a[j] = s[j]
  <2>1. i - 1 \in Int /\ \A j \in 1..(i - 1) : s[j] \in S
    BY <1>1
  <2>2. /\ a \in Seq(S) /\ Len(a) = IF 1 <= i - 1 THEN (i - 1) - 1 + 1 ELSE 0
        /\ \A j \in 1..((i - 1) - 1 + 1) : a[j] = s[1 + j - 1]
    BY <2>1, SubSeqProperties
  <2>. QED BY <1>1, <2>2
<1>3. /\ b \in Seq(S) /\ Len(b) = n - i /\ \A j \in 1..(n - i) : b[j] = s[i + j]
  <2>1. i + 1 \in Int /\ n \in Int /\ \A j \in (i + 1)..n : s[j] \in S
    BY <1>1
  <2>2. /\ b \in Seq(S) /\ Len(b) = IF i + 1 <= n THEN n - (i + 1) + 1 ELSE 0
        /\ \A j \in 1..(n - (i + 1) + 1) : b[j] = s[(i + 1) + j - 1]
    BY <2>1, SubSeqProperties
  <2>3. /\ n - (i + 1) + 1 = n - i /\ (i + 1 <= n \/ n - i = 0)
        /\ \A j \in 1..(n - i) : (i + 1) + j - 1 = i + j
    BY <1>1
  <2>. QED BY <2>2, <2>3
<1>. HIDE DEF a, b
<1>4. /\ r \in Seq(S) /\ Len(r) = n - 1
      /\ \A j \in 1..(n - 1) : r[j] = IF j <= i - 1 THEN s[j] ELSE s[j + 1]
  <2>1. /\ r \in Seq(S) /\ Len(r) = Len(a) + Len(b)
        /\ \A j \in 1..(Len(a) + Len(b)) : r[j] = IF j <= Len(a) THEN a[j] ELSE b[j - Len(a)]
    BY <1>2, <1>3, ConcatProperties
  <2>2. ASSUME NEW j \in 1..(n - 1) PROVE r[j] = IF j <= i - 1 THEN s[j] ELSE s[j + 1]
    <3>1. CASE j <= i - 1
      BY <1>1, <1>2, <1>3, <2>1, <3>1
    <3>2. CASE ~ (j <= i - 1)
      <4>1. r[j] = b[j - (i - 1)] /\ j - (i - 1) \in 1..(n - i)
        BY <1>1, <1>2, <1>3, <2>1, <3>2
      <4>. QED BY <1>1, <1>3, <3>2, <4>1
    <3>. QED BY <3>1, <3>2
  <2>. QED BY <1>1, <1>2, <1>3, <2>1, <2>2, SMTT(30)
<1>. HIDE DEF r
<1>5. /\ p \in Seq(S) /\ Len(p) = i - 1 /\ \A j \in 1..(i - 1) : p[j] = s[j]
  <2>1. i - 1 \in Int /\ \A j \in 1..(i - 1) : r[j] \in S /\ r[j] = s[j]
    BY <1>1, <1>4
  <2>2. /\ p \in Seq(S) /\ Len(p) = IF 1 <= i - 1 THEN (i - 1) - 1 + 1 ELSE 0
        /\ \A j \in 1..((i - 1) - 1 + 1) : p[j] = r[1 + j - 1]
    BY <2>1, SubSeqProperties
  <2>. QED BY <1>1, <2>1, <2>2
<1>6. /\ q \in Seq(S) /\ Len(q) = n - i /\ \A j \in 1..(n - i) : q[j] = s[i + j]
  <2>1. n - 1 \in Int /\ \A j \in i..(n - 1) : r[j] \in S /\ r[j] = s[j + 1]
    BY <1>1, <1>4
  <2>2. /\ q \in Seq(S) /\ Len(q) = IF i <= n - 1 THEN (n - 1) - i + 1 ELSE 0
        /\ \A j \in 1..((n - 1) - i + 1) : q[j] = r[i + j - 1]
    BY <2>1, SubSeqProperties
  <2>3. ASSUME NEW j \in 1..(n - i) PROVE q[j] = s[i + j]
    <3>1. q[j] = r[i + j - 1] /\ i + j - 1 \in i..(n - 1)
      BY <1>1, <2>2
    <3>. QED BY <1>1, <2>1, <3>1
  <2>. QED BY <1>1, <2>2, <2>3
<1>7. InsertAt(RemoveAt(s, i), i, s[i]) = (p \o <<s[i]>>) \o q
  BY <1>4 DEF InsertAt, RemoveAt, a, b, r, n
<1>. HIDE DEF p, q
<1>8. <<s[i]>> \in Seq(S) /\ Len(<<s[i]>>) = 1 /\ <<s[i]>>[1] = s[i]
  BY <1>1
<1> DEFINE h == p \o <<s[i]>>
           t == h \o q
<1>9. h \in Seq(S) /\ Len(h) = i /\ \A j \in 1..i : h[j] = s[j]
  <2>1. /\ h \in Seq(S) /\ Len(h) = Len(p) + 1
        /\ \A j \in 1..(Len(p) + 1) :
             h[j] = IF j <= Len(p) THEN p[j] ELSE <<s[i]>>[j - Len(p)]
    BY <1>5, <1>8, ConcatProperties
  <2>. QED BY <1>1, <1>5, <1>8, <2>1
<1>. HIDE DEF h
<1>10. t \in Seq(S) /\ Len(t) = n /\ \A j \in 1..n : t[j] = s[j]
  <2>1. /\ t \in Seq(S) /\ Len(t) = Len(h) + Len(q)
        /\ \A j \in 1..(Len(h) + Len(q)) : t[j] = IF j <= Len(h) THEN h[j] ELSE q[j - Len(h)]
    BY <1>6, <1>9, ConcatProperties
  <2>2. ASSUME NEW j \in 1..n PROVE t[j] = s[j]
    <3>1. CASE j <= i
      BY <1>1, <1>6, <1>9, <2>1, <3>1
    <3>2. CASE ~ (j <= i)
      <4>1. t[j] = q[j - i] /\ j - i \in 1..(n - i)
        BY <1>1, <1>6, <1>9, <2>1, <3>2, SMTT(30)
      <4>. QED BY <1>1, <1>6, <3>2, <4>1
    <3>. QED BY <3>1, <3>2
  <2>. QED BY <1>1, <1>6, <1>9, <2>1, <2>2
<1>. HIDE DEF t
<1>11. t = s
  BY <1>10, SeqEqual DEF n
<1>. QED BY <1>7, <1>11 DEF h, t

\* A filter that held the placeholder for a while has its own Bloom again, and
\* the placeholder is what it was.
LEMMA SwappedBack ==
  ASSUME NEW f \in Filter
  PROVE  /\ Holding(Holding(f, Placeholder), BloomOf(f)) = f
         /\ BloomOf(Holding(f, Placeholder)) = Placeholder
BY DEF Filter, Holding, BloomOf, Placeholder

\* What the turns of a call have done after i of them.
TurnsDone(o, cursor, moved, i) ==
  [filters |-> o.filters, cursor |-> cursor + i, spare |-> Placeholder,
   caps |-> [j \in 1..i |-> o.filters[cursor + j].cap],
   hits |-> i * Cardinality(FilterAllocations \intersect moved),
   misses |-> i * Cardinality(FilterAllocations \ moved)]

\* What is offered for a filter and for an object, however much of it is moved.
LEMMA AllocationsCounted ==
  ASSUME NEW moved
  PROVE  /\ Cardinality(FilterAllocations \intersect moved) \in Nat
         /\ Cardinality(FilterAllocations \ moved) \in Nat
         /\ Cardinality(FilterAllocations) \in Nat
         /\ Cardinality(FilterAllocations \intersect moved)
              + Cardinality(FilterAllocations \ moved) = Cardinality(FilterAllocations)
         /\ Cardinality(ObjectAllocations \intersect moved) \in Nat
         /\ Cardinality(ObjectAllocations \ moved) \in Nat
         /\ Cardinality(ObjectAllocations) \in Nat
         /\ Cardinality(ObjectAllocations \intersect moved)
              + Cardinality(ObjectAllocations \ moved) = Cardinality(ObjectAllocations)
<1>1. IsFiniteSet(FilterAllocations) /\ IsFiniteSet(ObjectAllocations)
  <2>1. ASSUME NEW a, NEW b PROVE IsFiniteSet({a, b})
    <3>1. {a} = {} \union {a} /\ {a, b} = {a} \union {b}
      OBVIOUS
    <3>2. IsFiniteSet({a})
      BY <3>1, FS_EmptySet, FS_AddElement
    <3>. QED BY <3>1, <3>2, FS_AddElement
  <2>2. FilterAllocations = {"BloomFilter", "Bloom"} \union {"bits"}
    BY DEF FilterAllocations
  <2>. QED BY <2>1, <2>2, FS_AddElement DEF ObjectAllocations
<1>2. ASSUME NEW S, IsFiniteSet(S)
      PROVE  /\ Cardinality(S \intersect moved) \in Nat /\ Cardinality(S \ moved) \in Nat
             /\ Cardinality(S) \in Nat
             /\ Cardinality(S \intersect moved) + Cardinality(S \ moved) = Cardinality(S)
  <2>1. IsFiniteSet(S \intersect moved) /\ IsFiniteSet(S \ moved)
    BY <1>2, FS_Subset
  <2>2. Cardinality(S \ moved) = Cardinality(S) - Cardinality(S \intersect moved)
    BY <1>2, FS_Difference
  <2>. QED BY <1>2, <2>1, <2>2, FS_CardinalityType
<1>. QED BY <1>1, <1>2

\* One turn: whatever the allocator moves, the next filter is in its place.
LEMMA TurnDone ==
  ASSUME NEW o \in Object, NEW cursor \in Nat, NEW moved, NEW i \in Nat,
         cursor + i < Len(o.filters)
  PROVE  DefragTurn(TurnsDone(o, cursor, moved, i), moved) = TurnsDone(o, cursor, moved, i + 1)
<1> DEFINE s == TurnsDone(o, cursor, moved, i)
           k == cursor + i + 1
           hit == Cardinality(FilterAllocations \intersect moved)
           miss == Cardinality(FilterAllocations \ moved)
<1>1. /\ o.filters \in Seq(Filter) /\ Len(o.filters) \in Nat /\ k \in 1..Len(o.filters)
      /\ o.filters[k] \in Filter /\ k = cursor + (i + 1)
  BY DEF Object
<1>2. hit \in Nat /\ miss \in Nat
  BY AllocationsCounted
<1>3. (i + 1) * hit = i * hit + hit /\ (i + 1) * miss = i * miss + miss
  <2>. HIDE DEF hit, miss
  <2>. QED BY <1>2
<1>4. InsertAt(RemoveAt(o.filters, k), k, o.filters[k]) = o.filters
  BY <1>1, TakenAndPutBack
<1>5. /\ Holding(Holding(o.filters[k], Placeholder), BloomOf(o.filters[k])) = o.filters[k]
      /\ BloomOf(Holding(o.filters[k], Placeholder)) = Placeholder
  BY <1>1, SwappedBack
<1> DEFINE caps == [j \in 1..i |-> o.filters[cursor + j].cap]
<1>6. Append(caps, o.filters[k].cap) = [j \in 1..(i + 1) |-> o.filters[cursor + j].cap]
  <2>1. Len(caps) = i /\ DOMAIN caps = 1..i
    OBVIOUS
  <2>2. \A j \in 1..(i + 1) : Append(caps, o.filters[k].cap)[j] = o.filters[cursor + j].cap
    BY <1>1
  <2>. QED BY <1>1, <2>1, <2>2
<1>7. s = [filters |-> o.filters, cursor |-> cursor + i, spare |-> Placeholder,
           caps |-> caps, hits |-> i * hit, misses |-> i * miss]
  BY DEF TurnsDone
<1>8. TurnsDone(o, cursor, moved, i + 1)
        = [filters |-> o.filters, cursor |-> k, spare |-> Placeholder,
           caps |-> Append(caps, o.filters[k].cap),
           hits |-> i * hit + hit, misses |-> i * miss + miss]
  BY <1>1, <1>3, <1>6 DEF TurnsDone
<1>. HIDE DEF caps, hit, miss, s, k
<1>9. DefragTurn(s, moved)
        = [filters |-> InsertAt(RemoveAt(o.filters, k), k,
                         Holding(Holding(o.filters[k], Placeholder), BloomOf(o.filters[k]))),
           cursor |-> k, spare |-> BloomOf(Holding(o.filters[k], Placeholder)),
           caps |-> Append(caps, o.filters[k].cap),
           hits |-> i * hit + hit, misses |-> i * miss + miss]
  <2> DEFINE u == Offered(s, FilterAllocations, moved)
  <2>1. u = [filters |-> o.filters, cursor |-> cursor + i, spare |-> Placeholder,
             caps |-> caps, hits |-> i * hit + hit, misses |-> i * miss + miss]
    <3> DEFINE ih == i * hit
               im == i * miss
               c == cursor + i
    <3>1. s = [filters |-> o.filters, cursor |-> c, spare |-> Placeholder,
               caps |-> caps, hits |-> ih, misses |-> im]
      BY <1>7
    <3>. HIDE DEF ih, im, c
    <3>2. u = [[s EXCEPT !.hits = @ + hit] EXCEPT !.misses = @ + miss]
      BY <3>1 DEF Offered, hit, miss
    <3>3. u = [filters |-> o.filters, cursor |-> c, spare |-> Placeholder, caps |-> caps,
               hits |-> ih + hit, misses |-> im + miss]
      <4>. HIDE DEF u
      <4>. QED BY <3>1, <3>2
    <3>. QED BY <3>3 DEF ih, im, c
  <2>2. DefragTurn(s, moved)
          = [u EXCEPT !.filters = InsertAt(RemoveAt(@, k), k,
                        Holding(Holding(o.filters[k], Placeholder), BloomOf(o.filters[k]))),
                      !.spare   = BloomOf(Holding(o.filters[k], Placeholder)),
                      !.caps    = Append(@, o.filters[k].cap),
                      !.cursor  = k]
    <3>. HIDE DEF u
    <3>1. /\ s.cursor + 1 = k /\ s.filters[k] = o.filters[k] /\ s.spare = Placeholder
          /\ o.filters[k].cap = s.filters[k].cap
      BY <1>7 DEF k
    <3>. QED BY <3>1 DEF DefragTurn, u
  <2>. HIDE DEF u
  <2>. QED BY <2>1, <2>2
<1>. QED BY <1>4, <1>5, <1>8, <1>9 DEF s

\* The turns of a call.
LEMMA TurnsAreDone ==
  ASSUME NEW o \in Object, NEW cursor \in Nat, NEW moved, NEW turns \in Nat,
         turns = 0 \/ cursor + turns <= Len(o.filters)
  PROVE  DefragTurns(TurnsDone(o, cursor, moved, 0), turns, moved)
           = TurnsDone(o, cursor, moved, turns)
<1> DEFINE s == TurnsDone(o, cursor, moved, 0)
           done == [i \in 0..turns |-> TurnsDone(o, cursor, moved, i)]
           R(g) == g = [i \in 0..turns |-> IF i = 0 THEN s ELSE DefragTurn(g[i - 1], moved)]
<1>1. Len(o.filters) \in Nat
  BY DEF Object
<1>2. ASSUME NEW i \in 1..turns
      PROVE  DefragTurn(TurnsDone(o, cursor, moved, i - 1), moved) = TurnsDone(o, cursor, moved, i)
  <2>1. i - 1 \in Nat /\ cursor + (i - 1) < Len(o.filters) /\ (i - 1) + 1 = i
    BY <1>1
  <2>. QED BY <2>1, TurnDone
<1>3. R(done)
  <2>1. \A i \in 0..turns :
          done[i] = IF i = 0 THEN s ELSE DefragTurn(done[i - 1], moved)
    <3>1. ASSUME NEW i \in 0..turns, i # 0 PROVE done[i] = DefragTurn(done[i - 1], moved)
      <4>1. i \in 1..turns /\ i - 1 \in 0..turns
        BY <3>1
      <4>. QED BY <1>2, <4>1
    <3>. QED BY <3>1
  <2>. HIDE DEF s
  <2>. QED BY <2>1
<1> DEFINE turn == CHOOSE r : R(r)
<1>4. R(turn)
  BY <1>3
<1>5. DefragTurns(s, turns, moved) = turn[turns]
  BY DEF DefragTurns
<1>. HIDE DEF turn, s
<1>6. turn[0] = s /\ \A i \in 1..turns : turn[i] = DefragTurn(turn[i - 1], moved)
  BY <1>4
<1> DEFINE T == {i \in Nat : i <= turns => turn[i] = TurnsDone(o, cursor, moved, i)}
<1>7. 0 \in T
  BY <1>6 DEF s
<1>8. ASSUME NEW i \in Nat, i \in T PROVE i + 1 \in T
  <2>1. ASSUME i + 1 <= turns PROVE turn[i + 1] = TurnsDone(o, cursor, moved, i + 1)
    <3>1. i + 1 \in 1..turns /\ (i + 1) - 1 = i /\ turn[i] = TurnsDone(o, cursor, moved, i)
      BY <1>8, <2>1
    <3>. QED BY <1>2, <1>6, <3>1
  <2>. QED BY <2>1
<1>9. turns \in T
  <2>. HIDE DEF T
  <2>. QED BY <1>7, <1>8, SetInduction
<1>. QED BY <1>5, <1>9 DEF s

\* A call of bloom_defrag on o from the cursor on, in time for some turns, came to
\* r: the contents of the object and the placeholder are as before, the filters are
\* taken up in order, and the Vec loses its slack when no filter is left.
CallEffect(o, cursor, turns, r) ==
  /\ r.work.spare = Placeholder /\ r.work.cursor = cursor + turns
  /\ r.work.caps = [j \in 1..turns |-> o.filters[cursor + j].cap]
  /\ turns = 0 \/ cursor + turns <= Len(o.filters)
  /\ r.work.hits \in Nat /\ r.work.misses \in Nat
  /\ \/ /\ r.ret = 1 /\ cursor + turns < Len(o.filters) /\ r.obj = o
        /\ r.work.hits + r.work.misses = turns * Cardinality(FilterAllocations)
     \/ /\ r.ret = 0 /\ cursor + turns >= Len(o.filters) /\ r.obj = Decoded(o)
        /\ r.work.hits + r.work.misses
             = turns * Cardinality(FilterAllocations) + Cardinality(ObjectAllocations)

LEMMA CallDone ==
  ASSUME NEW o \in Object, NEW cursor \in Nat, NEW moved,
         NEW turns \in 0..FiltersFrom(o, cursor), spare = Placeholder
  PROVE  CallEffect(o, cursor, turns, DefragCall(o, cursor, turns, moved))
<1> DEFINE n == Len(o.filters)
           start == [filters |-> o.filters, cursor |-> cursor, spare |-> spare,
                     caps |-> <<>>, hits |-> 0, misses |-> 0]
           s == TurnsDone(o, cursor, moved, turns)
           r == DefragCall(o, cursor, turns, moved)
           hit == Cardinality(FilterAllocations \intersect moved)
           miss == Cardinality(FilterAllocations \ moved)
           hit2 == Cardinality(ObjectAllocations \intersect moved)
           miss2 == Cardinality(ObjectAllocations \ moved)
<1>1. n \in Nat /\ turns \in Nat /\ (turns = 0 \/ cursor + turns <= n)
  <2>1. n \in Nat
    BY DEF Object
  <2>2. n - cursor \in Int /\ 0 \in Int
    BY <2>1
  <2>3. FiltersFrom(o, cursor) = IF n - cursor >= 0 THEN n - cursor ELSE 0
    <3>. HIDE DEF n
    <3> DEFINE d == n - cursor
    <3>1. d \in Int
      BY <2>1
    <3>. HIDE DEF d
    <3>2. \A x \in {0, d} : (\A y \in {0, d} : x >= y) <=> x = IF d >= 0 THEN d ELSE 0
      BY <3>1
    <3>3. Max({0, d}) = IF d >= 0 THEN d ELSE 0
      BY <3>1, <3>2 DEF Max
    <3>. QED BY <3>3 DEF FiltersFrom, d, n
  <2>. QED BY <2>1, <2>2, <2>3
<1>2. start = TurnsDone(o, cursor, moved, 0)
  <2>1. <<>> = [j \in 1..0 |-> o.filters[cursor + j].cap]
    OBVIOUS
  <2>2. hit \in Nat /\ miss \in Nat
    BY AllocationsCounted
  <2>3. 0 * hit = 0 /\ 0 * miss = 0 /\ cursor + 0 = cursor
    <3>. HIDE DEF hit, miss
    <3>. QED BY <2>2
  <2>. QED BY <2>1, <2>3 DEF TurnsDone
<1>3. DefragTurns(start, turns, moved) = s
  BY <1>1, <1>2, TurnsAreDone
<1>4. /\ hit \in Nat /\ miss \in Nat /\ hit2 \in Nat /\ miss2 \in Nat
      /\ hit + miss = Cardinality(FilterAllocations)
      /\ hit2 + miss2 = Cardinality(ObjectAllocations)
  BY AllocationsCounted
<1>5. /\ s.filters = o.filters /\ s.cursor = cursor + turns /\ s.spare = Placeholder
      /\ s.caps = [j \in 1..turns |-> o.filters[cursor + j].cap]
      /\ s.hits = turns * hit /\ s.misses = turns * miss
      /\ s = [filters |-> s.filters, cursor |-> s.cursor, spare |-> s.spare,
              caps |-> s.caps, hits |-> s.hits, misses |-> s.misses]
  BY DEF TurnsDone
<1>6. [o EXCEPT !.filters = s.filters] = o
  BY <1>5 DEF Object
<1>7. [[o EXCEPT !.filters = s.filters] EXCEPT !.vcap = Len(s.filters)] = Decoded(o)
  BY <1>5, <1>6 DEF Decoded
<1>8. r = IF Unfinished(s) THEN [ret |-> 1, obj |-> o, work |-> s]
          ELSE [ret |-> 0, obj |-> Decoded(o), work |-> Offered(s, ObjectAllocations, moved)]
  <2>. HIDE DEF s
  <2>. QED BY <1>3, <1>6, <1>7 DEF DefragCall
<1>9. turns * hit + turns * miss = turns * Cardinality(FilterAllocations)
  <2>. HIDE DEF hit, miss
  <2>1. turns * (hit + miss) = turns * hit + turns * miss
    BY <1>1, <1>4
  <2>. QED BY <1>4, <2>1
<1>10. /\ turns * hit \in Nat /\ turns * miss \in Nat
       /\ turns * Cardinality(FilterAllocations) \in Nat
  <2>1. Cardinality(FilterAllocations) \in Nat
    BY AllocationsCounted
  <2>. HIDE DEF hit, miss
  <2>. QED BY <1>1, <1>4, <2>1
<1> DEFINE w == Offered(s, ObjectAllocations, moved)
<1>11. /\ w.spare = s.spare /\ w.cursor = s.cursor /\ w.caps = s.caps
       /\ w.hits = s.hits + hit2 /\ w.misses = s.misses + miss2
  <2>. HIDE DEF s
  <2>. QED BY <1>5 DEF Offered
<1>12. Unfinished(s) <=> cursor + turns < n
  BY <1>5 DEF Unfinished
<1>. HIDE DEF s, w, hit, miss, hit2, miss2
<1>13. CASE Unfinished(s)
  <2>1. r.ret = 1 /\ r.obj = o /\ r.work = s
    BY <1>8, <1>13
  <2>. HIDE DEF r
  <2>. QED BY <1>1, <1>5, <1>9, <1>10, <1>12, <1>13, <2>1 DEF r, n, CallEffect
<1>14. CASE ~ Unfinished(s)
  <2>1. r.ret = 0 /\ r.obj = Decoded(o) /\ r.work = w
    BY <1>8, <1>14 DEF w
  <2>2. cursor + turns >= n
    BY <1>1, <1>12, <1>14
  <2>3. w.hits = turns * hit + hit2 /\ w.misses = turns * miss + miss2
    BY <1>5, <1>11
  <2>4. /\ w.hits \in Nat /\ w.misses \in Nat
        /\ w.hits + w.misses
             = turns * Cardinality(FilterAllocations) + Cardinality(ObjectAllocations)
    BY <1>4, <1>9, <1>10, <2>3
  <2>. HIDE DEF r
  <2>. QED BY <1>1, <1>5, <1>11, <2>1, <2>2, <2>4 DEF r, n, CallEffect
<1>. QED BY <1>13, <1>14

(************************* what handlers depend on *************************)

\* A filter that counts an item has a bit set: it is not the placeholder.
Used(o) == \A i \in DOMAIN o.filters : o.filters[i].num > 0 => o.filters[i].bits # {}

\* An item with hashes under a seed: one that an empty vector does not hold.
Hashed(seed, x) == Hash[seed, x] # {}

\* Two turns that differ in nothing but the counters.
Alike(s, t) == s.obj = t.obj /\ s.err = t.err /\ s.ints = t.ints

\* An item that an object does not hold has hashes.
LEMMA AbsentItemHashes ==
  ASSUME NEW o \in Object, WellFormed(o), NEW x \in Item, ~ ItemExists(o, x)
  PROVE  Hashed(SeedOf(o), x)
<1>1. 1 \in DOMAIN o.filters
  BY LastFilter
<1>2. ~ (BitsOf(o.filters[1], x) \subseteq o.filters[1].bits)
  BY <1>1 DEF ItemExists, Check
<1>3. BitsOf(o.filters[1], x) # {}
  BY <1>2
<1>. QED BY <1>3, Zenon DEF BitsOf, SeedOf, Hashed

\* A filter with an item set has a bit set, if the item has a hash.
LEMMA SetIsUsed ==
  ASSUME NEW f \in Filter, NEW x \in Item, Hashed(f.seed, x)
  PROVE  Set(f, x).bits # {}
<1>1. BitsOf(f, x) # {}
  BY Zenon DEF BitsOf, Hashed
<1>. QED BY <1>1, SetFilter

\* An add of an item with hashes leaves no filter that counts items without a bit.
LEMMA AddIsUsed ==
  ASSUME NEW o \in Object, WellFormed(o), Used(o), NEW x \in Item, Hashed(SeedOf(o), x),
         NEW validate, NEW limit, AddError(o, validate, limit) = Ok
  PROVE  Used(AddItemUnchecked(o, x))
<1> DEFINE n == Len(o.filters)
           a == AddItemUnchecked(o, x)
<1>1. /\ n \in Nat \ {0} /\ \A i \in 1..n : o.filters[i] \in Filter
      /\ DOMAIN o.filters = 1..n /\ SeedOf(o) \in Seeds /\ o.filters \in Seq(Filter)
  BY LastFilter DEF Object
<1>2. \A i \in 1..n : o.filters[i].seed = SeedOf(o)
  BY DEF WellFormed, SeedOf
<1>3. CASE Full(Last(o.filters))
  <2> DEFINE new == NewFilter(NextFp(o), NextCapacity(o), SeedOf(o))
  <2>1. o.expansion # 0 /\ NextCapacity(o) <= CapacityMax
    BY <1>3, ScaleOutAllowed
  <2>2. new \in Filter
    BY <1>1, <2>1, NextFilter, NewFilterTyped
  <2>3. new.seed = SeedOf(o)
    BY DEF NewFilter
  <2>4. a.filters = Append(o.filters, Set(new, x))
    BY <1>3 DEF AddItemUnchecked, ScaledOut, Object
  <2>. HIDE DEF new, a
  <2>5. Set(new, x) \in Filter /\ Set(new, x).bits # {}
    BY <2>2, <2>3, SetFilter, SetIsUsed
  <2>6. ASSUME NEW i \in DOMAIN a.filters, a.filters[i].num > 0 PROVE a.filters[i].bits # {}
    <3>1. i \in 1..(n + 1) /\ a.filters[i] = IF i <= n THEN o.filters[i] ELSE Set(new, x)
      BY <1>1, <2>4, <2>5
    <3>2. CASE i <= n
      <4>1. i \in DOMAIN o.filters /\ a.filters[i] = o.filters[i]
        BY <1>1, <3>1, <3>2
      <4>. QED BY <2>6, <4>1 DEF Used
    <3>3. CASE ~ (i <= n)
      BY <2>5, <3>1, <3>3
    <3>. QED BY <3>2, <3>3
  <2>. QED BY <2>6 DEF Used, a
<1>4. CASE ~ Full(Last(o.filters))
  <2>1. a.filters = [o.filters EXCEPT ![n] = Set(o.filters[n], x)]
    BY <1>4 DEF AddItemUnchecked, AddToLast, Object
  <2>2. n \in 1..n /\ Set(o.filters[n], x).bits # {}
    BY <1>1, <1>2, SetIsUsed
  <2>. HIDE DEF a
  <2>3. ASSUME NEW i \in DOMAIN a.filters, a.filters[i].num > 0 PROVE a.filters[i].bits # {}
    <3>1. i \in DOMAIN o.filters
      BY <2>1
    <3>2. CASE i = n
      BY <2>1, <2>2, <3>1, <3>2
    <3>3. CASE i # n
      BY <2>1, <2>3, <3>1, <3>3 DEF Used
    <3>. QED BY <3>2, <3>3
  <2>. QED BY <2>3 DEF Used, a
<1>. QED BY <1>3, <1>4

\* One turn of a batch does the same with other counters, and its object stays
\* used if the item, when it is taken for new, has hashes.
LEMMA AddTurnDepends ==
  ASSUME NEW s \in Turn, NEW t \in Turn, Alike(s, t), NEW x \in Item, NEW new \in BOOLEAN,
         NEW validate, NEW limit
  PROVE  LET u == AddTurn(s, x, new, validate, limit)
         IN  /\ Alike(u, AddTurn(t, x, new, validate, limit))
             /\ Used(s.obj) /\ (new => Hashed(SeedOf(s.obj), x)) => Used(u.obj)
             /\ SeedOf(u.obj) = SeedOf(s.obj)
<1> DEFINE err == AddError(s.obj, validate, limit)
           u == AddTurn(s, x, new, validate, limit)
           w == AddTurn(t, x, new, validate, limit)
<1>1. /\ s.obj = t.obj /\ s.err = t.err /\ s.ints = t.ints
      /\ s.obj \in Object /\ WellFormed(s.obj)
      /\ s = [obj |-> s.obj, metrics |-> s.metrics, err |-> s.err, ints |-> s.ints]
      /\ t = [obj |-> s.obj, metrics |-> t.metrics, err |-> s.err, ints |-> s.ints]
  BY TurnFields DEF Alike
<1>2. CASE s.err # Ok
  <2>1. u = s /\ w = t
    BY <1>1, <1>2 DEF AddTurn
  <2>. QED BY <1>1, <2>1 DEF Alike
<1>3. CASE s.err = Ok /\ ~ new
  <2>1. u = [s EXCEPT !.ints = Append(s.ints, 0)] /\ w = [t EXCEPT !.ints = Append(s.ints, 0)]
    BY <1>1, <1>3 DEF AddTurn
  <2>2. /\ u.obj = s.obj /\ u.err = s.err /\ u.ints = Append(s.ints, 0)
        /\ w.obj = s.obj /\ w.err = s.err /\ w.ints = Append(s.ints, 0)
    BY <1>1, <2>1
  <2>. HIDE DEF u, w
  <2>. QED BY <2>2 DEF Alike, u, w
<1>4. CASE s.err = Ok /\ new /\ err # Ok
  <2>1. u = [s EXCEPT !.err = err] /\ w = [t EXCEPT !.err = err]
    BY <1>1, <1>4 DEF AddTurn
  <2>. HIDE DEF err
  <2>2. /\ u.obj = s.obj /\ u.err = err /\ u.ints = s.ints
        /\ w.obj = s.obj /\ w.err = err /\ w.ints = s.ints
    BY <1>1, <2>1
  <2>. HIDE DEF u, w
  <2>. QED BY <2>2 DEF Alike, u, w
<1>5. CASE s.err = Ok /\ new /\ err = Ok
  <2> DEFINE a == AddItemUnchecked(s.obj, x)
  <2>1. /\ u = [obj |-> a, err |-> Ok, metrics |-> AddMetrics(s.metrics, s.obj, x),
                ints |-> Append(s.ints, 1)]
        /\ w = [obj |-> a, err |-> Ok, metrics |-> AddMetrics(t.metrics, s.obj, x),
                ints |-> Append(s.ints, 1)]
    BY <1>1, <1>5 DEF AddTurn
  <2>2. Used(s.obj) /\ Hashed(SeedOf(s.obj), x) => Used(a)
    BY <1>1, <1>5, AddIsUsed
  <2>3. SeedOf(a) = SeedOf(s.obj)
    <3>1. Grown(s.obj, a)
      BY <1>1, <1>5, AddGrows
    <3>2. 1 \in DOMAIN s.obj.filters
      BY <1>1, LastFilter
    <3>. HIDE DEF a
    <3>. QED BY <3>1, <3>2 DEF Grown, SeedOf
  <2>4. /\ u.obj = a /\ u.err = Ok /\ u.ints = Append(s.ints, 1)
        /\ w.obj = a /\ w.err = Ok /\ w.ints = Append(s.ints, 1)
    <3>. HIDE DEF a
    <3>. QED BY <2>1
  <2>. HIDE DEF u, w, a
  <2>. QED BY <1>5, <2>2, <2>3, <2>4 DEF Alike, u, w
<1>. QED BY <1>2, <1>3, <1>4, <1>5

\* The same of a batch.
LEMMA AddTurnsDepend ==
  ASSUME NEW s \in Turn, NEW t \in Turn, Alike(s, t), NEW items \in Seq(Item),
         NEW validate, NEW limit
  PROVE  LET u == AddTurns(s, items, NewItems(s.obj, items), validate, limit)
         IN  /\ Alike(u, AddTurns(t, items, NewItems(s.obj, items), validate, limit))
             /\ Used(s.obj) => Used(u.obj)
<1> DEFINE n == Len(items)
           new == NewItems(s.obj, items)
<1>1. PICK a : /\ TurnsOf(s, items, validate, limit, a)
               /\ AddTurns(s, items, new, validate, limit) = a[n]
  BY AddTurnsSteps
<1>2. PICK b : /\ TurnsOf(t, items, validate, limit, b)
               /\ AddTurns(t, items, NewItems(t.obj, items), validate, limit) = b[n]
  BY AddTurnsSteps
<1>3. t.obj = s.obj /\ n \in Nat /\ s.obj \in Object /\ WellFormed(s.obj)
  BY TurnFields DEF Alike
<1>4. /\ a \in [0..n -> Turn] /\ a[0] = s
      /\ \A i \in 1..n : a[i] = AddTurn(a[i - 1], items[i], i \in new, validate, limit)
  BY <1>1 DEF TurnsOf
<1>5. /\ b \in [0..n -> Turn] /\ b[0] = t
      /\ \A i \in 1..n : b[i] = AddTurn(b[i - 1], items[i], i \in new, validate, limit)
  BY <1>2, <1>3 DEF TurnsOf
<1>6. ASSUME NEW i \in 1..n
      PROVE  /\ items[i] \in Item /\ (i \in new) \in BOOLEAN
             /\ i \in new => Hashed(SeedOf(s.obj), items[i])
  <2>1. items[i] \in Item
    BY <1>6
  <2>2. i \in new => ~ ItemExists(s.obj, items[i])
    BY DEF NewItems
  <2>. HIDE DEF new
  <2>. QED BY <1>3, <2>1, <2>2, AbsentItemHashes
<1>. HIDE DEF new, n
<1> DEFINE Good(i) == /\ Alike(a[i], b[i]) /\ SeedOf(a[i].obj) = SeedOf(s.obj)
                      /\ Used(s.obj) => Used(a[i].obj)
           T == {i \in Nat : i <= n => Good(i)}
<1>7. 0 \in T
  BY <1>4, <1>5
<1>8. ASSUME NEW i \in Nat, i \in T PROVE i + 1 \in T
  <2>1. ASSUME i + 1 <= n PROVE Good(i + 1)
    <3>1. /\ i + 1 \in 1..n /\ (i + 1) - 1 = i /\ a[i] \in Turn /\ b[i] \in Turn
          /\ Alike(a[i], b[i]) /\ SeedOf(a[i].obj) = SeedOf(s.obj)
          /\ Used(s.obj) => Used(a[i].obj)
      BY <1>3, <1>4, <1>5, <1>8, <2>1
    <3>2. /\ a[i + 1] = AddTurn(a[i], items[i + 1], i + 1 \in new, validate, limit)
          /\ b[i + 1] = AddTurn(b[i], items[i + 1], i + 1 \in new, validate, limit)
      BY <1>4, <1>5, <3>1
    <3>3. /\ items[i + 1] \in Item /\ (i + 1 \in new) \in BOOLEAN
          /\ i + 1 \in new => Hashed(SeedOf(a[i].obj), items[i + 1])
      BY <1>6, <3>1
    <3> DEFINE x == items[i + 1]
               fresh == i + 1 \in new
               u == AddTurn(a[i], x, fresh, validate, limit)
    <3>. HIDE DEF x, fresh
    <3>4. /\ Alike(u, AddTurn(b[i], x, fresh, validate, limit))
          /\ Used(a[i].obj) /\ (fresh => Hashed(SeedOf(a[i].obj), x)) => Used(u.obj)
          /\ SeedOf(u.obj) = SeedOf(a[i].obj)
      <4>1. x \in Item /\ fresh \in BOOLEAN
        BY <3>3 DEF x, fresh
      <4>. QED BY <3>1, <4>1, AddTurnDepends
    <3>5. u = a[i + 1] /\ AddTurn(b[i], x, fresh, validate, limit) = b[i + 1]
      BY <3>2 DEF x, fresh
    <3>. HIDE DEF u
    <3>. QED BY <3>1, <3>3, <3>4, <3>5 DEF x, fresh
  <2>. HIDE DEF Good
  <2>. QED BY <2>1
<1>9. Good(n)
  <2>1. n \in T
    <3>. HIDE DEF T
    <3>. QED BY <1>3, <1>7, <1>8, SetInduction
  <2>. QED BY <1>3, <2>1
<1>. QED BY <1>1, <1>2, <1>3, <1>9 DEF new, n

\* handle_bloom_add with other counters.
LEMMA HandleAddDepends ==
  ASSUME NEW o \in Object, WellFormed(o), NEW m \in Counters, NEW k \in Counters,
         NEW items \in Seq(Item), NEW multi \in BOOLEAN, ~ multi => Len(items) = 1,
         NEW validate, NEW limit
  PROVE  LET h == HandleAdd(o, m, items, multi, validate, limit)
         IN  /\ Alike(h, HandleAdd(o, k, items, multi, validate, limit))
             /\ Used(o) => Used(h.obj)
<1> DEFINE s == [obj |-> o, metrics |-> m, err |-> Ok, ints |-> <<>>]
           t == [obj |-> o, metrics |-> k, err |-> Ok, ints |-> <<>>]
           new == NewItems(o, items)
           err == ValidateAddItems(o, Cardinality(new), limit)
           h == HandleAdd(o, m, items, multi, validate, limit)
           g == HandleAdd(o, k, items, multi, validate, limit)
<1>1. s \in Turn /\ t \in Turn
  <2>1. <<>> \in Seq({0, 1}) /\ Ok \in AddErrors
    BY DEF AddErrors
  <2>. QED BY <2>1 DEF Turn
<1>2. Alike(s, t) /\ s.obj = o
  BY DEF Alike
<1>3. CASE multi /\ err # Ok
  <2>1. h = [s EXCEPT !.err = err] /\ g = [t EXCEPT !.err = err]
    BY <1>3 DEF HandleAdd
  <2>. HIDE DEF err
  <2>2. h.obj = o /\ h.err = err /\ h.ints = <<>> /\ g.obj = o /\ g.err = err /\ g.ints = <<>>
    BY <2>1
  <2>. HIDE DEF h, g
  <2>. QED BY <2>2 DEF Alike, h, g
<1>4. CASE multi /\ err = Ok
  <2>1. /\ h = AddTurns(s, items, new, validate, limit)
        /\ g = AddTurns(t, items, new, validate, limit)
    BY <1>4 DEF HandleAdd
  <2>. HIDE DEF s, t, h, g, err
  <2>2. Alike(h, g) /\ (Used(s.obj) => Used(h.obj))
    BY <1>1, <1>2, <2>1, AddTurnsDepend
  <2>. QED BY <1>2, <2>2 DEF h, g
<1>5. CASE ~ multi
  <2> DEFINE x == items[1]
             fresh == ~ ItemExists(o, x)
  <2>1. /\ h = AddTurn(s, x, fresh, validate, limit)
        /\ g = AddTurn(t, x, fresh, validate, limit)
    BY <1>5 DEF HandleAdd
  <2>2. x \in Item /\ fresh \in BOOLEAN
    <3>1. Len(items) = 1
      BY <1>5, Zenon
    <3>2. x \in Item
      <4>1. 1 \in 1..Len(items)
        BY <3>1
      <4>2. \A i \in 1..Len(items) : items[i] \in Item
        OBVIOUS
      <4>. QED BY <4>1, <4>2, Zenon DEF x
    <3>3. fresh \in BOOLEAN
      OBVIOUS
    <3>. HIDE DEF x, fresh
    <3>. QED BY <3>2, <3>3
  <2>3. fresh => Hashed(SeedOf(o), x)
    <3>. HIDE DEF x
    <3>. QED BY <2>2, AbsentItemHashes
  <2>. HIDE DEF s, t, h, g, x, fresh
  <2>4. /\ Alike(h, g)
        /\ Used(s.obj) /\ (fresh => Hashed(SeedOf(s.obj), x)) => Used(h.obj)
    BY <1>1, <1>2, <2>1, <2>2, AddTurnDepends
  <2>. QED BY <1>2, <2>3, <2>4 DEF h, g
<1>. QED BY <1>3, <1>4, <1>5

\* Two outcomes for the value v that differ in nothing but the counters, and
\* leave a used object if there was one or none.
Steady(v, a, b) ==
  /\ a.val = b.val /\ a.reply = b.reply /\ a.repl = b.repl /\ a.events = b.events
  /\ IsObject(a.val) /\ (IsObject(v) => Used(v)) => Used(a.val)

LEMMA RejectedDepends ==
  ASSUME NEW v, NEW m, NEW k, NEW err
  PROVE  Steady(v, Rejected(v, m, err), Rejected(v, k, err))
BY DEF Steady, Rejected, Outcome

\* An add to an object with other counters.
LEMMA AddToExistingDepends ==
  ASSUME NEW c, c.items \in Seq(Item), NEW o \in Object, WellFormed(o),
         NEW m \in Counters, NEW k \in Counters,
         NEW multi \in BOOLEAN, ~ multi => Len(c.items) = 1, NEW validate, NEW limit
  PROVE  Steady(o, AddToExisting(c, o, m, multi, validate, limit),
                   AddToExisting(c, o, k, multi, validate, limit))
<1> DEFINE h == HandleAdd(o, m, c.items, multi, validate, limit)
           g == HandleAdd(o, k, c.items, multi, validate, limit)
<1>1. Alike(h, g) /\ (Used(o) => Used(h.obj))
  BY HandleAddDepends
<1>2. IsObject(o)
  BY ObjectsAreValues
<1>. HIDE DEF h, g
<1>3. h.obj = g.obj /\ AddReply(h) = AddReply(g) /\ h.err = g.err
      /\ (AddSucceeded(h) <=> AddSucceeded(g))
  BY <1>1 DEF Alike, AddReply, AddSucceeded
<1>4. /\ AddToExisting(c, o, m, multi, validate, limit)
           = Outcome(h.obj, h.metrics, h.err, AddReply(h),
                     IF AddSucceeded(h) THEN <<c>> ELSE <<>>,
                     IF AddSucceeded(h) THEN {"bloom.add"} ELSE {})
      /\ AddToExisting(c, o, k, multi, validate, limit)
           = Outcome(h.obj, g.metrics, h.err, AddReply(h),
                     IF AddSucceeded(h) THEN <<c>> ELSE <<>>,
                     IF AddSucceeded(h) THEN {"bloom.add"} ELSE {})
  BY <1>3 DEF AddToExisting, h, g
<1>. QED BY <1>1, <1>2, <1>4 DEF Steady, Outcome

\* A creation with other counters.
LEMMA CreateAndAddDepends ==
  ASSUME NEW c, c.items \in Seq(Item), NEW p \in PropertyType,
         NEW m \in Counters, NEW k \in Counters,
         NEW multi \in BOOLEAN, ~ multi => Len(c.items) = 1, NEW validate, NEW limit
  PROVE  Steady(Absent, CreateAndAdd(c, p, m, multi, validate, limit),
                        CreateAndAdd(c, p, k, multi, validate, limit))
<1> DEFINE o == NewReserved(p)
           a == NewReservedMetrics(m, o)
           b == NewReservedMetrics(k, o)
           h == HandleAdd(o, a, c.items, multi, validate, limit)
           g == HandleAdd(o, b, c.items, multi, validate, limit)
           e == CreateError(p, validate, limit)
<1>1. CASE e # Ok
  <2>1. /\ CreateAndAdd(c, p, m, multi, validate, limit) = Rejected(Absent, m, e)
        /\ CreateAndAdd(c, p, k, multi, validate, limit) = Rejected(Absent, k, e)
    BY <1>1 DEF CreateAndAdd
  <2>. QED BY <2>1, RejectedDepends
<1>2. CASE e = Ok
  <2>1. o \in Object /\ WellFormed(o) /\ a \in Counters /\ b \in Counters
    BY NewReservedPreserves
  <2>2. Used(o)
    BY DEF Used, NewReserved, NewFilter
  <2>. HIDE DEF o, a, b
  <2>3. Alike(h, g) /\ Used(h.obj)
    BY <2>1, <2>2, HandleAddDepends
  <2>. HIDE DEF h, g
  <2>4. h.obj = g.obj /\ AddReply(h) = AddReply(g) /\ h.err = g.err
        /\ (AddSucceeded(h) <=> AddSucceeded(g))
    BY <2>3 DEF Alike, AddReply, AddSucceeded
  <2> DEFINE repl == <<ReplicaInsert(c.key, o, c.items)>>
             events == {"bloom.reserve"} \union (IF AddSucceeded(h) THEN {"bloom.add"} ELSE {})
  <2>5. /\ CreateAndAdd(c, p, m, multi, validate, limit)
             = Outcome(h.obj, h.metrics, h.err, AddReply(h), repl, events)
        /\ CreateAndAdd(c, p, k, multi, validate, limit)
             = Outcome(h.obj, g.metrics, h.err, AddReply(h), repl, events)
    BY <1>2, <2>4 DEF CreateAndAdd, h, g, o, a, b
  <2>. HIDE DEF repl, events
  <2>. QED BY <2>3, <2>5 DEF Steady, Outcome
<1>. QED BY <1>1, <1>2

\* What a client's command comes to with the counters m and the random draw rnd.
Handled(c, m, rnd) ==
  CASE c.name = "BF.INSERT"  -> BloomFilterInsert(c, keys[c.key], config, m, FALSE, rnd)
    [] c.name = "BF.RESERVE" -> BloomFilterReserve(c, keys[c.key], config, m, FALSE, rnd)
    [] OTHER                 -> BloomFilterAddValue(c, keys[c.key], config, m, FALSE, rnd)

\* No handler looks at the counters.
LEMMA HandlersDepend ==
  ASSUME IInv, NEW c \in Commands, NEW rnd \in RandomSeeds,
         NEW m \in Counters, NEW k \in Counters
  PROVE  Steady(keys[c.key], Handled(c, m, rnd), Handled(c, k, rnd))
<1> DEFINE v == keys[c.key]
           p == Properties(c, config, rnd)
           limit == config.limit
<1>1. /\ c.items \in Seq(Item) /\ v \in Object \union {Absent, Foreign}
      /\ IsObject(v) => WellFormed(v) /\ v \in Object
      /\ p \in PropertyType
  BY ClientFacts DEF IsObject
<1>2. c.name = "BF.ADD" => Len(c.items) = 1
  BY CommandAssumption
<1>3. c.name \in {"BF.ADD", "BF.MADD", "BF.RESERVE", "BF.INSERT"}
  BY ClientFacts DEF CommandType
<1>4. ASSUME NEW err PROVE Steady(v, Rejected(v, m, err), Rejected(v, k, err))
  BY RejectedDepends
<1> DEFINE A == Handled(c, m, rnd)
           B == Handled(c, k, rnd)
<1>. SUFFICES Steady(v, A, B)
  OBVIOUS
<1>. HIDE DEF p, limit, v, A, B
<1>5. CASE c.name = "BF.INSERT"
  <2> DEFINE err == ScaleToError(c, p, ~ FALSE, limit)
  <2>1. ASSUME NEW n
        PROVE  Handled(c, n, rnd)
                 = IF err # Ok THEN Rejected(v, n, err)
                   ELSE IF v = Foreign THEN Rejected(v, n, "WrongType")
                   ELSE IF IsObject(v) THEN AddToExisting(c, v, n, TRUE, ~ FALSE, limit)
                   ELSE IF c.nocreate THEN Rejected(v, n, "NotFound")
                   ELSE CreateAndAdd(c, p, n, TRUE, ~ FALSE, limit)
    BY <1>5 DEF Handled, BloomFilterInsert, p, v, limit
  <2>. HIDE DEF err
  <2>2. CASE err # Ok
    BY <1>4, <2>1, <2>2 DEF A, B
  <2>3. CASE err = Ok /\ v = Foreign
    BY <1>4, <2>1, <2>3 DEF A, B
  <2>4. CASE err = Ok /\ v # Foreign /\ IsObject(v)
    BY <1>1, <2>1, <2>4, AddToExistingDepends DEF A, B
  <2>5. CASE err = Ok /\ v # Foreign /\ ~ IsObject(v) /\ c.nocreate
    BY <1>4, <2>1, <2>5 DEF A, B
  <2>6. CASE err = Ok /\ v # Foreign /\ ~ IsObject(v) /\ ~ c.nocreate
    <3>1. v = Absent
      BY <2>6 DEF IsObject
    <3>. QED BY <1>1, <2>1, <2>6, <3>1, CreateAndAddDepends DEF A, B
  <2>. QED BY <2>2, <2>3, <2>4, <2>5, <2>6
<1>6. CASE c.name = "BF.RESERVE"
  <2> DEFINE o == NewReserved(p)
             e == CreateError(p, ~ FALSE, limit)
             repl == <<ReplicaInsert(c.key, o, <<>>)>>
  <2>1. ASSUME NEW n
        PROVE  Handled(c, n, rnd)
                 = IF v = Foreign THEN Rejected(v, n, "WrongType")
                   ELSE IF IsObject(v) THEN Rejected(v, n, "ItemExists")
                   ELSE IF e # Ok THEN Rejected(v, n, e)
                   ELSE Outcome(o, NewReservedMetrics(n, o), Ok, <<>>, repl, {"bloom.reserve"})
    BY <1>6 DEF Handled, BloomFilterReserve, p, v, limit
  <2>2. Used(o)
    BY DEF Used, NewReserved, NewFilter
  <2>. HIDE DEF o, e, repl
  <2>3. ASSUME NEW a, NEW b
        PROVE  Steady(v, Outcome(o, a, Ok, <<>>, repl, {"bloom.reserve"}),
                         Outcome(o, b, Ok, <<>>, repl, {"bloom.reserve"}))
    BY <2>2 DEF Steady, Outcome
  <2>4. CASE v = Foreign
    BY <1>4, <2>1, <2>4 DEF A, B
  <2>5. CASE v # Foreign /\ IsObject(v)
    BY <1>4, <2>1, <2>5 DEF A, B
  <2>6. CASE v # Foreign /\ ~ IsObject(v) /\ e # Ok
    BY <1>4, <2>1, <2>6 DEF A, B
  <2>7. CASE v # Foreign /\ ~ IsObject(v) /\ e = Ok
    BY <2>1, <2>3, <2>7 DEF A, B
  <2>. QED BY <2>4, <2>5, <2>6, <2>7
<1>7. CASE c.name \in {"BF.ADD", "BF.MADD"}
  <2> DEFINE multi == c.name = "BF.MADD"
  <2>1. ASSUME NEW n
        PROVE  Handled(c, n, rnd)
                 = IF v = Foreign THEN Rejected(v, n, "WrongType")
                   ELSE IF IsObject(v) THEN AddToExisting(c, v, n, multi, ~ FALSE, limit)
                   ELSE CreateAndAdd(c, p, n, multi, ~ FALSE, limit)
    <3>1. c.name # "BF.INSERT" /\ c.name # "BF.RESERVE"
      BY <1>7
    <3>2. Handled(c, n, rnd) = BloomFilterAddValue(c, v, config, n, FALSE, rnd)
      BY <3>1 DEF Handled, v
    <3>. QED BY <3>2 DEF BloomFilterAddValue, p, limit
  <2>2. multi \in BOOLEAN /\ (~ multi => Len(c.items) = 1)
    BY <1>2, <1>7
  <2>. HIDE DEF multi
  <2>3. CASE v = Foreign
    BY <1>4, <2>1, <2>3 DEF A, B
  <2>4. CASE v # Foreign /\ IsObject(v)
    BY <1>1, <2>1, <2>2, <2>4, AddToExistingDepends DEF A, B
  <2>5. CASE v # Foreign /\ ~ IsObject(v)
    <3>1. v = Absent
      BY <2>5 DEF IsObject
    <3>. QED BY <1>1, <2>1, <2>2, <2>5, <3>1, CreateAndAddDepends DEF A, B
  <2>. QED BY <2>3, <2>4, <2>5
<1>. QED BY <1>3, <1>5, <1>6, <1>7


(******************************** the debt *********************************)

\* Congruences add up.
LEMMA CongruentSums ==
  ASSUME NEW a \in Int, NEW b \in Int, NEW d \in Int, NEW e \in Int, NEW f \in Int,
         NEW w \in Int,
         Congruent(d, a + b), Congruent(f, d + w), Congruent(e, b + w)
  PROVE  Congruent(f, a + e)
<1>1. Word \in Int
  BY SizeAssumption
<1>2. PICK p \in Int : d = a + b + p * Word
  BY DEF Congruent
<1>3. PICK q \in Int : f = d + w + q * Word
  BY DEF Congruent
<1>4. PICK r \in Int : e = b + w + r * Word
  BY DEF Congruent
<1>5. /\ p * Word \in Int /\ q * Word \in Int /\ r * Word \in Int /\ p + q - r \in Int
      /\ (p + q - r) * Word = p * Word + q * Word - r * Word
  BY <1>1
<1>6. f = a + e + (p + q - r) * Word
  BY <1>2, <1>3, <1>4, <1>5
<1>. QED BY <1>5, <1>6 DEF Congruent


\* A debt is a sequence of additions.
LEMMA DebtSteps ==
  ASSUME NEW s \in Seq(Weights)
  PROVE  \E sum \in [0..Len(s) -> Counters] :
           /\ sum[0] = NoMetrics
           /\ \A i \in 1..Len(s) : sum[i] = Gain(sum[i - 1], s[i])
           /\ DebtOf(s) = sum[Len(s)]
<1> DEFINE n == Len(s)
           step == [i \in 1..n |-> [m \in Counters |-> Gain(m, s[i])]]
           R(g) == g = [i \in 0..n |-> IF i = 0 THEN NoMetrics ELSE Gain(g[i - 1], s[i])]
<1>1. n \in Nat /\ \A i \in 1..n : s[i] \in Weights
  OBVIOUS
<1>2. step \in [1..n -> [Counters -> Counters]]
  BY <1>1, GainAndLose
<1>. HIDE DEF n
<1>3. PICK g \in [0..n -> Counters] :
        g[0] = NoMetrics /\ \A i \in 1..n : g[i] = step[i][g[i - 1]]
  <2>. HIDE DEF step, R
  <2>1. Iterates(n, Counters, NoMetrics, step)
    BY <1>1, <1>2, NoMetricsTyped, IterationExists
  <2>. QED BY <2>1 DEF Iterates
<1>4. R(g)
  <2>1. \A i \in 1..n : g[i - 1] \in Counters
    BY <1>1
  <2>2. \A i \in 1..n : g[i] = Gain(g[i - 1], s[i])
    BY <1>3, <2>1
  <2>3. g = [i \in 0..n |-> g[i]]
    OBVIOUS
  <2>4. \A i \in 0..n : g[i] = IF i = 0 THEN NoMetrics ELSE Gain(g[i - 1], s[i])
    BY <1>1, <1>3, <2>2
  <2>. QED BY <2>3, <2>4
<1> DEFINE sum == CHOOSE r : R(r)
<1>5. R(sum)
  BY <1>4
<1>6. DebtOf(s) = sum[n]
  BY DEF DebtOf, n
<1>. HIDE DEF sum
<1>7. sum[0] = NoMetrics /\ \A i \in 1..n : sum[i] = Gain(sum[i - 1], s[i])
  BY <1>1, <1>5
<1> DEFINE T == {i \in Nat : i <= n => sum[i] \in Counters}
<1>8. 0 \in T
  BY <1>7, NoMetricsTyped
<1>9. ASSUME NEW i \in Nat, i \in T PROVE i + 1 \in T
  <2>1. SUFFICES ASSUME i + 1 <= n PROVE sum[i + 1] \in Counters
    OBVIOUS
  <2>2. i + 1 \in 1..n /\ (i + 1) - 1 = i /\ sum[i] \in Counters
    BY <1>1, <1>9, <2>1
  <2>. QED BY <1>1, <1>7, <2>2, GainAndLose
<1>. HIDE DEF T
<1>10. Nat \subseteq T
  BY <1>8, <1>9, SetInduction
<1>11. \A i \in 0..n : sum[i] \in Counters
  BY <1>1, <1>10 DEF T
<1>12. sum = [i \in 0..n |-> sum[i]]
  BY <1>5
<1>13. sum \in [0..n -> Counters]
  BY <1>11, <1>12
<1>. QED BY <1>6, <1>7, <1>13 DEF n

\* Nothing owed, and one subtraction more.
LEMMA DebtAppend ==
  ASSUME NEW s \in Seq(Weights), NEW w \in Weights
  PROVE  /\ DebtOf(s) \in Counters /\ DebtOf(<<>>) = NoMetrics
         /\ DebtOf(Append(s, w)) = Gain(DebtOf(s), w)
<1> DEFINE n == Len(s)
           t == Append(s, w)
<1>1. /\ n \in Nat /\ t \in Seq(Weights) /\ Len(t) = n + 1 /\ t[n + 1] = w
      /\ \A i \in 1..n : t[i] = s[i]
  OBVIOUS
<1>. HIDE DEF n, t
<1>2. PICK a \in [0..n -> Counters] :
        /\ a[0] = NoMetrics /\ \A i \in 1..n : a[i] = Gain(a[i - 1], s[i])
        /\ DebtOf(s) = a[n]
  BY DebtSteps DEF n
<1>3. PICK b \in [0..(n + 1) -> Counters] :
        /\ b[0] = NoMetrics /\ \A i \in 1..(n + 1) : b[i] = Gain(b[i - 1], t[i])
        /\ DebtOf(t) = b[n + 1]
  BY <1>1, DebtSteps
<1> DEFINE T == {i \in Nat : i <= n => a[i] = b[i]}
<1>4. 0 \in T
  BY <1>2, <1>3
<1>5. ASSUME NEW i \in Nat, i \in T PROVE i + 1 \in T
  <2>1. ASSUME i + 1 <= n PROVE a[i + 1] = b[i + 1]
    <3>1. i + 1 \in 1..n /\ i + 1 \in 1..(n + 1) /\ (i + 1) - 1 = i /\ a[i] = b[i]
      BY <1>1, <1>5, <2>1
    <3>. QED BY <1>1, <1>2, <1>3, <3>1
  <2>. QED BY <2>1
<1>6. a[n] = b[n]
  <2>1. n \in T
    <3>. HIDE DEF T
    <3>. QED BY <1>1, <1>4, <1>5, SetInduction
  <2>. QED BY <1>1, <2>1
<1>7. b[n + 1] = Gain(b[n], w)
  <2>1. n + 1 \in 1..(n + 1) /\ (n + 1) - 1 = n
    BY <1>1
  <2>. QED BY <1>1, <1>3, <2>1
<1>8. DebtOf(<<>>) = NoMetrics
  <2>1. <<>> \in Seq(Weights) /\ Len(<<>>) = 0
    OBVIOUS
  <2>. QED BY <2>1, DebtSteps
<1>. QED BY <1>1, <1>2, <1>3, <1>6, <1>7, <1>8 DEF t

\* What two lists of subtractions owe together.
LEMMA DebtConcat ==
  ASSUME NEW s \in Seq(Weights), NEW t \in Seq(Weights)
  PROVE  Tracks(DebtOf(s), DebtOf(t), DebtOf(s \o t))
<1> DEFINE P(u) == Tracks(DebtOf(s), DebtOf(u), DebtOf(s \o u))
           T == {n \in Nat : \A u \in Seq(Weights) : Len(u) = n => P(u)}
<1>1. ASSUME NEW m \in Counters PROVE m \in Weights
  BY CountersDomain, SizeAssumption DEF Weights
<1>2. 0 \in T
  <2>1. ASSUME NEW u \in Seq(Weights), Len(u) = 0 PROVE P(u)
    <3>1. u = <<>> /\ s \o <<>> = s
      BY <2>1
    <3>2. NoMetrics \in Weights /\ \A c \in Names : NoMetrics[c] = 0
      BY CountersDomain DEF NoMetrics, Names
    <3>3. DebtOf(s) \in Counters /\ DebtOf(u) = NoMetrics /\ DebtOf(s \o u) = DebtOf(s)
      BY <3>1, <3>2, DebtAppend
    <3>4. Tracks(DebtOf(s), NoMetrics, DebtOf(s))
      BY <3>2, <3>3, TracksEqual
    <3>. QED BY <3>3, <3>4
  <2>. HIDE DEF P
  <2>. QED BY <2>1
<1>3. ASSUME NEW n \in Nat, n \in T PROVE n + 1 \in T
  <2>1. ASSUME NEW u \in Seq(Weights), Len(u) = n + 1 PROVE P(u)
    <3> DEFINE v == SubSeq(u, 1, n)
               w == u[n + 1]
               d == DebtOf(s \o v)
    <3>1. v \in Seq(Weights) /\ Len(v) = n /\ w \in Weights
      BY <2>1
    <3>2. u = Append(v, w)
      BY <2>1
    <3>. HIDE DEF v, w
    <3>3. s \o v \in Seq(Weights) /\ s \o u = Append(s \o v, w)
      BY <3>1, <3>2
    <3>4. P(v)
      BY <1>3, <3>1
    <3>5. /\ DebtOf(s) \in Counters /\ DebtOf(v) \in Counters /\ d \in Counters
          /\ DebtOf(u) = Gain(DebtOf(v), w) /\ DebtOf(s \o u) = Gain(d, w)
      BY <3>1, <3>2, <3>3, DebtAppend
    <3>6. /\ Gain(DebtOf(v), w) \in Counters /\ Tracks(DebtOf(v), w, Gain(DebtOf(v), w))
          /\ Gain(d, w) \in Counters /\ Tracks(d, w, Gain(d, w))
      BY <3>1, <3>5, GainAndLose, GainTracks
    <3> DEFINE a == DebtOf(s)
               b == DebtOf(v)
               e == Gain(b, w)
               f == Gain(d, w)
    <3>7. Tracks(a, b, d)
      BY <3>4
    <3>8. ASSUME NEW c \in Names PROVE Congruent(f[c], a[c] + e[c])
      <4>1. /\ a[c] \in Int /\ b[c] \in Int /\ d[c] \in Int /\ e[c] \in Int /\ f[c] \in Int
            /\ w[c] \in Int
        BY <3>1, <3>5, <3>6, CountersAreIntegers DEF Weights
      <4>2. /\ Congruent(d[c], a[c] + b[c]) /\ Congruent(f[c], d[c] + w[c])
            /\ Congruent(e[c], b[c] + w[c])
        BY <3>6, <3>7 DEF Tracks
      <4>. HIDE DEF a, b, d, e, f
      <4>. QED BY <4>1, <4>2, CongruentSums
    <3>. QED BY <3>5, <3>8 DEF Tracks
  <2>. HIDE DEF P
  <2>. QED BY <2>1
<1>4. Len(t) \in T
  <2>1. Len(t) \in Nat
    OBVIOUS
  <2>. HIDE DEF T
  <2>. QED BY <1>2, <1>3, <2>1, SetInduction
<1>. HIDE DEF P
<1>5. P(t)
  BY <1>4
<1>. QED BY <1>5 DEF P


\* A fetch_add moves the one counter it is given.
LEMMA OneGained ==
  ASSUME NEW m \in Counters, NEW k \in Names, NEW z \in Int
  PROVE  /\ One(k, z) \in Weights
         /\ Gain(m, One(k, z)) = [m EXCEPT ![k] = (m[k] + z) % Word]
         /\ Gain(m, One(k, z)) \in Counters
<1>1. NoMetrics \in Weights /\ \A c \in Names : NoMetrics[c] = 0
  BY CountersDomain DEF NoMetrics, Names
<1>2. One(k, z) \in Weights /\ \A c \in Names : One(k, z)[c] = IF c = k THEN z ELSE 0
  BY <1>1 DEF One, Weights
<1>3. Word \in Nat \ {0} /\ m \in [Names -> 0..(Word - 1)] /\ DOMAIN m = Names
  BY SizeAssumption, CountersDomain
<1>4. \A c \in Names : (m[c] + 0) % Word = m[c]
  BY <1>3
<1>. QED BY <1>2, <1>3, <1>4, GainAndLose DEF Gain

\* The fetch_subs of a filter's Drop amount to its weight.
LEMMA FilterOwed ==
  ASSUME NEW s \in Seq(Weights), NEW f \in Filter
  PROVE  /\ FilterDrops(f) \in Seq(Weights)
         /\ DebtOf(s \o FilterDrops(f)) = Gain(DebtOf(s), FilterWeight(f))
<1> DEFINE size == FilterSize(f.cap, f.fp)
           a == One("filters", 1)
           b == One("bytes", size)
           c == One("items", f.num)
           d == One("capacity", f.cap)
           m == DebtOf(s)
<1>1. size \in Int /\ f.num \in Int /\ f.cap \in Int /\ 1 \in Int
  <2>1. f.cap \in Nat \ {0} /\ f.fp \in Nat \ {0} /\ f.num \in Nat
    BY FilterFields
  <2>2. size \in Nat
    BY <2>1, SizesAreNatural
  <2>. QED BY <2>1, <2>2
<1>2. "filters" \in Names /\ "bytes" \in Names /\ "items" \in Names /\ "capacity" \in Names
  BY DEF Names
<1>3. /\ m \in Counters /\ a \in Weights /\ b \in Weights /\ c \in Weights /\ d \in Weights
  <2>1. m \in Counters
    BY NoMetricsTyped, CountersDomain, DebtAppend
  <2>. QED BY <1>1, <1>2, <2>1, OneGained
<1>4. FilterDrops(f) = <<a, b, c, d>>
  BY DEF FilterDrops
<1>5. FilterWeight(f) = [objects |-> 0, filters |-> 1, items |-> f.num, capacity |-> f.cap,
                         bytes |-> size]
  BY DEF FilterWeight
<1>. HIDE DEF a, b, c, d, size
<1>6. s \o <<a, b, c, d>> = Append(Append(Append(Append(s, a), b), c), d)
  BY <1>3
<1>7. DebtOf(s \o <<a, b, c, d>>) = Gain(Gain(Gain(Gain(m, a), b), c), d)
  <2> DEFINE s1 == Append(s, a)
             s2 == Append(s1, b)
             s3 == Append(s2, c)
             s4 == Append(s3, d)
  <2>1. s1 \in Seq(Weights) /\ DebtOf(s1) = Gain(m, a)
    BY <1>3, DebtAppend
  <2>. HIDE DEF s1, m
  <2>2. s2 \in Seq(Weights) /\ DebtOf(s2) = Gain(Gain(m, a), b)
    BY <1>3, <2>1, DebtAppend
  <2>. HIDE DEF s2
  <2>3. s3 \in Seq(Weights) /\ DebtOf(s3) = Gain(Gain(Gain(m, a), b), c)
    BY <1>3, <2>2, DebtAppend
  <2>. HIDE DEF s3
  <2>4. DebtOf(s4) = Gain(Gain(Gain(Gain(m, a), b), c), d)
    BY <1>3, <2>3, DebtAppend
  <2>. HIDE DEF s4
  <2>5. s \o <<a, b, c, d>> = s4
    BY <1>6 DEF s1, s2, s3, s4
  <2>. QED BY <2>4, <2>5
<1> DEFINE m1 == Gain(m, a)
           m2 == Gain(m1, b)
           m3 == Gain(m2, c)
           m4 == Gain(m3, d)
<1>. HIDE DEF m
<1>8. m1 \in Counters /\ m1 = [m EXCEPT !["filters"] = (m["filters"] + 1) % Word]
  <2>1. m \in Counters
    BY <1>3
  <2>. QED BY <1>1, <1>2, <2>1, OneGained DEF a
<1>. HIDE DEF m1
<1>9. m2 \in Counters /\ m2 = [m1 EXCEPT !["bytes"] = (m1["bytes"] + size) % Word]
  <2>1. m1 \in Counters
    BY <1>8
  <2>. QED BY <1>1, <1>2, <2>1, OneGained DEF b
<1>. HIDE DEF m2
<1>10. m3 \in Counters /\ m3 = [m2 EXCEPT !["items"] = (m2["items"] + f.num) % Word]
  <2>1. m2 \in Counters
    BY <1>9
  <2>. QED BY <1>1, <1>2, <2>1, OneGained DEF c
<1>. HIDE DEF m3
<1>11. m4 \in Counters /\ m4 = [m3 EXCEPT !["capacity"] = (m3["capacity"] + f.cap) % Word]
  <2>1. m3 \in Counters
    BY <1>10
  <2>. QED BY <1>1, <1>2, <2>1, OneGained DEF d
<1>. HIDE DEF m4
<1>12. Word \in Nat \ {0} /\ m \in [Names -> 0..(Word - 1)] /\ DOMAIN m = Names
  BY <1>3, SizeAssumption, CountersDomain
<1>13. (m["objects"] + 0) % Word = m["objects"]
  BY <1>12, SMTT(30) DEF Names
<1>14. m4 = Gain(m, FilterWeight(f))
  <2>1. /\ m4["objects"] = m["objects"] /\ m4["filters"] = (m["filters"] + 1) % Word
        /\ m4["bytes"] = (m["bytes"] + size) % Word
        /\ m4["items"] = (m["items"] + f.num) % Word
        /\ m4["capacity"] = (m["capacity"] + f.cap) % Word
    <3>. DOMAIN m = Names /\ DOMAIN m1 = Names /\ DOMAIN m2 = Names /\ DOMAIN m3 = Names
      BY <1>8, <1>9, <1>10, <1>12, CountersDomain
    <3>. QED BY <1>8, <1>9, <1>10, <1>11, <1>12 DEF Names
  <2>2. ASSUME NEW k \in Names PROVE m4[k] = (m[k] + FilterWeight(f)[k]) % Word
    BY <1>5, <1>13, <2>1 DEF Names
  <2>3. m4 = [k \in Names |-> m4[k]]
    BY <1>11, CountersDomain
  <2>. QED BY <1>12, <2>2, <2>3 DEF Gain
<1>. QED BY <1>3, <1>4, <1>7, <1>14 DEF m, m1, m2, m3, m4

\* A flattened sequence is put together from the front.
LEMMA FlattenSteps ==
  ASSUME NEW S, NEW s \in Seq(Seq(S))
  PROVE  \E g \in [0..Len(s) -> Seq(S)] :
           /\ g[0] = <<>>
           /\ \A i \in 1..Len(s) : g[i] = g[i - 1] \o s[i]
           /\ FlattenSeq(s) = g[Len(s)]
<1> DEFINE n == Len(s)
           step == [i \in 1..n |-> [t \in Seq(S) |-> t \o s[i]]]
           R(h) == h = [i \in 1..n |-> IF i = 1 THEN s[i] ELSE h[i - 1] \o s[i]]
<1>1. n \in Nat /\ \A i \in 1..n : s[i] \in Seq(S)
  OBVIOUS
<1>2. CASE n = 0
  <2> DEFINE g == [i \in 0..0 |-> <<>>]
  <2>1. s = <<>> /\ <<>> \in Seq(S)
    BY <1>2
  <2>2. FlattenSeq(s) = <<>>
    BY <1>2, <2>1 DEF FlattenSeq
  <2>3. g \in [0..n -> Seq(S)] /\ g[0] = <<>> /\ g[n] = <<>> /\ \A i \in 1..n : FALSE
    BY <1>2, <2>1
  <2>. HIDE DEF g
  <2>. QED BY <2>2, <2>3
<1>3. CASE n # 0
  <2>1. step \in [1..n -> [Seq(S) -> Seq(S)]] /\ <<>> \in Seq(S)
    <3>1. \A i \in 1..n, t \in Seq(S) : t \o s[i] \in Seq(S)
      BY <1>1
    <3>. HIDE DEF n
    <3>. QED BY <3>1
  <2>2. PICK g \in [0..n -> Seq(S)] : g[0] = <<>> /\ \A i \in 1..n : g[i] = step[i][g[i - 1]]
    <3>. HIDE DEF step, R, n
    <3>1. Iterates(n, Seq(S), <<>>, step)
      BY <1>1, <2>1, IterationExists
    <3>. QED BY <3>1 DEF Iterates
  <2>. HIDE DEF n
  <2>3. \A i \in 1..n : g[i - 1] \in Seq(S) /\ g[i] = g[i - 1] \o s[i]
    <3>1. \A i \in 1..n : g[i - 1] \in Seq(S)
      BY <1>1
    <3>. QED BY <2>2, <3>1
  <2> DEFINE h == [i \in 1..n |-> g[i]]
             flatten == CHOOSE r : R(r)
  <2>4. R(h)
    <3>1. \A i \in 1..n : h[i] = IF i = 1 THEN s[i] ELSE h[i - 1] \o s[i]
      <4>1. ASSUME NEW i \in 1..n PROVE h[i] = IF i = 1 THEN s[i] ELSE h[i - 1] \o s[i]
        <5>1. CASE i = 1
          <6>1. g[i] = <<>> \o s[i]
            <7>1. g[i] = g[i - 1] \o s[i]
              BY <2>3, Zenon
            <7>2. i - 1 = 0
              BY <5>1
            <7>3. g[i - 1] = <<>>
              BY <2>2, <7>2, Zenon
            <7>. QED BY <7>1, <7>3, Zenon
          <6>2. <<>> \o s[i] = s[i]
            BY <1>1
          <6>. QED BY <5>1, <6>1, <6>2
        <5>2. CASE i # 1
          <6>1. i - 1 \in 1..n
            BY <1>1, <5>2
          <6>. QED BY <2>3, <5>2, <6>1
        <5>. QED BY <5>1, <5>2
      <4>. QED BY <4>1
    <3>. HIDE DEF h
    <3>2. h = [i \in 1..n |-> h[i]]
      BY DEF h
    <3>. QED BY <3>1, <3>2
  <2>5. R(flatten)
    <3>. HIDE DEF h
    <3>. QED BY <2>4, Zenon
  <2>6. FlattenSeq(s) = flatten[n]
    BY <1>3 DEF FlattenSeq, n
  <2>. HIDE DEF flatten, h
  <2> DEFINE T == {i \in Nat : i + 1 <= n => flatten[i + 1] = g[i + 1]}
  <2>7. 0 \in T
    <3>1. 1 \in 1..n
      BY <1>1, <1>3
    <3>2. flatten[1] = s[1]
      BY <2>5, <3>1
    <3>3. g[1] = <<>> \o s[1] /\ <<>> \o s[1] = s[1]
      <4>1. g[1] = g[1 - 1] \o s[1]
        BY <2>3, <3>1, Zenon
      <4>2. 1 - 1 = 0
        OBVIOUS
      <4>3. g[1 - 1] = <<>>
        BY <2>2, <4>2, Zenon
      <4>4. <<>> \o s[1] = s[1]
        BY <1>1, <3>1
      <4>. QED BY <4>1, <4>3, <4>4, Zenon
    <3>. QED BY <3>2, <3>3
  <2>8. ASSUME NEW i \in Nat, i \in T PROVE i + 1 \in T
    <3>1. ASSUME (i + 1) + 1 <= n PROVE flatten[(i + 1) + 1] = g[(i + 1) + 1]
      <4> DEFINE j == i + 2
      <4>1. j \in 1..n /\ j # 1 /\ j - 1 = i + 1 /\ (i + 1) + 1 = j /\ i + 1 \in 1..n
        BY <1>1, <3>1
      <4>2. flatten[i + 1] = g[i + 1]
        BY <1>1, <2>8, <4>1
      <4>. HIDE DEF j, T
      <4>3. flatten[j] = flatten[j - 1] \o s[j]
        BY <2>5, <4>1
      <4>. QED BY <2>3, <4>1, <4>2, <4>3
    <3>. QED BY <3>1
  <2>9. flatten[n] = g[n]
    <3>1. n - 1 \in T
      <4>1. n - 1 \in Nat
        BY <1>1, <1>3
      <4>. HIDE DEF T
      <4>. QED BY <2>7, <2>8, <4>1, SetInduction
    <3>2. (n - 1) + 1 = n
      BY <1>1
    <3>. QED BY <1>1, <3>1, <3>2
  <2>. QED BY <2>2, <2>3, <2>6, <2>9 DEF n
<1>. QED BY <1>2, <1>3


\* Subtractions put in a row are in that row however it is put together.
LEMMA ListsOfWeights ==
  \A x, y, z \in Seq(Weights) : (x \o y) \o z = x \o (y \o z)
<1> DEFINE W == Weights
<1>1. ASSUME NEW x \in Seq(W), NEW y \in Seq(W), NEW z \in Seq(W)
      PROVE  (x \o y) \o z = x \o (y \o z)
  <2>. HIDE DEF W
  <2>. QED BY ConcatAssociative
<1>. QED BY <1>1

\* The fetch_subs of an object's Drop amount to its footprint.
LEMMA ObjectOwed ==
  ASSUME NEW s \in Seq(Weights), NEW o \in Object
  PROVE  /\ ObjectDrops(o) \in Seq(Weights)
         /\ Tracks(DebtOf(s), Footprint(o), DebtOf(s \o ObjectDrops(o)))
<1> DEFINE a == One("bytes", ObjectSize(o.vcap))
           b == One("objects", 1)
           m == DebtOf(s)
           u == Append(Append(s, a), b)
           n == Len(o.filters)
           parts == [i \in DOMAIN o.filters |-> FilterDrops(o.filters[i])]
           flat == FlattenSeq(parts)
<1>1. /\ n \in Nat /\ DOMAIN o.filters = 1..n /\ \A i \in 1..n : o.filters[i] \in Filter
  BY DEF Object
<1>2. ObjectSize(o.vcap) \in Int /\ "bytes" \in Names /\ "objects" \in Names /\ 1 \in Int
  BY FootprintTyped DEF Names
<1>3. a \in Weights /\ b \in Weights /\ m \in Counters
  <2>1. m \in Counters
    BY CountersDomain, DebtAppend
  <2>. QED BY <1>2, <2>1, OneGained
<1>4. ObjectWeight(o) = [objects |-> 1, filters |-> 0, items |-> 0, capacity |-> 0,
                         bytes |-> ObjectSize(o.vcap)]
  BY DEF ObjectWeight
<1>5. ObjectDrops(o) = <<a, b>> \o flat
  BY DEF ObjectDrops
<1> DEFINE m1 == Gain(m, a)
           m2 == Gain(m1, b)
<1>6. u \in Seq(Weights) /\ DebtOf(u) = m2
  <2> DEFINE s1 == Append(s, a)
  <2>. HIDE DEF a, b, m
  <2>1. s1 \in Seq(Weights) /\ DebtOf(s1) = m1
    BY <1>3, DebtAppend DEF m
  <2>. HIDE DEF s1, m1
  <2>2. Append(s1, b) \in Seq(Weights) /\ DebtOf(Append(s1, b)) = m2
    BY <1>3, <2>1, DebtAppend
  <2>. QED BY <2>2 DEF s1
<1>. HIDE DEF a, b, m
<1>7. m1 \in Counters /\ m1 = [m EXCEPT !["bytes"] = (m["bytes"] + ObjectSize(o.vcap)) % Word]
  BY <1>2, <1>3, OneGained DEF a
<1>. HIDE DEF m1
<1>8. m2 \in Counters /\ m2 = [m1 EXCEPT !["objects"] = (m1["objects"] + 1) % Word]
  <2>1. m1 \in Counters
    BY <1>7
  <2>. QED BY <1>2, <2>1, OneGained DEF b
<1>. HIDE DEF m2
<1>9. m2 = Gain(m, ObjectWeight(o))
  <2>1. Word \in Nat \ {0} /\ m \in [Names -> 0..(Word - 1)] /\ DOMAIN m = Names
        /\ DOMAIN m1 = Names /\ DOMAIN m2 = Names
    BY <1>3, <1>7, <1>8, SizeAssumption, CountersDomain
  <2>2. /\ (m["filters"] + 0) % Word = m["filters"] /\ (m["items"] + 0) % Word = m["items"]
        /\ (m["capacity"] + 0) % Word = m["capacity"]
    <3>1. \A x \in 0..(Word - 1) : (x + 0) % Word = x
      BY <2>1, SMTT(30)
    <3>2. \A k \in Names : m[k] \in 0..(Word - 1)
      BY <2>1
    <3>. QED BY <3>1, <3>2 DEF Names
  <2>3. /\ m2["objects"] = (m["objects"] + 1) % Word /\ m2["filters"] = m["filters"]
        /\ m2["items"] = m["items"] /\ m2["capacity"] = m["capacity"]
        /\ m2["bytes"] = (m["bytes"] + ObjectSize(o.vcap)) % Word
    BY <1>7, <1>8, <2>1 DEF Names
  <2>4. ASSUME NEW k \in Names PROVE m2[k] = (m[k] + ObjectWeight(o)[k]) % Word
    BY <1>4, <2>2, <2>3 DEF Names
  <2>5. m2 = [k \in Names |-> m2[k]]
    BY <1>8, CountersDomain
  <2>. QED BY <2>1, <2>4, <2>5 DEF Gain
<1>. HIDE DEF u, n
<1>10. parts \in Seq(Seq(Weights)) /\ Len(parts) = n
       /\ \A i \in 1..n : parts[i] = FilterDrops(o.filters[i])
  <2>1. \A i \in 1..n : FilterDrops(o.filters[i]) \in Seq(Weights)
    <3>1. <<>> \in Seq(Weights)
      OBVIOUS
    <3>. QED BY <1>1, <3>1, FilterOwed
  <2>. QED BY <1>1, <2>1
<1>. HIDE DEF parts
<1>11. PICK g \in [0..n -> Seq(Weights)] :
         /\ g[0] = <<>> /\ \A i \in 1..n : g[i] = g[i - 1] \o parts[i]
         /\ flat = g[n]
  BY <1>10, FlattenSteps
<1>12. PICK sum \in [0..n -> Counters] :
         /\ sum[0] = m2 /\ \A i \in 1..n : sum[i] = Gain(sum[i - 1], FilterWeight(o.filters[i]))
         /\ GainFilters(m2, o) = sum[n]
  BY <1>8, GainFiltersSteps DEF n
<1> DEFINE T == {i \in Nat : i <= n => DebtOf(u \o g[i]) = sum[i]}
<1>13. 0 \in T
  <2>1. u \o <<>> = u
    BY <1>6
  <2>. QED BY <1>6, <1>11, <1>12, <2>1
<1>14. ASSUME NEW i \in Nat, i \in T PROVE i + 1 \in T
  <2>1. ASSUME i + 1 <= n PROVE DebtOf(u \o g[i + 1]) = sum[i + 1]
    <3> DEFINE j == i + 1
               p == FilterDrops(o.filters[j])
    <3>1. j \in 1..n /\ j - 1 = i /\ i \in 0..n /\ DebtOf(u \o g[i]) = sum[i]
      BY <1>1, <1>14, <2>1
    <3>. HIDE DEF j, T
    <3>2. g[i] \in Seq(Weights) /\ u \o g[i] \in Seq(Weights)
      BY <1>6, <3>1
    <3>3. p \in Seq(Weights)
          /\ DebtOf((u \o g[i]) \o p) = Gain(DebtOf(u \o g[i]), FilterWeight(o.filters[j]))
      BY <1>1, <3>1, <3>2, FilterOwed
    <3>4. g[j] = g[i] \o p
      <4>1. g[j] = g[j - 1] \o parts[j]
        BY <1>11, <3>1, Zenon
      <4>. QED BY <1>10, <3>1, <4>1
    <3>. HIDE DEF p
    <3>5. u \o g[j] = (u \o g[i]) \o p
      <4>1. u \in Seq(Weights) /\ g[i] \in Seq(Weights) /\ p \in Seq(Weights)
        BY <1>6, <3>2, <3>3 DEF p
      <4>2. (u \o g[i]) \o p = u \o (g[i] \o p)
        BY <4>1, ListsOfWeights, Zenon
      <4>. QED BY <3>4, <4>2, Zenon
    <3>6. sum[j] = Gain(sum[i], FilterWeight(o.filters[j]))
      BY <1>12, <3>1
    <3>. QED BY <3>1, <3>3, <3>5, <3>6 DEF j
  <2>. QED BY <2>1
<1>15. DebtOf(u \o flat) = GainFilters(m2, o)
  <2>1. n \in T
    <3>. HIDE DEF T
    <3>. QED BY <1>1, <1>13, <1>14, SetInduction
  <2>. QED BY <1>1, <1>11, <1>12, <2>1
<1>16. flat \in Seq(Weights)
  BY <1>1, <1>11
<1>. HIDE DEF flat
<1>17. ObjectDrops(o) \in Seq(Weights) /\ s \o ObjectDrops(o) = u \o flat
  <2>1. <<a, b>> \in Seq(Weights) /\ s \o <<a, b>> = u
    BY <1>3 DEF u
  <2>2. s \o (<<a, b>> \o flat) = (s \o <<a, b>>) \o flat
    BY <1>16, <2>1, ConcatAssociative, SMTT(30)
  <2>3. s \o ObjectDrops(o) = u \o flat
    BY <1>5, <2>1, <2>2, Zenon
  <2>4. <<a, b>> \o flat \in Seq(Weights)
    BY <1>16, <2>1
  <2>. QED BY <1>5, <2>3, <2>4, Zenon
<1>18. Tracks(m, Footprint(o), GainFilters(m2, o))
  <2> DEFINE w == ObjectWeight(o)
             v == FiltersWeight(o)
             x == Footprint(o)
             k == GainFilters(m2, o)
  <2>1. w \in Weights /\ v \in Weights /\ x \in Weights
    <3>1. w \in Weights
      <4>1. \A c \in Names : w[c] \in Int
        BY <1>2, <1>4 DEF Names
      <4>2. w = [c \in Names |-> w[c]]
        BY <1>4 DEF Names
      <4>. QED BY <4>1, <4>2 DEF Weights
    <3>. QED BY <3>1, FootprintTyped
  <2>2. \A c \in Names : x[c] = w[c] + v[c]
    <3>1. /\ ObjectSize(o.vcap) \in Int /\ FiltersSize(o) \in Int
          /\ NumItems(o) \in Int /\ Capacity(o) \in Int /\ Len(o.filters) \in Int
      BY FootprintTyped, TermsTyped
    <3>. QED BY <3>1 DEF Names, Footprint, FiltersWeight, ObjectWeight, MemoryUsage
  <2>. HIDE DEF w, v, x
  <2>3. Tracks(m, w, m2)
    BY <1>3, <1>9, <2>1, GainTracks DEF w
  <2>4. k \in Counters /\ Tracks(m2, v, k)
    BY <1>8, GainFiltersTyped, FiltersTrack DEF v
  <2>. HIDE DEF k
  <2>5. Tracks(m, x, k)
    BY <1>3, <1>8, <2>1, <2>2, <2>3, <2>4, TracksChain
  <2>. QED BY <2>5 DEF x, k
<1>. QED BY <1>15, <1>17, <1>18 DEF m

\* The first subtraction of a list and the rest.
LEMMA DebtHead ==
  ASSUME NEW s \in Seq(Weights), s # <<>>
  PROVE  /\ Head(s) \in Weights /\ Tail(s) \in Seq(Weights)
         /\ Tracks(DebtOf(Tail(s)), Head(s), DebtOf(s))
<1> DEFINE h == Head(s)
           t == Tail(s)
<1>1. h \in Weights /\ t \in Seq(Weights) /\ <<h>> \in Seq(Weights) /\ s = <<h>> \o t
  OBVIOUS
<1>. HIDE DEF h, t
<1>2. DebtOf(<<h>>) = Gain(NoMetrics, h)
  <2>1. <<>> \in Seq(Weights) /\ Append(<<>>, h) = <<h>>
    OBVIOUS
  <2>. QED BY <1>1, <2>1, DebtAppend
<1>3. NoMetrics \in Counters /\ Tracks(NoMetrics, h, Gain(NoMetrics, h))
  BY <1>1, NoMetricsTyped, GainTracks
<1>4. Tracks(DebtOf(<<h>>), DebtOf(t), DebtOf(s))
  BY <1>1, DebtConcat
<1>5. DebtOf(<<h>>) \in Counters /\ DebtOf(t) \in Counters /\ DebtOf(s) \in Counters
  BY <1>1, DebtAppend
<1>6. ASSUME NEW c \in Names PROVE Congruent(DebtOf(s)[c], DebtOf(t)[c] + h[c])
  <2> DEFINE f == DebtOf(s)[c]
             d == DebtOf(<<h>>)[c]
             w == DebtOf(t)[c]
             a == h[c]
  <2>1. f \in Int /\ d \in Int /\ w \in Int /\ a \in Int
    BY <1>1, <1>5, CountersAreIntegers DEF Weights
  <2>2. Congruent(f, d + w)
    BY <1>4 DEF Tracks
  <2>3. Congruent(d, NoMetrics[c] + a) /\ NoMetrics[c] = 0
    BY <1>2, <1>3 DEF Tracks, NoMetrics, Names
  <2>. HIDE DEF f, d, w, a
  <2>4. Congruent(d, a + 0) /\ Congruent(w, 0 + w)
    <3>1. NoMetrics[c] + a = a + 0 /\ 0 + w = w
      BY <2>1, <2>3
    <3>. QED BY <2>1, <2>3, <3>1, Congruence
  <2>5. Congruent(f, a + w)
    <3>1. 0 \in Int
      OBVIOUS
    <3>. QED BY <2>1, <2>2, <2>4, <3>1, CongruentSums, Zenon
  <2>6. Congruent(f, w + a)
    <3>1. a + w = w + a
      BY <2>1
    <3>. QED BY <2>5, <3>1, Zenon
  <2>. QED BY <2>6 DEF f, w, a
<1>. QED BY <1>1, <1>6 DEF Tracks, h, t

(****************************** the invariant ******************************)

AllUsed == \A k \in Objects : Used(keys[k])

PassType == [caps : Seq(Nat), offered : Nat, whole : BOOLEAN]

Background ==
  /\ spare = Placeholder
  /\ late \in [key : Key, cursor : Nat] \union {Idle}
  /\ pass \in PassType

DebtTyped == freeing \in Seq(Weights)

\* A pass whose object has stayed has taken up the filters before its cursor.
PassInv ==
  late # Idle /\ pass.whole =>
    LET o == keys[late.key]
    IN  /\ IsObject(o)
        /\ late.cursor <= Len(o.filters)
        /\ pass.caps = [i \in 1..late.cursor |-> o.filters[i].cap]
        /\ pass.offered = late.cursor * Cardinality(FilterAllocations)

MInv == IInv /\ AllUsed /\ Background /\ PassInv /\ DebtTyped

\* A handler keeps the objects and any books that it is given.
LEMMA HandledSoundly ==
  ASSUME IInv, NEW c \in Commands, NEW rnd \in RandomSeeds, NEW m \in Counters
  PROVE  /\ Sound(c, keys[c.key], Handled(c, m, rnd))
         /\ Balanced(keys[c.key], m, Handled(c, m, rnd))
<1> DEFINE v == keys[c.key]
           limit == config.limit
<1>1. /\ c.items \in Seq(Item) /\ v \in Object \union {Absent, Foreign}
      /\ (IsObject(v) => WellFormed(v)) /\ limit \in Int
      /\ Properties(c, config, rnd) \in PropertyType
      /\ c.name \in {"BF.ADD", "BF.MADD", "BF.RESERVE", "BF.INSERT"}
  BY ClientFacts DEF CommandType
<1>2. CASE c.name = "BF.INSERT"
  <2>1. /\ Sound(c, v, BloomFilterInsert(c, v, config, m, FALSE, rnd))
        /\ Kept(v, m, BloomFilterInsert(c, v, config, m, FALSE, rnd), ~ FALSE, limit, limit)
    BY <1>1, InsertAccounts, InsertIsSound
  <2>2. Handled(c, m, rnd) = BloomFilterInsert(c, v, config, m, FALSE, rnd)
    BY <1>2 DEF Handled
  <2>. QED BY <2>1, <2>2 DEF Kept
<1>3. CASE c.name = "BF.RESERVE"
  <2>1. c.items = <<>>
    BY <1>3, CommandAssumption
  <2>2. /\ Sound(c, v, BloomFilterReserve(c, v, config, m, FALSE, rnd))
        /\ Kept(v, m, BloomFilterReserve(c, v, config, m, FALSE, rnd), ~ FALSE, limit, limit)
    BY <1>1, <2>1, ReserveAccounts, ReserveIsSound
  <2>3. Handled(c, m, rnd) = BloomFilterReserve(c, v, config, m, FALSE, rnd)
    BY <1>3 DEF Handled
  <2>. QED BY <2>2, <2>3 DEF Kept
<1>4. CASE c.name \in {"BF.ADD", "BF.MADD"}
  <2>1. c.name = "BF.MADD" \/ Len(c.items) = 1
    BY <1>4, CommandAssumption
  <2>2. /\ Sound(c, v, BloomFilterAddValue(c, v, config, m, FALSE, rnd))
        /\ Kept(v, m, BloomFilterAddValue(c, v, config, m, FALSE, rnd), ~ FALSE, limit, limit)
    BY <1>1, <2>1, AddValueAccounts, AddValueIsSound
  <2>3. c.name # "BF.INSERT" /\ c.name # "BF.RESERVE"
    BY <1>4
  <2>4. Handled(c, m, rnd) = BloomFilterAddValue(c, v, config, m, FALSE, rnd)
    BY <2>3 DEF Handled
  <2>. QED BY <2>2, <2>4 DEF Kept
<1>. QED BY <1>1, <1>2, <1>3, <1>4

\* A client's command is handled, soundly and with its books kept.
LEMMA ClientStep ==
  ASSUME IInv, NEW c \in Commands, BfAdd(c) \/ BfInsert(c) \/ BfReserve(c)
  PROVE  \E rnd \in RandomSeeds :
           LET out == Handled(c, metrics, rnd)
           IN  /\ Perform(c, out) /\ Sound(c, keys[c.key], out)
               /\ Balanced(keys[c.key], metrics, out)
<1>1. \E rnd \in RandomSeeds : Perform(c, Handled(c, metrics, rnd))
  <2>1. CASE BfInsert(c)
    BY <2>1 DEF BfInsert, Handled
  <2>2. CASE BfReserve(c)
    BY <2>2 DEF BfReserve, Handled
  <2>3. CASE BfAdd(c)
    <3>1. c.name # "BF.INSERT" /\ c.name # "BF.RESERVE"
      BY <2>3 DEF BfAdd
    <3>. QED BY <2>3, <3>1 DEF BfAdd, Handled
  <2>. QED BY <2>1, <2>2, <2>3
<1>2. metrics \in Counters
  BY ClientFacts
<1>. QED BY <1>1, <1>2, HandledSoundly

\* Used objects stay used when the value of one key becomes one that is.
LEMMA UsedStep ==
  ASSUME IInv, AllUsed, NEW k \in Key, NEW v, keys' = [keys EXCEPT ![k] = v],
         IsObject(v) => Used(v)
  PROVE  AllUsed'
BY DEF AllUsed, Objects, IInv, TypeOK

\* A pass goes on beside a step that takes nothing from the objects.
LEMMA PassSurvives ==
  ASSUME MInv, GrowthStep, UNCHANGED <<late, spare>>, PassGoesOn,
         \A k \in Objects : IsObject(keys'[k]), IInv'
  PROVE  Background' /\ PassInv'
<1>1. NoPass \in PassType /\ ~ NoPass.whole
  BY DEF NoPass, PassType
<1>2. Background'
  BY <1>1 DEF MInv, Background, PassGoesOn
<1>3. ASSUME late # Idle, pass.whole PROVE PassInv'
  <2> DEFINE o == keys[late.key]
             p == keys'[late.key]
  <2>1. /\ IsObject(o) /\ late.cursor <= Len(o.filters) /\ late.key \in Key /\ late.cursor \in Nat
        /\ pass.caps = [i \in 1..late.cursor |-> o.filters[i].cap]
        /\ pass.offered = late.cursor * Cardinality(FilterAllocations)
        /\ pass' = pass
    BY <1>3 DEF MInv, PassInv, Background, PassGoesOn
  <2>2. IsObject(p) /\ Grown(o, p)
    BY <2>1 DEF Objects, GrowthStep
  <2>3. o \in Object /\ p \in Object
    BY <2>1, <2>2 DEF MInv, IInv, TypeOK, IsObject
  <2>4. /\ Len(o.filters) \in Nat /\ DOMAIN o.filters = 1..Len(o.filters)
        /\ Len(p.filters) \in Nat /\ DOMAIN p.filters = 1..Len(p.filters)
    BY <2>3, SMTT(30) DEF Object
  <2>5. \A i \in 1..Len(o.filters) : i \in 1..Len(p.filters) /\ p.filters[i].cap = o.filters[i].cap
    BY <2>2, <2>4 DEF Grown
  <2>6. Len(o.filters) <= Len(p.filters)
    <3>1. CASE Len(o.filters) = 0
      BY <2>4, <3>1
    <3>2. CASE Len(o.filters) # 0
      <4>1. Len(o.filters) \in 1..Len(o.filters)
        BY <2>4, <3>2
      <4>. QED BY <2>4, <2>5, <4>1
    <3>. QED BY <3>1, <3>2
  <2>7. [i \in 1..late.cursor |-> o.filters[i].cap] = [i \in 1..late.cursor |-> p.filters[i].cap]
    <3>1. \A i \in 1..late.cursor : i \in 1..Len(o.filters)
      BY <2>1, <2>4
    <3>. HIDE DEF o, p
    <3>. QED BY <2>5, <3>1
  <2>8. late.cursor <= Len(p.filters)
    BY <2>1, <2>4, <2>6
  <2>. HIDE DEF o, p
  <2>. QED BY <2>1, <2>2, <2>7, <2>8 DEF PassInv, o, p
<1>4. CASE late = Idle
  BY <1>2, <1>4 DEF PassInv, Idle
<1>5. CASE late # Idle /\ ~ pass.whole
  BY <1>2, <1>5 DEF PassInv, Idle, PassGoesOn
<1>. QED BY <1>2, <1>3, <1>4, <1>5


\* The same beside a step that takes the object of a key away.
LEMMA PassLost ==
  ASSUME MInv, UNCHANGED <<late, spare>>, NEW k \in Key, PassLoses(k),
         \A j \in Key : j # k => keys'[j] = keys[j]
  PROVE  Background' /\ PassInv'
<1>1. NoPass \in PassType /\ ~ NoPass.whole
  BY DEF NoPass, PassType
<1>2. [pass EXCEPT !.whole = FALSE] \in PassType /\ ~ [pass EXCEPT !.whole = FALSE].whole
  BY DEF MInv, Background, PassType
<1>3. Background'
  BY <1>1, <1>2 DEF MInv, Background, PassLoses, PassGoesOn
<1>4. CASE late.key = k \/ late = Idle
  BY <1>1, <1>2, <1>3, <1>4 DEF PassInv, PassLoses, PassGoesOn, Idle
<1>5. CASE late.key # k /\ late # Idle
  <2>1. late.key \in Key /\ pass' = pass
    BY <1>5 DEF MInv, Background, PassLoses, PassGoesOn
  <2>2. keys'[late.key] = keys[late.key] /\ late' = late
    BY <1>5, <2>1
  <2>. QED BY <1>3, <2>1, <2>2 DEF MInv, PassInv, Idle
<1>. QED BY <1>3, <1>4, <1>5

\* Clients and the configuration.
LEMMA ForegroundStep ==
  ASSUME MInv, Foreground /\ PassGoesOn /\ UNCHANGED <<late, spare, freeing>>
  PROVE  MInv' /\ GrowthStep
<1>1. IInv' /\ GrowthStep
  BY BfAddStep, BfInsertStep, BfReserveStep, ConfigSetStep DEF MInv, Foreground
<1>2. ASSUME NEW c \in Commands, BfAdd(c) \/ BfInsert(c) \/ BfReserve(c)
      PROVE  AllUsed' /\ \A k \in Objects : IsObject(keys'[k])
  <2>1. PICK rnd \in RandomSeeds :
          /\ Perform(c, Handled(c, metrics, rnd))
          /\ Sound(c, keys[c.key], Handled(c, metrics, rnd))
    BY <1>2, ClientStep DEF MInv
  <2> DEFINE v == keys[c.key]
             out == Handled(c, metrics, rnd)
  <2>2. metrics \in Counters /\ c.key \in Key
    BY ClientFacts DEF MInv
  <2>3. Steady(v, out, out)
    BY <2>2, HandlersDepend DEF MInv
  <2>4. keys' = [keys EXCEPT ![c.key] = out.val] /\ (IsObject(v) => IsObject(out.val))
    BY <2>1 DEF Perform, Sound
  <2>5. IsObject(out.val) => Used(out.val)
    BY <2>2, <2>3 DEF Steady, MInv, AllUsed, Objects
  <2>. HIDE DEF out
  <2>6. AllUsed'
    BY <2>2, <2>4, <2>5, UsedStep DEF MInv
  <2>7. \A k \in Key : IsObject(keys[k]) => IsObject(keys'[k])
    BY <2>2, <2>4 DEF MInv, IInv, TypeOK
  <2>. QED BY <2>6, <2>7 DEF Objects
<1>3. ASSUME keys' = keys PROVE AllUsed' /\ \A k \in Objects : IsObject(keys'[k])
  BY <1>3 DEF MInv, AllUsed, Objects
<1>4. AllUsed' /\ \A k \in Objects : IsObject(keys'[k])
  BY <1>2, <1>3 DEF Foreground, ConfigSet
<1>5. DebtTyped'
  BY DEF MInv, DebtTyped
<1>. QED BY <1>1, <1>4, <1>5, PassSurvives DEF MInv

\* DEL, SET and the like.
LEMMA OverwrittenStep ==
  ASSUME MInv, NEW k \in Key, NEW v \in {Absent, Foreign},
         Overwrite(k, v) /\ PassLoses(k) /\ UNCHANGED <<late, spare, freeing>>
  PROVE  MInv' /\ GrowthStep
<1>1. IInv' /\ GrowthStep
  BY OverwriteStep DEF MInv
<1>2. keys' = [keys EXCEPT ![k] = v] /\ keys \in [Key -> Object \union {Absent, Foreign}]
  BY DEF Overwrite, MInv, IInv, TypeOK
<1>3. AllUsed'
  <2>1. ~ IsObject(v)
    BY DEF IsObject
  <2>. QED BY <1>2, <2>1, UsedStep DEF MInv
<1>4. \A j \in Key : j # k => keys'[j] = keys[j]
  BY <1>2
<1>5. DebtTyped'
  BY DEF MInv, DebtTyped
<1>. QED BY <1>1, <1>3, <1>4, <1>5, PassLost DEF MInv

\* UNLINK of a large object.
LEMMA UnlinkStep ==
  ASSUME MInv, NEW k \in Key, Unlink(k)
  PROVE  MInv' /\ GrowthStep
<1>1. /\ keys' = [keys EXCEPT ![k] = Absent] /\ acked' = [acked EXCEPT ![k] = {}]
      /\ promised' = [promised EXCEPT ![k] = 0] /\ metrics' = metrics /\ config' = config
      /\ PassLoses(k) /\ UNCHANGED <<late, spare>>
  BY DEF Unlink
<1>2. /\ metrics' \in Counters /\ config' \in Config
      /\ promised' \in [Key -> 0..CapacityMax]
      /\ keys \in [Key -> Object \union {Absent, Foreign}]
  <2>1. 0 \in 0..CapacityMax
    BY SizeAssumption
  <2>2. /\ metrics \in Counters /\ config \in Config /\ promised \in [Key -> 0..CapacityMax]
        /\ keys \in [Key -> Object \union {Absent, Foreign}]
    BY DEF MInv, IInv, TypeOK
  <2>. QED BY <1>1, <2>1, <2>2
<1>3. ~ IsObject(Absent) /\ Absent \in Object \union {Absent, Foreign} /\ {} \in SUBSET Item
  BY DEF IsObject
<1>4. IInv' /\ GrowthStep
  BY <1>1, <1>2, <1>3, KeyStep DEF MInv
<1>5. AllUsed'
  BY <1>1, <1>3, UsedStep DEF MInv
<1>6. \A j \in Key : j # k => keys'[j] = keys[j]
  BY <1>1, <1>2
<1>7. DebtTyped'
  <2>1. keys[k] \in Object
    BY KeyFacts DEF Unlink, MInv
  <2>2. freeing \in Seq(Weights) /\ ObjectDrops(keys[k]) \in Seq(Weights)
    BY <2>1, ObjectOwed DEF MInv, DebtTyped
  <2>3. freeing' = freeing \o ObjectDrops(keys[k])
    BY DEF Unlink
  <2>. QED BY <2>2, <2>3 DEF DebtTyped
<1>. QED BY <1>1, <1>4, <1>5, <1>6, <1>7, PassLost DEF MInv

\* A call of bloom_defrag leaves the object as it is, or without the Vec's slack.
LEMMA DefragmentedStep ==
  ASSUME MInv, NEW k \in Key, IsObject(keys[k]), NEW r, Defragmented(k, r),
         r.obj = keys[k] \/ r.obj = Decoded(keys[k]), r.work.spare = Placeholder
  PROVE  /\ IInv' /\ GrowthStep /\ AllUsed' /\ spare' = Placeholder
         /\ keys' = [keys EXCEPT ![k] = r.obj] /\ r.obj.filters = keys[k].filters
         /\ \A j \in Objects : IsObject(keys'[j])
<1> DEFINE o == keys[k]
           v == r.obj
           w == [NoMetrics EXCEPT !.bytes = (o.vcap - v.vcap) * BoxBytes]
<1>1. /\ keys' = [keys EXCEPT ![k] = v] /\ metrics' = Lose(metrics, w) /\ config' = config
      /\ promised' = promised /\ acked' = acked /\ spare' = Placeholder
  BY DEF Defragmented
<1>2. /\ o \in Object /\ WellFormed(o) /\ (\A x \in acked[k] : ItemExists(o, x))
      /\ metrics \in Counters /\ config \in Config /\ acked[k] \in SUBSET Item
      /\ promised \in [Key -> 0..CapacityMax] /\ acked \in [Key -> SUBSET Item]
      /\ keys \in [Key -> Object \union {Absent, Foreign}]
  BY KeyFacts DEF MInv, IInv, TypeOK
<1>3. v \in Object /\ WellFormed(v) /\ v.filters = o.filters
  BY <1>2, DecodedPreserves
<1>4. v.expansion = o.expansion /\ v.fp = o.fp /\ v.tr = o.tr /\ v.seedRandom = o.seedRandom
  BY <1>2 DEF Object, Decoded
<1>. HIDE DEF v, o
<1>5. metrics' \in Counters
  <2>1. o.vcap \in Int /\ v.vcap \in Int /\ BoxBytes \in Int
    BY <1>2, <1>3, SizeAssumption DEF Object
  <2>2. (o.vcap - v.vcap) * BoxBytes \in Int
    BY <2>1
  <2>3. w \in Weights
    BY <2>2, CountersDomain DEF Weights, Names
  <2>. HIDE DEF w
  <2>. QED BY <1>1, <1>2, <2>3, GainAndLose
<1>6. \A x \in acked[k] : ItemExists(v, x)
  BY <1>2, <1>3 DEF ItemExists
<1>7. Grown(o, v)
  <2>1. Grown(o, o)
    BY <1>2, GrownReflexive
  <2>. QED BY <1>3, <1>4, <2>1 DEF Grown
<1>8. acked' = [acked EXCEPT ![k] = acked[k]]
  BY <1>1, <1>2
<1>9. config' \in Config /\ promised' \in [Key -> 0..CapacityMax]
  BY <1>1, <1>2
<1>10. IsObject(v)
  BY <1>3, ObjectsAreValues
<1>11. IInv' /\ GrowthStep
  BY <1>1, <1>2, <1>3, <1>5, <1>6, <1>7, <1>8, <1>9, <1>10, KeyStep DEF MInv, o
<1>12. AllUsed'
  <2>1. Used(o)
    BY DEF MInv, AllUsed, Objects, o
  <2>2. Used(v)
    BY <1>3, <2>1 DEF Used
  <2>. QED BY <1>1, <2>2, UsedStep DEF MInv
<1>13. \A j \in Objects : IsObject(keys'[j])
  BY <1>1, <1>2, <1>10 DEF Objects
<1>. QED BY <1>1, <1>3, <1>11, <1>12, <1>13 DEF o, v


\* A small object, defragmented in one call.
LEMMA DefragNowFacts ==
  ASSUME MInv, NEW k \in Key, DefragNow(k)
  PROVE  \E r : /\ Defragmented(k, r) /\ (r.obj = keys[k] \/ r.obj = Decoded(keys[k]))
                /\ r.work.spare = Placeholder
<1> DEFINE n == Len(keys[k].filters)
<1>1. PICK moved \in {{}, FilterAllocations \union ObjectAllocations} :
        Defragmented(k, DefragCall(keys[k], 0, n, moved))
  BY DEF DefragNow
<1>2. keys[k] \in Object /\ spare = Placeholder
  BY KeyFacts DEF DefragNow, MInv, Background
<1>3. n \in 0..FiltersFrom(keys[k], 0)
  <2>1. n \in Nat
    BY <1>2 DEF Object
  <2>2. Max({0, n - 0}) >= n /\ Max({0, n - 0}) \in Nat
    <3>1. n - 0 = n
      BY <2>1
    <3>2. Max({0, n}) \in Nat /\ Max({0, n}) >= n
      BY <2>1, MaxOfTwo
    <3>. QED BY <3>1, <3>2
  <2>. QED BY <2>1, <2>2 DEF FiltersFrom
<1> DEFINE r == DefragCall(keys[k], 0, n, moved)
<1>4. (r.obj = keys[k] \/ r.obj = Decoded(keys[k])) /\ r.work.spare = Placeholder
  <2>1. 0 \in Nat
    OBVIOUS
  <2>2. CallEffect(keys[k], 0, n, r)
    BY <1>2, <1>3, <2>1, CallDone
  <2>. HIDE DEF r
  <2>. QED BY <2>2 DEF CallEffect
<1>. HIDE DEF r
<1>. QED BY <1>1, <1>4 DEF r

LEMMA DefragNowStep ==
  ASSUME MInv, NEW k \in Key, DefragNow(k)
  PROVE  MInv' /\ GrowthStep
<1>1. PICK r : /\ Defragmented(k, r) /\ (r.obj = keys[k] \/ r.obj = Decoded(keys[k]))
               /\ r.work.spare = Placeholder
  BY DefragNowFacts
<1>2. /\ IInv' /\ GrowthStep /\ AllUsed' /\ spare' = Placeholder
      /\ \A j \in Objects : IsObject(keys'[j])
  BY <1>1, DefragmentedStep DEF DefragNow
<1>3. UNCHANGED <<late, spare>> /\ PassGoesOn
  BY <1>2 DEF DefragNow, MInv, Background
<1>4. DebtTyped'
  BY <1>1 DEF Defragmented, MInv, DebtTyped
<1>. QED BY <1>2, <1>3, <1>4, PassSurvives DEF MInv

\* A large object is put down for a pass in steps.
LEMMA DefragScheduleStep ==
  ASSUME MInv, NEW k \in Key, DefragSchedule(k)
  PROVE  MInv' /\ GrowthStep
<1>1. /\ late' = [key |-> k, cursor |-> 0] /\ pass' = [NoPass EXCEPT !.whole = TRUE]
      /\ UNCHANGED <<vars, spare, freeing>> /\ IsObject(keys[k])
  BY DEF DefragSchedule
<1>2. IInv' /\ GrowthStep
  <2>1. metrics \in Counters /\ config \in Config
    BY DEF MInv, IInv, TypeOK
  <2>. QED BY <1>1, <2>1, OtherStep DEF vars, MInv
<1>3. AllUsed' /\ DebtTyped'
  BY <1>1 DEF MInv, AllUsed, Objects, DebtTyped, vars
<1>4. pass' = [caps |-> <<>>, offered |-> 0, whole |-> TRUE]
  BY <1>1 DEF NoPass
<1>5. Background'
  <2>1. spare' = Placeholder /\ late' \in [key : Key, cursor : Nat]
    BY <1>1 DEF Background, MInv
  <2>2. <<>> \in Seq(Nat)
    OBVIOUS
  <2>. QED BY <1>4, <2>1, <2>2 DEF Background, PassType, Placeholder
<1>6. PassInv'
  <2>1. keys' = keys /\ late'.key = k /\ late'.cursor = 0
    BY <1>1 DEF vars
  <2>2. Len(keys[k].filters) \in Nat
    BY <1>1, KeyFacts DEF MInv, Object
  <2>3. Cardinality(FilterAllocations) \in Nat
    BY AllocationsCounted
  <2>4. 0 * Cardinality(FilterAllocations) = 0
    BY <2>3
  <2>5. [i \in 1..0 |-> keys[k].filters[i].cap] = <<>>
    OBVIOUS
  <2>. QED BY <1>1, <1>4, <2>1, <2>2, <2>4, <2>5 DEF PassInv, FilterAllocations
<1>. QED BY <1>2, <1>3, <1>5, <1>6 DEF MInv

\* What a call of the pass in steps, in time for some turns, comes to: r is what
\* bloom_defrag answers.
CallOfPass(k, o, cursor, turns, r) ==
  /\ late = [key |-> k, cursor |-> cursor] /\ o = keys[k]
  /\ Defragmented(k, r) /\ k \in Key /\ IsObject(o) /\ o \in Object
  /\ cursor \in Nat /\ turns \in Nat /\ Len(o.filters) \in Nat
  /\ pass'.caps = pass.caps \o [j \in 1..turns |-> o.filters[cursor + j].cap]
  /\ pass'.whole = pass.whole /\ pass' \in PassType
  /\ turns = 0 \/ cursor + turns <= Len(o.filters)
  /\ \/ /\ cursor + turns < Len(o.filters) /\ r.obj = o
        /\ pass'.offered = pass.offered + turns * Cardinality(FilterAllocations)
        /\ late' = IF cursor + turns = 0 THEN Idle ELSE [key |-> k, cursor |-> cursor + turns]
     \/ /\ cursor + turns >= Len(o.filters) /\ r.obj = Decoded(o)
        /\ pass'.offered = pass.offered + turns * Cardinality(FilterAllocations)
                             + Cardinality(ObjectAllocations)
        /\ late' = Idle
  /\ r.work.spare = Placeholder

LEMMA DefragStepFacts ==
  ASSUME MInv, DefragStep
  PROVE  \E k, o, cursor, turns, r : CallOfPass(k, o, cursor, turns, r)
<1> DEFINE k == late.key
           o == keys[k]
           cursor == late.cursor
           n == Len(o.filters)
<1>1. PICK turns \in 0..FiltersFrom(o, cursor),
           moved \in {{}, FilterAllocations \union ObjectAllocations} :
        LET r == DefragCall(o, cursor, turns, moved)
        IN  /\ Defragmented(k, r)
            /\ late' = IF r.ret = 0 \/ SavedCursor(r.work) = 0 THEN Idle
                       ELSE [late EXCEPT !.cursor = SavedCursor(r.work)]
            /\ pass' = [pass EXCEPT !.caps = @ \o r.work.caps,
                                    !.offered = @ + r.work.hits + r.work.misses]
  BY Zenon DEF DefragStep
<1>2. /\ k \in Key /\ cursor \in Nat /\ late = [key |-> k, cursor |-> cursor]
      /\ pass \in PassType /\ spare = Placeholder /\ IsObject(o)
  BY DEF DefragStep, MInv, Background
<1>3. o \in Object /\ n \in Nat
  BY <1>2, KeyFacts DEF MInv, Object
<1> DEFINE r == DefragCall(o, cursor, turns, moved)
<1>4. CallEffect(o, cursor, turns, r)
  BY <1>2, <1>3, CallDone
<1>5. turns \in Nat /\ r.work.hits \in Nat /\ r.work.misses \in Nat
  <2>. HIDE DEF r
  <2>. QED BY <1>4 DEF CallEffect
<1>6. pass' = [pass EXCEPT !.caps = @ \o r.work.caps,
                           !.offered = @ + r.work.hits + r.work.misses]
  BY <1>1
<1>7. late' = IF r.ret = 0 \/ cursor + turns = 0 THEN Idle
              ELSE [key |-> k, cursor |-> cursor + turns]
  <2>1. late' = IF r.ret = 0 \/ r.work.cursor = 0 THEN Idle
                ELSE [late EXCEPT !.cursor = r.work.cursor]
    BY <1>1 DEF SavedCursor
  <2>. HIDE DEF r, k, cursor
  <2>. QED BY <1>2, <1>4, <2>1 DEF CallEffect
<1> DEFINE caps == [j \in 1..turns |-> o.filters[cursor + j].cap]
<1>8. caps \in Seq(Nat)
  <2>1. \A j \in 1..turns : o.filters[cursor + j].cap \in Nat
    <3>1. ASSUME NEW j \in 1..turns PROVE o.filters[cursor + j].cap \in Nat
      <4>1. cursor + j \in 1..n
        <5>1. turns = 0 \/ cursor + turns <= n
          <6>. HIDE DEF r
          <6>. QED BY <1>4 DEF CallEffect
        <5>. QED BY <1>2, <1>3, <1>5, <5>1
      <4>2. o.filters[cursor + j] \in Filter
        BY <1>3, <4>1 DEF Object
      <4>. QED BY <4>2, FilterFields
    <3>. QED BY <3>1
  <2>. QED BY <1>5, <2>1
<1>9. Defragmented(k, r)
  BY <1>1
<1>. HIDE DEF r
<1>10. r.work.caps = caps
  BY <1>4 DEF CallEffect
<1>. HIDE DEF caps
<1>11. /\ turns * Cardinality(FilterAllocations) \in Nat /\ Cardinality(ObjectAllocations) \in Nat
       /\ pass.offered \in Nat /\ pass.caps \in Seq(Nat) /\ pass.whole \in BOOLEAN
  <2>1. Cardinality(FilterAllocations) \in Nat /\ Cardinality(ObjectAllocations) \in Nat
    BY AllocationsCounted
  <2>. QED BY <1>2, <1>5, <2>1 DEF PassType
<1>12. pass' \in PassType /\ pass'.whole = pass.whole /\ pass'.caps = pass.caps \o caps
       /\ pass'.offered = pass.offered + (r.work.hits + r.work.misses)
  <2>1. pass' = [caps |-> pass.caps \o caps, whole |-> pass.whole,
                 offered |-> pass.offered + r.work.hits + r.work.misses]
    BY <1>2, <1>6, <1>10 DEF PassType
  <2>2. pass.caps \o caps \in Seq(Nat)
    BY <1>8, <1>11
  <2> DEFINE a == pass.offered + r.work.hits + r.work.misses
  <2>3. a \in Nat /\ a = pass.offered + (r.work.hits + r.work.misses)
    <3>1. r.work.hits \in Nat /\ r.work.misses \in Nat /\ pass.offered \in Nat
      BY <1>5, <1>11
    <3>2. ASSUME NEW x \in Nat, NEW y \in Nat, NEW z \in Nat
          PROVE  x + y + z \in Nat /\ x + y + z = x + (y + z)
      OBVIOUS
    <3>. QED BY <3>1, <3>2, Zenon
  <2>. HIDE DEF a
  <2>4. pass' = [caps |-> pass.caps \o caps, whole |-> pass.whole, offered |-> a]
    BY <2>1 DEF a
  <2>5. pass' \in PassType
    BY <1>11, <2>2, <2>3, <2>4 DEF PassType
  <2>. QED BY <2>3, <2>4, <2>5
<1>13. \/ /\ cursor + turns < n /\ r.obj = o
          /\ pass'.offered = pass.offered + turns * Cardinality(FilterAllocations)
          /\ late' = IF cursor + turns = 0 THEN Idle ELSE [key |-> k, cursor |-> cursor + turns]
       \/ /\ cursor + turns >= n /\ r.obj = Decoded(o)
          /\ pass'.offered = pass.offered + turns * Cardinality(FilterAllocations)
                               + Cardinality(ObjectAllocations)
          /\ late' = Idle
  BY <1>4, <1>7, <1>11, <1>12 DEF CallEffect
<1>14. r.work.spare = Placeholder /\ (turns = 0 \/ cursor + turns <= n)
  BY <1>4 DEF CallEffect
<1>15. CallOfPass(k, o, cursor, turns, r)
  <2>. HIDE DEF k, cursor
  <2>. QED BY <1>2, <1>3, <1>5, <1>9, <1>12, <1>13, <1>14 DEF CallOfPass, caps
<1>. QED BY <1>15


\* Two stretches of an object's capacities, one after the other.
LEMMA CapsInARow ==
  ASSUME NEW o \in Object, NEW a \in Nat, NEW b \in Nat, a + b <= Len(o.filters)
  PROVE  [i \in 1..a |-> o.filters[i].cap] \o [j \in 1..b |-> o.filters[a + j].cap]
           = [i \in 1..(a + b) |-> o.filters[i].cap]
<1> DEFINE s == [i \in 1..a |-> o.filters[i].cap]
           t == [j \in 1..b |-> o.filters[a + j].cap]
           u == [i \in 1..(a + b) |-> o.filters[i].cap]
<1>1. \A i \in 1..(a + b) : o.filters[i].cap \in Nat
  <2>1. ASSUME NEW i \in 1..(a + b) PROVE o.filters[i] \in Filter
    BY DEF Object
  <2>. QED BY <2>1, FilterFields
<1>2. s \in Seq(Nat) /\ Len(s) = a
  BY <1>1
<1>3. t \in Seq(Nat) /\ Len(t) = b
  <2>1. \A j \in 1..b : o.filters[a + j].cap \in Nat
    BY <1>1
  <2>. QED BY <2>1
<1>4. u \in Seq(Nat) /\ Len(u) = a + b
  BY <1>1
<1>5. /\ s \o t \in Seq(Nat) /\ Len(s \o t) = a + b
      /\ \A i \in 1..(a + b) : (s \o t)[i] = IF i <= a THEN s[i] ELSE t[i - a]
  BY <1>2, <1>3, ConcatProperties
<1>6. ASSUME NEW i \in 1..(a + b) PROVE (s \o t)[i] = u[i]
  <2>1. CASE i <= a
    BY <1>5, <2>1
  <2>2. CASE ~ (i <= a)
    <3>1. i - a \in 1..b /\ a + (i - a) = i
      BY <2>2
    <3>2. t[i - a] = o.filters[a + (i - a)].cap
      BY <3>1
    <3>. QED BY <1>5, <2>2, <3>1, <3>2
  <2>. QED BY <2>1, <2>2
<1>. HIDE DEF s, t, u
<1>7. s \o t = u
  BY <1>4, <1>5, <1>6, SeqEqual
<1>. QED BY <1>7 DEF s, t, u

\* One call of a pass in steps keeps the invariant, and if it ends a pass whose
\* object has stayed, the pass has covered the object, or had no time at all.
CoveredStep ==
  late # Idle /\ late' = Idle /\ pass.whole /\ config.defrag /\ pass'.caps # <<>> =>
    LET filters == keys'[late.key].filters
    IN  /\ pass'.caps = [i \in DOMAIN filters |-> filters[i].cap]
        /\ pass'.offered
             = Cardinality(FilterAllocations) * Len(filters) + Cardinality(ObjectAllocations)

LEMMA PassStep ==
  ASSUME MInv, DefragStep
  PROVE  MInv' /\ GrowthStep /\ CoveredStep
<1>1. PICK k, o, cursor, turns, r : CallOfPass(k, o, cursor, turns, r)
  BY DefragStepFacts
<1> DEFINE n == Len(o.filters)
           size == Cardinality(FilterAllocations)
<1>2. /\ k \in Key /\ IsObject(o) /\ o \in Object /\ o = keys[k]
      /\ late.key = k /\ late.cursor = cursor
      /\ pass'.caps = pass.caps \o [j \in 1..turns |-> o.filters[cursor + j].cap]
      /\ pass'.whole = pass.whole /\ pass' \in PassType
  BY <1>1 DEF CallOfPass
<1>3. cursor \in Nat /\ turns \in Nat /\ n \in Nat /\ (turns = 0 \/ cursor + turns <= n)
  BY <1>1 DEF CallOfPass
<1>4. /\ IInv' /\ GrowthStep /\ AllUsed' /\ spare' = Placeholder
      /\ keys' = [keys EXCEPT ![k] = r.obj] /\ r.obj.filters = o.filters
      /\ \A j \in Objects : IsObject(keys'[j])
  <2>1. Defragmented(k, r) /\ (r.obj = o \/ r.obj = Decoded(o)) /\ r.work.spare = Placeholder
    BY <1>1 DEF CallOfPass
  <2>. QED BY <1>2, <2>1, DefragmentedStep
<1>5. DebtTyped'
  <2>1. freeing' = freeing
    BY <1>1 DEF CallOfPass, Defragmented
  <2>. QED BY <2>1 DEF MInv, DebtTyped
<1>6. \/ /\ cursor + turns < n /\ pass'.offered = pass.offered + turns * size
         /\ late' = IF cursor + turns = 0 THEN Idle ELSE [key |-> k, cursor |-> cursor + turns]
      \/ /\ cursor + turns >= n /\ late' = Idle
         /\ pass'.offered = pass.offered + turns * size + Cardinality(ObjectAllocations)
  BY <1>1 DEF CallOfPass
<1>7. keys'[k].filters = o.filters /\ IsObject(keys'[k])
  <2>1. keys \in [Key -> Object \union {Absent, Foreign}]
    BY DEF MInv, IInv, TypeOK
  <2>. QED BY <1>2, <1>4, <2>1 DEF Objects
<1>8. size \in Nat /\ Cardinality(ObjectAllocations) \in Nat
  BY AllocationsCounted
<1>9. late # Idle
  BY DEF DefragStep
<1>10. pass.whole => /\ cursor <= n /\ pass.caps = [i \in 1..cursor |-> o.filters[i].cap]
                    /\ pass.offered = cursor * size
  BY <1>2, <1>9 DEF MInv, PassInv
<1>11. pass.whole => cursor + turns <= n
  BY <1>3, <1>10
<1>12. pass.whole => pass'.caps = [i \in 1..(cursor + turns) |-> o.filters[i].cap]
  <2>1. ASSUME pass.whole
        PROVE  pass'.caps = [i \in 1..(cursor + turns) |-> o.filters[i].cap]
    <3>1. o \in Object /\ cursor \in Nat /\ turns \in Nat /\ cursor + turns <= Len(o.filters)
      BY <1>2, <1>3, <1>11, <2>1
    <3>2. [i \in 1..cursor |-> o.filters[i].cap] \o [j \in 1..turns |-> o.filters[cursor + j].cap]
            = [i \in 1..(cursor + turns) |-> o.filters[i].cap]
      BY <3>1, CapsInARow
    <3>3. /\ pass.caps = [i \in 1..cursor |-> o.filters[i].cap]
          /\ pass'.caps = pass.caps \o [j \in 1..turns |-> o.filters[cursor + j].cap]
      BY <1>2, <1>10, <2>1
    <3>. QED BY <3>2, <3>3, Zenon
  <2>. QED BY <2>1
<1>13. pass.whole => pass.offered + turns * size = (cursor + turns) * size
  <2>1. (cursor + turns) * size = cursor * size + turns * size
    <3>. HIDE DEF size
    <3>. QED BY <1>3, <1>8
  <2>. QED BY <1>10, <2>1
<1>14. Background'
  <2>1. late' \in [key : Key, cursor : Nat] \union {Idle}
    BY <1>2, <1>3, <1>6
  <2>. QED BY <1>2, <1>4, <2>1 DEF Background, Placeholder, Idle
<1>. HIDE DEF n, size
<1>15. PassInv'
  <2>1. ASSUME late' # Idle, pass'.whole PROVE PassInv'
    <3>1. late' = [key |-> k, cursor |-> cursor + turns] /\ cursor + turns < n /\ pass.whole
          /\ pass'.offered = pass.offered + turns * size
      BY <1>2, <1>6, <2>1
    <3>2. late'.key = k /\ late'.cursor = cursor + turns
      BY <3>1
    <3>3. cursor + turns <= Len(keys'[k].filters)
      BY <1>7, <1>11, <3>1 DEF n
    <3>4. pass'.caps = [i \in 1..(cursor + turns) |-> keys'[k].filters[i].cap]
      BY <1>7, <1>12, <3>1
    <3>. QED BY <1>7, <1>13, <3>1, <3>2, <3>3, <3>4 DEF PassInv, size, FilterAllocations
  <2>2. CASE ~ (late' # Idle /\ pass'.whole)
    BY <2>2 DEF PassInv, Idle
  <2>. QED BY <2>1, <2>2
<1>16. CoveredStep
  <2>1. ASSUME late' = Idle, pass.whole, pass'.caps # <<>>
        PROVE  /\ pass'.caps = [i \in DOMAIN o.filters |-> o.filters[i].cap]
               /\ pass'.offered = size * n + Cardinality(ObjectAllocations)
    <3>1. cursor + turns # 0
      <4>1. [i \in 1..0 |-> o.filters[i].cap] = <<>>
        OBVIOUS
      <4>. QED BY <1>12, <2>1, <4>1
    <3>2. [key |-> k, cursor |-> cursor + turns] # Idle
      BY <3>1 DEF Idle
    <3>3. /\ cursor + turns >= n
          /\ pass'.offered = pass.offered + turns * size + Cardinality(ObjectAllocations)
      BY <1>6, <2>1, <3>1, <3>2
    <3>4. cursor + turns = n
      BY <1>3, <1>11, <2>1, <3>3
    <3>5. DOMAIN o.filters = 1..n
      BY <1>2 DEF Object, n
    <3>6. n * size = size * n
      BY <1>3, <1>8
    <3>. QED BY <1>12, <1>13, <2>1, <3>3, <3>4, <3>5, <3>6
  <2>. QED BY <1>2, <1>7, <2>1 DEF CoveredStep, n, size
<1>. QED BY <1>4, <1>5, <1>14, <1>15, <1>16 DEF MInv

\* A pass in steps that is given up.
LEMMA GivenUpStep ==
  ASSUME MInv, DefragGivenUp
  PROVE  MInv' /\ GrowthStep /\ CoveredStep
<1>1. /\ late' = Idle /\ UNCHANGED <<vars, spare, freeing, pass>>
      /\ ~ config.defrag \/ ~ IsObject(keys[late.key])
  BY DEF DefragGivenUp
<1>2. IInv' /\ GrowthStep
  <2>1. metrics \in Counters /\ config \in Config
    BY DEF MInv, IInv, TypeOK
  <2>. QED BY <1>1, <2>1, OtherStep DEF vars, MInv
<1>3. AllUsed' /\ DebtTyped' /\ Background'
  BY <1>1 DEF MInv, AllUsed, Objects, DebtTyped, vars, Background, Idle, Placeholder
<1>4. PassInv'
  BY <1>1 DEF PassInv, Idle
<1>5. CoveredStep
  BY <1>1 DEF CoveredStep, MInv, PassInv
<1>. QED BY <1>2, <1>3, <1>4, <1>5 DEF MInv

\* A subtraction of the lazy-free thread.
LEMMA FreedStep ==
  ASSUME MInv, FreeStep
  PROVE  MInv' /\ GrowthStep
<1>1. /\ freeing # <<>> /\ metrics' = Lose(metrics, Head(freeing)) /\ freeing' = Tail(freeing)
      /\ PassGoesOn /\ UNCHANGED <<keys, config, last, acked, promised, late, spare>>
  BY DEF FreeStep
<1>2. metrics \in Counters /\ config \in Config /\ freeing \in Seq(Weights)
  BY DEF MInv, IInv, TypeOK, DebtTyped
<1>3. Head(freeing) \in Weights /\ Tail(freeing) \in Seq(Weights)
  BY <1>1, <1>2
<1>4. IInv' /\ GrowthStep
  <2>1. metrics' \in Counters /\ config' \in Config
    BY <1>1, <1>2, <1>3, GainAndLose
  <2>. QED BY <1>1, <2>1, OtherStep DEF MInv
<1>5. AllUsed' /\ DebtTyped' /\ \A k \in Objects : IsObject(keys'[k])
  BY <1>1, <1>3 DEF MInv, AllUsed, Objects, DebtTyped
<1>. QED BY <1>1, <1>4, <1>5, PassSurvives DEF MInv

\* Every step.
LEMMA MaintenanceStep ==
  ASSUME MInv, [MNext]_mvars
  PROVE  MInv' /\ GrowthStep /\ CoveredStep
<1>1. ASSUME late' = late \/ late = Idle PROVE CoveredStep
  BY <1>1 DEF CoveredStep
<1>2. CASE Foreground /\ PassGoesOn /\ UNCHANGED <<late, spare, freeing>>
  BY <1>1, <1>2, ForegroundStep
<1>3. ASSUME NEW k \in Key, NEW v \in {Absent, Foreign},
             Overwrite(k, v) /\ PassLoses(k) /\ UNCHANGED <<late, spare, freeing>>
      PROVE  MInv' /\ GrowthStep /\ CoveredStep
  BY <1>1, <1>3, OverwrittenStep
<1>4. ASSUME NEW k \in Key, Unlink(k) PROVE MInv' /\ GrowthStep /\ CoveredStep
  BY <1>1, <1>4, UnlinkStep DEF Unlink
<1>5. ASSUME NEW k \in Key, DefragNow(k) PROVE MInv' /\ GrowthStep /\ CoveredStep
  BY <1>1, <1>5, DefragNowStep DEF DefragNow
<1>6. ASSUME NEW k \in Key, DefragSchedule(k) PROVE MInv' /\ GrowthStep /\ CoveredStep
  BY <1>1, <1>6, DefragScheduleStep DEF DefragSchedule
<1>7. CASE FreeStep
  BY <1>1, <1>7, FreedStep DEF FreeStep
<1>8. CASE UNCHANGED mvars
  <2>1. UNCHANGED <<keys, config, metrics, last, acked, promised, late, spare, freeing, pass>>
    BY <1>8 DEF mvars, vars, background
  <2>2. metrics \in Counters /\ config \in Config
    BY DEF MInv, IInv, TypeOK
  <2>3. IInv' /\ GrowthStep
    BY <2>1, <2>2, OtherStep DEF MInv
  <2>4. AllUsed' /\ DebtTyped' /\ Background' /\ PassInv'
    BY <2>1 DEF MInv, AllUsed, Objects, DebtTyped, Background, Idle, Placeholder, PassInv
  <2>. QED BY <1>1, <2>1, <2>3, <2>4 DEF MInv
<1>9. CASE DefragStep \/ DefragGivenUp
  BY <1>9, PassStep, GivenUpStep
<1>. QED BY <1>2, <1>3, <1>4, <1>5, <1>6, <1>7, <1>8, <1>9 DEF MNext

\* The initial state.
LEMMA MaintenanceInit ==
  ASSUME MInit
  PROVE  MInv
<1>1. IInv /\ \A k \in Key : ~ IsObject(keys[k])
  BY InitEstablishes DEF MInit, Init, IsObject
<1>2. NoPass \in PassType /\ <<>> \in Seq(Weights)
  BY DEF NoPass, PassType
<1>. QED BY <1>1, <1>2 DEF MInit, MInv, AllUsed, Objects, Background, PassInv, DebtTyped

(****************************** the refinement *****************************)

\* The parts of BloomServer that have nothing to do with its counters are the same
\* in the instance whose counters are Settled: both sides are written out.
LEMMA SameParts ==
  /\ Server!Ok = Ok /\ Server!NoCommand = NoCommand /\ Server!RandomSeeds = RandomSeeds
  /\ Server!NoMetrics = NoMetrics
  /\ \A v : Server!IsObject(v) = IsObject(v)
  /\ \A arg, default : Server!Given(arg, default) = Given(arg, default)
  /\ \A s : Server!Range(s) = Range(s)
<1>1. Server!NoCommand = NoCommand
  BY DEF NoCommand, Server!NoCommand, Ok, Server!Ok
<1>. QED
  BY <1>1 DEF Ok, Server!Ok, RandomSeeds, Server!RandomSeeds, NoMetrics, Server!NoMetrics,
     IsObject, Server!IsObject, Given, Server!Given, Range, Server!Range

LEMMA SameLose ==
  ASSUME NEW m, NEW w PROVE Server!Lose(m, w) = Lose(m, w)
BY DEF Lose, Server!Lose

LEMMA SameDropObject ==
  ASSUME NEW m, NEW o PROVE Server!DropObject(m, o) = DropObject(m, o)
BY DEF DropObject, Server!DropObject, LoseFilters, Server!LoseFilters, Lose, Server!Lose,
   FilterWeight, Server!FilterWeight, FilterSize, Server!FilterSize, BitmapBytes,
   Server!BitmapBytes, ObjectWeight, Server!ObjectWeight, ObjectSize, Server!ObjectSize

LEMMA SameNewItems ==
  ASSUME NEW o, NEW items
  PROVE  Server!NewItems(o, items) = NewItems(o, items)
BY DEF NewItems, Server!NewItems, ItemExists, Server!ItemExists, Check, Server!Check,
   BitsOf, Server!BitsOf, BitmapBytes, Server!BitmapBytes

LEMMA SameValidateAddItems ==
  ASSUME NEW o, NEW count, NEW limit
  PROVE  Server!ValidateAddItems(o, count, limit) = ValidateAddItems(o, count, limit)
BY DEF ValidateAddItems, Server!ValidateAddItems, Capacity, Server!Capacity, SumOf,
   Server!SumOf, FoldLeft, Server!FoldLeft, MapThenFoldSet, Server!MapThenFoldSet, Max,
   Server!Max, NumItems, Server!NumItems, Ok, Server!Ok, ClientError, Server!ClientError,
   Project, Server!Project, Layout, Server!Layout, NoTarget, Server!NoTarget, FpRate,
   Server!FpRate, FilterSize, Server!FilterSize, BitmapBytes, Server!BitmapBytes, FpReachesZero,
   Server!FpReachesZero, ObjectSize, Server!ObjectSize, ProjectedVec, Server!ProjectedVec,
   NextPowerOfTwo, Server!NextPowerOfTwo, Min, Server!Min

LEMMA SameAddTurn ==
  ASSUME NEW s, NEW x, NEW new, NEW validate, NEW limit
  PROVE  Server!AddTurn(s, x, new, validate, limit) = AddTurn(s, x, new, validate, limit)
BY DEF AddTurn, Server!AddTurn, AddError, Server!AddError, Full, Server!Full, Last,
   Server!Last, ScaleOutError, Server!ScaleOutError, FpReachesZero, Server!FpReachesZero,
   NextFp, Server!NextFp, FpRate, Server!FpRate, NextCapacity, Server!NextCapacity,
   MemoryUsage, Server!MemoryUsage, ObjectSize, Server!ObjectSize, FiltersSize,
   Server!FiltersSize, SumOf, Server!SumOf, FoldLeft, Server!FoldLeft, MapThenFoldSet,
   Server!MapThenFoldSet, Max, Server!Max, FilterSize, Server!FilterSize, BitmapBytes,
   Server!BitmapBytes, Ok, Server!Ok, AddItemUnchecked, Server!AddItemUnchecked,
   ScaledOut, Server!ScaledOut, Set, Server!Set, BitsOf, Server!BitsOf, NewFilter,
   Server!NewFilter, SeedOf, Server!SeedOf, PushedVec, Server!PushedVec, AddToLast,
   Server!AddToLast, AddMetrics, Server!AddMetrics, NoMetrics, Server!NoMetrics, Gain,
   Server!Gain, FilterWeight, Server!FilterWeight

LEMMA SameAddTurns ==
  ASSUME NEW s, NEW items, NEW new, NEW validate, NEW limit
  PROVE  Server!AddTurns(s, items, new, validate, limit)
           = AddTurns(s, items, new, validate, limit)
BY DEF AddTurns, Server!AddTurns, AddTurn, Server!AddTurn, AddError, Server!AddError,
   Full, Server!Full, Last, Server!Last, ScaleOutError, Server!ScaleOutError,
   FpReachesZero, Server!FpReachesZero, NextFp, Server!NextFp, FpRate, Server!FpRate,
   NextCapacity, Server!NextCapacity, MemoryUsage, Server!MemoryUsage, ObjectSize,
   Server!ObjectSize, FiltersSize, Server!FiltersSize, SumOf, Server!SumOf, FoldLeft,
   Server!FoldLeft, MapThenFoldSet, Server!MapThenFoldSet, Max, Server!Max, FilterSize,
   Server!FilterSize, BitmapBytes, Server!BitmapBytes, Ok, Server!Ok, AddItemUnchecked,
   Server!AddItemUnchecked, ScaledOut, Server!ScaledOut, Set, Server!Set, BitsOf,
   Server!BitsOf, NewFilter, Server!NewFilter, SeedOf, Server!SeedOf, PushedVec,
   Server!PushedVec, AddToLast, Server!AddToLast, AddMetrics, Server!AddMetrics,
   NoMetrics, Server!NoMetrics, Gain, Server!Gain, FilterWeight, Server!FilterWeight

LEMMA SameHandleAdd ==
  ASSUME NEW o, NEW m, NEW items, NEW multi, NEW validate, NEW limit
  PROVE  Server!HandleAdd(o, m, items, multi, validate, limit)
           = HandleAdd(o, m, items, multi, validate, limit)
<1> DEFINE start == [obj |-> o, metrics |-> m, err |-> Ok, ints |-> <<>>]
           new   == NewItems(o, items)
           one   == ~ ItemExists(o, items[1])
<1>1. /\ Server!NewItems(o, items) = new /\ Server!Cardinality(new) = Cardinality(new)
      /\ Server!Ok = Ok
  <2>1. Server!Cardinality(new) = Cardinality(new)
    BY DEF Cardinality, Server!Cardinality
  <2>. QED BY <2>1, SameNewItems, SameParts, Zenon
<1>2. Server!ItemExists(o, items[1]) = ItemExists(o, items[1])
  BY DEF ItemExists, Server!ItemExists, Check, Server!Check, BitsOf, Server!BitsOf,
     BitmapBytes, Server!BitmapBytes
<1>3. Server!ValidateAddItems(o, Cardinality(new), limit)
        = ValidateAddItems(o, Cardinality(new), limit)
  BY SameValidateAddItems, Zenon
<1>4. /\ Server!AddTurns(start, items, new, validate, limit)
           = AddTurns(start, items, new, validate, limit)
      /\ Server!AddTurn(start, items[1], one, validate, limit)
           = AddTurn(start, items[1], one, validate, limit)
  BY SameAddTurns, SameAddTurn, Zenon
<1>. QED BY <1>1, <1>2, <1>3, <1>4, Zenon DEF HandleAdd, Server!HandleAdd

LEMMA SameNewReserved ==
  ASSUME NEW p
  PROVE  Server!NewReserved(p) = NewReserved(p)
BY DEF NewReserved, Server!NewReserved, NewFilter, Server!NewFilter

LEMMA SameNewReservedMetrics ==
  ASSUME NEW m, NEW o
  PROVE  Server!NewReservedMetrics(m, o) = NewReservedMetrics(m, o)
BY DEF NewReservedMetrics, Server!NewReservedMetrics, Gain, Server!Gain, GainFilters,
   Server!GainFilters, FilterWeight, Server!FilterWeight, FilterSize, Server!FilterSize,
   BitmapBytes, Server!BitmapBytes, ObjectWeight, Server!ObjectWeight, ObjectSize,
   Server!ObjectSize

LEMMA SameCreateError ==
  ASSUME NEW p, NEW validate, NEW limit
  PROVE  Server!CreateError(p, validate, limit) = CreateError(p, validate, limit)
BY DEF CreateError, Server!CreateError, ObjectSize, Server!ObjectSize, FilterSize,
   Server!FilterSize, BitmapBytes, Server!BitmapBytes, Ok, Server!Ok

LEMMA SameProperties ==
  ASSUME NEW c, NEW cfg, NEW rnd
  PROVE  Server!Properties(c, cfg, rnd) = Properties(c, cfg, rnd)
BY DEF Properties, Server!Properties, Given, Server!Given

LEMMA SameReplicaInsert ==
  ASSUME NEW key, NEW o, NEW items
  PROVE  Server!ReplicaInsert(key, o, items) = ReplicaInsert(key, o, items)
BY DEF ReplicaInsert, Server!ReplicaInsert, Command, Server!Command, Capacity,
   Server!Capacity, SumOf, Server!SumOf, FoldLeft, Server!FoldLeft, MapThenFoldSet,
   Server!MapThenFoldSet, Max, Server!Max, SeedOf, Server!SeedOf

LEMMA SameScaleToError ==
  ASSUME NEW c, NEW p, NEW validate, NEW limit
  PROVE  Server!ScaleToError(c, p, validate, limit) = ScaleToError(c, p, validate, limit)
BY DEF ScaleToError, Server!ScaleToError, Ok, Server!Ok, Project, Server!Project,
   Layout, Server!Layout, NoTarget, Server!NoTarget, FpRate, Server!FpRate, FilterSize,
   Server!FilterSize, BitmapBytes, Server!BitmapBytes, FpReachesZero, Server!FpReachesZero, ObjectSize,
   Server!ObjectSize, ProjectedVec, Server!ProjectedVec, NextPowerOfTwo,
   Server!NextPowerOfTwo, Max, Server!Max, Min, Server!Min

LEMMA SameAddToExisting ==
  ASSUME NEW c, NEW o, NEW m, NEW multi, NEW validate, NEW limit
  PROVE  Server!AddToExisting(c, o, m, multi, validate, limit)
           = AddToExisting(c, o, m, multi, validate, limit)
<1> DEFINE h == HandleAdd(o, m, c.items, multi, validate, limit)
<1>1. Server!HandleAdd(o, m, c.items, multi, validate, limit) = h
  BY SameHandleAdd, Zenon
<1>. QED
  BY <1>1, Zenon DEF AddToExisting, Server!AddToExisting, AddSucceeded, Server!AddSucceeded,
     AddReply, Server!AddReply, Outcome, Server!Outcome, Ok, Server!Ok

LEMMA SameCreateAndAdd ==
  ASSUME NEW c, NEW p, NEW m, NEW multi, NEW validate, NEW limit
  PROVE  Server!CreateAndAdd(c, p, m, multi, validate, limit)
           = CreateAndAdd(c, p, m, multi, validate, limit)
<1> DEFINE o == NewReserved(p)
           h == HandleAdd(o, NewReservedMetrics(m, o), c.items, multi, validate, limit)
<1>1. Server!NewReserved(p) = o /\ Server!NewReservedMetrics(m, o) = NewReservedMetrics(m, o)
  BY SameNewReserved, SameNewReservedMetrics, Zenon
<1>2. Server!HandleAdd(o, NewReservedMetrics(m, o), c.items, multi, validate, limit) = h
  BY SameHandleAdd, Zenon
<1>3. /\ Server!CreateError(p, validate, limit) = CreateError(p, validate, limit)
      /\ Server!ReplicaInsert(c.key, o, c.items) = ReplicaInsert(c.key, o, c.items)
  BY SameCreateError, SameReplicaInsert, Zenon
<1>4. Server!AddSucceeded(h) = AddSucceeded(h) /\ Server!AddReply(h) = AddReply(h)
  BY Zenon DEF AddSucceeded, Server!AddSucceeded, AddReply, Server!AddReply, Ok, Server!Ok
<1>. QED
  BY <1>1, <1>2, <1>3, <1>4, Zenon
  DEF CreateAndAdd, Server!CreateAndAdd, Rejected, Server!Rejected, Outcome,
      Server!Outcome, Ok, Server!Ok

LEMMA SameHandlers ==
  ASSUME NEW c, NEW v, NEW cfg, NEW m, NEW obey, NEW rnd
  PROVE  /\ Server!BloomFilterAddValue(c, v, cfg, m, obey, rnd)
              = BloomFilterAddValue(c, v, cfg, m, obey, rnd)
         /\ Server!BloomFilterInsert(c, v, cfg, m, obey, rnd)
              = BloomFilterInsert(c, v, cfg, m, obey, rnd)
         /\ Server!BloomFilterReserve(c, v, cfg, m, obey, rnd)
              = BloomFilterReserve(c, v, cfg, m, obey, rnd)
<1> DEFINE p == Properties(c, cfg, rnd)
           o == NewReserved(p)
           multi == c.name = "BF.MADD"
<1>1. Server!Properties(c, cfg, rnd) = p
  BY SameProperties, Zenon
<1>2. /\ Server!AddToExisting(c, v, m, multi, ~ obey, cfg.limit)
           = AddToExisting(c, v, m, multi, ~ obey, cfg.limit)
      /\ Server!AddToExisting(c, v, m, TRUE, ~ obey, cfg.limit)
           = AddToExisting(c, v, m, TRUE, ~ obey, cfg.limit)
  BY SameAddToExisting, Zenon
<1>3. /\ Server!CreateAndAdd(c, p, m, multi, ~ obey, cfg.limit)
           = CreateAndAdd(c, p, m, multi, ~ obey, cfg.limit)
      /\ Server!CreateAndAdd(c, p, m, TRUE, ~ obey, cfg.limit)
           = CreateAndAdd(c, p, m, TRUE, ~ obey, cfg.limit)
  BY SameCreateAndAdd, Zenon
<1>4. Server!ScaleToError(c, p, ~ obey, cfg.limit) = ScaleToError(c, p, ~ obey, cfg.limit)
  BY SameScaleToError, Zenon
<1>5. /\ Server!NewReserved(p) = o /\ Server!NewReservedMetrics(m, o) = NewReservedMetrics(m, o)
      /\ Server!CreateError(p, ~ obey, cfg.limit) = CreateError(p, ~ obey, cfg.limit)
      /\ Server!ReplicaInsert(c.key, o, <<>>) = ReplicaInsert(c.key, o, <<>>)
  BY SameNewReserved, SameNewReservedMetrics, SameCreateError, SameReplicaInsert, Zenon
<1>6. Server!BloomFilterAddValue(c, v, cfg, m, obey, rnd)
        = BloomFilterAddValue(c, v, cfg, m, obey, rnd)
  BY <1>1, <1>2, <1>3, Zenon
  DEF BloomFilterAddValue, Server!BloomFilterAddValue, Rejected, Server!Rejected, Outcome,
      Server!Outcome, IsObject, Server!IsObject
<1>7. Server!BloomFilterInsert(c, v, cfg, m, obey, rnd)
        = BloomFilterInsert(c, v, cfg, m, obey, rnd)
  BY <1>1, <1>2, <1>3, <1>4, Zenon
  DEF BloomFilterInsert, Server!BloomFilterInsert, Rejected, Server!Rejected, Outcome,
      Server!Outcome, IsObject, Server!IsObject, Ok, Server!Ok
<1>8. Server!BloomFilterReserve(c, v, cfg, m, obey, rnd)
        = BloomFilterReserve(c, v, cfg, m, obey, rnd)
  BY <1>1, <1>5, Zenon
  DEF BloomFilterReserve, Server!BloomFilterReserve, Rejected, Server!Rejected, Outcome,
      Server!Outcome, IsObject, Server!IsObject, Ok, Server!Ok
<1>. QED BY <1>6, <1>7, <1>8

\* Subtracting less the same from more of the same: what is settled follows the
\* counters and the debt, M and D.
LEMMA SettledFollows ==
  ASSUME NEW M \in Counters, NEW D \in Counters, NEW S \in Counters,
         NEW x \in Weights, NEW y \in Weights, NEW w \in Weights,
         NEW M2 \in Counters, NEW D2 \in Counters,
         Tracks(D, x, D2), Tracks(M, y, M2), Tracks(Lose(M, D), w, S),
         \A c \in Names : y[c] = w[c] + x[c]
  PROVE  Lose(M2, D2) = S
<1>1. /\ Lose(M, D) \in Counters /\ Lose(M2, D2) \in Counters
      /\ D \in Weights /\ D2 \in Weights
      /\ Tracks(M, Minus(D), Lose(M, D)) /\ Tracks(M2, Minus(D2), Lose(M2, D2))
  <2>1. D \in Weights /\ D2 \in Weights
    BY SizeAssumption, CountersDomain DEF Weights
  <2>. QED BY <2>1, GainTracks, GainAndLose
<1> DEFINE L == Lose(M, D)
           L2 == Lose(M2, D2)
<1>2. ASSUME NEW c \in Names PROVE L2[c] = S[c]
  <2>1. /\ M[c] \in Int /\ D[c] \in Int /\ M2[c] \in Int /\ D2[c] \in Int
        /\ L[c] \in Int /\ S[c] \in 0..(Word - 1) /\ L2[c] \in 0..(Word - 1) /\ Word \in Int
        /\ S[c] \in Int /\ L2[c] \in Int
    BY <1>1, CountersAreIntegers, SizeAssumption
  <2>2. x[c] \in Int /\ y[c] \in Int /\ w[c] \in Int /\ y[c] = w[c] + x[c]
    BY DEF Weights
  <2>3. /\ Congruent(D2[c], D[c] + x[c]) /\ Congruent(M2[c], M[c] + y[c])
        /\ Congruent(S[c], L[c] + w[c]) /\ Congruent(L[c], M[c] - D[c])
        /\ Congruent(L2[c], M2[c] - D2[c])
    <3>1. M[c] + Minus(D)[c] = M[c] - D[c] /\ M2[c] + Minus(D2)[c] = M2[c] - D2[c]
      BY <2>1 DEF Minus
    <3>2. Congruent(L[c], M[c] + Minus(D)[c]) /\ Congruent(L2[c], M2[c] + Minus(D2)[c])
      BY <1>1 DEF Tracks
    <3>3. /\ Congruent(D2[c], D[c] + x[c]) /\ Congruent(M2[c], M[c] + y[c])
          /\ Congruent(S[c], L[c] + w[c])
      BY DEF Tracks
    <3>. QED BY <3>1, <3>2, <3>3
  <2>. HIDE DEF L, L2
  <2>4. PICK a \in Int : D2[c] = D[c] + x[c] + a * Word
    BY <2>3 DEF Congruent
  <2>5. PICK b \in Int : M2[c] = M[c] + y[c] + b * Word
    BY <2>3 DEF Congruent
  <2>6. PICK d \in Int : S[c] = L[c] + w[c] + d * Word
    BY <2>3 DEF Congruent
  <2>7. PICK e \in Int : L[c] = M[c] - D[c] + e * Word
    BY <2>3 DEF Congruent
  <2>8. /\ a * Word \in Int /\ b * Word \in Int /\ d * Word \in Int /\ e * Word \in Int
        /\ d + e + a - b \in Int
        /\ (d + e + a - b) * Word = d * Word + e * Word + a * Word - b * Word
    BY <2>1
  <2>9. S[c] = (M2[c] - D2[c]) + (d + e + a - b) * Word
    BY <2>1, <2>2, <2>4, <2>5, <2>6, <2>7, <2>8
  <2>10. Congruent(S[c], M2[c] - D2[c]) /\ M2[c] - D2[c] \in Int
    BY <2>1, <2>8, <2>9 DEF Congruent
  <2>. QED BY <2>1, <2>3, <2>10, Congruence
<1>3. L2 \in [Names -> 0..(Word - 1)] /\ S \in [Names -> 0..(Word - 1)]
  BY <1>1, CountersDomain
<1>. HIDE DEF L2
<1>4. L2 = S
  BY <1>2, <1>3
<1>. QED BY <1>4 DEF L2

\* What the counters gained can be taken from them again.
LEMMA TracksBack ==
  ASSUME NEW m \in Counters, NEW k \in Counters, NEW w \in Weights, Tracks(m, w, k)
  PROVE  Tracks(k, Minus(w), m) /\ Minus(w) \in Weights
<1>1. ASSUME NEW c \in Names PROVE Congruent(m[c], k[c] + Minus(w)[c])
  <2>1. m[c] \in Int /\ k[c] \in Int /\ w[c] \in Int /\ Minus(w)[c] = - w[c] /\ Word \in Int
    BY CountersAreIntegers, SizeAssumption DEF Weights, Minus
  <2>2. PICK q \in Int : k[c] = m[c] + w[c] + q * Word
    BY DEF Tracks, Congruent
  <2>3. q * Word \in Int /\ -q \in Int /\ (-q) * Word = - (q * Word)
    BY <2>1
  <2>4. m[c] = k[c] + Minus(w)[c] + (-q) * Word
    BY <2>1, <2>2, <2>3
  <2>. QED BY <2>3, <2>4 DEF Congruent
<1>2. Minus(w) \in Weights
  BY DEF Minus, Weights
<1>. QED BY <1>1, <1>2 DEF Tracks

\* What BloomServer takes for the counters is one.
LEMMA SettledTyped ==
  ASSUME MInv
  PROVE  /\ Settled = Lose(metrics, DebtOf(freeing)) /\ Settled' = Lose(metrics', DebtOf(freeing'))
         /\ Settled \in Counters /\ DebtOf(freeing) \in Counters /\ metrics \in Counters
<1>1. Settled = Lose(metrics, DebtOf(freeing)) /\ Settled' = Lose(metrics', DebtOf(freeing'))
  BY DEF Settled, Owed
<1>2. DebtOf(freeing) \in Counters /\ metrics \in Counters
  <2>1. NoMetrics \in Weights
    BY CountersDomain
  <2>. QED BY <2>1, DebtAppend DEF MInv, DebtTyped, IInv, TypeOK
<1>3. DebtOf(freeing) \in Weights
  BY <1>2, SizeAssumption, CountersDomain DEF Weights
<1>4. Lose(metrics, DebtOf(freeing)) \in Counters
  BY <1>2, <1>3, GainAndLose
<1>. QED BY <1>1, <1>2, <1>4

\* What is settled follows the value of the one key that changes, if one does.
SettledBy(k, v) ==
  /\ keys' = [keys EXCEPT ![k] = v] /\ Settled' \in Counters
  /\ Tracks(Settled, Change(keys[k], v), Settled')

SettledStep ==
  \/ keys' = keys /\ Settled' = Settled
  \/ \E k \in Key, v \in Object \union {Absent, Foreign} : SettledBy(k, v)

\* When the debt stays, what is settled moves with the counters.
LEMMA SettledMoves ==
  ASSUME MInv, freeing' = freeing, metrics' \in Counters, NEW w \in Weights,
         Tracks(metrics, w, metrics'), NEW S \in Counters, Tracks(Settled, w, S)
  PROVE  Settled' = S
<1> DEFINE D == DebtOf(freeing)
<1>1. D \in Counters /\ metrics \in Counters /\ Tracks(Lose(metrics, D), w, S)
  BY SettledTyped
<1>2. NoMetrics \in Weights /\ \A c \in Names : NoMetrics[c] = 0
  BY CountersDomain DEF NoMetrics, Names
<1>3. Tracks(D, NoMetrics, D)
  BY <1>1, <1>2, TracksEqual
<1>4. \A c \in Names : w[c] = w[c] + NoMetrics[c]
  BY <1>2 DEF Weights
<1>. HIDE DEF D
<1>5. Lose(metrics', D) = S
  BY <1>1, <1>2, <1>3, <1>4, SettledFollows
<1>. QED BY <1>5, SettledTyped DEF D

\* A client's command is the one of BloomServer: its handler answers the same and
\* what it does to the counters it does to what is settled.
LEMMA PerformRefines ==
  ASSUME MInv, NEW c \in Commands, NEW rnd \in RandomSeeds, freeing' = freeing,
         Perform(c, Handled(c, metrics, rnd))
  PROVE  Server!Perform(c, Handled(c, Settled, rnd)) /\ SettledStep
<1> DEFINE v == keys[c.key]
           a == Handled(c, metrics, rnd)
           b == Handled(c, Settled, rnd)
           w == Change(v, a.val)
<1>1. IInv /\ metrics \in Counters /\ Settled \in Counters
  BY SettledTyped DEF MInv
<1>2. a.val = b.val /\ a.reply = b.reply /\ a.repl = b.repl /\ a.events = b.events
  BY <1>1, HandlersDepend DEF Steady
<1>3. Balanced(v, metrics, a) /\ Balanced(v, Settled, b)
  BY <1>1, HandledSoundly
<1>. HIDE DEF a, b
<1>4. /\ keys' = [keys EXCEPT ![c.key] = a.val] /\ metrics' = a.metrics
      /\ last' = [cmd |-> c, reply |-> a.reply, repl |-> a.repl, events |-> a.events]
      /\ acked' = IF a.reply.err = Ok
                  THEN [acked EXCEPT ![c.key] = @ \union Range(c.items)] ELSE acked
      /\ promised' = IF v = Absent /\ a.reply.err = Ok
                     THEN [promised EXCEPT ![c.key] = Given(c.scaleTo, 0)] ELSE promised
      /\ config' = config
  BY DEF Perform, a
<1>5. /\ v \in Object \union {Absent, Foreign} /\ a.val \in Object \union {Absent, Foreign}
      /\ w \in Weights /\ c.key \in Key
  <2>1. v \in Object \union {Absent, Foreign} /\ c.key \in Key
    BY <1>1, ClientFacts
  <2>2. a.val \in Object \union {Absent, Foreign}
    BY <1>1, HandledSoundly DEF Sound, a
  <2>. QED BY <2>1, <2>2, ChangeTyped
<1>. HIDE DEF w
<1>6. b.metrics \in Counters /\ Tracks(Settled, w, b.metrics)
  BY <1>2, <1>3 DEF Balanced, w
<1>7. Settled' = b.metrics
  <2>1. metrics' \in Counters /\ Tracks(metrics, w, metrics')
    BY <1>3, <1>4 DEF Balanced, w
  <2>. QED BY <1>5, <1>6, <2>1, SettledMoves
<1>8. SettledStep
  BY <1>4, <1>5, <1>6, <1>7 DEF SettledStep, SettledBy, w
<1>9. /\ Server!Ok = Ok /\ Server!Given(c.scaleTo, 0) = Given(c.scaleTo, 0)
      /\ Server!Range(c.items) = Range(c.items)
  BY SameParts
<1>10. Server!Perform(c, Handled(c, Settled, rnd))
  BY <1>2, <1>4, <1>7, <1>9 DEF Server!Perform, v, b
<1>. QED BY <1>8, <1>10

\* The commands of clients and CONFIG SET.
LEMMA ForegroundRefines ==
  ASSUME MInv, Foreground, freeing' = freeing
  PROVE  Server!Next /\ SettledStep
<1>1. ASSUME NEW c \in Commands, BfAdd(c) \/ BfInsert(c) \/ BfReserve(c)
      PROVE  (Server!BfAdd(c) \/ Server!BfInsert(c) \/ Server!BfReserve(c)) /\ SettledStep
  <2>1. PICK rnd \in RandomSeeds : Perform(c, Handled(c, metrics, rnd))
    BY <1>1, ClientStep DEF MInv
  <2>2. Server!Perform(c, Handled(c, Settled, rnd)) /\ SettledStep
    BY <2>1, PerformRefines
  <2>3. rnd \in Server!RandomSeeds
    BY SameParts
  <2>4. CASE BfInsert(c)
    <3>1. c.name = "BF.INSERT"
      BY <2>4 DEF BfInsert
    <3>2. Handled(c, Settled, rnd)
            = Server!BloomFilterInsert(c, keys[c.key], config, Settled, FALSE, rnd)
      BY <3>1, SameHandlers DEF Handled
    <3>. QED BY <2>2, <2>3, <3>1, <3>2, Zenon DEF Server!BfInsert
  <2>5. CASE BfReserve(c)
    <3>1. c.name = "BF.RESERVE"
      BY <2>5 DEF BfReserve
    <3>2. Handled(c, Settled, rnd)
            = Server!BloomFilterReserve(c, keys[c.key], config, Settled, FALSE, rnd)
      BY <3>1, SameHandlers DEF Handled
    <3>. QED BY <2>2, <2>3, <3>1, <3>2, Zenon DEF Server!BfReserve
  <2>6. CASE BfAdd(c)
    <3>1. c.name \in {"BF.ADD", "BF.MADD"}
      BY <2>6 DEF BfAdd
    <3>2. Handled(c, Settled, rnd)
            = Server!BloomFilterAddValue(c, keys[c.key], config, Settled, FALSE, rnd)
      <4>1. c.name # "BF.INSERT" /\ c.name # "BF.RESERVE"
        BY <3>1
      <4>. QED BY <4>1, SameHandlers DEF Handled
    <3>. QED BY <2>2, <2>3, <3>1, <3>2, Zenon DEF Server!BfAdd
  <2>. QED BY <1>1, <2>2, <2>4, <2>5, <2>6
<1>2. ASSUME NEW change \in ConfigChanges, ConfigSet(change[1], change[2])
      PROVE  Server!ConfigSet(change[1], change[2]) /\ SettledStep
  <2>1. /\ config[change[1]] # change[2] /\ config' = [config EXCEPT ![change[1]] = change[2]]
        /\ last' = NoCommand /\ UNCHANGED <<keys, metrics, acked, promised>>
    BY <1>2 DEF ConfigSet
  <2>2. Settled' = Settled
    BY <2>1, SettledTyped
  <2>3. Server!NoCommand = NoCommand
    BY SameParts
  <2>. QED BY <2>1, <2>2, <2>3 DEF Server!ConfigSet, SettledStep
<1>. QED BY <1>1, <1>2 DEF Foreground, Server!Next

\* An object that goes takes its footprint along.
LEMMA FreedChange ==
  ASSUME NEW o \in Object, IsObject(o), NEW v, ~ IsObject(v)
  PROVE  \A c \in Names : Change(o, v)[c] = Minus(Footprint(o))[c]
<1>1. Figures(o) = Footprint(o) /\ Footprint(o) \in Weights
  BY FootprintTyped DEF Figures
<1>2. ASSUME NEW c \in Names PROVE 0 - Footprint(o)[c] = - Footprint(o)[c]
  BY <1>1 DEF Weights
<1>. QED BY <1>1, <1>2, NothingCounts DEF Change, Minus

\* DEL, SET and the like.
LEMMA OverwriteRefines ==
  ASSUME MInv, NEW k \in Key, NEW v \in {Absent, Foreign}, Overwrite(k, v), freeing' = freeing
  PROVE  Server!Next /\ SettledStep
<1> DEFINE o == keys[k]
           S == IF IsObject(o) THEN DropObject(Settled, o) ELSE Settled
<1>1. /\ keys[k] # v /\ keys' = [keys EXCEPT ![k] = v] /\ metrics' = Freed(k)
      /\ acked' = [acked EXCEPT ![k] = {}] /\ promised' = [promised EXCEPT ![k] = 0]
      /\ last' = NoCommand /\ config' = config
  BY DEF Overwrite
<1>2. Settled \in Counters /\ metrics \in Counters /\ IInv
  BY SettledTyped DEF MInv
<1>3. Settled' = S
  <2>1. CASE IsObject(o)
    <3>1. o \in Object /\ WellFormed(o)
      BY <1>2, <2>1, KeyFacts
    <3>2. metrics' = DropObject(metrics, o) /\ S = DropObject(Settled, o)
      BY <1>1, <2>1 DEF Freed
    <3>3. Minus(Footprint(o)) \in Weights
      BY <3>1, FootprintTyped DEF Minus, Weights
    <3>4. /\ Tracks(metrics, Minus(Footprint(o)), metrics') /\ metrics' \in Counters
          /\ Tracks(Settled, Minus(Footprint(o)), S) /\ S \in Counters
      BY <1>2, <3>1, <3>2, ObjectTracks
    <3>. HIDE DEF S, o
    <3>. QED BY <3>3, <3>4, SettledMoves
  <2>2. CASE ~ IsObject(o)
    <3>1. metrics' = metrics
      BY <1>1, <2>2 DEF Freed
    <3>. QED BY <2>2, <3>1, SettledTyped
  <2>. QED BY <2>1, <2>2
<1>4. Server!Freed(k) = S
  BY SameParts, SameDropObject DEF Server!Freed
<1>5. Server!NoCommand = NoCommand
  BY SameParts
<1>6. Server!Overwrite(k, v)
  BY <1>1, <1>3, <1>4, <1>5, Zenon DEF Server!Overwrite
<1>7. v \in Object \union {Absent, Foreign} /\ ~ IsObject(v) /\ o \in Object \union {Absent, Foreign}
  BY <1>2, KeyFacts, NothingCounts
<1>8. S \in Counters /\ Tracks(Settled, Change(o, v), S)
  <2>1. CASE IsObject(o)
    <3>1. o \in Object /\ WellFormed(o)
      BY <1>2, <2>1, KeyFacts
    <3>2. Tracks(Settled, Minus(Footprint(o)), S) /\ S \in Counters
      BY <1>2, <2>1, <3>1, ObjectTracks
    <3>3. \A c \in Names : Change(o, v)[c] = Minus(Footprint(o))[c]
      BY <1>7, <2>1, <3>1, FreedChange
    <3>. QED BY <3>2, <3>3 DEF Tracks
  <2>2. CASE ~ IsObject(o)
    <3>1. Change(o, v) \in Weights /\ \A c \in Names : Change(o, v)[c] = 0
      BY <1>7, <2>2, NothingCounts, ChangeTyped DEF Change
    <3>. QED BY <1>2, <2>2, <3>1, TracksEqual
  <2>. QED BY <2>1, <2>2
<1>9. SettledStep
  <2>. HIDE DEF S
  <2>. QED BY <1>1, <1>3, <1>7, <1>8 DEF SettledStep, SettledBy
<1>. QED BY <1>6, <1>9 DEF Server!Next

\* An object that is to be freed bit by bit is settled at once.
LEMMA UnlinkRefines ==
  ASSUME MInv, NEW k \in Key, Unlink(k)
  PROVE  Server!Next /\ SettledStep
<1> DEFINE o == keys[k]
           S == DropObject(Settled, o)
           D == DebtOf(freeing)
<1>1. /\ IsObject(o) /\ keys' = [keys EXCEPT ![k] = Absent] /\ metrics' = metrics
      /\ acked' = [acked EXCEPT ![k] = {}] /\ promised' = [promised EXCEPT ![k] = 0]
      /\ last' = NoCommand /\ config' = config /\ freeing' = freeing \o ObjectDrops(o)
  BY DEF Unlink
<1>2. /\ Settled \in Counters /\ metrics \in Counters /\ D \in Counters /\ IInv
      /\ Settled = Lose(metrics, D) /\ Settled' = Lose(metrics', DebtOf(freeing'))
      /\ freeing \in Seq(Weights)
  BY SettledTyped DEF MInv, DebtTyped
<1>3. o \in Object /\ WellFormed(o) /\ keys[k] # Absent
  BY <1>1, <1>2, KeyFacts DEF IsObject
<1> DEFINE D2 == DebtOf(freeing \o ObjectDrops(o))
           w == Footprint(o)
<1>4. Tracks(D, w, D2) /\ D2 \in Counters
  <2>1. Tracks(D, w, D2) /\ ObjectDrops(o) \in Seq(Weights)
    BY <1>2, <1>3, ObjectOwed
  <2>2. freeing \o ObjectDrops(o) \in Seq(Weights) /\ NoMetrics \in Weights
    BY <1>2, <2>1, CountersDomain
  <2>. QED BY <2>1, <2>2, DebtAppend
<1>5. Tracks(Settled, Minus(w), S) /\ S \in Counters
  BY <1>2, <1>3, ObjectTracks
<1>6. w \in Weights /\ Minus(w) \in Weights
  BY <1>3, FootprintTyped DEF Minus, Weights
<1>7. NoMetrics \in Weights /\ (\A c \in Names : NoMetrics[c] = Minus(w)[c] + w[c])
      /\ Tracks(metrics, NoMetrics, metrics)
  <2>1. NoMetrics \in Weights /\ \A c \in Names : NoMetrics[c] = 0
    BY CountersDomain DEF NoMetrics, Names
  <2>. HIDE DEF w
  <2>2. \A c \in Names : Minus(w)[c] + w[c] = 0
    BY <1>6 DEF Minus, Weights
  <2>. QED BY <1>2, <2>1, <2>2, TracksEqual
<1>8. Settled' = S
  <2>. HIDE DEF S, D, D2, w
  <2>1. Tracks(Lose(metrics, D), Minus(w), S)
    BY <1>2, <1>5
  <2>2. Lose(metrics, D2) = S
    BY <1>2, <1>4, <1>5, <1>6, <1>7, <2>1, SettledFollows, SMTT(30)
  <2>. QED BY <1>1, <1>2, <2>2 DEF D2
<1>9. Server!Freed(k) = S
  BY <1>1, SameParts, SameDropObject DEF Server!Freed
<1>10. Server!NoCommand = NoCommand
  BY SameParts
<1>11. Server!Overwrite(k, Absent)
  BY <1>1, <1>3, <1>8, <1>9, <1>10, Zenon DEF Server!Overwrite
<1>12. SettledStep
  <2>1. \A c \in Names : Change(o, Absent)[c] = Minus(w)[c]
    BY <1>1, <1>3, NothingCounts, FreedChange
  <2>. HIDE DEF S, w
  <2>2. Tracks(Settled, Change(o, Absent), Settled') /\ Settled' \in Counters
    BY <1>5, <1>8, <2>1 DEF Tracks
  <2>. QED BY <1>1, <2>2 DEF SettledStep, SettledBy
<1>. QED BY <1>11, <1>12 DEF Server!Next

\* A fetch_sub of the lazy-free thread settles nothing.
LEMMA FreeRefines ==
  ASSUME MInv, FreeStep
  PROVE  UNCHANGED Server!vars /\ SettledStep
<1> DEFINE h == Head(freeing)
           D == DebtOf(freeing)
           D2 == DebtOf(Tail(freeing))
<1>1. /\ freeing # <<>> /\ metrics' = Lose(metrics, h) /\ freeing' = Tail(freeing)
      /\ UNCHANGED <<keys, config, last, acked, promised>>
  BY DEF FreeStep
<1>2. /\ Settled \in Counters /\ metrics \in Counters /\ D \in Counters
      /\ Settled = Lose(metrics, D) /\ Settled' = Lose(metrics', DebtOf(freeing'))
      /\ freeing \in Seq(Weights) /\ NoMetrics \in Weights
  BY SettledTyped, CountersDomain DEF MInv, DebtTyped
<1>3. h \in Weights /\ Tracks(D2, h, D) /\ D2 \in Counters
  BY <1>1, <1>2, DebtHead, DebtAppend
<1>4. Tracks(D, Minus(h), D2) /\ Minus(h) \in Weights
  <2>. HIDE DEF h, D, D2
  <2>. QED BY <1>2, <1>3, TracksBack
<1>5. Tracks(metrics, Minus(h), metrics') /\ metrics' \in Counters
  BY <1>1, <1>2, <1>3, GainTracks, GainAndLose
<1>6. Tracks(Settled, NoMetrics, Settled) /\ \A c \in Names : Minus(h)[c] = NoMetrics[c] + Minus(h)[c]
  <2>1. \A c \in Names : NoMetrics[c] = 0
    BY DEF NoMetrics, Names
  <2>. HIDE DEF h
  <2>. QED BY <1>2, <1>4, <2>1, TracksEqual DEF Weights
<1>7. Settled' = Settled
  <2>. HIDE DEF h, D, D2
  <2>1. Tracks(Lose(metrics, D), NoMetrics, Settled)
    BY <1>2, <1>6
  <2>2. Lose(metrics', D2) = Settled
    BY <1>2, <1>3, <1>4, <1>5, <1>6, <2>1, SettledFollows, SMTT(30)
  <2>. QED BY <1>1, <1>2, <2>2 DEF D2
<1>. QED BY <1>1, <1>7 DEF Server!vars, SettledStep

\* A call of bloom_defrag is the step Defrag of BloomServer if it gives up slack.
LEMMA DefragmentedRefines ==
  ASSUME MInv, NEW k \in Key, IsObject(keys[k]), NEW r, Defragmented(k, r), config.defrag,
         r.obj = keys[k] \/ r.obj = Decoded(keys[k])
  PROVE  (Server!Next \/ UNCHANGED Server!vars) /\ SettledStep
<1> DEFINE o == keys[k]
           n == Len(o.filters)
           v == r.obj
           W(p) == [NoMetrics EXCEPT !.bytes = (o.vcap - p) * BoxBytes]
<1>1. /\ keys' = [keys EXCEPT ![k] = v] /\ metrics' = Lose(metrics, W(v.vcap))
      /\ last' = IF keys' = keys THEN last ELSE NoCommand
      /\ UNCHANGED <<config, acked, promised, freeing>>
  BY DEF Defragmented
<1>2. /\ Settled \in Counters /\ metrics \in Counters /\ IInv
      /\ keys \in [Key -> Object \union {Absent, Foreign}]
  BY SettledTyped DEF MInv, IInv, TypeOK
<1>3. o \in Object /\ WellFormed(o)
  BY <1>2, KeyFacts
<1>4. o.vcap \in Nat /\ n \in Nat \ {0} /\ n <= o.vcap /\ BoxBytes \in Int
  BY <1>3, LastFilter, SizeAssumption DEF Object, WellFormed
<1>5. ASSUME NEW p \in Int PROVE W(p) \in Weights /\ Minus(W(p)) \in Weights
  <2>1. (o.vcap - p) * BoxBytes \in Int
    BY <1>4
  <2>. HIDE DEF o
  <2>2. W(p) \in Weights
    BY <2>1, CountersDomain DEF Weights, Names
  <2>. HIDE DEF W
  <2>. QED BY <2>2 DEF Minus, Weights
<1>6. CASE v = o
  <2>1. keys' = keys
    BY <1>1, <1>2, <1>6
  <2>2. W(v.vcap) \in Weights /\ \A c \in Names : Minus(W(v.vcap))[c] = 0
    <3>1. (o.vcap - v.vcap) * BoxBytes = 0
      BY <1>4, <1>6
    <3>. HIDE DEF o, v
    <3>2. \A c \in Names : W(v.vcap)[c] = 0
      BY <3>1 DEF NoMetrics, Names
    <3>3. v.vcap \in Int
      BY <1>4, <1>6 DEF o
    <3>4. W(v.vcap) \in Weights
      BY <1>5, <3>3
    <3>. HIDE DEF W
    <3>. QED BY <3>2, <3>4 DEF Minus, Weights
  <2>3. Tracks(metrics, Minus(W(v.vcap)), metrics') /\ metrics' \in Counters
    <3>. HIDE DEF W
    <3>. QED BY <1>1, <1>2, <2>2, GainTracks, GainAndLose
  <2>4. Minus(W(v.vcap)) \in Weights
    BY <1>4, <1>5, <1>6
  <2>. HIDE DEF W
  <2>5. metrics' = metrics
    BY <1>2, <2>2, <2>3, <2>4, TracksEqual
  <2>6. Settled' = Settled
    BY <1>1, <2>5, SettledTyped
  <2>. QED BY <1>1, <2>1, <2>6 DEF Server!vars, SettledStep
<1>7. CASE v # o
  <2>1. v = [o EXCEPT !.vcap = n] /\ o.vcap # n
    <3>1. v = [o EXCEPT !.vcap = n]
      BY <1>7 DEF Decoded
    <3>2. o.vcap = n => [o EXCEPT !.vcap = n] = o
      BY <1>3 DEF Object
    <3>. QED BY <1>7, <3>1, <3>2
  <2>2. v.vcap = n /\ o.vcap > n
    BY <1>3, <1>4, <2>1 DEF Object
  <2>3. keys' # keys
    BY <1>1, <1>2, <1>7
  <2>4. keys' = [keys EXCEPT ![k].vcap = n]
    BY <1>1, <1>2, <2>1
  <2> DEFINE w == W(n)
             S == Lose(Settled, w)
  <2>5. w \in Weights /\ Minus(w) \in Weights
    <3>1. n \in Int
      BY <1>4
    <3>. HIDE DEF W, n
    <3>. QED BY <1>5, <3>1 DEF w
  <2>. HIDE DEF w
  <2>6. /\ Tracks(metrics, Minus(w), metrics') /\ metrics' \in Counters
        /\ Tracks(Settled, Minus(w), S) /\ S \in Counters
    BY <1>1, <1>2, <2>2, <2>5, GainTracks, GainAndLose DEF w
  <2>7. Settled' = S
    <3>. HIDE DEF S
    <3>. QED BY <1>1, <2>5, <2>6, SettledMoves
  <2>8. Server!Lose(Settled, w) = S
    BY SameLose
  <2>9. /\ Server!NoMetrics = NoMetrics /\ Server!NoCommand = NoCommand
        /\ Server!IsObject(keys[k]) = IsObject(keys[k])
    BY SameParts
  <2>10. Server!Defrag(k)
    BY <1>1, <2>2, <2>3, <2>4, <2>7, <2>8, <2>9 DEF Server!Defrag, w
  <2>11. SettledStep
    <3>1. v = Decoded(o) /\ v \in Object /\ \A c \in Names : Change(o, v)[c] = Minus(w)[c]
      BY <1>3, <1>7, SlackGivenUp DEF w
    <3>. HIDE DEF S, v
    <3>2. Tracks(Settled, Change(o, v), Settled') /\ Settled' \in Counters
      BY <2>6, <2>7, <3>1 DEF Tracks
    <3>. QED BY <1>1, <3>1, <3>2 DEF SettledStep, SettledBy
  <2>. QED BY <2>10, <2>11 DEF Server!Next
<1>. QED BY <1>6, <1>7

\* Every step is one of BloomServer or none.
LEMMA StepRefines ==
  ASSUME MInv, [MNext]_mvars
  PROVE  (Server!Next \/ UNCHANGED Server!vars) /\ SettledStep
<1>1. ASSUME UNCHANGED <<vars, freeing>> PROVE UNCHANGED Server!vars /\ SettledStep
  <2>1. Settled' = Settled
    BY <1>1, SettledTyped DEF vars
  <2>. QED BY <1>1, <2>1 DEF vars, Server!vars, SettledStep
<1>2. CASE Foreground /\ PassGoesOn /\ UNCHANGED <<late, spare, freeing>>
  BY <1>2, ForegroundRefines
<1>3. ASSUME NEW k \in Key, NEW v \in {Absent, Foreign},
             Overwrite(k, v) /\ PassLoses(k) /\ UNCHANGED <<late, spare, freeing>>
      PROVE  Server!Next /\ SettledStep
  BY <1>3, OverwriteRefines
<1>4. ASSUME NEW k \in Key, Unlink(k) PROVE Server!Next /\ SettledStep
  BY <1>4, UnlinkRefines
<1>5. ASSUME NEW k \in Key, DefragNow(k)
      PROVE  (Server!Next \/ UNCHANGED Server!vars) /\ SettledStep
  <2>1. PICK r : /\ Defragmented(k, r) /\ (r.obj = keys[k] \/ r.obj = Decoded(keys[k]))
                 /\ r.work.spare = Placeholder
    BY <1>5, DefragNowFacts
  <2>. QED BY <1>5, <2>1, DefragmentedRefines DEF DefragNow
<1>6. ASSUME NEW k \in Key, DefragSchedule(k) PROVE UNCHANGED Server!vars /\ SettledStep
  BY <1>1, <1>6 DEF DefragSchedule
<1>7. CASE DefragStep
  <2>1. PICK k, o, cursor, turns, r : CallOfPass(k, o, cursor, turns, r)
    BY <1>7, DefragStepFacts
  <2>2. /\ k \in Key /\ IsObject(keys[k]) /\ Defragmented(k, r)
        /\ r.obj = keys[k] \/ r.obj = Decoded(keys[k])
    BY <2>1 DEF CallOfPass
  <2>. QED BY <1>7, <2>2, DefragmentedRefines DEF DefragStep
<1>8. CASE DefragGivenUp
  BY <1>1, <1>8 DEF DefragGivenUp
<1>9. CASE FreeStep
  BY <1>9, FreeRefines
<1>10. CASE UNCHANGED mvars
  BY <1>1, <1>10 DEF mvars, background
<1>. QED BY <1>2, <1>3, <1>4, <1>5, <1>6, <1>7, <1>8, <1>9, <1>10 DEF MNext

\* The initial state is one of BloomServer.
LEMMA InitRefines ==
  ASSUME MInit
  PROVE  Server!Init
<1>1. /\ Init /\ freeing = <<>> /\ metrics = NoMetrics
  BY DEF MInit, Init
<1>2. NoMetrics \in Counters /\ NoMetrics \in Weights
  BY NoMetricsTyped, CountersDomain
<1>3. DebtOf(freeing) = NoMetrics
  <2>1. <<>> \in Seq(Weights)
    OBVIOUS
  <2>. QED BY <1>1, <1>2, <2>1, DebtAppend
<1>4. Settled = NoMetrics
  <2>1. Minus(NoMetrics) \in Weights /\ \A c \in Names : Minus(NoMetrics)[c] = 0
    <3>1. \A c \in Names : NoMetrics[c] = 0
      BY DEF NoMetrics, Names
    <3>. QED BY <3>1 DEF Minus, Weights
  <2>2. /\ Tracks(NoMetrics, Minus(NoMetrics), Lose(NoMetrics, NoMetrics))
        /\ Lose(NoMetrics, NoMetrics) \in Counters
    BY <1>2, GainTracks, GainAndLose
  <2>3. Lose(NoMetrics, NoMetrics) = NoMetrics
    BY <1>2, <2>1, <2>2, TracksEqual
  <2>. QED BY <1>1, <1>3, <2>3 DEF Settled, Owed
<1>5. Server!NoMetrics = NoMetrics /\ Server!NoCommand = NoCommand
  BY SameParts
<1>. QED BY <1>1, <1>4, <1>5 DEF Init, Server!Init

\* What is settled is what the live objects count for.
Alive == Total([k \in Key |-> Figures(keys[k])])
SettledMatch == Settled = Alive

LEMMA SettledMatchStep ==
  ASSUME MInv, SettledMatch, [MNext]_mvars
  PROVE  SettledMatch'
<1>1. CASE keys' = keys /\ Settled' = Settled
  BY <1>1 DEF SettledMatch, Alive
<1>2. ASSUME NEW k \in Key, NEW v \in Object \union {Absent, Foreign}, SettledBy(k, v)
      PROVE  SettledMatch'
  <2> DEFINE m == Settled
             l == Settled'
  <2>1. /\ m \in Counters /\ m = Total([j \in Key |-> Figures(keys[j])])
        /\ l \in Counters /\ Tracks(m, Change(keys[k], v), l)
        /\ keys' = [keys EXCEPT ![k] = v] /\ IInv
    BY <1>2, SettledTyped DEF SettledBy, SettledMatch, Alive, MInv
  <2>. HIDE DEF m, l
  <2>2. l = Total([j \in Key |-> Figures(keys'[j])])
    BY <2>1, OneKeyTotals
  <2>. QED BY <2>2 DEF SettledMatch, Alive, l
<1>. QED BY <1>1, <1>2, StepRefines DEF SettledStep

LEMMA SettledMatchInit ==
  ASSUME MInit
  PROVE  SettledMatch
<1>1. Server!Init /\ Init
  BY InitRefines DEF MInit
<1>2. Settled = NoMetrics /\ metrics = NoMetrics
  BY <1>1, SameParts DEF Server!Init, Init
<1>3. MetricsMatch
  BY <1>1, InitialBooks
<1>. QED BY <1>2, <1>3 DEF MetricsMatch, SettledMatch, Alive

\* The counters have room for what is alive and what is still to be freed.
WideEnough == \A c \in Names : Alive[c] + Owed[c] < Word

LEMMA GaugesExact ==
  ASSUME MInv, SettledMatch, WideEnough
  PROVE  \A c \in Names : /\ metrics[c] = Alive[c] + Owed[c]
                          /\ Alive[c] \in Nat /\ Owed[c] \in Nat
<1>1. /\ metrics \in Counters /\ Owed \in Counters /\ Alive \in Counters
      /\ Alive = Lose(metrics, Owed)
  BY SettledTyped DEF SettledMatch, Owed
<1>2. Owed \in Weights
  BY <1>1, SizeAssumption, CountersDomain DEF Weights
<1>3. Tracks(metrics, Minus(Owed), Alive) /\ Minus(Owed) \in Weights
  BY <1>1, <1>2, GainTracks
<1>4. Tracks(Alive, Minus(Minus(Owed)), metrics)
  BY <1>1, <1>3, TracksBack
<1>5. ASSUME NEW c \in Names
      PROVE  /\ metrics[c] = Alive[c] + Owed[c]
             /\ Alive[c] \in Nat /\ Owed[c] \in Nat
  <2> DEFINE m == metrics[c]
             a == Alive[c]
             d == Owed[c]
  <2>1. /\ m \in 0..(Word - 1) /\ a \in 0..(Word - 1) /\ d \in 0..(Word - 1) /\ Word \in Nat
        /\ a + d < Word
    BY <1>1, CountersAreIntegers, SizeAssumption DEF WideEnough
  <2>2. Minus(Minus(Owed))[c] = - (- d)
    BY DEF Minus
  <2>3. Congruent(m, a + - (- d))
    BY <1>4, <2>2 DEF Tracks
  <2>. HIDE DEF m, a, d
  <2>4. a + - (- d) = a + d /\ a + d \in 0..(Word - 1) /\ a + d \in Int
    BY <2>1
  <2>5. Congruent(m, a + d) /\ Congruent(a + d, a + d)
    BY <2>3, <2>4, Congruence
  <2>6. m = a + d
    BY <2>1, <2>4, <2>5, Congruence
  <2>7. a \in Nat /\ d \in Nat
    BY <2>1
  <2>. QED BY <2>6, <2>7 DEF m, a, d
<1>. QED BY <1>5

(******************************** theorems *********************************)

\* The invariant holds behind the commands, too.
THEOREM MaintenanceInvariance == MSpec => []MInv
<1>1. MInit => MInv
  BY MaintenanceInit
<1>2. MInv /\ [MNext]_mvars => MInv'
  BY MaintenanceStep
<1>. QED BY <1>1, <1>2, PTL DEF MSpec

\* The placeholder is always back when a call of bloom_defrag returns, and no filter
\* that counts items was left with it in place of its own Bloom.
THEOREM SpareStaysInPlace == MSpec => []SpareInPlace
<1>1. MInv => SpareInPlace
  BY DEF MInv, Background, AllUsed, Used, SpareInPlace, BloomOf, Placeholder
<1>. QED BY <1>1, MaintenanceInvariance, PTL

\* A pass that ends with the object it began with has taken up each of its filters
\* once, in order, and offered every allocation, however the calls were interleaved
\* with commands that let the object grow.
THEOREM PassesCover == MSpec => PassCoversObject
<1>1. MInv /\ [MNext]_mvars =>
        [late # Idle /\ late' = Idle /\ pass.whole /\ config.defrag /\ pass'.caps # <<>> =>
           LET filters == keys'[late.key].filters
           IN  /\ pass'.caps = [i \in DOMAIN filters |-> filters[i].cap]
               /\ pass'.offered
                    = Cardinality(FilterAllocations) * Len(filters)
                        + Cardinality(ObjectAllocations)]_mvars
  BY MaintenanceStep DEF CoveredStep
<1>. QED BY <1>1, MaintenanceInvariance, PTL DEF MSpec, PassCoversObject

\* Behind the commands nothing happens that BloomServer does not know of: with what
\* is still to be freed taken as freed, each step is one of BloomServer or none, so
\* whatever holds of BloomServer's behaviours holds here of the settled counters.
THEOREM MaintenanceRefines == MSpec => ServerSpec
<1>1. MInit => Server!Init
  BY InitRefines
<1>2. MInv /\ [MNext]_mvars => [UNCHANGED Server!vars \/ Server!Next]_(Server!vars)
  BY StepRefines
<1>. QED BY <1>1, <1>2, MaintenanceInvariance, PTL DEF MSpec, ServerSpec

\* INFO bf behind the commands: less what the lazy-free thread has yet to subtract,
\* the counters are at all times the sums over the live objects.
THEOREM SettledCountersMatch == MSpec => []SettledMatch
<1>1. MInit => SettledMatch
  BY SettledMatchInit
<1>2. MInv /\ SettledMatch /\ [MNext]_mvars => SettledMatch'
  BY SettledMatchStep
<1>. QED BY <1>1, <1>2, MaintenanceInvariance, PTL DEF MSpec

\* Whenever the 64 bits of the counters have room for what is alive and what is still
\* to be freed, no gauge misses anything alive, wraps below zero or shows more than
\* both, however the subtractions fall between the commands.
THEOREM GaugesAreBounded == MSpec => [](WideEnough => GaugesBounded)
<1>1. ASSUME MInv, SettledMatch, WideEnough PROVE GaugesBounded
  <2>1. DOMAIN metrics = Names
    BY <1>1, SettledTyped, CountersDomain
  <2>2. ASSUME NEW c \in Names
        PROVE  metrics[c] \in Alive[c]..(Alive[c] + Owed[c])
    BY <1>1, GaugesExact
  <2>. QED BY <2>1, <2>2, Zenon DEF GaugesBounded, Alive
<1>2. MInv /\ SettledMatch => (WideEnough => GaugesBounded)
  BY <1>1
<1>. QED BY <1>2, MaintenanceInvariance, SettledCountersMatch, PTL

===============================================================================
