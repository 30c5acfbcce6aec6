----------------------------- MODULE BloomObject -----------------------------
(***************************************************************************)
(* The values of src/bloom/utils.rs and the operations on them: a          *)
(* BloomFilter, a BloomObject (a vector of filters that scales out), and   *)
(* the module-wide counters of src/metrics.rs that every constructor and   *)
(* every Drop adjusts.  All operators are pure; the state machines that    *)
(* use them are in BloomServer.                                            *)
(*                                                                         *)
(* Abstractions.  A rate 2^-e is written e, so the product with the N-th   *)
(* power of the tightening ratio 2^-t is e + N*t, and "not greater than    *)
(* f64::MIN_POSITIVE" is "at least FpFloor".  A bit vector is the set of   *)
(* its set bits; an item sets each of its hashes modulo the vector's       *)
(* length, whatever the number of hash rounds.                             *)
(***************************************************************************)
EXTENDS Integers, SequencesExt

CONSTANTS
  Item,                 \* what BF.ADD and its siblings take
  Seeds, FixedSeed,     \* hash seeds, and configs::FIXED_SEED among them
  Hash,                 \* the sip hashes of an item under a seed
  ObjectBytes, BoxBytes, FilterBytes,   \* size_of the Rust structures
  FpFloor,              \* exponent of the smallest rate the code accepts
  MaxFilters,           \* BLOOM_NUM_FILTERS_PER_OBJECT_LIMIT_MAX
  CapacityMax,          \* i64::MAX
  Word                  \* 2^64: the counters wrap

ASSUME SeedAssumption == FixedSeed \in Seeds
ASSUME HashAssumption == Hash \in [Seeds \X Item -> SUBSET Nat]
ASSUME SizeAssumption ==
  {ObjectBytes, BoxBytes, FilterBytes, FpFloor, MaxFilters, CapacityMax, Word}
    \subseteq Nat \ {0}

Ok == "OK"

(***************************** the values **********************************)

Filter ==
  [seed : Seeds, fp : Nat \ {0}, cap : 1..CapacityMax, num : Nat, bits : SUBSET Nat]

\* The Vec's allocated capacity is part of the value: memory_usage counts it.
Object ==
  [expansion : Nat, fp : Nat \ {0}, tr : Nat \ {0}, seedRandom : BOOLEAN,
   vcap : Nat \ {0}, filters : Seq(Filter)]

\* The shape bloom_rdb_save and the BF.INSERT of a creation rely on: there is a
\* filter; all but the last are full (only the last one's num_items is saved)
\* and it holds no more than its capacity; every filter has the first one's
\* seed and the capacity and rate its position implies; a non scaling object
\* has a single filter; the Vec's allocation covers its length.
WellFormed(o) ==
  LET n == Len(o.filters)
  IN  /\ n > 0 /\ n <= o.vcap
      /\ \A i \in 1..n :
           /\ o.filters[i].seed = o.filters[1].seed
           /\ o.filters[i].fp = o.fp + (i - 1) * o.tr
           /\ o.filters[i].num <= o.filters[i].cap
           /\ i < n => /\ o.filters[i].num = o.filters[i].cap
                       /\ o.filters[i + 1].cap = o.filters[i].cap * o.expansion
      /\ o.expansion = 0 => n = 1
      /\ o.seedRandom <=> o.filters[1].seed # FixedSeed

\* What o may become while it lives: nothing is taken away from it.
Grown(o, p) ==
  /\ p.expansion = o.expansion /\ p.fp = o.fp /\ p.tr = o.tr
  /\ p.seedRandom = o.seedRandom
  /\ \A i \in DOMAIN o.filters :
       /\ i \in DOMAIN p.filters
       /\ p.filters[i].seed = o.filters[i].seed
       /\ p.filters[i].fp = o.filters[i].fp
       /\ p.filters[i].cap = o.filters[i].cap
       /\ o.filters[i].num <= p.filters[i].num
       /\ o.filters[i].bits \subseteq p.filters[i].bits

(*************************** one filter ************************************)

NewFilter(fp, cap, seed) ==
  [seed |-> seed, fp |-> fp, cap |-> cap, num |-> 0, bits |-> {}]

\* compute_bitmap_size of the bloomfilter crate: n*e / (8 ln 2) bytes, rounded
\* up, with 1 / (8 ln 2) to two digits.
BitmapBytes(cap, fp) == (18 * cap * fp + 99) \div 100

BitsOf(f, x) ==
  {h % (8 * BitmapBytes(f.cap, f.fp)) : h \in Hash[f.seed, x]}

Check(f, x) == BitsOf(f, x) \subseteq f.bits

\* Variant of Set that overwrites the bit vector.
SetOverwrites(f, x) == [f EXCEPT !.bits = BitsOf(f, x), !.num = @ + 1]

Set(f, x) == [f EXCEPT !.bits = @ \union BitsOf(f, x), !.num = @ + 1]

\* compute_size, whose sums of usize are taken not to wrap.
FilterSize(cap, fp) == FilterBytes + BitmapBytes(cap, fp)

(*************************** one object ************************************)

ObjectSize(vcap) == ObjectBytes + vcap * BoxBytes

SumOf(s) == FoldLeft(LAMBDA sum, n : sum + n, 0, s)

FiltersSize(o) ==
  SumOf([i \in DOMAIN o.filters |-> FilterSize(o.filters[i].cap, o.filters[i].fp)])

\* Variant of MemoryUsage that is bloom_object_memory_usage.
MemoryUsageOfStruct(o) == ObjectSize(o.vcap)

MemoryUsage(o) == ObjectSize(o.vcap) + FiltersSize(o)

NumItems(o) == SumOf([i \in DOMAIN o.filters |-> o.filters[i].num])

Capacity(o) == SumOf([i \in DOMAIN o.filters |-> o.filters[i].cap])

ItemExists(o, x) == \E i \in DOMAIN o.filters : Check(o.filters[i], x)

SeedOf(o) == o.filters[1].seed

FpRate(fp, n, tr) == fp + n * tr

FpReachesZero(fp) == fp >= FpFloor

\* RawVec::grow_amortized for a push onto a full Vec of pointers.
PushedVec(o) ==
  IF Len(o.filters) < o.vcap THEN o.vcap ELSE Max({2 * o.vcap, 4})

(*************************** the counters **********************************)

NoMetrics ==
  [objects |-> 0, filters |-> 0, items |-> 0, capacity |-> 0, bytes |-> 0]

Counters == [DOMAIN NoMetrics -> 0..(Word - 1)]

\* What an object is to contribute to the counters while it lives, in terms of
\* what BF.INFO reports of it.
Footprint(o) ==
  [objects |-> 1, filters |-> Len(o.filters), items |-> NumItems(o),
   capacity |-> Capacity(o), bytes |-> MemoryUsage(o)]

FilterWeight(f) ==
  [objects |-> 0, filters |-> 1, items |-> f.num, capacity |-> f.cap,
   bytes |-> FilterSize(f.cap, f.fp)]

ObjectWeight(o) ==
  [objects |-> 1, filters |-> 0, items |-> 0, capacity |-> 0,
   bytes |-> ObjectSize(o.vcap)]

Gain(m, w) == [c \in DOMAIN m |-> (m[c] + w[c]) % Word]      \* fetch_add
Lose(m, w) == [c \in DOMAIN m |-> (m[c] - w[c]) % Word]      \* fetch_sub

GainFilters(m, o) ==
  LET sum[i \in 0..Len(o.filters)] ==
        IF i = 0 THEN m ELSE Gain(sum[i - 1], FilterWeight(o.filters[i]))
  IN  sum[Len(o.filters)]

LoseFilters(m, o) ==
  LET sum[i \in 0..Len(o.filters)] ==
        IF i = 0 THEN m ELSE Lose(sum[i - 1], FilterWeight(o.filters[i]))
  IN  sum[Len(o.filters)]

\* Variant of DropObject without the Drop of its filters.
DropObjectOnly(m, o) == Lose(m, ObjectWeight(o))

\* Drop for BloomObject, then for each BloomFilter it owns.
DropObject(m, o) == LoseFilters(Lose(m, ObjectWeight(o)), o)

(*************************** construction **********************************)

\* new_reserved: p holds the requested properties, limit is the node's
\* bloom-memory-usage-limit, checked only when validate holds.
CreateError(p, validate, limit) ==
  IF validate /\ ObjectSize(1) + FilterSize(p.cap, p.fp) > limit
  THEN "ExceedsMaxBloomSize" ELSE Ok

NewReserved(p) ==
  [expansion |-> p.expansion, fp |-> p.fp, tr |-> p.tr,
   seedRandom |-> p.seedRandom, vcap |-> 1,
   filters |-> <<NewFilter(p.fp, p.cap, p.seed)>>]

NewReservedMetrics(m, o) == Gain(GainFilters(m, o), ObjectWeight(o))

\* create_copy_from keeps the capacity of the source's Vec.
CopyMetrics(m, o) == Gain(GainFilters(m, o), ObjectWeight(o))

\* decode_object on what encode_object wrote: the Vec is allocated exactly.
Decoded(o) == [o EXCEPT !.vcap = Len(o.filters)]

=============================================================================
