-------------------------- MODULE BloomMaintenance --------------------------
(***************************************************************************)
(* A server of BloomServer with the work that goes on behind its commands: *)
(* active defragmentation, which may take a large object in several calls  *)
(* of bloom_defrag between which clients go on, and the freeing of large   *)
(* objects, whose Drop runs on the server's lazy-free thread, one atomic   *)
(* fetch_sub after the other.  A call of bloom_defrag is one step: it runs *)
(* on the thread that executes the commands.                               *)
(***************************************************************************)
EXTENDS BloomServer

CONSTANTS
  MaxScanFields,       \* the values active-defrag-max-scan-fields may have: an
                       \* object with more filters is defragmented later, in steps
  LazyfreeThreshold,   \* LAZYFREE_THRESHOLD: above it, free in the background
  MaxFreeing           \* bound: the fetch_subs the lazy-free thread is behind

ASSUME MaintenanceAssumption ==
  MaxScanFields \union {LazyfreeThreshold, MaxFreeing} \subseteq Nat

VARIABLES
  late,      \* the key whose object is defragmented in steps, and the cursor
  spare,     \* DEFRAG_BLOOM_FILTER: the Bloom that stands in for a filter's own
  freeing,   \* what the lazy-free thread has yet to subtract from the counters
  pass       \* history of the pass in steps that is under way or has just ended:
             \* the capacities of the filters it took up, how many allocations it
             \* offered, and whether the key has kept its object since

background == <<late, spare, freeing, pass>>
mvars == <<vars, background>>

(***************************** bloom_defrag ********************************)

\* The part of a BloomFilter that is in the crate's Bloom.
BloomOf(f) == [seed |-> f.seed, bits |-> f.bits]

Holding(f, bloom) == [f EXCEPT !.seed = bloom.seed, !.bits = bloom.bits]

\* Bloom::new(1, 1), with some seed.
Placeholder == [seed |-> FixedSeed, bits |-> {}]

\* What is handed to the allocator, for each filter and once an object.
FilterAllocations == {"BloomFilter", "Bloom", "bits"}
ObjectAllocations == {"Vec", "BloomObject"}

\* Each allocation offered is a hit when the allocator moves it, else a miss.
Offered(s, allocs, moved) ==
  [s EXCEPT !.hits = @ + Cardinality(allocs \intersect moved),
            !.misses = @ + Cardinality(allocs \ moved)]

\* Variants of DefragTurn that put the filter back at the end; that leave the
\* placeholder behind when the Bloom was not moved.
DefragTurnPushesBack(s, moved) ==
  LET i     == s.cursor + 1
      f     == s.filters[i]
      stand == Holding(f, s.spare)
  IN  [Offered(s, FilterAllocations, moved) EXCEPT
         !.filters = Append(RemoveAt(@, i), Holding(stand, BloomOf(f))),
         !.spare   = BloomOf(stand),
         !.caps    = Append(@, f.cap),
         !.cursor  = i]

DefragTurnForgetsSpare(s, moved) ==
  LET i     == s.cursor + 1
      f     == s.filters[i]
      stand == Holding(f, s.spare)
  IN  [Offered(s, FilterAllocations, moved) EXCEPT
         !.filters = InsertAt(RemoveAt(@, i), i, Holding(stand, BloomOf(f))),
         !.spare   = IF "Bloom" \in moved THEN BloomOf(stand) ELSE BloomOf(f),
         !.caps    = Append(@, f.cap),
         !.cursor  = i]

\* The filter under the cursor is taken out, its Bloom is swapped for the spare
\* one while it is moved, and both are put back.
DefragTurn(s, moved) ==
  LET i     == s.cursor + 1
      f     == s.filters[i]
      stand == Holding(f, s.spare)
  IN  [Offered(s, FilterAllocations, moved) EXCEPT
         !.filters = InsertAt(RemoveAt(@, i), i, Holding(stand, BloomOf(f))),
         !.spare   = BloomOf(stand),
         !.caps    = Append(@, f.cap),
         !.cursor  = i]

DefragTurns(s, turns, moved) ==
  LET turn[i \in 0..turns] == IF i = 0 THEN s ELSE DefragTurn(turn[i - 1], moved)
  IN  turn[turns]

\* How many filters there are from the cursor on: it may be past the end, when
\* the key got another object since it was saved.
FiltersFrom(o, cursor) == Max({0, Len(o.filters) - cursor})

\* Variant of Unfinished that is off by one.
UnfinishedAtEnd(s) == s.cursor <= Len(s.filters)

Unfinished(s) == s.cursor < Len(s.filters)

\* Variant of SavedCursor that has skipped a filter.
SavedCursorSkips(s) == s.cursor + 1

SavedCursor(s) == s.cursor

\* A call with the configuration's defrag on, should_stop_defrag answering no
\* for this many turns.  The Vec keeps its capacity through remove and insert
\* and is reallocated to its length at the end.
DefragCall(o, cursor, turns, moved) ==
  LET start == [filters |-> o.filters, cursor |-> cursor, spare |-> spare,
                caps |-> <<>>, hits |-> 0, misses |-> 0]
      s     == DefragTurns(start, turns, moved)
      obj   == [o EXCEPT !.filters = s.filters]
  IN  IF Unfinished(s) THEN [ret |-> 1, obj |-> obj, work |-> s]
      ELSE [ret |-> 0, obj |-> [obj EXCEPT !.vcap = Len(s.filters)],
            work |-> Offered(s, ObjectAllocations, moved)]

\* The object of k after a call that answered r.
Defragmented(k, r) ==
  /\ keys' = [keys EXCEPT ![k] = r.obj]
  /\ metrics' = Lose(metrics, [NoMetrics EXCEPT !.bytes = (keys[k].vcap - r.obj.vcap) * BoxBytes])
  /\ last' = IF keys' = keys THEN last ELSE NoCommand
  /\ spare' = r.work.spare
  /\ UNCHANGED <<config, acked, promised, freeing>>

(********************** the server's defragmentation ***********************)

Idle == [key |-> Unset, cursor |-> 0]
NoPass == [caps |-> <<>>, offered |-> 0, whole |-> FALSE]

\* The history of a step that is not a call of the pass in steps, and of one
\* that takes the object of k away.
PassGoesOn == pass' = IF late = Idle THEN NoPass ELSE pass

PassLoses(k) ==
  IF late.key = k THEN pass' = [pass EXCEPT !.whole = FALSE] ELSE PassGoesOn

FreeEffort(o) == Len(o.filters)

\* A small object: one call without a cursor and without a time limit.
DefragNow(k) ==
  /\ config.defrag
  /\ IsObject(keys[k]) /\ \E n \in MaxScanFields : FreeEffort(keys[k]) <= n
  /\ \E moved \in {{}, FilterAllocations \union ObjectAllocations} :
       Defragmented(k, DefragCall(keys[k], 0, Len(keys[k].filters), moved))
  /\ PassGoesOn
  /\ UNCHANGED late

DefragSchedule(k) ==
  /\ late = Idle
  /\ IsObject(keys[k]) /\ \E n \in MaxScanFields : FreeEffort(keys[k]) > n
  /\ late' = [key |-> k, cursor |-> 0]
  /\ pass' = [NoPass EXCEPT !.whole = TRUE]
  /\ UNCHANGED <<vars, spare, freeing>>

\* One call for the object of the key under way.  The server takes a cursor of
\* 0 for a pass that is over, and sets it to 0 when the callback answers 0.
DefragStep ==
  /\ late # Idle /\ config.defrag
  /\ IsObject(keys[late.key])
  /\ \E turns \in 0..FiltersFrom(keys[late.key], late.cursor),
        moved \in {{}, FilterAllocations \union ObjectAllocations} :
       LET r == DefragCall(keys[late.key], late.cursor, turns, moved)
       IN  /\ Defragmented(late.key, r)
           /\ late' = IF r.ret = 0 \/ SavedCursor(r.work) = 0 THEN Idle
                      ELSE [late EXCEPT !.cursor = SavedCursor(r.work)]
           /\ pass' = [pass EXCEPT !.caps = @ \o r.work.caps,
                                   !.offered = @ + r.work.hits + r.work.misses]

\* The same when the configuration's defrag is off or the object is gone.
DefragGivenUp ==
  /\ late # Idle
  /\ ~ config.defrag \/ ~ IsObject(keys[late.key])
  /\ late' = Idle
  /\ UNCHANGED <<vars, spare, freeing, pass>>

(************************** freeing in the background **********************)

One(counter, n) == [NoMetrics EXCEPT ![counter] = n]

\* Variant of FilterDrops that takes the capacity for the items.
FilterDropsCapacity(f) ==
  <<One("filters", 1), One("bytes", FilterSize(f.cap, f.fp)), One("items", f.cap),
    One("capacity", f.cap)>>

\* Drop for BloomFilter, then Drop for BloomObject and its filters: the
\* fetch_subs in their order.
FilterDrops(f) ==
  <<One("filters", 1), One("bytes", FilterSize(f.cap, f.fp)), One("items", f.num),
    One("capacity", f.cap)>>

ObjectDrops(o) ==
  <<One("bytes", ObjectSize(o.vcap)), One("objects", 1)>>
    \o FlattenSeq([i \in DOMAIN o.filters |-> FilterDrops(o.filters[i])])

\* UNLINK, or any removal of a large object under lazyfree-lazy-*.
Unlink(k) ==
  /\ IsObject(keys[k]) /\ FreeEffort(keys[k]) > LazyfreeThreshold
  /\ freeing' = freeing \o ObjectDrops(keys[k])
  /\ Len(freeing') <= MaxFreeing
  /\ keys' = [keys EXCEPT ![k] = Absent]
  /\ acked' = [acked EXCEPT ![k] = {}]
  /\ promised' = [promised EXCEPT ![k] = 0]
  /\ last' = NoCommand
  /\ PassLoses(k)
  /\ UNCHANGED <<config, metrics, late, spare>>

FreeStep ==
  /\ freeing # <<>>
  /\ metrics' = Lose(metrics, Head(freeing))
  /\ freeing' = Tail(freeing)
  /\ PassGoesOn
  /\ UNCHANGED <<keys, config, last, acked, promised, late, spare>>

(******************************** the system *******************************)

\* COPY and BF.LOAD are left out: an object of theirs is one like any other.
Foreground ==
  \/ \E c \in Commands : BfAdd(c) \/ BfInsert(c) \/ BfReserve(c)
  \/ \E change \in ConfigChanges : ConfigSet(change[1], change[2])

MInit ==
  /\ Init
  /\ late = Idle
  /\ spare = Placeholder
  /\ freeing = <<>>
  /\ pass = NoPass

MNext ==
  \/ Foreground /\ PassGoesOn /\ UNCHANGED <<late, spare, freeing>>
  \/ \E k \in Key, v \in {Absent, Foreign} :
       Overwrite(k, v) /\ PassLoses(k) /\ UNCHANGED <<late, spare, freeing>>
  \/ \E k \in Key : Unlink(k) \/ DefragNow(k) \/ DefragSchedule(k)
  \/ DefragStep \/ DefragGivenUp \/ FreeStep

\* A pass under way is given calls, and time in them for another filter.
DefragProgress ==
  (DefragStep \/ DefragGivenUp) /\ (late' = Idle \/ late'.cursor > late.cursor)

MSpec == MInit /\ [][MNext]_mvars /\ WF_mvars(DefragProgress) /\ WF_mvars(FreeStep)

(******************************* properties ********************************)

\* What a list of subtractions amounts to.
DebtOf(drops) ==
  LET sum[i \in 0..Len(drops)] ==
        IF i = 0 THEN NoMetrics ELSE Gain(sum[i - 1], drops[i])
  IN  sum[Len(drops)]

\* What is still to be subtracted from the counters, and the counters then.
Owed == DebtOf(freeing)

Settled == Lose(metrics, Owed)

Server == INSTANCE BloomServer WITH metrics <- Settled

\* Behind the commands nothing happens that BloomServer does not know of: a pass
\* of bloom_defrag, however many calls it takes and whatever clients do between
\* them, is its one step Defrag (src/wrapper/bloom_callback.rs:226), and an
\* object that is freed bit by bit is one that was freed at once.
ServerSpec == Server!Init /\ [][UNCHANGED Server!vars \/ Server!Next]_(Server!vars)

\* INFO reads the gauges one by one while objects are being freed
\* (src/metrics.rs:15): no reading misses anything that is alive, wraps below
\* zero, or counts more than the live objects and those still to be freed.
GaugesBounded ==
  LET alive == Total([k \in Key |-> Figures(keys[k])])
      owed  == Owed
  IN  \A counter \in DOMAIN metrics :
        metrics[counter] \in alive[counter]..(alive[counter] + owed[counter])

\* The shared placeholder is back after every call (bloom_callback.rs:253: the
\* next call panics without it) and no object walked off with it.
SpareInPlace ==
  /\ spare = Placeholder
  /\ \A k \in Objects : \A i \in DOMAIN keys[k].filters :
       keys[k].filters[i].num > 0 => BloomOf(keys[k].filters[i]) # Placeholder

\* bloom_callback.rs:190: a pass that ends with the object it began with has
\* taken up every filter once, in order, those that were added meanwhile too,
\* and offered every allocation to the allocator, unless it was switched off or
\* there was no time for its first filter.
PassCoversObject ==
  [][late # Idle /\ late' = Idle /\ pass.whole /\ config.defrag /\ pass'.caps # <<>> =>
       LET filters == keys'[late.key].filters
       IN  /\ pass'.caps = [i \in DOMAIN filters |-> filters[i].cap]
           /\ pass'.offered
                = Cardinality(FilterAllocations) * Len(filters)
                    + Cardinality(ObjectAllocations)]_mvars

\* A pass ends, whatever clients do to the object meanwhile.
PassEnds == late # Idle ~> late = Idle

=============================================================================
