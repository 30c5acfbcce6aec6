---------------------------- MODULE BloomCommands ----------------------------
(***************************************************************************)
(* The BF.* write handlers of src/bloom/command_handler.rs.  A handler is  *)
(* a pure operator: from the value the key holds, the command, the node's  *)
(* configuration, the counters and whether the client must be obeyed, to   *)
(* an outcome: the key's next value, the counters, the reply, the commands *)
(* propagated to the replication stream and the keyspace events published. *)
(*                                                                         *)
(* A command is a record with a field for every argument; Unset stands for *)
(* an argument that is not there.  Its expansion is 0 for NONSCALING.      *)
(* How a client's arguments become one is in BloomRequests.                *)
(***************************************************************************)
EXTENDS BloomScaling, FiniteSets

CONSTANTS
  Key,
  Unset,       \* an argument that was not given
  Absent,      \* the key is not there
  Foreign,     \* the key holds a value of another type
  DumpItem     \* the bytes of a BF.LOAD payload, read as an item

ASSUME KeyAssumption == IsFiniteSet(Key)
ASSUME DumpItemAssumption == DumpItem \in Item
ASSUME ValueAssumption ==
  /\ Unset \notin Nat \union Seeds
  /\ Absent # Foreign
  /\ {Absent, Foreign} \intersect Object = {}

\* A node's bloom-* configuration.
Config ==
  [limit : Nat, cap : 1..CapacityMax, expansion : Nat, fp : Nat \ {0},
   tr : Nat \ {0}, randomSeed : BOOLEAN, defrag : BOOLEAN]

Command(name, key, items) ==
  [name |-> name, key |-> key, items |-> items,
   fp |-> Unset, tr |-> Unset, cap |-> Unset, seed |-> Unset,
   expansion |-> Unset, scaleTo |-> Unset, nocreate |-> FALSE, dump |-> Unset]

\* What the argument parsers hand to the handlers.
CommandType ==
  [name : {"BF.ADD", "BF.MADD", "BF.RESERVE", "BF.INSERT"}, key : Key,
   items : Seq(Item), fp : {Unset} \union (Nat \ {0}),
   tr : {Unset} \union (Nat \ {0}), cap : {Unset} \union 1..CapacityMax,
   seed : {Unset} \union Seeds, expansion : {Unset} \union Nat,
   scaleTo : {Unset} \union 1..CapacityMax, nocreate : BOOLEAN, dump : {Unset}]

IsObject(v) == v \notin {Absent, Foreign}

\* What a key's value is to count for in BF.CARD and in INFO bf.
NumItemsAt(v) == IF IsObject(v) THEN NumItems(v) ELSE 0
Figures(v) == IF IsObject(v) THEN Footprint(v) ELSE NoMetrics

Given(arg, default) == IF arg = Unset THEN default ELSE arg

(***************************************************************************)
(* The properties of an object a command would create: its own arguments,  *)
(* the node's configuration for the others.  rnd is the seed the crate     *)
(* draws when a random one is wanted.                                      *)
(***************************************************************************)
Properties(c, cfg, rnd) ==
  [fp         |-> Given(c.fp, cfg.fp),
   tr         |-> Given(c.tr, cfg.tr),
   cap        |-> Given(c.cap, cfg.cap),
   expansion  |-> Given(c.expansion, cfg.expansion),
   seed       |-> Given(c.seed, IF cfg.randomSeed THEN rnd ELSE FixedSeed),
   seedRandom |-> IF c.seed = Unset THEN cfg.randomSeed ELSE c.seed # FixedSeed]

(******************************* outcomes **********************************)

Outcome(v, m, err, ints, repl, events) ==
  [val |-> v, metrics |-> m, reply |-> [err |-> err, ints |-> ints],
   repl |-> repl, events |-> events]

Rejected(v, m, err) == Outcome(v, m, err, <<>>, <<>>, {})

\* Variants of ReplicaInsert without the seed; without the items.
ReplicaInsertUnseeded(key, o, items) ==
  [Command("BF.INSERT", key, items) EXCEPT
     !.fp = o.fp, !.tr = o.tr, !.cap = Capacity(o), !.expansion = o.expansion]

ReplicaInsertEmpty(key, o, items) ==
  [Command("BF.INSERT", key, <<>>) EXCEPT
     !.fp = o.fp, !.tr = o.tr, !.cap = Capacity(o), !.seed = SeedOf(o),
     !.expansion = o.expansion]

\* What creation propagates: a BF.INSERT with every property spelled out.
ReplicaInsert(key, o, items) ==
  [Command("BF.INSERT", key, items) EXCEPT
     !.fp = o.fp, !.tr = o.tr, !.cap = Capacity(o), !.seed = SeedOf(o),
     !.expansion = o.expansion]

(**************************** handle_bloom_add *****************************)

\* First occurrences of items that the object, as it stands, does not hold.
NewItems(o, items) ==
  {i \in DOMAIN items : /\ \A j \in 1..(i - 1) : items[j] # items[i]
                        /\ ~ ItemExists(o, items[i])}

\* One turn of the multi-item loop on what the turns before it left.
AddTurn(s, x, new, validate, limit) ==
  LET err == AddError(s.obj, validate, limit)
  IN  IF s.err # Ok THEN s
      ELSE IF ~ new THEN [s EXCEPT !.ints = Append(@, 0)]
      ELSE IF err # Ok THEN [s EXCEPT !.err = err]
      ELSE [obj |-> AddItemUnchecked(s.obj, x), err |-> Ok,
            metrics |-> AddMetrics(s.metrics, s.obj, x),
            ints |-> Append(s.ints, 1)]

AddTurns(s, items, new, validate, limit) ==
  LET turn[i \in 0..Len(items)] ==
        IF i = 0 THEN s
        ELSE AddTurn(turn[i - 1], items[i], i \in new, validate, limit)
  IN  turn[Len(items)]

HandleAdd(o, m, items, multi, validate, limit) ==
  LET start == [obj |-> o, metrics |-> m, err |-> Ok, ints |-> <<>>]
      new   == NewItems(o, items)
      err   == ValidateAddItems(o, Cardinality(new), limit)
  IN  IF multi
      THEN IF err # Ok THEN [start EXCEPT !.err = err]
           ELSE AddTurns(start, items, new, validate, limit)
      ELSE AddTurn(start, items[1], ~ ItemExists(o, items[1]), validate, limit)

\* Variant of AddSucceeded that remembers the last item only.
LastAddSucceeded(h) == h.ints # <<>> /\ Last(h.ints) = 1

AddSucceeded(h) == \E i \in DOMAIN h.ints : h.ints[i] = 1

(********************* bloom_filter_add_value, _insert *********************)

\* The reply of an add is its error, if any, else one integer per item.
AddReply(h) == IF h.err = Ok THEN h.ints ELSE <<>>

\* Variant of AddToExisting that propagates what was asked for.
AddToExistingAlways(c, o, m, multi, validate, limit) ==
  LET h == HandleAdd(o, m, c.items, multi, validate, limit)
  IN  Outcome(h.obj, h.metrics, h.err, AddReply(h), <<c>>,
              IF AddSucceeded(h) THEN {"bloom.add"} ELSE {})

AddToExisting(c, o, m, multi, validate, limit) ==
  LET h == HandleAdd(o, m, c.items, multi, validate, limit)
  IN  Outcome(h.obj, h.metrics, h.err, AddReply(h),
              IF AddSucceeded(h) THEN <<c>> ELSE <<>>,
              IF AddSucceeded(h) THEN {"bloom.add"} ELSE {})

\* The object is stored and propagated whatever handle_bloom_add answered.
CreateAndAdd(c, p, m, multi, validate, limit) ==
  LET o == NewReserved(p)
      h == HandleAdd(o, NewReservedMetrics(m, o), c.items, multi, validate, limit)
      e == CreateError(p, validate, limit)
  IN  IF e # Ok THEN Rejected(Absent, m, e)
      ELSE Outcome(h.obj, h.metrics, h.err, AddReply(h),
                   <<ReplicaInsert(c.key, o, c.items)>>,
                   {"bloom.reserve"} \union
                     (IF AddSucceeded(h) THEN {"bloom.add"} ELSE {}))

BloomFilterAddValue(c, v, cfg, m, obey, rnd) ==
  LET multi == c.name = "BF.MADD"
  IN  IF v = Foreign THEN Rejected(v, m, "WrongType")
      ELSE IF IsObject(v)
      THEN AddToExisting(c, v, m, multi, ~ obey, cfg.limit)
      ELSE CreateAndAdd(c, Properties(c, cfg, rnd), m, multi, ~ obey, cfg.limit)

\* Variant of ScaleToError with the capacity and the target swapped.
ScaleToErrorSwapped(c, p, validate, limit) ==
  IF c.scaleTo = Unset THEN Ok
  ELSE IF p.expansion = 0 THEN "NonScalingAndValidateScaleTo"
  ELSE IF validate THEN Project(c.scaleTo, p.fp, p.cap, p.tr, p.expansion, limit).err
  ELSE Ok

\* The VALIDATESCALETO check looks at the arguments, before the key.
ScaleToError(c, p, validate, limit) ==
  IF c.scaleTo = Unset THEN Ok
  ELSE IF p.expansion = 0 THEN "NonScalingAndValidateScaleTo"
  ELSE IF validate THEN Project(p.cap, p.fp, c.scaleTo, p.tr, p.expansion, limit).err
  ELSE Ok

BloomFilterInsert(c, v, cfg, m, obey, rnd) ==
  LET p   == Properties(c, cfg, rnd)
      err == ScaleToError(c, p, ~ obey, cfg.limit)
  IN  IF err # Ok THEN Rejected(v, m, err)
      ELSE IF v = Foreign THEN Rejected(v, m, "WrongType")
      ELSE IF IsObject(v) THEN AddToExisting(c, v, m, TRUE, ~ obey, cfg.limit)
      ELSE IF c.nocreate THEN Rejected(v, m, "NotFound")
      ELSE CreateAndAdd(c, p, m, TRUE, ~ obey, cfg.limit)

(************************** bloom_filter_reserve ***************************)

BloomFilterReserve(c, v, cfg, m, obey, rnd) ==
  LET p == Properties(c, cfg, rnd)
      o == NewReserved(p)
      e == CreateError(p, ~ obey, cfg.limit)
  IN  IF v = Foreign THEN Rejected(v, m, "WrongType")
      ELSE IF IsObject(v) THEN Rejected(v, m, "ItemExists")
      ELSE IF e # Ok THEN Rejected(v, m, e)
      ELSE Outcome(o, NewReservedMetrics(m, o), Ok, <<>>,
                   <<ReplicaInsert(c.key, o, <<>>)>>, {"bloom.reserve"})

(**************************** bloom_filter_load ****************************)

\* What decode_object rejects before it counts anything, in its order.  Rates
\* out of (0,1) are those with an exponent below 1.
DecodeError(o) ==
  LET bad == {i \in DOMAIN o.filters : o.filters[i].num > o.filters[i].cap}
  IN  IF o.filters = <<>> THEN "DecodeBloomFilterFailed"
      ELSE IF \E i \in DOMAIN o.filters :
                o.filters[i].cap < 1 /\ \A j \in bad : i <= j THEN "BadCapacity"
      ELSE IF bad # {} THEN "DecodeBloomFilterFailed"
      ELSE IF o.fp < 1 THEN "ErrorRateRange"
      ELSE IF o.tr < 1 THEN "TighteningRatioRange"
      ELSE IF Len(o.filters) >= MaxFilters THEN "MaxNumScalingFilters"
      ELSE Ok

\* A decoded object over the limit is dropped again after it was counted; the
\* filters of one that is rejected earlier were not counted when they drop.
BloomFilterLoad(c, v, cfg, m, obey) ==
  LET o       == Decoded(c.dump)
      counted == Gain(GainFilters(m, o), ObjectWeight(o))
  IN  IF v = Foreign THEN Rejected(v, m, "WrongType")
      ELSE IF IsObject(v) THEN Rejected(v, m, "KeyExists")
      ELSE IF DecodeError(o) # Ok THEN Rejected(v, LoseFilters(m, o), DecodeError(o))
      ELSE IF ~ obey /\ MemoryUsage(o) > cfg.limit
      THEN Rejected(v, DropObject(counted, o), "ExceedsMaxBloomSize")
      ELSE Outcome(o, counted, Ok, <<>>,
                   <<ReplicaInsert(c.key, o, <<DumpItem>>)>>, {"bloom.reserve"})

=============================================================================
