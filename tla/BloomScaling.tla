----------------------------- MODULE BloomScaling -----------------------------
(***************************************************************************)
(* The three operations of src/bloom/utils.rs that decide whether, and     *)
(* let, a BloomObject grow: calculate_max_scaled_capacity (a projection    *)
(* that touches no object), validate_add_items (the check in front of a    *)
(* multi-item add) and add_item_unchecked (the add itself).                *)
(***************************************************************************)
EXTENDS BloomObject

(********************* calculate_max_scaled_capacity ***********************)

NoTarget == -1        \* validate_scale_to when BF.INFO asks for the maximum

\* Variant of ProjectedVec that does not charge for a Vec's growth.
ProjectedVecFlat(n) == 1

\* Rust's next_power_of_two: the least power of two that is not below n.
NextPowerOfTwo(n) ==
  LET power[k \in 0..n] == IF k = 0 THEN 1 ELSE 2 * power[k - 1]
  IN  Min({power[k] : k \in 0..n} \ 0..(n - 1))

\* The Vec capacity the projection charges for the filter number n (from 0).
ProjectedVec(n) == IF n = 0 THEN 1 ELSE NextPowerOfTwo(Max({4, n + 1}))

\* n filters of the capacity total are laid out in so many bytes, the next one is
\* of the capacity cap.
Layout == [n : Nat, cap : Nat, total : Nat, bytes : Nat]

\* The loop, from no filters on.  The total is a natural number: that the i64 of
\* the code may wrap for rates close to 1 is left out.
Project(startCap, startFp, target, tr, expansion, limit) ==
  LET rate(s) == FpRate(startFp, s.n, tr)
      next(s) == [n |-> s.n + 1, cap |-> s.cap * expansion, total |-> s.total + s.cap,
                  bytes |-> s.bytes + FilterSize(s.cap, rate(s))]
      stop(err, total) ==
        IF target = NoTarget THEN [err |-> Ok, capacity |-> total]
                             ELSE [err |-> err, capacity |-> 0]
      loop[s \in Layout] ==
        IF target # NoTarget /\ s.total >= target THEN [err |-> Ok, capacity |-> s.total]
        ELSE IF FpReachesZero(rate(s))
        THEN stop("ValidateScaleToFalsePositiveInvalid", s.total)
        ELSE IF ObjectSize(ProjectedVec(s.n)) + next(s).bytes > limit
        THEN stop("ValidateScaleToExceedsMaxSize", s.total)
        ELSE IF next(s).cap > CapacityMax THEN [err |-> "BadCapacity", capacity |-> 0]
        ELSE loop[next(s)]
  IN  loop[[n |-> 0, cap |-> startCap, total |-> 0, bytes |-> 0]]

MaxScaledCapacity(o, limit) ==
  Project(o.filters[1].cap, o.fp, NoTarget, o.tr, o.expansion, limit)

(************************** validate_add_items *****************************)

ClientError(err) ==
  CASE err = "ValidateScaleToExceedsMaxSize"       -> "ExceedsMaxBloomSize"
    [] err = "ValidateScaleToFalsePositiveInvalid" -> "FalsePositiveReachesZero"
    [] OTHER                                       -> err

\* Variant of ValidateAddItems that accepts every batch.
ValidateNothing(o, count, limit) == Ok

ValidateAddItems(o, count, limit) ==
  IF count = 0 \/ Capacity(o) - NumItems(o) >= count THEN Ok
  ELSE IF o.expansion = 0 THEN "NonScalingFilterFull"
  ELSE ClientError(
         Project(o.filters[1].cap, o.fp, NumItems(o) + count, o.tr, o.expansion, limit).err)

(*************************** add_item_unchecked ****************************)

Full(f) == f.num >= f.cap

\* Variant of NextFp that is one filter behind.
NextFpBehind(o) == FpRate(o.fp, Len(o.filters) - 1, o.tr)

NextFp(o) == FpRate(o.fp, Len(o.filters), o.tr)

NextCapacity(o) == Last(o.filters).cap * o.expansion

\* Variant of ScaleOutError whose multiplication is not checked.
ScaleOutErrorUnchecked(o, validate, limit) ==
  IF o.expansion = 0 THEN "NonScalingFilterFull"
  ELSE IF FpReachesZero(NextFp(o)) THEN "FalsePositiveReachesZero"
  ELSE IF validate /\ MemoryUsage(o) + FilterSize(NextCapacity(o), NextFp(o)) > limit
  THEN "ExceedsMaxBloomSize"
  ELSE Ok

\* The early returns of a scale-out, in the code's order.
ScaleOutError(o, validate, limit) ==
  IF o.expansion = 0 THEN "NonScalingFilterFull"
  ELSE IF Len(o.filters) = MaxFilters THEN "MaxNumScalingFilters"
  ELSE IF FpReachesZero(NextFp(o)) THEN "FalsePositiveReachesZero"
  ELSE IF NextCapacity(o) > CapacityMax THEN "BadCapacity"
  ELSE IF validate /\ MemoryUsage(o) + FilterSize(NextCapacity(o), NextFp(o)) > limit
  THEN "ExceedsMaxBloomSize"
  ELSE Ok

AddToLast(o, x) == [o EXCEPT !.filters[Len(o.filters)] = Set(@, x)]

\* Variants of ScaledOut: the new filter counts the item but its bits are not
\* set; its bits are set but it is not counted.
ScaledOutUnset(o, x) ==
  [o EXCEPT !.filters = Append(@, [NewFilter(NextFp(o), NextCapacity(o), SeedOf(o))
                                     EXCEPT !.num = 1]),
            !.vcap = PushedVec(o)]

ScaledOutUncounted(o, x) ==
  [o EXCEPT !.filters = Append(@, [Set(NewFilter(NextFp(o), NextCapacity(o), SeedOf(o)), x)
                                     EXCEPT !.num = 0]),
            !.vcap = PushedVec(o)]

ScaledOut(o, x) ==
  [o EXCEPT !.filters = Append(@, Set(NewFilter(NextFp(o), NextCapacity(o), SeedOf(o)), x)),
            !.vcap = PushedVec(o)]

AddError(o, validate, limit) ==
  IF Full(Last(o.filters)) THEN ScaleOutError(o, validate, limit) ELSE Ok

AddItemUnchecked(o, x) ==
  IF Full(Last(o.filters)) THEN ScaledOut(o, x) ELSE AddToLast(o, x)

\* The counters an add moves: one item, and for a scale-out the new filter (not
\* counting the item it already holds) and what the Vec grew by.
AddMetrics(m, o, x) ==
  LET item == [NoMetrics EXCEPT !.items = 1]
      new  == NewFilter(NextFp(o), NextCapacity(o), SeedOf(o))
      vec  == [NoMetrics EXCEPT !.bytes = ObjectSize(PushedVec(o)) - ObjectSize(o.vcap)]
  IN  IF Full(Last(o.filters))
      THEN Gain(Gain(Gain(m, FilterWeight(new)), vec), item)
      ELSE Gain(m, item)

=============================================================================
