# A verification project for valkey-bloom

valkey-bloom is a Valkey module that adds a scalable Bloom filter data type and
the `BF.*` commands.  This directory holds TLA+ models of it, the TLC runs that
check them on small instances, and proofs, checked by TLAPS, that hold for every
value of the constants.  Paths below are relative to the repository.

## 1. The system

### Components, state and operations

| component | source | state | operations |
|---|---|---|---|
| Bloom filter | `src/bloom/utils.rs` 629-774 | bit vector with its sip seed, `num_items`, `capacity` | create with a fixed or random seed, `check`, `set`, copy, decode, Drop |
| Bloom object | `src/bloom/utils.rs` 89-620 | `expansion`, `fp_rate`, `tightening_ratio`, `is_seed_random`, `Vec<Box<BloomFilter>>` | `new_reserved`, `add_item`, scale-out, `validate_add_items`, `calculate_max_scaled_capacity`, `create_copy_from`, `encode_object`, `decode_object`, Drop |
| Command handlers | `src/bloom/command_handler.rs` | none | parse the arguments, then `BF.ADD`, `MADD`, `RESERVE`, `INSERT`, `LOAD` (write); `EXISTS`, `MEXISTS`, `CARD`, `INFO` (read) |
| Data type | `src/bloom/data_type.rs`, `src/wrapper/bloom_callback.rs` | none | RDB save and load, AOF rewrite, copy, free, digest, memory usage, defrag |
| Configuration | `src/configs.rs`, `src/lib.rs` | seven `bloom-*` settings | `CONFIG SET` |
| Metrics | `src/metrics.rs` | five gauges, two defrag counters, all wrapping atomics | incremented and decremented by every constructor and Drop |
| `must_obey_client` | `src/wrapper/mod.rs` | none | tells a handler that the client is the primary or the AOF |

The server runs one command at a time and calls the data type's callbacks from
the same thread, so a command, a callback and a defragmentation call are each
one step of the models.  The exception is `bloom_free` of a large object, whose
Drop runs on the server's lazy-free thread: there every atomic subtraction from a
counter is a step.  The components meet in these ways:

- A handler reads the key's object and the configuration, changes the object in
  place or stores a new one, replies, propagates a command (a `BF.INSERT` with
  every property spelled out for a creation, the client's own command verbatim
  for an add) and publishes keyspace events.
- The propagated commands go to replicas and to the AOF.  A node executes them
  with its own configuration for a client that must be obeyed.
- The server calls `bloom_rdb_save` and `bloom_rdb_load` for snapshots, full
  synchronisation, `DUMP` and `RESTORE`; `bloom_aof_rewrite` when it rewrites
  the AOF; `bloom_copy`, `bloom_free` and `bloom_defrag` between commands.
- All of them move the same five counters.

### What is hard here, and what must hold

| behaviour | property |
|---|---|
| scale-out: a new filter, its rate, seed and capacity, overflow | `TypeOK`, `ShapeInv`, `ObjectsOnlyGrow` |
| no false negatives across scale-outs, failed adds, copies, restarts | `NoFalseNegatives` |
| counters balanced by constructors and Drops on every path, failures included | `MetricsMatch` |
| a multi-item add: validated first, `is_new` precomputed, may not fail half way | `RefusalsLeaveNoTrace`, `BatchesFit`, `RepliesCountItems` |
| reply, propagation and events agree with the change | `EffectsMatchChange` |
| three computations of an object's size | `MemoryWithinLimit`, `ScaleToHonoured`, `RdbRoundTrip` |
| the RDB leaves out what it can reconstruct | `RestartRestores`, `ShapeInv`, `RdbRoundTrip` |
| an AOF replayed or rewritten, under another configuration | `RestartRestores` |
| a replica with another configuration, lagging and resynchronised | `ReplicaFollowsPrimary`, `ReplicaNeverErrs`, `Converges` |
| what the projection promises can be reached | `ScaleToHonoured`, `ProjectionIsReached` |
| arguments in any order, rendered to text and parsed again elsewhere | `LastOptionCounts`, `AcceptedIsWellFormed`, `CreationReplicates` |
| two implementations of every BF.INFO field | `ReadsReflectRequest` |
| a defragmentation in several calls, clients in between | `ServerSpec`, `PassCoversObject`, `SpareInPlace`, `PassEnds` |
| counters read and changed while the lazy-free thread subtracts | `GaugesBounded`, `ServerSpec` |
| defragmentation changes what later size checks see | the findings of runs `replica_partial` and `rdb_defragged` |

`PROJECT.json` lists these hazards at their lines, the ones that no property
covers yet included.

## 2. The modules

```
BloomObject            values, filters, sizes, counters, creation, copy, decode
  BloomScaling         projection, batch validation, the add with its scale-out
    BloomCommands      the write handlers as operators
      BloomRequests    a client's arguments: parsers, their rendering, read handlers
      BloomServer      state machine: one server
        BloomMaintenance   BloomServer, defragmented in steps and freed in the
                           background; implements BloomServer
      BloomTransfer    RDB images, BF.LOAD, commands executed by a node that obeys
        BloomImages        BloomServer + BloomTransfer: the image of every object
        BloomPersistence   BloomServer + BloomTransfer: save, crash, start
        BloomReplication   primary, stream, replica; implements LaggingCopy
LaggingCopy            what asynchronous replication promises (abstract)
MCBloomServer, MCBloomRequests, MCBloomMaintenance, MCBloomPersistence,
MCBloomReplication     instances for TLC
BloomObjectProofs      proofs: operations on one object, sums over its filters,
                       arithmetic of the counters
  BloomCommandsProofs  the loop of an add, what a handler does to its key, the
                       counters, the limit, the reply and the effects
    BloomRequestsProofs  theorems about parsers, propagated creations and reads
    BloomServerProofs  theorems about BloomServer
      BloomMaintenanceProofs  theorems about BloomMaintenance, its refinement
    BloomTransferProofs  images and snapshots, commands obeyed by another node
      BloomReplicationProofs  theorems about BloomReplication, its refinement
      BloomPersistenceProofs  with BloomServerProofs: theorems about images, starts
```

**BloomObject** and **BloomScaling** translate `utils.rs`.  An `Object` is a
record with the fields of the struct plus `vcap`, the allocated capacity of the
`Vec`, because `memory_usage` counts it and most of the size arithmetic turns on
it.  `AddError` collects the early returns of `add_item_unchecked` in their
order, `AddItemUnchecked` is its effect and `AddMetrics` the counters it moves.
`Project` is the loop of `calculate_max_scaled_capacity`, a recursive function.

**BloomCommands** translates `command_handler.rs`.  A handler maps the key's
value, the command, the configuration, the counters and "must obey" to an
outcome: next value, counters, reply, propagated commands, events.  The same
operators serve the client's command on a primary, the replica and the replay.
`DecodeError` is what `decode_object` rejects before it counts anything.

**BloomRequests** is what stands in front of those handlers.  A `Token` is an
argument's bytes; four functions say what it is when it is read as a word, a
rate, an integer or a seed.  `ParseAdd`, `ParseReserve` and `ParseInsert` (one
`InsertTurn` for each turn of the loop) translate the parsers with their errors in
the code's order, `Rendered` the argument vector of a creation's `BF.INSERT`, and
`BloomFilterExists`, `BloomFilterCard` and `BloomFilterInfo` the read handlers.
The state machine is a client that composes a vector token by token and sends it.

**BloomServer** has the state `keys`, `config` and `metrics`; `last` (the last
command with its reply and effects) and the history variables `acked` (items
whose add was acknowledged) and `promised` (the `VALIDATESCALETO` of a creation)
serve the properties.  Its actions are the write commands, `BF.LOAD` of an
existing object's encoding, overwriting and deleting a key (DEL, expiry,
eviction, SET), COPY, `CONFIG SET` and a complete defragmentation pass.

**BloomMaintenance** adds what goes on behind the commands.  `DefragCall` is one
call of `bloom_defrag`: from the cursor, as many turns as `should_stop_defrag`
leaves time for, each taking a filter out, swapping its Bloom for the placeholder
(`spare`), offering three allocations and putting the filter back; when all are
done, the Vec's reallocation.  `DefragNow` is the server's call for a small object,
`DefragSchedule`, `DefragStep` and `DefragGivenUp` its handling of a large one
(`late` has the key and the cursor, and the object under the key may change or go
between two calls).  `Unlink` hands an object to the lazy-free thread: `freeing` is
the list of its atomic subtractions and `FreeStep` does one.  `ServerSpec` is the
refinement: with what is still to be subtracted taken off the counters
(`Settled`), every step is a step of `BloomServer` or none, the last call of a pass
being its `Defrag`.  `GaugesBounded` compares each gauge with the same sums over the
live objects as `MetricsMatch`.  Hits, misses and capacities taken up are kept in the history
variable `pass`.

**BloomTransfer** has `RdbSave` and `RdbLoad` (filter by filter, with the checks
and the counters on every way out), `Snapshot` and `LoadSnapshot` for a keyspace,
and `Obey`, the execution of a propagated command.  **BloomImages** states what
saving and loading does to the objects of a server that never restarts.

**BloomPersistence** adds `up`, `disk` (the RDB, or the base of the AOF), `log`
(the AOF's commands) and the history variable `saved` to the server.  It has Save,
Crash and a start from the RDB; or propagation to the AOF, its two rewritings (one
`BF.LOAD` per object, and an RDB image under `aof-use-rdb-preamble`) and a start
that loads the base and replays the rest.  A start has any configuration of
`RestartConfigs`.

**BloomReplication** has two nodes and the stream between them.  Every entry of
the stream carries, as history, the keys the primary had after it, which is the
`pending` of **LaggingCopy**.  That module says what replication promises: the
copy goes through the states of the source, in order, or skips to the current
one.  `ReplicaFollowsPrimary` is its `Spec` under the refinement mapping `Lag`.

### Abstractions

- The commands of `BloomServer` and `BloomReplication` are what the parsers let
  through (`AcceptedIsWellFormed` checks exactly what they assume of them).  Text
  to number conversions are the functions of a token, inverse to each other where
  the code renders what it parses; upper and lower case are one token.
- A rate `2^-e` is written `e`: tightening by `2^-t` adds `t`, and "too small for
  an f64" is `e >= FpFloor`.
- A bit vector is the set of its set bits.  An item has a set of hashes under
  each seed and sets each modulo the vector's length; the number of rounds is
  not derived from the rate.  Any function `Hash` is allowed, so collisions and
  false positives are part of the model.
- `BitmapBytes` is the crate's formula with `1 / (8 ln 2)` to two digits.  The
  other sizes are constants; the instances give them their values on 64 bits.
- `Vec` growth is that of the standard library: 1, then 4, then doubling.
- Sizes and the projection's total are natural numbers.  In the code the additions of
  `compute_size` and `memory_usage` are of `usize` and the projection adds capacities
  in an `i64` (`src/bloom/utils.rs` 609, 732-743), none of them checked.  At the rates
  of the models, 1/2 and less, the memory limit ends the projection long before; a rate
  close to 1, whose filters take few bytes for capacities near `i64::MAX`, could make the sums
  wrap and is left out.  The product for the next capacity, which the code checks, is modelled with its
  overflow.
- Random draws exclude the fixed seed.
- A call of `bloom_defrag` moves all allocations or none; the placeholder's seed
  is the fixed one.
- `set_value` on an open key and allocation do not fail; images on disk are
  those the module wrote; the AOF is fsynced before the reply.
- A server whose RDB is refused exits; that start is not a step.

## 3. The runs

State counts are those of the complete state space TLC explores.

| run | question | result |
|---|---|---|
| `server` | two keys, nine commands, everything else a server does | passes, 73 000 states |
| `growth` | one key, objects up to the memory limit, and their RDB images | passes, 50 000 states |
| `rdb_restart` | save, crash, start under two limits, COPY and RESTORE | passes, 60 000 states |
| `aof_restart` | AOF replay and both rewritings, other defaults and a higher limit after a start | passes, 406 000 states |
| `replication` | replica with other defaults: refinement, convergence, errors that are not propagated | passes, 19 000 states |
| `maintenance` | defragmentation in steps, lazy-free, clients in between | passes, 20 000 states |
| `requests` | every vector of six arguments, what it leads to, and that a validated batch fits the object it creates | passes, 38 000 states |
| `load_refused`, `rdb_defragged`, `replica_*` | statements of docs, comments and tests | violated, see below |

### Bounds, and why they are enough

- **server**: items 1, 2, 3, where 3 collides with 1 and 2 in a one-byte vector
  and with nothing in a longer one: both answers of every check occur, also for an
  item of a batch (2, 1, 3 in a vector of one byte) that was absent when the batch was
  checked and is a false positive of its predecessors when it is added.  Objects
  reach three filters; `CapacityMax` is 7, so that growing a capacity of 2 by 4
  overflows; the limit switches between 300 (one filter) and 800.  The second
  key is there for COPY and `BF.LOAD`.
- **growth**, and the runs about limits: real sizes (48, 8 and 208 bytes), a
  limit between what the projection charges for a fifth filter (a Vec of 8) and
  what the add does (a Vec of 4).  Nothing in the size arithmetic changes in kind
  after the Vec's second doubling.
  Five filters take it through 1, 4 and 8 slots.
- **maintenance**: objects of up to three filters, of capacities 1, 2 and 4 so
  that they can be told apart; from two filters on they are freed in the
  background.  `MaxScanFields` is the set of values the setting may have, {1, 2}:
  an object of two filters is defragmented at once or in steps, one of three only
  in steps.  A pass thus can stop before, between and after
  filters, and a filter can be added, or the object replaced by a shorter one,
  while its cursor is at 1 or 2.  `MaxFreeing = 14` holds an object of three filters,
  or waits for the thread.
- **requests**: key and five more arguments: two options with a value and one
  more, or `ITEMS` and two items behind one option with a value or two without.
  Every kind of token a parser tells apart is there, so every error and every
  option is met at each place.  `ExpansionMax` is 2 and `CapacityMax` 1000, with an
  integer above each.  A vector is continued only while that may be accepted.
- **rdb_restart**: two filters show the count that is saved only for the last one.
- **aof_restart**: an AOF of up to `MaxLog = 3` commands, a key of its base counted
  as one: a creation, an add to it and a third command, or a rewritten object and two
  commands after it.  A start has other defaults for all that an object is created with,
  fixed seeds and a limit of 800 instead of 560.  No start lowers the limit
  (`LimitNotLowered`): the end of this section has what a lower one does.
- The limit never refuses anything in **requests**, where a refusal is that of a full
  object that does not scale; `ValidatedBatchesFit` proves `BatchesFit` for
  limits that do.
- **replication**: `MaxStream = 3` commands in flight, `MaxWrites = 5` propagated
  in all, enough for create, grow, delete and create again while the replica is
  behind.  `MaxWrites` also is "clients stop writing", which `Converges` needs.

No run uses symmetry: items differ by their hashes and keys by the commands.
Deadlock is checked everywhere.

### Fairness

Only `Converges` and `PassEnds` need any.  `FairSpec` is `Spec /\ WF_stream(Take)`: a command in
the stream is executed eventually, which a connected replica does.  `Take` is
the part of `Deliver` that decides whether it is enabled, `Deliver` being a total
function of the command.  `FullSync` empties the stream too and satisfies the
fairness condition as well.  Nothing is assumed of clients, defragmentation or
full synchronisations there.

`MSpec` has two weak fairness conditions.  `FreeStep`: the lazy-free thread runs.
`DefragProgress`: the server's cron keeps calling `bloom_defrag` for the object on
its list and, sooner or later, with time for one more filter (or takes the object
off the list); `activedefrag` itself staying on is part of that.  It says nothing of
the pass as a whole: clients may add filters between any two calls, and
`PassEnds` holds since an object cannot grow for ever under a memory limit.

### What the code does and its documents do not say

| run | what it shows |
|---|---|
| `load_refused` | `decode_object` checks an encoding after it deserialised the filters and counts them after the checks.  A rejected one is dropped in between, and Drop subtracts what was never added: `INFO bf` wraps below zero. |
| `rdb_defragged` | An object of two filters is defragmented (its Vec has 2 slots instead of 4), so a third filter is within the limit.  `load_from_rdb` pushes the second onto a Vec of 1 and has 4 slots when it checks the third: over the limit, and the server does not start from its own snapshot.  `RdbRoundTrip` (run `growth`) shows that defragmentation is needed for it. |
| `replica_partial` | After a complete defragmentation the Vec's capacity is its length, 5 say; the next push doubles it to 10 where the projection counts 8.  A batch that was validated then fails half way, the one exception to `RefusalsLeaveNoTrace`.  It is replicated verbatim; the replica has no limit to check, adds all of it and diverges. |
| `replica_creation` | A batch that does not fit the object it creates answers an error, stores the object and propagates the whole batch; the replica answers its primary with an error. |
| `replica_load` | `BF.LOAD` is propagated as a `BF.INSERT` of the total capacity with the payload as an item. |

Two others are easily reproduced with the modules and have no run.  A scale-out is
checked with the Vec it has, the projection with the Vec it leaves, so `BF.ADD` can
pass the `MAXSCALEDCAPACITY` of `BF.INFO` and end above the memory limit
(`src/bloom/utils.rs` 385 and 594); `MemoryWithinLimit` bounds the excess and
`ProjectionIsReached` shows that the difference never goes the other way.  And
`validate_add_items` uses the node's own limit whoever the client is
(`src/bloom/command_handler.rs` 55), although commands of the primary client and the AOF client
"should never be rejected" (`src/wrapper/mod.rs` 6).  A replica with a lower limit
refuses a batch that its primary accepted.  A server that is started with a lower limit
refuses batches of its own AOF and loses acknowledged items: in the instance of
`aof_restart` with a limit of 300 for the start, TLC answers with an acknowledged
BF.MADD of two items, a crash and the start, after which `NoFalseNegatives` is
violated; without its condition `LimitNotLowered`, so is `RestartRestores`.  A start from
an RDB is not concerned: it restores everything or, when an object is over the lower
limit, does not take place.

A replica whose default expansion is 0 refuses an add by a BF.INSERT with
VALIDATESCALETO and no EXPANSION.  An add is propagated as the client wrote it, and
the check that VALIDATESCALETO excludes NONSCALING
(`src/bloom/command_handler.rs` 631) runs on it with the replica's default, before the
key is looked at, although the comment above it says that it is skipped for propagated
commands.  TLC shows it in the instance of `replication` with `expansion = 0` for the
replica.

An error rate is accepted when it is above 0 (`src/bloom/command_handler.rs` 384 and 514,
`src/configs.rs` 91), but `load_from_rdb` asks `calculate_fp_rate` for the rate of every filter, which
refuses one at or below `f64::MIN_POSITIVE` (`src/bloom/utils.rs` 434): an object
that was created with such a rate cannot be read back from its own snapshot.  The
modules allow such rates (`FpFloor`), the instances have none.

One more came out of the proof of the counters.  `add_item` lets an object grow until
it has `BLOOM_MAX_FILTER_COUNT_PER_OBJ` filters (`src/bloom/utils.rs` 370), but
`decode_object` refuses an encoding that has as many (508), before it counts its
filters.  With i32::MAX filters no memory limit in use lets it happen; the theorem
`CountersMatch` names the limit that rules it out.

`replication` therefore leaves out a client's `BF.LOAD` (`SpecWithLoad` has it),
a replica with a lower limit, a batch too large for the object it creates, and a
limit that a defragmented object reaches.  It also leaves out a replica whose
default expansion is 0.  `ErrorsAreNotPropagated` says that this instance propagates no
command that was answered with an error, which is what the theorems about replication
take as a hypothesis.

## 4. What is proved

The proofs are of the specifications of `BloomServer` (`Spec`), `BloomMaintenance`
(`MSpec`), `BloomRequests` (its `Spec`), `BloomReplication` (its `Spec`) and
`BloomPersistence` (`PSpec`), for any items, hash function, sizes, commands, tokens,
initial configuration, configuration changes and starts and, for `MSpec`, any scheduling of
the defragmentation and lazy-free thresholds.  The assumptions on constants are the
named ones of the modules: sizes are positive, the fixed seed is a seed,
commands are what the parsers let through (which `ParsersAccept` proves of them),
configurations are in range, there are finitely many keys.  No bound on objects,
commands, filters, streams or argument vectors is assumed.

| theorem | module | statement |
|---|---|---|
| `Invariance` | `BloomServerProofs` | `Spec => []IInv` |
| `TypeCorrectness` | | `Spec => []TypeOK` |
| `ShapeCorrectness` | | `Spec => []ShapeInv` |
| `NoFalseNegativesEver` | | `Spec => []NoFalseNegatives` |
| `GrowthOnly` | | `Spec => ObjectsOnlyGrow` |
| `CountersMatch` | | `Spec /\ []LimitIsSmall => []MetricsMatch`, with `LimitIsSmall` written out |
| `LimitKept` | | `Spec /\ NotLowered => []MemoryWithinLimit` |
| `MemoryBounded` | | `Spec /\ [](config.limit <= most) => []Bounded(most)`, for any `most` |
| `RepliesAreCounts` | | `Spec => RepliesCountItems` |
| `EffectsAreChanges` | | `Spec => EffectsMatchChange` |
| `VecsAreCharged` | | `Spec /\ []LimitIsSmall /\ Undisturbed => []VecsCharged` |
| `RefusalsAreClean` | | `Spec /\ []LimitIsSmall /\ []VecsCharged => RefusalsLeaveNoTrace` |
| `ScaleToIsHonoured` | | `Spec /\ NotLowered /\ []LimitIsSmall /\ []VecsCharged => ScaleToHonoured` |
| `MaximumIsReached` | | `Spec /\ []LimitIsSmall /\ Undisturbed => []ProjectionIsReached` |
| `ObjectsStayReadable` | | `Spec /\ NotLowered /\ Undisturbed => []ObjectsRefit` |
| `MaintenanceInvariance` | `BloomMaintenanceProofs` | `MSpec => []MInv` |
| `SpareStaysInPlace` | | `MSpec => []SpareInPlace` |
| `PassesCover` | | `MSpec => PassCoversObject` |
| `MaintenanceRefines` | | `MSpec => ServerSpec` |
| `SettledCountersMatch` | | `MSpec => []SettledMatch` |
| `GaugesAreBounded` | | `MSpec => [](WideEnough => GaugesBounded)` |
| `ParsersAccept` | `BloomRequestsProofs` | `Spec => []AcceptedIsWellFormed` |
| `LastOptionOfEachKind` | | `Spec => []LastOptionCounts` |
| `ValidatedBatchesFit` | | `SmallLimits`: `Spec => []BatchesFit` |
| `CreationsReplicate` | | `EverythingSpelled`, `OneLimit`, `SmallLimits`: `Spec => []CreationReplicates` |
| `ReadsAgreeWithWrites` | | `Spec => []ReadsReflectRequest` |
| `ReplicationIsDeterministic` | `BloomReplicationProofs` | `LimitNotLower`, `ScalingAgreed`: `Spec /\ []ErrorsAreNotPropagated => ReplicaFollowsPrimary` |
| `NoReplicaErrors` | | the same: `=> []ReplicaNeverErrs` |
| `StreamConverges` | | the same: `=> []InSync` |
| `OneItemCommandsSucceed` | | with `OneItemCommands`: `Spec => []ErrorsAreNotPropagated` |
| `RdbInvariance` | `BloomPersistenceProofs` | `~AppendOnly`: `PSpec => []RdbInv` |
| `RdbStartRestores` | | `~AppendOnly`: `PSpec => RestartRestores` |
| `RdbKeepsItems` | | `~AppendOnly`: `PSpec => []NoFalseNegatives` |
| `RdbCountersMatch` | | `~AppendOnly`: `PSpec => []MetricsMatch` |
| `AofInvariance` | | with the AOF's hypotheses (below): `PSpec => [](AofInv /\ LimitInUse)` |
| `AofStartRestores` | | with them: `PSpec => RestartRestores` |
| `AofKeepsItems` | | with them: `PSpec => []NoFalseNegatives` |
| `AofCountersMatch` | | with them: `PSpec => []MetricsMatch` |
| `AofOneItemRestores` | | with `OneItemCommands` for `FailuresNotLogged`: `PSpec => RestartRestores` |
| `ImagesRoundTrip` | | `Spec /\ NotLowered /\ Undisturbed /\ []RatesArePositive => []RdbRoundTrip` |

In the table `NotLowered` stands for `[][config'.limit >= config.limit]_vars` and
`Undisturbed` for `[](~ config.defrag) /\ [][LoadsNothing]_vars`.

**The hypotheses.**

- `LimitIsSmall` (`SmallLimits` for the configurations of requests): objects of
  `MaxFilters` filters are excluded by the limit, `config.limit < MaxFilters *
  FilterBytes`.  `CountersMatch` needs it: `BF.LOAD` of such an object's encoding is
  refused and miscounted (end of section 3).  In the code the bound is i32::MAX
  filters of 208 bytes, some 446 GB; the default limit is 128 MB.  In the runs it is
  100 filters against limits of at most 1140 bytes.  The projection does not look at
  the number of filters, so what it promises needs it too.
  `SettledCountersMatch` and `RdbCountersMatch` do without it because neither
  `BloomMaintenance` nor a server without an AOF has a `BF.LOAD`.
- `NotLowered`: a lower limit does not shrink the objects that are there, nor is what
  was promised under the higher one kept.  `MemoryBounded` is the form for a
  limit that goes up and down.
- `VecsCharged`: no Vec is larger than the projection charges for.  It
  holds in the runs `server` and `growth`, where defragmentation in `server` meets
  objects of three filters at most, and for every server that is `Undisturbed`
  (`VecsAreCharged`).  It cannot be left out: run `replica_partial` is a history
  without it in which a validated batch fails half way.
- `Undisturbed`: nothing makes a Vec smaller than pushes made it, which
  defragmentation and the decoding of `BF.LOAD` do (`LoadsNothing`: no `BF.LOAD`
  changes a key).  True of run `growth`.  For `ImagesRoundTrip` run `rdb_defragged`
  shows that it is needed.
- `RatesArePositive`: no object has a first rate that `load_from_rdb` would take for
  zero; the parsers let such rates through (end of section 3).  The rates of later
  filters need no hypothesis: a scale-out refuses to make one.
- `LimitNotLower`, `ScalingAgreed`, `ErrorsAreNotPropagated`: a replica has no lower
  limit than the primary and, for commands with VALIDATESCALETO, no default expansion
  of 0; no command that failed is propagated.  Section 3 says what happens otherwise.  All
  hold in run `replication`, which checks the third, and the third is proved for
  commands of one item (`OneItemCommandsSucceed`), at any limit and after any
  defragmentation.
- `EverythingSpelled`, `OneLimit`: the values of the configurations and the seeds have a
  token that is read as them, as every number has a text; the nodes have one limit.
- `~AppendOnly`: the server persists by RDB.  Nothing more is asked there: any
  configuration may follow any other.
- The AOF's: `AppendOnly`; `LimitNotLowered`, no start has a limit below one the server
  can have run with; `RestartsScale`, which is `ScalingAgreed` for the
  configurations of a start; `FewFilters`, every object could have one more filter (a
  rewritten AOF has its objects as BF.LOADs, see `LimitIsSmall`);
  `FailuresNotLogged`, no command that failed is in the log.  The last is
  `ErrorsAreNotPropagated` of one server, needed for the same reason: an AOF that has a
  batch which failed half way (`replica_partial`) brings back more than there was.  All of
  them hold in run `aof_restart`.
- `GaugesAreBounded`: for each counter, what is alive and what is still to be
  subtracted together fit the counter, 64 bits in the code.

**Invariants.**  `IInv` is `TypeOK /\ ShapeInv /\ NoFalseNegatives` and "a key
without an object has no acknowledged items".  The last part is needed because a
creation starts from what was acknowledged under the key before.  `ShapeInv` is
needed for types (the seed of a scale-out is the first filter's, so there has to
be one) and for itself (only a full last filter lets a new one be pushed).  The
proof goes up the layers:

- `BloomObjectProofs`: each operation on one object (create, set, scale-out,
  decode, copy) keeps its type and shape, and leaves an object that its
  predecessor has `Grown` into; `Grown` keeps every item that exists; after an
  add the item exists.  Counters stay within `0..Word - 1`.
- `BloomCommandsProofs`: the loop of a multi-item add is a function on
  `0..Len(items)`; an induction over its turns carries type, shape, growth and
  "every item of the turns so far exists".  From it follows, for each handler,
  what its outcome satisfies.
- `BloomServerProofs`: one step per action, each from its handler's lemma.

**The counters and the limit.**  The `Footprint` of an object is what it
contributes to each counter, as integers.  Counters `Tracks` a change of
footprint when they moved by it modulo `Word`.

- The folds over an object's filters are sums (`SumOneMore`,
  `SumLastChanged`, by set induction on the function that the fold builds),
  congruences add up, and every constructor, add and Drop makes the counters track
  the object (`BloomObjectProofs`).
- For each handler `Accounted` is the conjunction of what it owes
  (`BloomCommandsProofs`):
  the counters track the value under the key on every way out, errors half way
  included; the object is `Within` the limit, the slots of its Vec's last growth set
  aside; the ones of the reply count the growth of `num_items`; something is
  propagated or published only for a change.  `BF.LOAD` (`LoadAccounts`) is the one
  that needs a filter to spare, which the memory bound gives it.
- The total over a finite set of keys follows the one key that
  changed (`TotalFollows`), so a step that tracks its key keeps `MetricsMatch`.

**The projection.**  `calculate_max_scaled_capacity`, `add_item` and `memory_usage`
each count the bytes of a Vec in their own way, and four properties rest on how the
three compare.

- A Vec that only pushes made has as many slots as `Pushed(w, n)` says: 1, or
  4 and more, a power of two below twice the filters.  `ProjectedVec` charges at
  least that (`VecsAreCharged`).
- The projection is a recursive function of a layout: the filters so far, the next
  capacity, the totals.  That a function with its equation exists has to be proved
  (`ProjectTurns`): every turn lays out bytes, so the limit ends the loop.
  `LayoutsOf` relates its turns to the filters of an object.
- An object has `Room` for a target that it has the capacity for or that a projection
  from its first filter was granted.  It keeps it as it grows and as the limit is
  raised (`RoomStays`, `RoomMonotone`), and as long as it has, the next scale-out
  below the target passes the checks of `add_item` (`ProjectionCovers`).  So a
  validated batch fits (`BatchFits`), which is `Orderly` for a handler and
  `RefusalsAreClean` for a server.
- `PromisesStand` is the invariant behind `ScaleToIsHonoured`: every object has room
  for what its creation was validated for.
- For `MaximumIsReached` the definition of `FilledCapacity` is a recursive
  function over objects; its fixed point is unfolded along the scale-outs (`FillingTurns`),
  and each of them reaches the projection's turn of the same filters
  (`ReachesLoop`, `FillReachesLoop`), since the Vec of an undisturbed object costs the add no
  more than the projection.

**Images.**  `load_from_rdb` rebuilds an object filter by filter.  The induction over
the filters read (`Prefix`, `LoadInvariant`) gives what is read at any limit: all of
it with counters that track it, or nothing and the counters as they were
(`RdbLoadOutcome`).  For the second question, whether it is read at all, `Refits` says
of an object what those checks will compare: the Vec that pushing all filters but one makes, with the
sizes of all filters, is within the limit.  Every scale-out checked exactly that when
it pushed the last filter (`AddStillRefits`), so it is an invariant of an
undisturbed server (`ObjectsStayReadable`); a Vec of fewer pushes is no larger
(`PushedMonotone`) and a prefix of the filters takes no more (`PrefixSize`), so each filter
passes (`FilterIsRead`), and a Vec is determined by how often it was pushed onto
(`PushedUniquely`), so the object is the one that was saved.

**Starts.**  `RdbInv` has `LiveInv` (`IInv`, `MetricsMatch` and the same of what is to
be brought back, `saved`) and "the file is the snapshot of what was saved last".  A
snapshot that is loaded is a copy (`SnapshotIsCopy`, by induction over the keys loaded),
the counters of an empty server then count it (`SnapshotIsCounted`).

From an AOF a start computes what it brings back, so `AofInv` says of the files that they
bring it: for every configuration a start may have and every random draw, the base, if it is
read, and then the log, executed command by command, make a node that holds what the
server holds, or held when it stopped, and counts it (`Brings`).  A server's logged
command `Leads`, as in replication, every node that holds what the server held before
to what it holds after (`ClientLeads`, `CopyLeads`, `RestoreLeads`), so the log grows and keeps
bringing it (`LogGrows`; `Replay` is a fold, `ReplayGrows` its step).  A rewriting starts over:
its BF.LOADs and SETs, in whatever order the keys come, lead from nothing to the
keyspace, one key after the other (`RewriteBrings`), and a preamble is a snapshot
(`BaseBrings`).  A lead needs no lower limit, not the same: what is validated or read under
one limit is under a higher one (`ValidUnderMore`, `LoadsElsewhere`).

**Replication.**  `Alike` objects differ in their Vec only.  What a handler did on the
primary, a node that obeys does to an alike object, whatever its defaults and
draws, if the command did not fail (`AnswerLeads`, and `AddValueLeads`, `InsertLeads`,
`ReserveLeads` for each handler, `CopyLeads` and `OverwriteLeads` for what is propagated as an RDB image
or a deletion).  The invariant `RInv` says that the stream leads the replica, through the
states recorded with its commands, to what the primary holds (`LeadsThrough`).  A step that
appends to it or takes its head keeps that and is a step of `LaggingCopy`.

**Requests.**  `RequestsInv` says that the arguments are composed of tokens, the key
first.  The loop of the `BF.INSERT` parser is a fixed point over its turns; an
induction over them shows that what it has read at a position is what the options
before it, `Options`, say last of each kind (`TurnsReflect`), and that it stays
in the ranges `AcceptedIsWellFormed` asks for.  What a creation is propagated with is
`Legible`, every value of it has a token, so that the parser, turn by turn, reads back
what was `Rendered` (`RenderedIsParsed`).  The two nodes' handlers then differ in
validation only, and a batch that was added whole is added in the same way by a node
that checks no limit (`FreeTurns`, `FreeBatch`); that it is added whole is
`ValidatedBatchesFit`.  For the reads, `Creation` is what is true of an object that
one request made: its items are found, its count is that of the ones in the reply,
its rate is the one asked for.

**Maintenance.**  `MInv` adds to `IInv`: the placeholder is in place; a pass whose
object has stayed has taken up exactly the filters before its cursor; `freeing` is a
list of counter weights; and every filter that counts items has a bit (`AllUsed`).
The last is what tells a filter's own Bloom from the placeholder; it holds since an
item is counted only when some bit of it was missing (`AbsentItemHashes`).

- A turn of a call takes a filter out and puts the same one back
  (`TakenAndPutBack`), so a call leaves the filters as they were, whatever its
  turns and the allocator's answers (`CallDone`).
- The list of subtractions of an object adds up to its footprint
  (`ObjectOwed`), and a subtraction done leaves the settled counters as
  they were (`DebtHead`).
- Handlers never look at the counters (`HandlersDepend`): with settled counters they
  give the same outcome, and counters that track again.  That makes a client's
  step in `BloomMaintenance` one of `BloomServer`.
- `MaintenanceRefines`: `Unlink` settles everything at once and is an
  `Overwrite`, `FreeStep` settles nothing and is a stutter, the last call of a pass
  is `Defrag` and those before it stutter.  The lemmas `Same...` show that the
  operators of the instance, which differ from `BloomServer`'s only in the counters
  they are used with, are `BloomServer`'s.
- `SettledCountersMatch` follows as `CountersMatch` does, and with room
  in the counters gives what each gauge may show (`GaugesExact`).

**Only model-checked:**

- `ErrorsAreNotPropagated` for commands of several items, and with it `FailuresNotLogged`: with several
  items the hypothesis of `ReplicationIsDeterministic` is TLC's on run `replication`.  It is false in general
  (`replica_partial`).
- `Converges` and `PassEnds`: liveness and ENABLED are out of the prover's reach, so
  the fairness of `FairSpec` and `MSpec` is not used in any proof.  `StreamConverges` is the safety
  part of the first.

What recursive functions and folds (`MemoryUsage`, `NumItems`, `Capacity`, `Total`,
`Project`, `FilledCapacity`, the parsers' loops) compute is proved through the function or
sequence of turns each builds, by induction over sets of naturals; the library's
induction theorems, which take an operator, are not used.

## 5. Not modelled

ACL categories, command metadata and the version check of the module's
registration; reply formats and the layout of `INFO bf`; the failure of allocation
and of `set_value`; corrupt RDB images, encoding versions and aux data; the
digest's bytes; the parsing of `CONFIG SET` values; the `REPLICATED` flag used on
Valkey 8.0; what the server does when a snapshot is refused (it exits, or the
replica asks again); a torn AOF; promotion of a replica; several
replicas.

## 6. Plan

1. **Batches of several items on a primary**: `ErrorsAreNotPropagated` from `VecsCharged` for
   nodes that do not defragment, as `RefusalsAreClean` has it for a server.
2. **Valkey 8.0's `REPLICATED` flag**, under which the limits apply to a replay.
