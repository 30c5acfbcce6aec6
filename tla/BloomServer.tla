----------------------------- MODULE BloomServer -----------------------------
(***************************************************************************)
(* One Valkey server running the module: its keyspace, the module's        *)
(* configuration and its counters.  The server executes one command at a   *)
(* time, so a command is one step.  Clients send the commands in Commands; *)
(* the server itself deletes, overwrites and copies keys, changes the      *)
(* configuration and runs active defragmentation in between.               *)
(***************************************************************************)
EXTENDS BloomCommands

CONSTANTS
  Commands,        \* the BF.ADD, BF.MADD, BF.RESERVE and BF.INSERT of clients
  InitialConfig,   \* the values the module is loaded with
  ConfigChanges    \* <<name, value>> pairs that CONFIG SET may apply

ASSUME CommandAssumption ==
  /\ Commands \subseteq CommandType
  /\ \A c \in Commands :
       /\ c.name = "BF.ADD" => Len(c.items) = 1
       /\ c.name = "BF.MADD" => c.items # <<>>
       /\ c.name = "BF.RESERVE" => c.items = <<>>
       /\ c.name # "BF.INSERT" => c.scaleTo = Unset
ASSUME ConfigAssumption ==
  /\ InitialConfig \in Config
  /\ \A change \in ConfigChanges :
       /\ change[1] \in DOMAIN InitialConfig
       /\ [InitialConfig EXCEPT ![change[1]] = change[2]] \in Config

VARIABLES
  keys,       \* what each key holds
  config,     \* the bloom-* configuration
  metrics,    \* the counters of src/metrics.rs
  last,       \* the last client command, its reply and its effects
  acked,      \* history: the items whose add was acknowledged, per key
  promised    \* history: the VALIDATESCALETO a key was created with, or 0

vars == <<keys, config, metrics, last, acked, promised>>

NoCommand ==
  [cmd |-> Unset, reply |-> [err |-> Ok, ints |-> <<>>], repl |-> <<>>, events |-> {}]

Init ==
  /\ keys = [k \in Key |-> Absent]
  /\ config = InitialConfig
  /\ metrics = NoMetrics
  /\ last = NoCommand
  /\ acked = [k \in Key |-> {}]
  /\ promised = [k \in Key |-> 0]

(***************************** client commands *****************************)

RandomSeeds == Seeds \ {FixedSeed}

\* The step of a command whose handler answered out.
Perform(c, out) ==
  /\ keys' = [keys EXCEPT ![c.key] = out.val]
  /\ metrics' = out.metrics
  /\ last' = [cmd |-> c, reply |-> out.reply, repl |-> out.repl, events |-> out.events]
  /\ acked' = IF out.reply.err = Ok
              THEN [acked EXCEPT ![c.key] = @ \union Range(c.items)] ELSE acked
  /\ promised' = IF keys[c.key] = Absent /\ out.reply.err = Ok
                 THEN [promised EXCEPT ![c.key] = Given(c.scaleTo, 0)] ELSE promised
  /\ UNCHANGED config

BfAdd(c) ==
  /\ c.name \in {"BF.ADD", "BF.MADD"}
  /\ \E rnd \in RandomSeeds :
       Perform(c, BloomFilterAddValue(c, keys[c.key], config, metrics, FALSE, rnd))

BfInsert(c) ==
  /\ c.name = "BF.INSERT"
  /\ \E rnd \in RandomSeeds :
       Perform(c, BloomFilterInsert(c, keys[c.key], config, metrics, FALSE, rnd))

BfReserve(c) ==
  /\ c.name = "BF.RESERVE"
  /\ \E rnd \in RandomSeeds :
       Perform(c, BloomFilterReserve(c, keys[c.key], config, metrics, FALSE, rnd))

\* BF.LOAD of the encoding o, whose items are those acknowledged under src.
LoadEncoding(o, src, dst) ==
  /\ LET c   == [Command("BF.LOAD", dst, <<>>) EXCEPT !.dump = o]
         out == BloomFilterLoad(c, keys[dst], config, metrics, FALSE)
     IN  /\ keys' = [keys EXCEPT ![dst] = out.val]
         /\ metrics' = out.metrics
         /\ last' = [cmd |-> c, reply |-> out.reply, repl |-> out.repl,
                     events |-> out.events]
         /\ acked' = IF out.reply.err = Ok
                     THEN [acked EXCEPT ![dst] = acked[src]] ELSE acked
  /\ UNCHANGED <<config, promised>>

\* BF.LOAD of what AOF rewriting would write for the object at src.
BfLoad(src, dst) == IsObject(keys[src]) /\ LoadEncoding(keys[src], src, dst)

\* The same of bytes whose tightening ratio is out of range, as in utils.rs:1306.
BfLoadOutOfRange(src, dst) ==
  IsObject(keys[src]) /\ LoadEncoding([keys[src] EXCEPT !.tr = 0], src, dst)

(**************************** the server's steps ***************************)

Freed(k) == IF IsObject(keys[k]) THEN DropObject(metrics, keys[k]) ELSE metrics

\* DEL, expiry or eviction (v = Absent); SET of a string (v = Foreign).
Overwrite(k, v) ==
  /\ keys[k] # v
  /\ keys' = [keys EXCEPT ![k] = v]
  /\ metrics' = Freed(k)
  /\ acked' = [acked EXCEPT ![k] = {}]
  /\ promised' = [promised EXCEPT ![k] = 0]
  /\ last' = NoCommand
  /\ UNCHANGED config

Copy(src, dst) ==
  /\ IsObject(keys[src])
  /\ keys[dst] = Absent
  /\ keys' = [keys EXCEPT ![dst] = keys[src]]
  /\ metrics' = CopyMetrics(metrics, keys[src])
  /\ acked' = [acked EXCEPT ![dst] = acked[src]]
  /\ promised' = [promised EXCEPT ![dst] = promised[src]]
  /\ last' = NoCommand
  /\ UNCHANGED config

ConfigSet(name, value) ==
  /\ config[name] # value
  /\ config' = [config EXCEPT ![name] = value]
  /\ last' = NoCommand
  /\ UNCHANGED <<keys, metrics, acked, promised>>

\* bloom_defrag, seen from the last call of a pass: the Vec is reallocated
\* without its slack.  The calls before it move allocations only.
Defrag(k) ==
  /\ config.defrag
  /\ IsObject(keys[k])
  /\ keys[k].vcap > Len(keys[k].filters)
  /\ keys' = [keys EXCEPT ![k].vcap = Len(keys[k].filters)]
  /\ metrics' = Lose(metrics, [NoMetrics EXCEPT
                   !.bytes = (keys[k].vcap - Len(keys[k].filters)) * BoxBytes])
  /\ last' = NoCommand
  /\ UNCHANGED <<config, acked, promised>>

Next ==
  \/ \E k \in Key : Overwrite(k, Absent) \/ Overwrite(k, Foreign) \/ Defrag(k)
  \/ \E change \in ConfigChanges : ConfigSet(change[1], change[2])
  \/ \E c \in Commands : BfAdd(c) \/ BfInsert(c) \/ BfReserve(c)
  \/ \E src, dst \in Key : BfLoad(src, dst) \/ Copy(src, dst)

Spec == Init /\ [][Next]_vars

\* The same when an encoding is loaded that decode_object rejects.
SpecWithRejects == Init /\ [][Next \/ \E src, dst \in Key : BfLoadOutOfRange(src, dst)]_vars

(******************************* properties ********************************)

\* Type correctness of the server's state: what BloomObject, BloomFilter, the
\* configuration and the counters may hold.
TypeOK ==
  /\ keys \in [Key -> Object \union {Absent, Foreign}]
  /\ config \in Config
  /\ metrics \in Counters
  /\ acked \in [Key -> SUBSET Item]
  /\ promised \in [Key -> 0..CapacityMax]

Objects == {k \in Key : IsObject(keys[k])}

\* Every object a run of commands, copies, loads and defragmentation can build
\* has the shape that rdb_save and replication reconstruct it from.
ShapeInv == \A k \in Objects : WellFormed(keys[k])

\* A bloom filter has no false negatives: an item whose add was acknowledged is
\* reported by BF.EXISTS as long as the key lives, across scale-outs, failed
\* adds, COPY, BF.LOAD and defragmentation.
NoFalseNegatives == \A k \in Objects : \A x \in acked[k] : ItemExists(keys[k], x)

\* Counters that have counted f[k] for every key k.
Total(f) == FoldSet(LAMBDA k, m : Gain(m, f[k]), NoMetrics, Key)

\* The counters of INFO bf equal the sums over the live objects: no constructor
\* forgets an increment and no Drop or failed command a decrement.
MetricsMatch ==
  metrics = Total([k \in Key |-> Figures(keys[k])])

\* A command of BF.ADD's family.
IsAdd(c) == c # Unset /\ c.name \in {"BF.ADD", "BF.MADD", "BF.INSERT"}

\* An acknowledged add answers 1 for exactly as many items as it made BF.CARD
\* grow by, duplicates within the command and false positives included.
RepliesCountItems ==
  [][IsAdd(last'.cmd) /\ last'.reply.err = Ok =>
       NumItemsAt(keys'[last'.cmd.key]) - NumItemsAt(keys[last'.cmd.key])
         = Cardinality({i \in DOMAIN last'.reply.ints : last'.reply.ints[i] = 1})]_vars

\* A client command is propagated if and only if it changed its key, bloom.add
\* is published exactly when items went in, bloom.reserve exactly when an
\* object was created.
EffectsMatchChange ==
  [][last'.cmd # Unset =>
       LET k == last'.cmd.key
       IN  /\ last'.repl # <<>> <=> keys'[k] # keys[k]
           /\ "bloom.reserve" \in last'.events <=> IsObject(keys'[k]) /\ ~ IsObject(keys[k])
           /\ IsAdd(last'.cmd) =>
                ("bloom.add" \in last'.events
                   <=> NumItemsAt(keys'[k]) > NumItemsAt(keys[k]))]_vars

\* An object only grows: until its key is deleted no step changes its rate,
\* tightening, expansion or seed, drops or resizes a filter, or clears a bit.
ObjectsOnlyGrow ==
  [][\A k \in Objects : IsObject(keys'[k]) => Grown(keys[k], keys'[k])]_vars

\* A command that is refused on an existing key leaves no trace: the multi-item
\* adds are all or nothing, nothing is propagated and no event is published.
\* The exception, a batch after a defragmentation, is in BloomReplication.
RefusalsLeaveNoTrace ==
  [][last'.cmd # Unset /\ last'.reply.err # Ok /\ keys[last'.cmd.key] # Absent =>
       UNCHANGED <<keys, metrics>> /\ last'.repl = <<>> /\ last'.events = {}]_vars

\* While the limit stays what it is, an object's memory is within the limit
\* once the slots that the last push added to its Vec are set aside.
MemoryWithinLimit ==
  \A k \in Objects :
    ObjectSize(Max({1, Len(keys[k].filters) - 1})) + FiltersSize(keys[k]) <= config.limit

\* VALIDATESCALETO is kept: an add to an object that was created with it does
\* not fail while it stays within the capacity that was validated.
ScaleToHonoured ==
  [][LET c == last'.cmd
         covered == /\ IsAdd(c) /\ c.scaleTo = Unset
                    /\ IsObject(keys[c.key])
                    /\ NumItems(keys[c.key]) + Len(c.items) <= promised[c.key]
     IN  covered => last'.reply.err = Ok]_vars

\* The capacity of o once it was filled and scaled out until an add fails.
FilledCapacity(o, limit) ==
  LET full(p)    == [p EXCEPT !.filters[Len(p.filters)].num = Last(p.filters).cap]
      item       == CHOOSE x \in Item : TRUE
      fill[p \in {q \in Object : WellFormed(q)}] ==
        IF ScaleOutError(full(p), TRUE, limit) # Ok THEN Capacity(p)
        ELSE fill[ScaledOut(full(p), item)]
  IN  fill[o]

\* src/bloom/utils.rs:547: the MAXSCALEDCAPACITY that BF.INFO reports of an
\* object can be reached by adding to it; the projection and the adds, each with
\* its own arithmetic of filters and Vec, stop at different places, but never
\* the adds first.
ProjectionIsReached ==
  \A k \in Objects :
    LET max == MaxScaledCapacity(keys[k], config.limit)
    IN  keys[k].expansion > 0 /\ max.err = Ok =>
          max.capacity <= FilledCapacity(keys[k], config.limit)

=============================================================================
