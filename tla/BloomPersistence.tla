-------------------------- MODULE BloomPersistence --------------------------
(***************************************************************************)
(* A server of BloomServer that is saved, stops and starts again.  Without *)
(* appendonly it starts from its last RDB snapshot; with it, from the AOF, *)
(* which is a base and the commands propagated since: the base is empty,   *)
(* or, once the AOF was rewritten with aof-use-rdb-preamble, an RDB image. *)
(* The AOF is taken to be fsynced before a reply; the start of a process   *)
(* whose RDB is refused is not a step, since it exits again.               *)
(***************************************************************************)
EXTENDS BloomServer, BloomTransfer

CONSTANTS
  AppendOnly,       \* the server's appendonly
  RestartConfigs,   \* the module's configurations it may be started with
  MaxLog            \* bound: no command is propagated to an AOF longer than this

ASSUME PersistenceAssumption ==
  /\ AppendOnly \in BOOLEAN
  /\ RestartConfigs \subseteq Config /\ RestartConfigs # {}
  /\ MaxLog \in Nat

VARIABLES
  up,      \* whether the process runs
  disk,    \* the RDB snapshot, or the base of the AOF
  log,     \* the commands of the AOF
  saved    \* history: what the next start is to bring back

pvars == <<vars, up, disk, log, saved>>

Contents == [keys |-> keys, acked |-> acked, promised |-> promised]

PInit ==
  /\ Init
  /\ up = TRUE
  /\ disk = keys
  /\ log = <<>>
  /\ saved = Contents

(************************ the server while it runs *************************)

\* The length of the AOF, a key of its base counted as a command.
AofLength == Cardinality({k \in Key : disk[k] # Absent}) + Len(log)

Propagate(cmds) ==
  /\ up /\ (AppendOnly => AofLength < MaxLog)
  /\ log' = IF AppendOnly THEN log \o cmds ELSE log
  /\ UNCHANGED <<up, disk, saved>>

Client(c) == (BfAdd(c) \/ BfInsert(c) \/ BfReserve(c)) /\ Propagate(last'.repl)

Delete(k) == Overwrite(k, Absent) /\ Propagate(<<DelCommand(k)>>)

SetString(k) == Overwrite(k, Foreign) /\ Propagate(<<SetCommand(k)>>)

CopyKey(src, dst) == Copy(src, dst) /\ Propagate(<<CopyCommand(src, dst)>>)

Unpropagated(k) ==
  /\ up
  /\ Defrag(k) \/ \E change \in ConfigChanges : ConfigSet(change[1], change[2])
  /\ UNCHANGED <<up, disk, log, saved>>

\* DUMP of src, and RESTORE of what it answered as dst.
Restore(src, dst) ==
  /\ IsObject(keys[src])
  /\ keys[dst] = Absent
  /\ LET image == RdbSave(keys[src])
         l     == RdbLoad(image, metrics, config.limit)
     IN  /\ keys' = [keys EXCEPT ![dst] = l.val]
         /\ metrics' = l.metrics
         /\ acked' = IF l.err = Ok THEN [acked EXCEPT ![dst] = acked[src]] ELSE acked
         /\ promised' = IF l.err = Ok
                        THEN [promised EXCEPT ![dst] = promised[src]] ELSE promised
         /\ Propagate(IF l.err = Ok THEN <<RestoreCommand(dst, image)>> ELSE <<>>)
  /\ last' = NoCommand
  /\ UNCHANGED config

(************************** saving and starting ****************************)

Save ==
  /\ up /\ ~ AppendOnly
  /\ disk' = Snapshot(keys)
  /\ saved' = Contents
  /\ UNCHANGED <<vars, up, log>>

\* The AOF is replaced by one command for each key.
RewriteAof ==
  /\ up /\ AppendOnly
  /\ disk' = [k \in Key |-> Absent]
  /\ log' = SetToSeq({LoadCommand(k, keys[k]) : k \in Objects}
                     \union {SetCommand(k) : k \in {j \in Key : keys[j] = Foreign}})
  /\ UNCHANGED <<vars, up, saved>>

\* The same under aof-use-rdb-preamble: the new AOF begins with an RDB image.
RewriteWithPreamble ==
  /\ up /\ AppendOnly
  /\ disk' = Snapshot(keys)
  /\ log' = <<>>
  /\ UNCHANGED <<vars, up, saved>>

Crash ==
  /\ up
  /\ up' = FALSE
  /\ keys' = [k \in Key |-> Absent]
  /\ metrics' = NoMetrics
  /\ acked' = [k \in Key |-> {}]
  /\ promised' = [k \in Key |-> 0]
  /\ saved' = IF AppendOnly THEN Contents ELSE saved
  /\ last' = NoCommand
  /\ UNCHANGED <<config, disk, log>>

StartedWith(n, cfg) ==
  /\ up' = TRUE
  /\ keys' = n.keys
  /\ metrics' = n.metrics
  /\ config' = cfg
  /\ acked' = saved.acked
  /\ promised' = saved.promised
  /\ UNCHANGED <<last, disk, log, saved>>

StartFromRdb(cfg) ==
  /\ ~ up /\ ~ AppendOnly
  /\ LoadSnapshot(disk, cfg.limit).err = Ok
  /\ StartedWith(LoadSnapshot(disk, cfg.limit), cfg)

\* A base that is refused stops the start; the errors of replayed commands do not.
StartFromAof(cfg) ==
  /\ ~ up /\ AppendOnly
  /\ LET base == LoadSnapshot(disk, cfg.limit)
     IN  /\ base.err = Ok
         /\ \E rnd \in RandomSeeds : StartedWith(Replay(base, log, cfg, rnd), cfg)

PNext ==
  \/ \E c \in Commands : Client(c)
  \/ \E k \in Key : Delete(k) \/ SetString(k) \/ Unpropagated(k)
  \/ \E src, dst \in Key : CopyKey(src, dst) \/ Restore(src, dst)
  \/ Save \/ RewriteAof \/ RewriteWithPreamble \/ Crash
  \/ \E cfg \in RestartConfigs : StartFromRdb(cfg) \/ StartFromAof(cfg)

PSpec == PInit /\ [][PNext]_pvars

(******************************* properties ********************************)

\* The limits a server can have run with, of which none is above the one that it
\* is started with.
LimitsInUse ==
  {InitialConfig.limit} \union {cfg.limit : cfg \in RestartConfigs}
  \union {change[2] : change \in {c \in ConfigChanges : c[1] = "limit"}}

LimitNotLowered == \A cfg \in RestartConfigs, limit \in LimitsInUse : limit <= cfg.limit

\* A server that starts has every object it is to bring back, down to the last
\* bit and item count: nothing that the RDB leaves out and nothing that a
\* propagated command takes from the configuration is lost.  From an RDB, if it
\* loads at all, under whatever configuration; from an AOF under whatever
\* configuration but one with a lower limit, under which validate_add_items
\* (src/bloom/command_handler.rs:55) refuses adds of the AOF, its client included.
RestartRestores ==
  [][~ up /\ up' /\ (AppendOnly => LimitNotLowered)
       => \A k \in Key : Logical(keys'[k]) = Logical(saved.keys[k])]_pvars

(******* what a comment and a test say, and not after a defragmentation *****)

\* src/bloom/data_type.rs:99, tests/test_bloom_defrag.py:186: a server can be
\* started from the snapshot it saved, under the limit it was saved with.
SnapshotLoads == LoadSnapshot(disk, config.limit).err = Ok

=============================================================================
