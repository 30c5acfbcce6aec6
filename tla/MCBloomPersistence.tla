------------------------- MODULE MCBloomPersistence -------------------------
(***************************************************************************)
(* Small instances of BloomPersistence for TLC.                            *)
(***************************************************************************)
EXTENDS MCBloomServer, BloomPersistence

(* Run rdb_restart: objects of up to two filters, the second key filled by COPY
   and RESTORE only.  The configuration file has the limit the server starts
   with or one that is below two filters; CONFIG SET switches between them. *)
RdbConfig == [MCConfig EXCEPT !.limit = 560, !.cap = 1, !.randomSeed = TRUE]

RdbCommands == {Command("BF.ADD", key1, <<3>>), Command("BF.MADD", key1, <<2, 1>>)}

RdbLimitChanges == {<<"limit", 300>>, <<"limit", 560>>}

RdbRestarts == {RdbConfig, [RdbConfig EXCEPT !.limit = 300]}

(* Run aof_restart: the server comes back with other defaults than those its
   objects were created with, and a higher limit.  A lower one would lose items:
   see RestartRestores. *)
AofCommands ==
  {Command("BF.MADD", key1, <<2, 1>>),
   [Command("BF.INSERT", key1, <<3>>) EXCEPT !.scaleTo = 2]}

AofRestarts ==
  {[RdbConfig EXCEPT !.cap = 2, !.expansion = 1, !.fp = 1, !.tr = 3, !.randomSeed = FALSE,
                    !.limit = 800]}

(* Run rdb_defragged: filters of one item and a limit of 700.  The third filter
   makes 691 bytes with the Vec of 2 that a defragmentation leaves, and 707 with
   the Vec of 4 that a load has pushed the second onto. *)
TightConfig == [MCConfig EXCEPT !.limit = 700, !.cap = 1, !.expansion = 1, !.fp = 1]

TightCommands == {Command("BF.ADD", key1, <<i>>) : i \in {1, 2, 5}}

TightRestarts == {TightConfig}

=============================================================================
