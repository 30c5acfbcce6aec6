------------------------- MODULE MCBloomReplication -------------------------
(***************************************************************************)
(* Small instances of BloomReplication for TLC: items, hashes and sizes as *)
(* in MCBloomServer.                                                       *)
(***************************************************************************)
EXTENDS BloomReplication

CONSTANTS key1, key2, NumberOfItems

HashOf(i) == CASE i = 1 -> {0, 1} [] i = 2 -> {2, 11} [] i = 3 -> {1, 10}
               [] OTHER -> {i, 9 * i + 1}

MCItem == 1..NumberOfItems
MCSeeds == {"fixed", "random1", "random2"}
MCHash == [p \in MCSeeds \X MCItem |->
             IF p[1] = "fixed" THEN HashOf(p[2]) ELSE {h + 1 : h \in HashOf(p[2])}]
MCDumpItem == 3

MCConfig ==
  [limit |-> 800, cap |-> 1, expansion |-> 2, fp |-> 2, tr |-> 1,
   randomSeed |-> TRUE, defrag |-> TRUE]

(* Run replication: the replica has other defaults, the same limit and a random
   seed of its own to draw. *)
OtherConfig == [MCConfig EXCEPT !.cap = 3, !.expansion = 1, !.fp = 1, !.tr = 3]

MCCommands ==
  {Command("BF.ADD", key1, <<3>>), Command("BF.MADD", key1, <<2, 1>>),
   [Command("BF.RESERVE", key1, <<>>) EXCEPT !.fp = 1, !.cap = 2, !.expansion = 0],
   [Command("BF.INSERT", key1, <<1, 3>>) EXCEPT !.scaleTo = 3]}

(* Run replica_creation: a batch that does not fit the object it creates. *)
NonScaling == [MCConfig EXCEPT !.expansion = 0]

BatchCommands == {Command("BF.MADD", key1, <<1, 2>>)}

(* Run replica_partial: five filters of one item, the complete defragmentation
   of the primary, and a batch that needs a sixth and a seventh filter.  The
   limit lies between the Vec of 8 that is validated and the one of 10 that the
   primary pushes to. *)
PartialConfig == [MCConfig EXCEPT !.limit = 1585, !.expansion = 1, !.fp = 1,
                                  !.randomSeed = FALSE]

PartialCommands ==
  {Command("BF.ADD", key1, <<i>>) : i \in 1..5} \union {Command("BF.MADD", key1, <<6, 7>>)}

=============================================================================
