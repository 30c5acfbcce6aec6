---------------------------- MODULE MCBloomServer ----------------------------
(***************************************************************************)
(* Small instances of BloomServer for TLC.  Items are the numbers 1, 2, .. *)
(* The sizes are those of a 64-bit build, so that the limits below are     *)
(* real numbers of bytes: a one-filter object of capacity 1 takes 265.     *)
(***************************************************************************)
EXTENDS BloomImages

CONSTANTS key1, key2, NumberOfItems

\* Item 3 collides with what items 1 and 2 set together in a one-byte vector,
\* and with nothing in a longer one, so both outcomes of a check occur.
HashOf(i) == CASE i = 1 -> {0, 1} [] i = 2 -> {2, 11} [] i = 3 -> {1, 10}
               [] OTHER -> {i, 9 * i + 1}

MCItem == 1..NumberOfItems
MCSeeds == {"fixed", "random"}
MCHash == [p \in MCSeeds \X MCItem |->
             IF p[1] = "fixed" THEN HashOf(p[2]) ELSE {h + 1 : h \in HashOf(p[2])}]
MCDumpItem == 1

MCConfig ==
  [limit |-> 1000, cap |-> 2, expansion |-> 2, fp |-> 2, tr |-> 1,
   randomSeed |-> FALSE, defrag |-> TRUE]

Bytes(n) == ObjectBytes + n * (BoxBytes + FilterBytes + 1)

(* Run server: two keys, creation by every command, scaling and non scaling
   objects of up to three filters, random and fixed seeds, and a limit that
   CONFIG SET lowers to just above one filter and raises again.  CapacityMax is
   7, so that growing from 2 by a factor of 4 overflows.  In the batch of 2, 1, 3
   the first two set what 3 hashes to before it is added. *)
ServerConfig == [MCConfig EXCEPT !.limit = 800, !.randomSeed = TRUE]

ServerCommands ==
  {Command("BF.ADD", key1, <<i>>) : i \in {1, 3}}
  \union {Command("BF.MADD", key1, <<2, 1, 2>>), Command("BF.ADD", key2, <<1>>)}
  \union {[Command("BF.RESERVE", key1, <<>>) EXCEPT !.fp = 1, !.cap = 1, !.expansion = 0],
          [Command("BF.INSERT", key2, <<3, 2>>) EXCEPT !.expansion = 4],
          [Command("BF.INSERT", key2, <<2, 1, 3>>) EXCEPT !.cap = 3, !.fp = 1],
          [Command("BF.INSERT", key1, <<1>>) EXCEPT !.nocreate = TRUE],
          [Command("BF.INSERT", key1, <<>>) EXCEPT
             !.scaleTo = 3, !.cap = 1, !.expansion = 1, !.seed = "fixed"]}

NoChanges == {}

LimitChanges == {<<"limit", 300>>, <<"limit", 800>>}

(* Run growth: one key and objects that grow one small filter at a time under
   a limit that never changes.  The limit lies between what the projection
   charges for a fifth filter (a Vec of 8) and what BF.ADD does (a Vec of 4). *)
GrowthConfig == [MCConfig EXCEPT !.limit = 1140, !.cap = 1, !.expansion = 1, !.fp = 1,
                                 !.defrag = FALSE]

GrowthCommands ==
  {Command("BF.ADD", key1, <<i>>) : i \in MCItem}
  \union {Command("BF.MADD", key1, <<i, i + 1, i + 2>>) : i \in {1, 3, 4}}
  \union {[Command("BF.INSERT", key1, <<>>) EXCEPT !.scaleTo = n, !.expansion = e]
            : n \in {4, 5}, e \in {1, 2}}

=============================================================================
