-------------------------- MODULE MCBloomRequests --------------------------
(***************************************************************************)
(* A small instance of BloomRequests for TLC.  A token of each kind that a *)
(* parser tells apart: every word, in one spelling; two rates; integers in *)
(* and out of the ranges; three seeds; one that is nothing but an item.    *)
(***************************************************************************)
EXTENDS BloomRequests

CONSTANTS key

Words ==
  {"ERROR", "TIGHTENING", "CAPACITY", "SEED", "NOCREATE", "NONSCALING",
   "EXPANSION", "VALIDATESCALETO", "ITEMS"}

Reading(f, rest) == [t \in Token |-> IF t \in DOMAIN f THEN f[t] ELSE rest]

Integers0 == [n \in {"0", "1", "2", "3", "2000"} |->
                CASE n = "0" -> 0 [] n = "1" -> 1 [] n = "2" -> 2 [] n = "3" -> 3
                  [] n = "2000" -> 2000]

MCSeeds == {"seed-fixed", "seed-random1", "seed-random2"}

MCToken == Words \union {"0.5", "0.25"} \union DOMAIN Integers0 \union MCSeeds \union {"x", key}

MCAsWord == Reading([w \in Words |-> w], "")

\* The integers are rates, too, and 0 < rate < 1 does not hold of them.
MCAsRate ==
  [t \in Token |-> CASE t = "0.5" -> 1 [] t = "0.25" -> 2 [] t \in DOMAIN Integers0 -> Outside
                     [] OTHER -> Malformed]

MCAsInteger == Reading(Integers0, Malformed)

MCAsSeed == Reading([s \in MCSeeds |-> s], Malformed)

\* Items collide pairwise under every seed.
MCHash ==
  [p \in MCSeeds \X Token |->
     CASE p[2] \in Words                    -> {0, 1}
       [] p[2] \in {"x", "1", "seed-fixed"} -> {1, 2}
       [] OTHER                             -> IF p[1] = "seed-fixed" THEN {0, 2} ELSE {3, 9}]

(* Run requests: a node with scaling, randomly seeded objects by default, and
   one with other defaults for everything but the limit. *)
ScalingConfig ==
  [limit |-> 520, cap |-> 2, expansion |-> 2, fp |-> 2, tr |-> 1,
   randomSeed |-> TRUE, defrag |-> TRUE]

MCConfigs ==
  {ScalingConfig,
   [ScalingConfig EXCEPT !.cap = 1, !.expansion = 0, !.fp = 1, !.tr = 2, !.randomSeed = FALSE]}

=============================================================================
