------------------------- MODULE MCBloomMaintenance -------------------------
(***************************************************************************)
(* A small instance of BloomMaintenance for TLC.                           *)
(***************************************************************************)
EXTENDS MCBloomServer, BloomMaintenance

(* Run maintenance: objects of up to three filters of capacities 1, 2 and 4; two
   of them make an object that is defragmented in steps and freed in the
   background.  CONFIG SET switches defragmentation off and on. *)
MaintenanceConfig == [MCConfig EXCEPT !.limit = 800, !.cap = 1]

MaintenanceCommands == {Command("BF.MADD", key1, <<1, 2>>), Command("BF.MADD", key1, <<5, 4>>)}

DefragChanges == {<<"defrag", TRUE>>, <<"defrag", FALSE>>}

=============================================================================
