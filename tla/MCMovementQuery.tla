--------------------------- MODULE MCMovementQuery ----------------------------
(* MovementQuery with two permanent schedules of a uid, an overlay and a       *)
(* cancellation; an overlay's call was reported and estimated.                 *)
EXTENDS MovementQuery

MCUid == [s \in Schedules |-> "C10000"]
MCStp == [s \in Schedules |-> CASE s = 3 -> 3 [] s = 4 -> 1 [] OTHER -> 4]
MCParent == [m \in Mvts |-> IF m = 2 THEN 3 ELSE 1]
MCUpdates ==
    {[mvt |-> 2, source |-> "TRUST", time |-> 1], [mvt |-> 2, source |-> "DARWIN", time |-> 1]}
==============================================================================
