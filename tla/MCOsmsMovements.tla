--------------------------- MODULE MCOsmsMovements ----------------------------
(* OsmsMovements with a train that sets off at ten at night and makes its last *)
(* call after midnight.                                                       *)
EXTENDS OsmsMovements

MCTimeOf == [s \in BaseStops |-> CASE s = 1 -> 22 [] s = 2 -> 23 [] OTHER -> 1]
===============================================================================
