---------------------------- MODULE MCActivation -----------------------------
(* Activation on small instances: a permanent schedule and an overlay of it. *)
EXTENDS Activation, TLC

CONSTANTS Permanent, Overlay, d1, d2, v1, v2, v3, rid1, rid2

MCRank == [k \in Keys |-> IF k = Overlay THEN 0 ELSE 1]
MCRidDate == [r \in Rids |-> IF r = rid1 THEN d1 ELSE d2]

\* Both schedules run on d1, only the permanent one on d2.
MCRunsOn ==
    {<<Permanent, d1>>, <<Overlay, d1>>, <<Permanent, d2>>} \cap (Keys \X Dates)

MCSymmetry == Permutations(Threads) \cup Permutations(Replicas)
==============================================================================
