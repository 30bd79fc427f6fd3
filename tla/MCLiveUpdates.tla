--------------------------- MODULE MCLiveUpdates -----------------------------
(* LiveUpdates on small instances. *)
EXTENDS LiveUpdates, TLC

VARIABLE nrod   \* the TRUST workers that there are

\* One TRUST worker and all calls, or all TRUST workers and the last call only, beside
\* the Darwin workers.
MCInit == Init /\ nrod \in {{CHOOSE w \in Nrod : TRUE}, Nrod}

MCNext ==
    /\ \/ \E w \in nrod : NrodStep(w)
       \/ \E w \in Darwin : DarwinStep(w)
       \/ RestartNrod \/ RestartZugfuhrer
    /\ nrod = Nrod => \A w \in Workers :
          job'[w].update # None => job'[w].update.call = LastCall
    /\ UNCHANGED nrod

MCSpec == MCInit /\ [][MCNext]_<<vars, nrod>>

MCSymmetry == Permutations(Darwin) \cup Permutations(Times)
==============================================================================
