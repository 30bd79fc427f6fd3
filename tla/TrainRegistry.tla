---------------------------- MODULE TrainRegistry ----------------------------
(***************************************************************************)
(* What tspl-zugfuhrer promises about the trains it keeps, whoever          *)
(* activates them and however often: a run (one schedule on one date) is    *)
(* entered once, possibly as a stub with no movements, and is filled once,  *)
(* with the movements of one version of its own schedule.                   *)
(***************************************************************************)
CONSTANTS
    Keys,       \* schedules: (uid, start_date, stp_indicator, source)
    Dates,      \* dates on which a schedule may run
    Versions,   \* tspl_ids of schedule versions
    None        \* no schedule

VARIABLES
    status,     \* run -> "absent", "stub" or the version it was filled from
    publisher   \* version -> the schedule it is a version of, or None

Runs == Keys \X Dates
Init ==
    /\ status = [r \in Runs |-> "absent"]
    /\ publisher = [v \in Versions |-> None]

\* A version is given to a schedule for good.
Publish(v) ==
    /\ publisher[v] = None
    /\ \E k \in Keys : publisher' = [publisher EXCEPT ![v] = k]
    /\ UNCHANGED status

Enter(r) ==
    /\ status[r] = "absent"
    /\ status' = [status EXCEPT ![r] = "stub"]
    /\ UNCHANGED publisher

Fill(r, v) ==
    /\ status[r] \in {"absent", "stub"}
    /\ publisher[v] = r[1]
    /\ status' = [status EXCEPT ![r] = v]
    /\ UNCHANGED publisher

Next ==
    \/ \E v \in Versions : Publish(v)
    \/ \E r \in Runs : Enter(r) \/ \E v \in Versions : Fill(r, v)

Spec == Init /\ [][Next]_<<status, publisher>>
==============================================================================
