----------------------------- MODULE MCTimetables -----------------------------
(***************************************************************************)
(* How the timetables get into the databases and the trains are made of them, *)
(* checked side by side: in a behaviour one of the modules moves, the part     *)
(* chosen at the start, and the others stay in their initial states.          *)
(***************************************************************************)
EXTENDS FahrplanUpdater, OsmsLinking, OsmsSchedules

VARIABLE part

all == <<part, vars, linkvars, schedvars>>

MCInit == part \in {"job", "linking", "schedules"} /\ Init /\ LinkInit /\ SchedInit

JobMoves == part = "job" /\ Next /\ UNCHANGED <<part, linkvars, schedvars>>
LinkingMoves == part = "linking" /\ LinkNext /\ UNCHANGED <<part, vars, schedvars>>
\* Which movements a row is created with, or a duplicate is written with, tells nothing:
\* they are the same.
SchedulesMove ==
    /\ part = "schedules" /\ SchedNext
    /\ \A w \in Writers : \A k \in DOMAIN writes'[w] :
          k \in VstpKeys \/ k \notin DOMAIN scheds' =>
              writes'[w][k] \in {CHOOSE m \in Movements : TRUE, Gone}
    /\ UNCHANGED <<part, vars, linkvars>>

MCNext == JobMoves \/ LinkingMoves \/ SchedulesMove

-----------------------------------------------------------------------------
(* Fairness of the part that moves, as the modules have it                   *)

JobFairness ==
    /\ WF_vars(part = "job" /\ NewFile)
    /\ WF_vars(part = "job" /\ JobStep)
    /\ SF_vars(part = "job" /\ full /\ FetchFile(day))
    /\ SF_vars(part = "job" /\ ~full /\ FetchFile(day))

LinkingFairness == \A w \in LinkWorkers : WF_linkvars(part = "linking" /\ LinkStep(w))

SchedulesFairness ==
    WF_schedvars(part = "schedules" /\ (ListenerStep \/ \E g \in GeoThreads : GeoStep(g)))

MCSpec == MCInit /\ [][MCNext]_all /\ JobFairness /\ LinkingFairness /\ SchedulesFairness

-----------------------------------------------------------------------------
(* A property that says something of an initial state, of the part it is of  *)

\* CatchesUp: however often the job is killed or fails, the bucket's database
\* catches up with the last file.
JobCatchesUp == part = "job" => CatchesUp

-----------------------------------------------------------------------------
(* The invariants that the modules' theorems rest on, in one                 *)

\* Types, and the inductive invariants: ids are fresh and files in order in every
\* copy of the job's database, a TRUST ID is on one train, a worker's hand agrees
\* with the rows, and a schedule is in one thread's hands.
TimetablesHold == TypeOK /\ Inv /\ LinkInv /\ SchedInv
===============================================================================
