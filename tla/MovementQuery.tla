---------------------------- MODULE MovementQuery -----------------------------
(***************************************************************************)
(* "What calls at this station today?": tspl-verknupfen asks tspl-fahrplan  *)
(* for the schedules and tspl-zugfuhrer for the trains, one after the other, *)
(* and merges the answers, while schedules are imported and trains activated *)
(* and reported.  Or else a uid's schedule is looked up, for an activation.  *)
(* Requests only read, so one stands for all.  SQLite gives the rows of a    *)
(* query in any order.                                                       *)
(***************************************************************************)
EXTENDS Integers, FiniteSets

CONSTANTS
    Schedules,  \* ids of schedules that run on the day
    Uid, Stp,   \* their uid and the rank of their stp_indicator, C < N < O < P
    Mvts,       \* ids of their movements at the station
    Parent,     \* the schedule of a movement
    Updates,    \* updates of movements of trains: mvt, source, time
    None,       \* no schedule, no update
    Equal       \* the error StpIndicatorsEqual

Uids == {Uid[s] : s \in Schedules}
Cancel == 1

ASSUME DataAssumption ==
    /\ Schedules \subseteq Nat /\ Mvts \subseteq Nat
    /\ Stp \in [Schedules -> 1 .. 4]
    /\ DOMAIN Uid = Schedules
    /\ Parent \in [Mvts -> Schedules]
    /\ \A u \in Updates : u.mvt \in Mvts /\ u.source \in {"TRUST", "DARWIN"}
    /\ None \notin Schedules /\ None \notin Updates
    /\ Equal \notin Schedules \cup {None}

VARIABLES
    present,    \* schedules in the database of tspl-fahrplan
    trains,     \* schedules with a train
    updates,    \* what was recorded of the trains' movements
    pc,         \* where the query stands
    held,       \* the schedules in its snapshot of the database
    rows,       \* rows of the join not processed: <<movement, updating schedule>>
    by_uid,     \* process_schedule_join's map
    mvts, schedules,        \* tspl-fahrplan's answer
    answer,     \* tspl-zugfuhrer's answer: the updates of each movement
    todo,       \* those not processed
    merged,     \* the update that the trains' movements go by
    shown,      \* the result
    found, looked,          \* schedules of the uid looked up; those not considered
    auth        \* the authoritative one so far, or Equal

tables == <<present, trains, updates>>
fahrplan == <<held, rows, by_uid, mvts, schedules>>
zugfuhrer == <<answer, todo, merged>>
lookup == <<found, looked, auth>>
vars == <<tables, pc, fahrplan, zugfuhrer, shown, lookup>>

Shown == [src : {"train", "schedule"}, of : Nat, mvt : Mvts]

TypeOK ==
    /\ present \subseteq Schedules /\ trains \subseteq Schedules
    /\ updates \subseteq Updates
    /\ pc \in {"idle", "join", "ask", "merge", "done", "lookup"}
    /\ held \subseteq Schedules
    /\ rows \subseteq Mvts \X Schedules
    /\ by_uid \in [Uids -> Schedules \cup {None}]
    /\ mvts \subseteq Mvts /\ schedules \subseteq Schedules
    /\ answer \in [mvts : SUBSET Mvts, updates : SUBSET Updates]
    /\ todo \subseteq Updates
    /\ merged \in [answer.mvts -> Updates \cup {None}]
    /\ shown \subseteq Shown
    /\ found \subseteq Schedules /\ looked \subseteq found
    /\ auth \in Schedules \cup {None, Equal}

NoAnswer == [mvts |-> {}, updates |-> {}]
Init ==
    /\ present \in SUBSET Schedules
    /\ trains = {} /\ updates = {}
    /\ pc = "idle"
    /\ held = {} /\ rows = {} /\ by_uid = [u \in Uids |-> None]
    /\ mvts = {} /\ schedules = {}
    /\ answer = NoAnswer /\ todo = {} /\ merged = [m \in {} |-> None]
    /\ shown = {}
    /\ found = {} /\ looked = {} /\ auth = None

-----------------------------------------------------------------------------
(* The tables change under the query                                        *)

\* An import adds a schedule or takes one away.
ImportSchedule(s) ==
    /\ present' = IF s \in present THEN present \ {s} ELSE present \cup {s}
    /\ UNCHANGED <<trains, updates, pc, fahrplan, zugfuhrer, shown, lookup>>

\* A train is activated, with copies of the movements.
ActivateTrain(s) ==
    /\ s \in present \ trains
    /\ trains' = trains \cup {s}
    /\ UNCHANGED <<present, updates, pc, fahrplan, zugfuhrer, shown, lookup>>

\* A report is recorded, or an estimate that replaces the one before.
RecordUpdate(u) ==
    /\ Parent[u.mvt] \in trains
    /\ updates' = {u} \cup
           (updates \ {o \in updates : /\ o.mvt = u.mvt
                                       /\ o.source = "DARWIN" /\ u.source = "DARWIN"})
    /\ UNCHANGED <<present, trains, pc, fahrplan, zugfuhrer, shown, lookup>>

-----------------------------------------------------------------------------
(* tspl-fahrplan: get_mvts_passing_through                                  *)

\* The rows: a movement, with its schedule, and any schedule of the same uid.
Rows(db) ==
    {r \in Mvts \X db : Parent[r[1]] \in db /\ Uid[Parent[r[1]]] = Uid[r[2]]}
StartQuery ==
    /\ pc = "idle"
    /\ held' = present
    /\ rows' = Rows(present)
    /\ pc' = "join"
    /\ UNCHANGED <<tables, by_uid, mvts, schedules, zugfuhrer, shown, lookup>>

\* Mutant: the schedule that may supersede is not compared.
JoinFirst(old, sched, updating) == IF old = None THEN sched ELSE old
\* process_schedule_join
Join(old, sched, updating) ==
    LET current == IF old = None THEN sched ELSE old
    IN  IF Stp[updating] < Stp[current] THEN updating ELSE current

ProcessRow(r) ==
    /\ pc = "join"
    /\ r \in rows
    /\ rows' = rows \ {r}
    /\ mvts' = mvts \cup {r[1]}
    /\ by_uid' = [by_uid EXCEPT ![Uid[r[2]]] = Join(@, Parent[r[1]], r[2])]
    /\ UNCHANGED <<tables, pc, held, schedules, zugfuhrer, shown, lookup>>

\* Only movements of the schedules that were not superseded are returned.
EndJoin ==
    /\ pc = "join" /\ rows = {}
    /\ schedules' = {by_uid[u] : u \in Uids} \ {None}
    /\ mvts' = {m \in mvts : Parent[m] \in schedules'}
    /\ pc' = "ask"
    /\ UNCHANGED <<tables, held, rows, by_uid, zugfuhrer, shown, lookup>>

-----------------------------------------------------------------------------
(* tspl-zugfuhrer, and the merge in tspl-verknupfen                         *)

\* The original movements of the trains, each first in its list, with their
\* updates; schedules that have a train are dropped.
AskZugfuhrer ==
    /\ pc = "ask"
    /\ answer' = LET ms == {m \in Mvts : Parent[m] \in trains}
                 IN  [mvts |-> ms, updates |-> {u \in updates : u.mvt \in ms}]
    /\ todo' = answer'.updates
    /\ merged' = [m \in answer'.mvts |-> None]
    /\ schedules' = schedules \ {Parent[m] : m \in answer'.mvts}
    /\ pc' = "merge"
    /\ UNCHANGED <<tables, held, rows, by_uid, mvts, shown, lookup>>

IsReport(update) == update \in {u \in Updates : u.source = "TRUST"}
\* Mutant: the last update wins.
MergeLast(old, u) == u
\* A report takes the place of anything, an estimate not that of a report.
Merge(old, u) ==
    IF u.source = "DARWIN" /\ IsReport(old) THEN old ELSE u

ProcessUpdate(u) ==
    /\ pc = "merge"
    /\ u \in todo
    /\ todo' = todo \ {u}
    /\ merged' = [merged EXCEPT ![u.mvt] = Merge(@, u)]
    /\ UNCHANGED <<tables, pc, fahrplan, answer, shown, lookup>>

\* The movement's id is taken for its schedule's.
ShowSchedules == {[src |-> "schedule", of |-> m, mvt |-> m] : m \in mvts \cap schedules}
ShowTrains == {[src |-> "train", of |-> Parent[m], mvt |-> m] : m \in answer.mvts}

EndQuery ==
    /\ pc = "merge" /\ todo = {}
    /\ shown' = ShowTrains \cup ShowSchedules
    /\ pc' = "done"
    /\ UNCHANGED <<tables, fahrplan, zugfuhrer, lookup>>

-----------------------------------------------------------------------------
(* tspl-fahrplan: get_auth_schedule                                         *)

StartLookup(uid) ==
    /\ pc = "idle" /\ pc' = "lookup"
    /\ found' = {s \in present : Uid[s] = uid}
    /\ looked' = found'
    /\ auth' = None
    /\ UNCHANGED <<tables, fahrplan, zugfuhrer, shown>>

\* Mutant: a schedule that comes later supersedes an equal one.
ConsiderAnyway(other, s) ==
    IF other = None \/ Stp[s] <= Stp[other] THEN s ELSE other
\* Two that are equal, unless they cancel, are an error.
Consider(other, s) ==
    IF other = None \/ Stp[s] < Stp[other] THEN s
    ELSE IF Stp[s] = Stp[other] /\ Stp[s] # Cancel THEN Equal
    ELSE other

ConsiderSchedule(s) ==
    /\ s \in looked
    /\ auth # Equal
    /\ looked' = looked \ {s}
    /\ auth' = Consider(auth, s)
    /\ UNCHANGED <<tables, pc, fahrplan, zugfuhrer, shown, found>>

Next ==
    \/ \E s \in Schedules : ImportSchedule(s) \/ ActivateTrain(s) \/ ConsiderSchedule(s)
    \/ \E u \in Updates : RecordUpdate(u) \/ ProcessUpdate(u)
    \/ \E r \in Mvts \X Schedules : ProcessRow(r)
    \/ \E uid \in Uids : StartLookup(uid)
    \/ StartQuery \/ EndJoin \/ AskZugfuhrer \/ EndQuery

Spec == Init /\ [][Next]_vars

-----------------------------------------------------------------------------
(* Properties                                                               *)

\* Whatever the order of the rows, tspl-fahrplan returns the movements of the
\* schedules that nothing in its database supersedes, all of them and no other:
\* a cancelled or replaced schedule is never shown.  (Of equal ones, one.)
Supersedes(s, t) == Uid[s] = Uid[t] /\ Stp[s] < Stp[t]
SupersedingWins ==
    pc = "ask" =>
        /\ \A s \in schedules : s \in held /\ \A t \in held : ~Supersedes(t, s)
        /\ mvts = {m \in Mvts : Parent[m] \in schedules}
        /\ \A m \in Mvts : Parent[m] \in held =>
              \E s \in schedules :
                  Uid[s] = Uid[Parent[m]] /\ Stp[s] <= Stp[Parent[m]]

\* Whatever the order of the rows, a look-up that does not fail finds the one
\* schedule that the others do not supersede and that none is equal to.
LookupFindsAuthoritative ==
    pc = "lookup" /\ looked = {} /\ auth # Equal =>
        /\ auth = None => found = {}
        /\ \A s \in found \ {auth} : Stp[auth] < Stp[s] \/ Stp[auth] = Cancel

\* A movement that was reported is shown with a reported time, one that was only
\* estimated with the estimate, whatever the order of the updates.
ReportedTimeWins ==
    pc = "done" =>
        \A m \in answer.mvts :
            LET us == {u \in answer.updates : u.mvt = m}
            IN  /\ us # {} => merged[m] \in us
                /\ (\E u \in us : IsReport(u)) <=> IsReport(merged[m])

\* Together, of the folds over rows and updates: what each gives is right whatever the
\* order it gets them in, and whatever is imported, activated and reported meanwhile.
\* (What tspl-verknupfen makes of the two answers is another matter: see below.)
FoldsAreRight == SupersedingWins /\ LookupFindsAuthoritative /\ ReportedTimeWins

\* "For all remaining schedule movements, create DeduplicatedMvts if their parent
\* schedules still exist": those, under their schedules, and no others.
ScheduledCallsAreShown ==
    pc = "done" =>
        {e \in shown : e.src = "schedule"} =
            {[src |-> "schedule", of |-> Parent[m], mvt |-> m] :
                m \in {m \in mvts : Parent[m] \in schedules}}

\* The inductive invariant: each fold is right about the rows it has processed.
Joined ==
    /\ rows \subseteq Rows(held)
    /\ \A r \in Rows(held) \ rows :
          r[1] \in mvts /\ by_uid[Uid[r[2]]] # None /\ Stp[by_uid[Uid[r[2]]]] <= Stp[r[2]]
    /\ \A m \in mvts : Parent[m] \in held
    /\ \A u \in Uids : by_uid[u] # None =>
          /\ by_uid[u] \in held /\ Uid[by_uid[u]] = u
          /\ \E m \in Mvts : Parent[m] \in held /\ Uid[Parent[m]] = u
Processed(m) == {u \in answer.updates \ todo : u.mvt = m}
Inv ==
    /\ pc = "idle" => rows = {} /\ mvts = {} /\ by_uid = [u \in Uids |-> None]
    /\ pc = "join" => Joined
    /\ SupersedingWins
    /\ pc \in {"merge", "done"} =>
          /\ todo \subseteq answer.updates
          /\ \A u \in answer.updates : u.mvt \in answer.mvts
          /\ \A m \in answer.mvts :
                /\ IF Processed(m) = {} THEN merged[m] = None ELSE merged[m] \in Processed(m)
                /\ (\E u \in Processed(m) : IsReport(u)) <=> IsReport(merged[m])
    /\ pc = "done" => todo = {}
    /\ pc = "lookup" /\ auth # Equal =>
          /\ auth = None => looked = found
          /\ \A s \in (found \ looked) \ {auth} : Stp[auth] < Stp[s] \/ Stp[auth] = Cancel
          /\ auth # None => auth \in found
==============================================================================
