---------------------------- MODULE ConnectingQuery ----------------------------
(***************************************************************************)
(* "What goes from here to there?": the queries of tspl-fahrplan and of       *)
(* tspl-zugfuhrer for connections.  Each is one SELECT, a join whose rows     *)
(* SQLite gives in any order, folded into maps that are keyed by the call     *)
(* here.  A stop is two calls, its arrival and its departure, so a journey    *)
(* has several calls there as a rule.                                        *)
(***************************************************************************)
EXTENDS Integers, FiniteSets

CONSTANTS
    Journeys,           \* schedules, and the trains that run by them
    JourneyUid, Rank,   \* a schedule's uid, and the rank of its stp_indicator
    Here, There,        \* calls (original movements) at the two stations
    JourneyOf,          \* the journey of a call
    Reports,            \* movements that update others: [id, updates]
    Nobody              \* no schedule, no update

ASSUME ConnectingAssumption ==
    /\ JourneyOf \in [Here \cup There -> Journeys]
    /\ Rank \in [Journeys -> 1 .. 4]
    /\ DOMAIN JourneyUid = Journeys
    /\ \A r \in Reports : r.updates \in Here \cup There
    /\ Nobody \notin Journeys /\ Nobody \notin Reports

VARIABLES
    query,      \* "sched" or "train", which of the two; then "answered"
    on_date,     \* the schedules that run on the date, or those with a train
    reported,   \* the updates of train movements in the table
    result,     \* the rows of the join that are not processed
    superseding,            \* the schedule that a uid goes by, so far
    passing,    \* the calls here, each with its updates
    connecting  \* the connecting call of each, with updates

connvars == <<query, on_date, reported, result, superseding, passing, connecting>>

ConnUids == {JourneyUid[j] : j \in Journeys}
Entry == [orig : Here \cup There, updates : SUBSET Reports]
ConnTypeOK ==
    /\ query \in {"sched", "train", "answered"}
    /\ on_date \subseteq Journeys /\ reported \subseteq Reports
    /\ superseding \in [ConnUids -> Journeys \cup {Nobody}]
    /\ DOMAIN passing \subseteq Here /\ DOMAIN connecting \subseteq Here
    /\ \A m \in DOMAIN passing : passing[m] \in Entry
    /\ \A m \in DOMAIN connecting : connecting[m] \in Entry

-----------------------------------------------------------------------------
(* The rows                                                                 *)

\* A call here, a call there of the same journey, in either order.
Pairs(js) ==
    {p \in Here \X There : JourneyOf[p[1]] = JourneyOf[p[2]] /\ JourneyOf[p[1]] \in js}
\* With every schedule of the uid that runs on the date.
ScheduleRows(js) ==
    {[call |-> p[1], conn |-> p[2], updating |-> j] : p \in Pairs(js), j \in js}
SameUid(row) == JourneyUid[JourneyOf[row.call]] = JourneyUid[row.updating]

\* A LEFT OUTER JOIN has a row without an update where there is none.
UpdatesOf(m, rs) ==
    LET us == {r \in rs : r.updates = m} IN IF us = {} THEN {Nobody} ELSE us
TrainRows(js, rs) ==
    UNION {{[call |-> p[1], conn |-> p[2], upd |-> u, conn_upd |-> v] :
               u \in UpdatesOf(p[1], rs), v \in UpdatesOf(p[2], rs)} : p \in Pairs(js)}

NoEntries == [m \in {} |-> [orig |-> m, updates |-> {}]]
ConnInit ==
    /\ query \in {"sched", "train"}
    /\ on_date \in SUBSET Journeys
    /\ reported \in (IF query = "train" THEN SUBSET Reports ELSE {{}})
    /\ result = IF query = "sched"
                THEN {row \in ScheduleRows(on_date) : SameUid(row)}
                ELSE TrainRows(on_date, reported)
    /\ superseding = [u \in ConnUids |-> Nobody]
    /\ passing = NoEntries /\ connecting = NoEntries

-----------------------------------------------------------------------------
(* tspl-fahrplan: get_connecting_mvts                                       *)

With(map, m, entry) == [k \in DOMAIN map \cup {m} |-> IF k = m THEN entry ELSE map[k]]

\* A row's connecting call takes the place of the one before.
InsertRow(row) ==
    /\ query = "sched" /\ row \in result
    /\ result' = result \ {row}
    /\ connecting' = With(connecting, row.call, [orig |-> row.conn, updates |-> {}])
    /\ passing' = With(passing, row.call, [orig |-> row.call, updates |-> {}])
    /\ superseding' = [superseding EXCEPT ![JourneyUid[JourneyOf[row.call]]] =
           LET current == IF @ = Nobody THEN JourneyOf[row.call] ELSE @
           IN  IF Rank[row.updating] < Rank[current] THEN row.updating ELSE current]
    /\ UNCHANGED <<query, on_date, reported>>

\* Mutant: the connections of superseded schedules are kept.
RetainCalls ==
    /\ query = "sched" /\ result = {}
    /\ passing' = [m \in {k \in DOMAIN passing :
                           JourneyOf[k] \in {superseding[u] : u \in ConnUids}} |-> passing[m]]
    /\ query' = "answered"
    /\ UNCHANGED <<on_date, reported, result, superseding, connecting>>
\* Calls of superseded schedules go, and then the connections of those calls.
Retain ==
    /\ query = "sched" /\ result = {}
    /\ passing' = [m \in {k \in DOMAIN passing :
                           JourneyOf[k] \in {superseding[u] : u \in ConnUids}} |-> passing[m]]
    /\ connecting' = [m \in DOMAIN connecting \cap DOMAIN passing' |-> connecting[m]]
    /\ query' = "answered"
    /\ UNCHANGED <<on_date, reported, result, superseding>>

-----------------------------------------------------------------------------
(* tspl-zugfuhrer: get_connecting_mvts                                      *)

\* Mutant: the first row's update is forgotten.
ExtendOnly(map, m, orig, u) ==
    LET old == IF m \in DOMAIN map THEN map[m].updates \cup {u} ELSE {}
    IN  With(map, m, [orig |-> orig, updates |-> old \ {Nobody}])
\* An entry is made with its original movement and only extended after that: by
\* updates of every call there.  (A vector in the code: how often an update is in
\* it is left out.)
Extend(map, m, orig, u) ==
    LET old == IF m \in DOMAIN map THEN map[m] ELSE [orig |-> orig, updates |-> {}]
    IN  With(map, m, [old EXCEPT !.updates = (@ \cup {u}) \ {Nobody}])

ExtendRow(row) ==
    /\ query = "train" /\ row \in result
    /\ result' = result \ {row}
    /\ passing' = Extend(passing, row.call, row.call, row.upd)
    /\ connecting' = Extend(connecting, row.call, row.conn, row.conn_upd)
    /\ UNCHANGED <<query, on_date, reported, superseding>>

AnswerTrains ==
    /\ query = "train" /\ result = {}
    /\ query' = "answered"
    /\ UNCHANGED <<on_date, reported, result, superseding, passing, connecting>>

ConnNext ==
    \/ \E row \in result : InsertRow(row) \/ ExtendRow(row)
    \/ Retain \/ AnswerTrains

ConnSpec == ConnInit /\ [][ConnNext]_connvars

-----------------------------------------------------------------------------
(* Properties                                                               *)

\* Whatever the order of the rows, every call here in the answer has its
\* connection, a call there of the same journey, and every journey that goes to
\* both and that no schedule supersedes is in it: also when what supersedes
\* another schedule goes to one of the stations only.  Of schedules of a uid that
\* are equal, of two sources or start dates, one is in it if all go to both.  (If
\* one does not, the order of the rows may have it be the one.)
Superseded(j) ==
    \E k \in on_date : JourneyUid[k] = JourneyUid[j] /\ Rank[k] < Rank[j]
Equals(j) ==
    {k \in on_date : JourneyUid[k] = JourneyUid[j] /\ Rank[k] = Rank[j]}
Connects(j) == \E p \in Pairs(on_date) : JourneyOf[p[1]] = j
Scheduled == superseding # [u \in ConnUids |-> Nobody]
EveryCallConnects ==
    query = "answered" =>
        /\ DOMAIN connecting = DOMAIN passing
        /\ \A m \in DOMAIN passing :
              <<m, connecting[m].orig>> \in Pairs(on_date)
        /\ Scheduled =>
              \A j \in on_date :
                  (\E m \in DOMAIN passing : JourneyOf[m] = j) =>
                      Connects(j) /\ ~Superseded(j)
        /\ Scheduled =>
              \A j \in on_date :
                  ~Superseded(j) /\ (\A k \in Equals(j) : Connects(k)) =>
                      \E m \in DOMAIN passing : JourneyOf[m] \in Equals(j)

\* Whatever the order of the rows, a train's call here comes with its updates and
\* with nothing else; and its connection with all of its own, and with no other
\* train's.  (The documentation has none but its own.  The code lists those of every
\* call of the train there, an arrival's with the departure's.)
UpdatesOfTheTrain ==
    query = "answered" /\ ~Scheduled =>
        /\ DOMAIN passing = {p[1] : p \in Pairs(on_date)}
        /\ \A m \in DOMAIN passing :
              /\ passing[m].orig = m
              /\ passing[m].updates = {r \in reported : r.updates = m}
              /\ {r \in reported : r.updates = connecting[m].orig} \subseteq connecting[m].updates
              /\ \A r \in connecting[m].updates :
                    r \in reported /\ r.updates \in There /\ JourneyOf[r.updates] = JourneyOf[m]

\* Together: whatever the order of the rows, both queries answer with the calls that
\* connect and leave out no update of them.
ConnectionsAreRight == EveryCallConnects /\ UpdatesOfTheTrain

-----------------------------------------------------------------------------
(* What the theorems rest on: each fold is right about the rows it has processed. *)

SameUidRows == {row \in ScheduleRows(on_date) : SameUid(row)}
SchedulesFold ==
    LET processed == SameUidRows \ result
        OfUid(u) == {row \in processed : JourneyUid[row.updating] = u}
    IN  /\ result \subseteq SameUidRows
        /\ DOMAIN passing = {row.call : row \in processed}
        /\ \A u \in ConnUids :
              IF OfUid(u) = {} THEN superseding[u] = Nobody
              ELSE /\ superseding[u] \in on_date /\ JourneyUid[superseding[u]] = u
                   /\ \A row \in OfUid(u) : Rank[superseding[u]] <= Rank[row.updating]
TrainsFold ==
    LET rows == TrainRows(on_date, reported)
        processed == rows \ result
        OfCall(m) == {row \in processed : row.call = m}
    IN  /\ result \subseteq rows /\ ~Scheduled
        /\ DOMAIN passing = {row.call : row \in processed}
        /\ \A m \in DOMAIN passing :
              /\ passing[m].orig = m
              /\ passing[m].updates = {row.upd : row \in OfCall(m)} \ {Nobody}
              /\ connecting[m].updates = {row.conn_upd : row \in OfCall(m)} \ {Nobody}
ConnInv ==
    /\ DOMAIN connecting = DOMAIN passing
    /\ \A m \in DOMAIN passing : <<m, connecting[m].orig>> \in Pairs(on_date)
    /\ query = "sched" => SchedulesFold
    /\ query = "train" => TrainsFold
    /\ ConnectionsAreRight
==============================================================================
