----------------------------- MODULE OsmsSchedules -----------------------------
(***************************************************************************)
(* The schedules of osms: osms-db-setup imports files of them, by hand or by  *)
(* cron, osms-nrod takes single ones from VSTP, and the listener makes ways    *)
(* for them, paths from call to call, with some threads, each time it is      *)
(* notified of an import.  A transaction locks the rows it writes until it      *)
(* commits or rolls back; others wait for them, but the threads skip them.       *)
(***************************************************************************)
EXTENDS Integers, FiniteSets

CONSTANTS
    ItpsKeys,   \* keys (uid, start, stp_indicator) of schedules from files
    VstpKeys,   \* and of those from VSTP
    Movements,  \* lists of movements
    GeoThreads,
    Days,       \* the files are those of days 1 .. Days
    FileWeek,   \* days after which a day's update takes an earlier one's place
    MaxChanges,     \* bound on imports
    MaxGeoFailures, \* bound on threads that fail
    NoKey, Gone

ScheduleKeys == ItpsKeys \cup VstpKeys

ASSUME SchedulesAssumption ==
    /\ ItpsKeys \cap VstpKeys = {} /\ NoKey \notin ScheduleKeys /\ Gone \notin Movements
    /\ {Days, FileWeek} \subseteq Nat \ {0} /\ MaxChanges \in Nat /\ MaxGeoFailures \in Nat

VARIABLES
    today,      \* the day of the newest files
    sfiles,     \* schedule_files: <<day, is it a full one>>
    scheds,     \* the rows, by key
    update,     \* the day of the file that the update command is importing, or 0
    recover,    \* where the recover command is, the day of its file and of the last one,
                \* and that no update was imported since it looked (history)
    writes,     \* rows that the commands and VSTP messages have written in transactions
                \* which are open, and what: movements, or that the row is gone
    listener,   \* where the listener is
    notified,   \* a notification waits for it
    geo,        \* where each of its threads is, and its row
    missed,     \* rows to be done that the last thread to look left, as others had them
                \* (history; of the run since the last notification)
    changes, geo_failures

schedvars == <<today, sfiles, scheds, update, recover, writes, listener, notified, geo,
               missed, changes, geo_failures>>
commands == <<update, recover, writes>>
listening == <<listener, notified, geo, missed, geo_failures>>

\* metaseq: 0 for VSTP.  A row's ways are those of its movements or none;
\* replaced: it got new movements after it was done (history).
SchedRow == [metaseq : 0 .. Days, generation : {0, 1}, mvts : Movements,
             ways : BOOLEAN, replaced : BOOLEAN]
NotRecovering == [at |-> "idle", day |-> 0, last |-> 0, alone |-> TRUE]
Off == [at |-> "off", key |-> NoKey]
Writers == {"update", "recover", "vstp"}

SchedTypeOK ==
    /\ today \in 1 .. Days
    /\ sfiles \subseteq (1 .. Days) \X BOOLEAN
    /\ DOMAIN scheds \subseteq ScheduleKeys /\ \A k \in DOMAIN scheds : scheds[k] \in SchedRow
    /\ \A k \in DOMAIN scheds : scheds[k].metaseq = 0 <=> k \in VstpKeys
    /\ update \in 0 .. Days
    /\ recover \in [at : {"idle", "fetch", "import", "last", "delete", "done"},
                   day : 0 .. Days, last : 0 .. Days, alone : BOOLEAN]
    /\ DOMAIN writes = Writers
    /\ \A w \in Writers :
          /\ DOMAIN writes[w] \subseteq (IF w = "vstp" THEN VstpKeys ELSE ItpsKeys)
          /\ \A k \in DOMAIN writes[w] : writes[w][k] \in Movements \cup {Gone}
    /\ listener \in {"down", "first", "listen", "wait", "run"}
    /\ notified \in BOOLEAN
    /\ geo \in [GeoThreads -> [at : {"off", "take", "process", "mark", "done", "failed"},
                               key : ScheduleKeys \cup {NoKey}]]
    /\ missed \subseteq ScheduleKeys
    /\ changes \in 0 .. MaxChanges /\ geo_failures \in 0 .. MaxGeoFailures

Nothing == [k \in {} |-> Gone]
SchedInit ==
    /\ today = 1 /\ sfiles = {} /\ scheds = Nothing
    /\ update = 0 /\ recover = NotRecovering
    /\ writes = [w \in Writers |-> Nothing]
    /\ listener = "down" /\ notified = FALSE /\ missed = {}
    /\ geo = [g \in GeoThreads |-> Off]
    /\ changes = 0 /\ geo_failures = 0

\* Mutant: the threads' transactions lock nothing.
NoneLocked == {}
Locked == {geo[g].key : g \in GeoThreads} \ {NoKey}
Written(w) == DOMAIN writes[w]
\* NOTIFY reaches whoever has said LISTEN.
Notify ==
    LET heard == listener \in {"wait", "run"}
    IN  notified' = (notified \/ heard) /\ missed' = IF heard THEN {} ELSE missed

-----------------------------------------------------------------------------
(* apply_schedule_records, and process_vstp                                  *)

\* A record whose key is there updates the row, but for geo_generation; movements
\* that differ are deleted and inserted anew, without ways.
CreateSched(rows, k, metaseq, mvts) ==
    IF k \notin DOMAIN rows
    THEN [metaseq |-> metaseq, generation |-> 0, mvts |-> mvts, ways |-> FALSE,
          replaced |-> FALSE]
    ELSE [metaseq |-> metaseq, generation |-> rows[k].generation, mvts |-> mvts,
          ways |-> rows[k].ways /\ rows[k].mvts = mvts,
          replaced |-> rows[k].replaced \/ (rows[k].mvts # mvts /\ rows[k].generation = 1)]

\* Mutant: the files that are there are not looked at.
IsAnyFile(file) == TRUE
\* Not again, and a full file not after a later one.
IsNewFile(file) ==
    /\ file \notin sfiles
    /\ file[2] => \A f \in sfiles : f[1] <= file[1]

\* INSERT or DELETE, once nobody else has the row; DELETE passes by what is not there.
WriteRow(w, k, row) ==
    /\ k \notin Locked /\ \A v \in Writers : k \notin Written(v)
    /\ row = Gone => k \in DOMAIN scheds
    /\ writes' = [writes EXCEPT ![w] = [j \in Written(w) \cup {k} |->
                                            IF j = k THEN row ELSE writes[w][j]]]

\* The rows after what w has written to some of them.
RowsAfter(w, keys, metaseq) ==
    [k \in {k \in DOMAIN scheds \cup keys : k \in keys => writes[w][k] # Gone} |->
        IF k \in keys THEN CreateSched(scheds, k, metaseq, writes[w][k]) ELSE scheds[k]]

Imports(w, day) == IF w = "update" THEN update = day
                                   ELSE recover.at = "import" /\ recover.day = day
\* A schedule of a file: one that is created, or in an update one that is deleted.
ImportRecord(w, k, row) ==
    /\ \E day \in 1 .. Days : Imports(w, day)
    /\ w = "recover" => row # Gone
    /\ WriteRow(w, k, row)
    /\ UNCHANGED <<today, sfiles, scheds, update, recover, listening, changes>>
\* NOTIFY, and commit.
ApplyFile(w, file) ==
    /\ Imports(w, file[1])
    /\ sfiles' = sfiles \cup {file}
    /\ scheds' = RowsAfter(w, Written(w), file[1])
    /\ writes' = [writes EXCEPT ![w] = Nothing]
    /\ Notify

\* Each VSTP message is a transaction, of one row.
VstpRecord(k, row) ==
    /\ row # Gone /\ k \notin DOMAIN scheds => changes < MaxChanges
    /\ changes' = IF row # Gone /\ k \notin DOMAIN scheds THEN changes + 1 ELSE changes
    /\ WriteRow("vstp", k, row)
    /\ UNCHANGED <<today, sfiles, scheds, update, recover, listening>>
VstpEnds(k) ==
    writes' = [writes EXCEPT !["vstp"] = [j \in Written("vstp") \ {k} |-> @[j]]]
VstpCommits(k) ==
    /\ k \in Written("vstp")
    /\ k \in DOMAIN scheds => writes["vstp"][k] = Gone
    /\ scheds' = RowsAfter("vstp", {k}, 0)
    /\ VstpEnds(k) /\ Notify
    /\ UNCHANGED <<today, sfiles, update, recover, listener, geo, changes, geo_failures>>
\* A duplicate, which has been written, is an error, and other errors may come.
VstpFails(k) ==
    /\ k \in Written("vstp") /\ VstpEnds(k)
    /\ UNCHANGED <<today, sfiles, scheds, update, recover, listening, changes>>
VstpDeletesNothing(k) ==
    /\ k \notin DOMAIN scheds /\ Notify
    /\ UNCHANGED <<today, sfiles, scheds, commands, listener, geo, changes, geo_failures>>

-----------------------------------------------------------------------------
(* osms-db-setup schedule update, and recover (init is recover's first half)  *)

NextDay ==
    /\ today < Days /\ changes < MaxChanges /\ today' = today + 1
    /\ UNCHANGED <<sfiles, scheds, commands, listening, changes>>

\* The update has been fetched, of today or still the one in the slot from a week ago, and
\* its transaction looks which files there are when it reads the first line.  If it cannot
\* be fetched or is not new the command tries again after a while, or on the next day.
UpdateLooks(d) ==
    /\ update = 0 /\ d >= 1 /\ IsNewFile(<<d, FALSE>>)
    /\ changes < MaxChanges /\ changes' = changes + 1
    /\ update' = d
    /\ UNCHANGED <<today, sfiles, scheds, recover, writes, listening>>
UpdateApplies ==
    /\ update # 0 /\ ApplyFile("update", <<update, FALSE>>)
    /\ update' = 0
    /\ recover' = [recover EXCEPT !.alone = recover.at \in {"idle", "fetch", "done"}]
    /\ UNCHANGED <<today, listener, geo, changes, geo_failures>>
\* A record cannot be applied, or the process dies.
UpdateFails ==
    /\ update # 0 /\ update' = 0
    /\ writes' = [writes EXCEPT !["update"] = Nothing]
    /\ UNCHANGED <<today, sfiles, scheds, recover, listening, changes>>

StartRecover ==
    /\ recover.at \in {"idle", "done"} /\ changes < MaxChanges
    /\ recover' = [NotRecovering EXCEPT !.at = "fetch", !.day = today]
    /\ UNCHANGED <<today, sfiles, scheds, update, writes, listening, changes>>
LookAtFiles ==
    /\ recover.at = "fetch" /\ IsNewFile(<<recover.day, TRUE>>)
    /\ changes < MaxChanges /\ changes' = changes + 1
    /\ recover' = [recover EXCEPT !.at = "import", !.alone = TRUE]
    /\ UNCHANGED <<today, sfiles, scheds, update, writes, listening>>
RecoverApplies ==
    /\ ApplyFile("recover", <<recover.day, TRUE>>)
    /\ recover' = [recover EXCEPT !.at = "last"]
    /\ UNCHANGED <<today, update, listener, geo, changes, geo_failures>>
\* "Last metaseq was {}.  Deleting stale schedules..."
ReadLastFile ==
    /\ recover.at = "last"
    /\ \E f \in sfiles :
          /\ \A g \in sfiles : g[1] <= f[1]
          /\ recover' = [recover EXCEPT !.at = "delete", !.last = f[1]]
    /\ UNCHANGED <<today, sfiles, scheds, update, writes, listening, changes>>
\* file_metaseq != $1, which a NULL is not.
IsStale(row) == row.metaseq \notin {0, recover.last}
DeleteStale ==
    /\ recover.at = "delete"
    /\ \A k \in DOMAIN scheds :
          IsStale(scheds[k]) => k \notin Locked /\ \A w \in Writers : k \notin Written(w)
    /\ scheds' = [k \in {k \in DOMAIN scheds : ~IsStale(scheds[k])} |-> scheds[k]]
    /\ recover' = [NotRecovering EXCEPT !.at = "done"]
    /\ UNCHANGED <<today, sfiles, update, writes, listening, changes>>
\* The file is not new, the download fails, or the process dies.
RecoverFails ==
    /\ recover.at \notin {"idle", "done"} /\ recover' = NotRecovering
    /\ writes' = [writes EXCEPT !["recover"] = Nothing]
    /\ UNCHANGED <<today, sfiles, scheds, update, listening, changes>>

-----------------------------------------------------------------------------
(* osms-db-setup schedule listener                                          *)

StartThreads ==
    geo' = [g \in GeoThreads |-> [at |-> "take", key |-> NoKey]] /\ missed' = {}
StartListener ==
    /\ listener = "down" /\ listener' = "first"
    /\ StartThreads
    /\ UNCHANGED <<today, sfiles, scheds, commands, notified, changes, geo_failures>>

\* Mutant: notifications that came during the run are dropped.
EndAndForget ==
    /\ listener \in {"first", "run"}
    /\ \A g \in GeoThreads : geo[g].at = "done"
    /\ geo' = [g \in GeoThreads |-> Off]
    /\ listener' = (IF listener = "first" THEN "listen" ELSE "wait") /\ notified' = FALSE
    /\ UNCHANGED <<today, sfiles, scheds, commands, missed, changes, geo_failures>>
\* All threads are joined.
RunEnds ==
    /\ listener \in {"first", "run"}
    /\ \A g \in GeoThreads : geo[g].at = "done"
    /\ geo' = [g \in GeoThreads |-> Off]
    /\ listener' = IF listener = "first" THEN "listen" ELSE "wait"
    /\ UNCHANGED <<today, sfiles, scheds, commands, notified, missed, changes, geo_failures>>
\* The process ends when it has joined a thread that panicked, and the others with it.
ListenerDies ==
    /\ \E g \in GeoThreads : geo[g].at = "failed"
    /\ listener' = "down" /\ notified' = FALSE /\ missed' = {}
    /\ geo' = [g \in GeoThreads |-> Off]
    /\ UNCHANGED <<today, sfiles, scheds, commands, changes, geo_failures>>
\* LISTEN comes after the first run.
Listen ==
    /\ listener = "listen" /\ listener' = "wait"
    /\ UNCHANGED <<today, sfiles, scheds, commands, notified, geo, missed, changes, geo_failures>>
TakeNotification ==
    /\ listener = "wait" /\ notified
    /\ listener' = "run" /\ notified' = FALSE
    /\ StartThreads
    /\ UNCHANGED <<today, sfiles, scheds, commands, changes, geo_failures>>

Geo(g, at, key) == geo' = [geo EXCEPT ![g] = [at |-> at, key |-> key]]
ToDo == {k \in DOMAIN scheds : scheds[k].generation = 0}
\* Mutant: SELECT without FOR UPDATE.
TakeAnySched(g) ==
    /\ geo[g].at = "take"
    /\ \/ \E k \in ToDo : Geo(g, "process", k)
       \/ ToDo = {} /\ Geo(g, "done", NoKey)
    /\ UNCHANGED <<today, sfiles, scheds, commands, listener, notified, missed, changes,
                   geo_failures>>
\* FOR UPDATE SKIP LOCKED LIMIT 1.  Besides threads, imports and VSTP messages others may
\* have a row for the moment, and never tell: activations that insert a train of it
\* (FOR KEY SHARE), and a recovery whose DELETE waits for another row.
TakeSched(g) ==
    /\ geo[g].at = "take"
    /\ \E others \in SUBSET ToDo :
          LET left == ToDo \cap (others \cup UNION {Written(w) : w \in Writers})
              free == ToDo \ (left \cup Locked)
          IN  \/ others = {} /\ UNCHANGED missed /\ \E k \in free : Geo(g, "process", k)
              \/ free = {} /\ Geo(g, "done", NoKey) /\ missed' = missed \cup (left \ Locked)
    /\ UNCHANGED <<today, sfiles, scheds, commands, listener, notified, changes, geo_failures>>
\* geo_process_schedule, on another connection that commits by itself.
ProcessSched(g) ==
    /\ geo[g].at = "process"
    /\ scheds' = [scheds EXCEPT ![geo[g].key].ways = TRUE]
    /\ Geo(g, "mark", geo[g].key)
    /\ UNCHANGED <<today, sfiles, commands, listener, notified, missed, changes, geo_failures>>
MarkSched(g) ==
    /\ geo[g].at = "mark"
    /\ scheds' = [scheds EXCEPT ![geo[g].key].generation = 1]
    /\ Geo(g, "take", NoKey) /\ missed' = missed \ {geo[g].key}
    /\ UNCHANGED <<today, sfiles, commands, listener, notified, changes, geo_failures>>
\* A query fails: unwrap.
GeoFails(g) ==
    /\ geo[g].at \in {"take", "process", "mark"}
    /\ geo_failures < MaxGeoFailures /\ geo_failures' = geo_failures + 1
    /\ Geo(g, "failed", NoKey)
    /\ UNCHANGED <<today, sfiles, scheds, commands, listener, notified, missed, changes>>

GeoStep(g) == TakeSched(g) \/ ProcessSched(g) \/ MarkSched(g)
ListenerStep == RunEnds \/ ListenerDies \/ Listen \/ TakeNotification

SchedNext ==
    \/ NextDay \/ UpdateApplies \/ UpdateFails
    \/ \E d \in {today, today - FileWeek} : UpdateLooks(d)
    \/ StartRecover \/ LookAtFiles \/ RecoverApplies \/ ReadLastFile \/ DeleteStale
    \/ RecoverFails
    \/ \E k \in ItpsKeys, w \in {"update", "recover"}, row \in Movements \cup {Gone} :
          ImportRecord(w, k, row)
    \/ \E k \in VstpKeys :
          \/ VstpCommits(k) \/ VstpFails(k) \/ VstpDeletesNothing(k)
          \/ \E row \in Movements \cup {Gone} : VstpRecord(k, row)
    \/ StartListener \/ ListenerStep
    \/ \E g \in GeoThreads : GeoStep(g) \/ GeoFails(g)

SchedSpec == SchedInit /\ [][SchedNext]_schedvars

\* While the listener or one of its threads can run, one of them does, whichever it is;
\* who starts a listener that went down, and when, is not in the code.
SchedFairness == WF_schedvars(ListenerStep \/ \E g \in GeoThreads : GeoStep(g))
SchedFairSpec == SchedSpec /\ SchedFairness

-----------------------------------------------------------------------------
(* Properties                                                               *)

\* A schedule that is marked as done has its ways, whatever was imported while
\* they were made; but not after an import replaced its movements, for the mark
\* is left then and nobody makes ways for the new ones.
DoneHasWays ==
    \A k \in DOMAIN scheds :
        scheds[k].generation = 1 => scheds[k].ways \/ scheds[k].replaced

\* Whatever two threads, an import and a failure do at once, no row is in the hands
\* of two threads, nor in those of one when it has been done or deleted.
OneThreadEach ==
    /\ \A g, h \in GeoThreads : geo[g].key = geo[h].key /\ g # h => geo[g].key = NoKey
    /\ \A g \in GeoThreads :
          geo[g].key # NoKey => geo[g].key \in DOMAIN scheds
                                /\ scheds[geo[g].key].generation = 0

\* Recovery leaves what VSTP sent and what its own file brought, all of it and
\* nothing else, whatever was imported before; but not if an update was imported since
\* it looked at the files, for then that one's are the rows it leaves.
RecoveryIsExact ==
    [][recover.at = "delete" /\ recover'.at = "done" /\ recover.alone =>
          DOMAIN scheds' = {k \in DOMAIN scheds : scheds[k].metaseq \in {0, recover.day}}]_schedvars

\* What was imported while the listener listens gets its ways, or the listener goes
\* down by a failure: also what comes during a run that has passed it by, and what the
\* run left since an import that then committed had it.  Two kinds of rows are left
\* without: those that had their movements replaced when they were done, and those
\* that were left since somebody had them who did not notify, such as an import that
\* failed.
ImportsAreProcessed ==
    notified ~> \/ listener = "down"
                \/ \A k \in DOMAIN scheds :
                      scheds[k].ways \/ scheds[k].replaced \/ k \in missed

-----------------------------------------------------------------------------
(* The inductive invariant                                                  *)

\* A thread has a row while it makes its ways, and they are there before the mark.
ThreadsHold ==
    \A g \in GeoThreads :
        /\ geo[g].key # NoKey <=> geo[g].at \in {"process", "mark"}
        /\ geo[g].at = "mark" => scheds[geo[g].key].ways

\* A command has written rows only while it imports; no two transactions have a row, nor
\* has one a row that is in a thread's hands.
WritersHold ==
    /\ \A v, w \in Writers : v # w => Written(v) \cap Written(w) = {}
    /\ \A w \in Writers : Written(w) \cap Locked = {}
    /\ Written("update") # {} => update # 0
    /\ Written("recover") # {} => recover.at = "import"

\* A recovery that is alone has the newest file.
RecoveryHolds ==
    /\ recover.at \notin {"idle", "done"} => recover.day >= 1
    /\ recover.at \in {"last", "delete"} => <<recover.day, TRUE>> \in sfiles
    /\ recover.at \in {"import", "last", "delete"} /\ recover.alone =>
          \A f \in sfiles : f[1] <= recover.day
    /\ recover.at = "delete" /\ recover.alone => recover.last = recover.day

SchedInv == SchedTypeOK /\ DoneHasWays /\ OneThreadEach /\ ThreadsHold /\ WritersHold
            /\ RecoveryHolds
==============================================================================
