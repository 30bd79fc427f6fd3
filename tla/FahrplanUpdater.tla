--------------------------- MODULE FahrplanUpdater ----------------------------
(***************************************************************************)
(* The tspl-fahrplan-updater job: it fetches current.sqlite from the        *)
(* bucket, applies one NROD schedule file to it in a transaction, or starts *)
(* over from the full file, and puts a vacuumed copy back.  Pods are        *)
(* replaced at any time, and their disk goes with them.                     *)
(***************************************************************************)
EXTENDS Integers, Sequences

CONSTANTS
    Keys,           \* schedules: uid, start_date, stp_indicator, source
    Validities,     \* end_date and days of a schedule
    Timetables,     \* lists of movements
    MaxDay,         \* bound on the files NROD publishes
    MaxVersion,     \* bound on the tspl_ids issued
    MaxRecords,     \* bound on the records applied from a file
    MaxRetries,     \* update_retries
    MaxFailures,    \* bound on the failures of network, disk and SQLite, and on
                    \* the files that come garbled
    MaxKills,       \* bound on the pods replaced
    Week            \* number of update files NROD keeps, a slot per weekday

ASSUME BoundsAssumption ==
    /\ {MaxDay, Week} \subseteq Nat \ {0}
    /\ {MaxVersion, MaxRecords, MaxRetries, MaxFailures, MaxKills} \subseteq Nat

VARIABLES
    day,        \* newest schedule file of NROD
    object,     \* current.sqlite in the bucket
    disk,       \* current.sqlite of the job
    backup,     \* backup.sqlite of the job
    pc,         \* where the job stands
    full,       \* it imports the full file
    tries,      \* failed attempts at the update
    trans,      \* what its transaction sees
    records,    \* records applied in it
    version,    \* tspl_ids issued
    named,      \* <<tspl_id, timetable>> that were in the bucket (history)
    failures, kills

local == <<disk, backup, pc, full, tries, trans, records>>
bounds == <<failures, kills>>
vars == <<day, object, local, version, named, bounds>>

\* The table is a function of the keys it has rows for.
NoRows == [k \in {} |-> k]
NoFile == [state |-> "absent", files |-> <<>>, table |-> NoRows]
Partial == [state |-> "partial", files |-> <<>>, table |-> NoRows]
EmptyDb == [state |-> "whole", files |-> <<>>, table |-> NoRows]
Row == [version : 1 .. MaxVersion, validity : Validities, timetable : Timetables]
Db == [state : {"whole"}, files : Seq(1 .. MaxDay),
       table : UNION {[K -> Row] : K \in SUBSET Keys}]

TypeOK ==
    /\ day \in 1 .. MaxDay
    /\ object \in Db \cup {NoFile}
    /\ disk \in Db \cup {NoFile}
    /\ backup \in Db \cup {NoFile, Partial}
    /\ pc \in {"idle", "download", "open", "fetch", "import", "vacuum", "copy", "upload"}
    /\ full \in BOOLEAN
    /\ tries \in 0 .. MaxRetries
    /\ trans \in Db \cup {NoFile}
    /\ records \in 0 .. MaxRecords
    /\ version \in 0 .. MaxVersion
    /\ named \subseteq (1 .. MaxVersion) \X Timetables

Init ==
    /\ day = 1
    /\ object = NoFile
    /\ disk = NoFile /\ backup = NoFile
    /\ pc = "idle" /\ full = FALSE /\ tries = 0
    /\ trans = NoFile /\ records = 0
    /\ version = 0 /\ named = {}
    /\ failures = 0 /\ kills = 0

NewFile ==
    /\ day < MaxDay
    /\ day' = day + 1
    /\ UNCHANGED <<object, local, version, named, bounds>>

-----------------------------------------------------------------------------
(* main                                                                     *)

\* The job ends, and with it the pod and its disk.
EndJob ==
    /\ pc' = "idle" /\ full' = FALSE /\ tries' = 0 /\ trans' = NoFile /\ records' = 0
    /\ disk' = NoFile /\ backup' = NoFile

\* "backup file exists already; just uploading", or fetch the current database.
StartJob ==
    /\ pc = "idle"
    /\ pc' = IF backup = NoFile THEN "download" ELSE "upload"
    /\ UNCHANGED <<day, object, disk, backup, full, tries, trans, records, version,
                   named, bounds>>

\* The file is created before the bucket is asked: when that has no database,
\* which is no error, the job opens an empty one.
DownloadCurrent ==
    /\ pc = "download"
    /\ disk' = IF object = NoFile THEN EmptyDb ELSE object
    /\ pc' = "open"
    /\ UNCHANGED <<day, object, backup, full, tries, trans, records, version, named, bounds>>

\* Mutant: a gap between the files is not looked for.
AnyFiles(db) == Len(db.files) > 0
\* check_schedule_files: there are files, and each follows the one before.
CheckScheduleFiles(db) ==
    /\ Len(db.files) > 0
    /\ \A i \in 2 .. Len(db.files) : db.files[i] - 1 = db.files[i - 1]

\* load_or_create_db: a database that is there and sound is updated, any other
\* is thrown away.
LoadOrCreateDb ==
    /\ pc = "open"
    /\ IF disk.state = "whole" /\ CheckScheduleFiles(disk)
       THEN full' = FALSE /\ UNCHANGED disk
       ELSE full' = TRUE /\ disk' = EmptyDb
    /\ pc' = "fetch"
    /\ UNCHANGED <<day, object, backup, tries, trans, records, version, named, bounds>>

\* Mutants: the files that are in the database are not looked at; the
\* comparison is the other way round.
AlwaysNew(db, file) == TRUE
NewerInside(db, file) == \A i \in DOMAIN db.files : db.files[i] > file
\* The Timetable record: not this file again, and none after it.
TimetableIsNew(db, file) == \A i \in DOMAIN db.files : db.files[i] < file

\* What do_full gets, or do_update with the name of yesterday's weekday: that
\* may still be the file of the week before.
Published == IF full THEN {day} ELSE {day, day - Week} \cap (1 .. day)

FetchFile(file) ==
    /\ pc = "fetch"
    /\ file \in Published
    /\ TimetableIsNew(disk, file)
    /\ trans' = [disk EXCEPT !.files = Append(@, file)]
    /\ records' = 0
    /\ pc' = "import"
    /\ UNCHANGED <<day, object, disk, backup, full, tries, version, named, bounds>>

\* A failed update is tried again, in vain at most update_retries times; when
\* the full file cannot be had the job fails.
RetryOrGiveUp ==
    IF ~full /\ tries < MaxRetries
    THEN /\ pc' = "fetch" /\ tries' = tries + 1
         /\ trans' = NoFile /\ records' = 0
         /\ UNCHANGED <<disk, backup, full>>
    ELSE EndJob

\* "schedule inserted already!", or one with a greater sequence number.
TimetableNotNew(file) ==
    /\ pc = "fetch"
    /\ file \in Published
    /\ ~TimetableIsNew(disk, file)
    /\ RetryOrGiveUp
    /\ UNCHANGED <<day, object, version, named, bounds>>

\* The Timetable record does not parse, or there is none.  A line that does not
\* parse is never cleared, so the lines that follow are read onto its end and do
\* not parse either: what is committed is the database as it was, which is the
\* empty one where the full file is imported.  (A garbled line further on ends
\* the import early in the same way: that is Commit, after fewer records.)
GarbledFile ==
    /\ pc = "fetch"
    /\ failures < MaxFailures
    /\ failures' = failures + 1
    /\ pc' = "vacuum"
    /\ UNCHANGED <<day, object, disk, backup, full, tries, trans, records, version,
                   named, kills>>

-----------------------------------------------------------------------------
(* apply_schedule_record                                                    *)

HasRow(key) == key \in DOMAIN trans.table
Put(key, row) ==
    trans' = [trans EXCEPT !.table =
                 [k \in DOMAIN @ \cup {key} |-> IF k = key THEN row ELSE @[k]]]

DeleteRecord(key) ==
    /\ trans' = [trans EXCEPT !.table = [k \in DOMAIN @ \ {key} |-> @[k]]]
    /\ UNCHANGED version

\* A schedule the table does not have is inserted whole, with a new tspl_id.
InsertRecord(key, validity, timetable) ==
    /\ ~HasRow(key)
    /\ version < MaxVersion
    /\ version' = version + 1
    /\ Put(key, [version |-> version', validity |-> validity, timetable |-> timetable])

\* Mutant: the tspl_id is left as it was.
ReplaceMvtsOnly(key, timetable) ==
    /\ HasRow(key)
    /\ trans.table[key].timetable # timetable
    /\ UNCHANGED version
    /\ Put(key, [trans.table[key] EXCEPT !.timetable = timetable])
\* One it has gets the record's movements and a new tspl_id, nothing else ...
ReplaceMvts(key, timetable) ==
    /\ HasRow(key)
    /\ trans.table[key].timetable # timetable
    /\ version < MaxVersion
    /\ version' = version + 1
    /\ Put(key, [version |-> version', validity |-> trans.table[key].validity,
                 timetable |-> timetable])

\* ... and is left alone if it has those movements already.
LeaveMvts(key, timetable) ==
    /\ HasRow(key)
    /\ trans.table[key].timetable = timetable
    /\ UNCHANGED <<trans, version>>

CreateRecord(key, validity, timetable) ==
    \/ InsertRecord(key, validity, timetable)
    \/ ReplaceMvts(key, timetable)
    \/ LeaveMvts(key, timetable)

ApplyRecord ==
    /\ pc = "import" /\ records < MaxRecords
    /\ records' = records + 1
    /\ \E key \in Keys :
          \/ DeleteRecord(key)
          \/ \E validity \in Validities, timetable \in Timetables :
                CreateRecord(key, validity, timetable)
    /\ UNCHANGED <<day, object, disk, backup, pc, full, tries, named, bounds>>

Commit ==
    /\ pc = "import"
    /\ disk' = trans
    /\ trans' = NoFile /\ records' = 0
    /\ pc' = "vacuum"
    /\ UNCHANGED <<day, object, backup, full, tries, version, named, bounds>>

-----------------------------------------------------------------------------
(* The copy and the upload                                                  *)

\* VACUUM INTO a file that is incomplete for a while.
StartVacuum ==
    /\ pc = "vacuum"
    /\ backup' = Partial
    /\ pc' = "copy"
    /\ UNCHANGED <<day, object, disk, full, tries, trans, records, version, named, bounds>>

EndVacuum ==
    /\ pc = "copy"
    /\ backup' = disk
    /\ pc' = "upload"
    /\ UNCHANGED <<day, object, disk, full, tries, trans, records, version, named, bounds>>

Named(db) ==
    {<<db.table[k].version, db.table[k].timetable>> : k \in DOMAIN db.table}

Upload ==
    /\ pc = "upload"
    /\ object' = backup
    /\ named' = named \cup Named(backup)
    /\ EndJob
    /\ UNCHANGED <<day, version, bounds>>

\* Any step may fail; within do_update that is one more failed attempt.
Fail ==
    /\ pc \in {"download", "open", "fetch", "import", "vacuum", "copy", "upload"}
    /\ failures < MaxFailures
    /\ failures' = failures + 1
    /\ IF pc \in {"fetch", "import"} THEN RetryOrGiveUp ELSE EndJob
    /\ UNCHANGED <<day, object, version, named, kills>>

\* concurrencyPolicy: Replace.
Kill ==
    /\ pc # "idle"
    /\ kills < MaxKills
    /\ kills' = kills + 1
    /\ EndJob
    /\ UNCHANGED <<day, object, version, named, failures>>

JobStep ==
    \/ StartJob \/ DownloadCurrent \/ LoadOrCreateDb
    \/ \E file \in 1 .. MaxDay : FetchFile(file) \/ TimetableNotNew(file)
    \/ Commit \/ StartVacuum \/ EndVacuum \/ Upload

Next == NewFile \/ JobStep \/ ApplyRecord \/ GarbledFile \/ Fail \/ Kill

\* The job is scheduled again and again and goes on, and each file of NROD takes
\* its weekday's slot in the end.
Fairness ==
    /\ WF_vars(NewFile)
    /\ WF_vars(JobStep)
    /\ SF_vars(full /\ FetchFile(day))
    /\ SF_vars(~full /\ FetchFile(day))
FairSpec == Init /\ [][Next]_vars /\ Fairness
Spec == Init /\ [][Next]_vars

-----------------------------------------------------------------------------
(* Properties                                                               *)

Usable(db) == db.state = "whole" /\ Len(db.files) > 0
Gap(db) == \E i \in 2 .. Len(db.files) : db.files[i] > db.files[i - 1] + 1
LastFile(db) == IF Usable(db) THEN db.files[Len(db.files)] ELSE 0

\* A tspl_id that was ever in the bucket names one list of movements, across
\* updates, failed transactions and databases started over: what
\* tspl-zugfuhrer copies by id cannot have changed under it.
VersionNamesTimetable ==
    \A m, n \in named : m[1] = n[1] => m[2] = n[2]

\* No file is applied twice, nor one after a later one.
Ordered(files) == \A i, j \in DOMAIN files : i < j => files[i] < files[j]
FilesInOrder == Ordered(object.files)

\* The bucket always has a whole database once it has one.  One that can be built
\* upon gives way to one that has files and does not go back to an earlier one
\* only; one with a gap between its files is started over, with one file, or with
\* none if that one came garbled: then the bucket gets the empty database, as it
\* may where it had none at all.
ObjectImproves ==
    [][object' # object =>
          \/ /\ Usable(object')
             /\ LastFile(object') >= LastFile(object)
             /\ Gap(object) => Len(object'.files) = 1
          \/ object' = EmptyDb /\ (object = NoFile \/ Gap(object))]_vars

\* However often the job is killed or fails, the database catches up.
CatchesUp == <>[](LastFile(object) = MaxDay)

\* "Can be called with a record that's already in the database; in this case,
\* the record will be updated."
RecordIsUpdated ==
    [][\A key \in Keys, validity \in Validities, timetable \in Timetables :
          pc = "import" /\ records' = records + 1 /\ CreateRecord(key, validity, timetable)
          => trans'.table[key].validity = validity]_vars

\* The inductive invariant.  Every copy of the database, not the bucket's only,
\* has its files in order, ids that name one list of movements, and none from
\* the future ...
Dbs == {object, disk, backup, trans}
AllNamed == named \cup UNION {Named(db) : db \in Dbs}
Copies ==
    /\ \A db \in Dbs : Ordered(db.files) /\ \A i \in DOMAIN db.files : db.files[i] <= day
    /\ \A m, n \in AllNamed : m[1] = n[1] => m[2] = n[2]
    /\ \A m \in AllNamed : m[1] <= version

\* ... and from stage to stage the job gets nearer to one that may replace the
\* bucket's, or to the very one that is there.
Follows(db) ==
    /\ Usable(db)
    /\ LastFile(db) >= LastFile(object)
    /\ Gap(object) => Len(db.files) = 1
MayReplace(db) ==
    \/ Follows(db)
    \/ db = EmptyDb /\ ~CheckScheduleFiles(object)
    \/ db = object /\ Usable(object)
Stages ==
    /\ object \in {NoFile, EmptyDb} \/ Usable(object)
    /\ pc = "idle" => backup = NoFile
    /\ pc = "open" => disk = IF object = NoFile THEN EmptyDb ELSE object
    /\ pc \in {"fetch", "import"} =>
          \/ disk = EmptyDb /\ full /\ ~CheckScheduleFiles(object)
          \/ disk = object /\ CheckScheduleFiles(object) /\ ~full
    /\ pc = "import" => Follows(trans)
    /\ pc \in {"vacuum", "copy"} => MayReplace(disk)
    /\ pc = "upload" => MayReplace(backup)
Inv == Copies /\ Stages
==============================================================================
