------------------------ MODULE FahrplanUpdaterProofs -------------------------
(* Proofs about FahrplanUpdater, for any schedules, files and bounds.        *)
EXTENDS FahrplanUpdater, TLAPS

IInv == TypeOK /\ Inv

(* What the stages do to the copies without a record: they are moved about.   *)
LEMMA CopiesMoved ==
    ASSUME Copies, Dbs' \subseteq Dbs \cup {NoFile, Partial, EmptyDb},
           named' \subseteq AllNamed, version' = version, day' = day
    PROVE  Copies'
<1>1. \A db \in {NoFile, Partial, EmptyDb} :
          Named(db) = {} /\ Ordered(db.files) /\ DOMAIN db.files = {}
  BY DEF NoFile, Partial, EmptyDb, NoRows, Named, Ordered
<1>2. \A db \in Dbs' :
          /\ Named(db) \subseteq AllNamed /\ Ordered(db.files)
          /\ \A i \in DOMAIN db.files : db.files[i] <= day
  BY <1>1 DEF Copies, AllNamed
<1>3. AllNamed' \subseteq AllNamed
  BY <1>2 DEF AllNamed, Named
<1> QED
  BY <1>2, <1>3 DEF Copies, Ordered

(* The empty databases have their types and nothing in them.                  *)
LEMMA Empties ==
    /\ EmptyDb \in Db
    /\ \A db \in {NoFile, Partial, EmptyDb} : db.files = <<>> /\ db.table = NoRows
    /\ EmptyDb.state = "whole" /\ NoFile.state = "absent" /\ Partial.state = "partial"
<1>1. NoRows \in [{} -> Row] /\ {} \in SUBSET Keys
  BY DEF NoRows
<1>2. NoRows \in UNION {[K -> Row] : K \in SUBSET Keys}
  BY <1>1
<1>3. <<>> \in Seq(1 .. MaxDay)
  OBVIOUS
<1> QED
  BY <1>2, <1>3 DEF EmptyDb, NoFile, Partial, Db

LEMMA FilesType ==
    ASSUME NEW db \in Db \cup {NoFile, Partial}
    PROVE  db.files \in Seq(1 .. MaxDay)
  BY Empties DEF Db

LEMMA Bounds ==
    /\ MaxDay \in Nat /\ MaxDay >= 1 /\ MaxVersion \in Nat
    /\ 0 \in 0 .. MaxRecords /\ 0 \in 0 .. MaxRetries /\ 0 \in 0 .. MaxVersion
    /\ 1 \in 1 .. MaxDay
<1>1. /\ MaxDay \in Nat \ {0} /\ MaxVersion \in Nat
      /\ MaxRecords \in Nat /\ MaxRetries \in Nat
  BY BoundsAssumption
<1> QED
  BY <1>1

LEMMA InitIInv == Init => IInv
<1> SUFFICES ASSUME Init PROVE IInv
  OBVIOUS
<1>1. TypeOK
  BY Bounds DEF Init, TypeOK
<1>2. Dbs = {NoFile} /\ Named(NoFile) = {} /\ Ordered(NoFile.files) /\ DOMAIN NoFile.files = {}
  BY DEF Init, Dbs, NoFile, NoRows, Named, Ordered
<1>3. AllNamed = {}
  BY <1>2 DEF Init, AllNamed
<1>4. Copies
  BY <1>2, <1>3 DEF Copies
<1>5. Stages
  BY DEF Init, Stages, NoFile
<1> QED
  BY <1>1, <1>4, <1>5 DEF IInv, Inv

LEMMA NewFileKeeps ==
    ASSUME IInv, NewFile
    PROVE  IInv'
<1>1. TypeOK' /\ day' > day
  BY BoundsAssumption DEF NewFile, local, bounds, IInv, TypeOK
<1>2. \A db \in Dbs : \A i \in DOMAIN db.files : db.files[i] \in Int
  BY FilesType, Bounds, Empties DEF IInv, TypeOK, Dbs
<1>3. Copies'
  <2>1. Dbs' = Dbs /\ AllNamed' = AllNamed /\ version' = version
    BY DEF NewFile, local, Dbs, AllNamed, Named
  <2>2. day \in Int /\ day' \in Int
    BY <1>1, Bounds DEF IInv, TypeOK
  <2> QED
    BY <1>1, <1>2, <2>1, <2>2 DEF IInv, Inv, Copies, Ordered
<1>4. Stages'
  BY DEF NewFile, local, IInv, Inv, Stages, MayReplace, Follows
<1> QED
  BY <1>1, <1>3, <1>4 DEF IInv, Inv

(* The end of a job, for whatever reason, leaves the bucket as it is.         *)
LEMMA EndJobKeeps ==
    ASSUME IInv, EndJob, UNCHANGED <<day, object, version, named>>
    PROVE  IInv'
<1>1. TypeOK'
  BY Bounds DEF EndJob, IInv, TypeOK
<1>2. Copies'
  <2>1. Dbs' \subseteq Dbs \cup {NoFile, Partial, EmptyDb}
    BY DEF EndJob, Dbs
  <2> QED
    BY <2>1, CopiesMoved DEF IInv, Inv, AllNamed
<1>3. Stages'
  BY DEF EndJob, IInv, Inv, Stages
<1> QED
  BY <1>1, <1>2, <1>3 DEF IInv, Inv

LEMMA RetryKeeps ==
    ASSUME IInv, RetryOrGiveUp, UNCHANGED <<day, object, version, named>>,
           pc \in {"fetch", "import"}
    PROVE  IInv'
<1>1. CASE EndJob
  BY <1>1, EndJobKeeps
<1>2. CASE ~EndJob
  <2>1. /\ pc' = "fetch" /\ tries' = tries + 1 /\ tries < MaxRetries
        /\ trans' = NoFile /\ records' = 0
        /\ UNCHANGED <<disk, backup, full>>
    BY <1>2 DEF RetryOrGiveUp
  <2>2. TypeOK'
    BY <2>1, BoundsAssumption DEF IInv, TypeOK
  <2>3. Copies'
    <3>1. Dbs' \subseteq Dbs \cup {NoFile, Partial, EmptyDb}
      BY <2>1 DEF Dbs
    <3> QED
      BY <3>1, CopiesMoved DEF IInv, Inv, AllNamed
  <2>4. Stages'
    BY <2>1 DEF IInv, Inv, Stages
  <2> QED
    BY <2>2, <2>3, <2>4 DEF IInv, Inv
<1> QED
  BY <1>1, <1>2

(* The job has opened the bucket's database; a missing one has no files to      *)
(* check, and one whose files pass is whole.                                   *)
LEMMA Loaded ==
    ASSUME Stages, pc = "open"
    PROVE  /\ disk = object \/ object = NoFile
           /\ ~CheckScheduleFiles(NoFile)
           /\ CheckScheduleFiles(object) => object.state = "whole"
<1>1. ~CheckScheduleFiles(NoFile) /\ ~CheckScheduleFiles(EmptyDb)
  BY Empties DEF CheckScheduleFiles
<1> QED
  BY <1>1 DEF Stages, Usable

(* The stages without a record: databases are moved, or started over.         *)
LEMMA MoveKeeps ==
    ASSUME IInv, StartJob \/ DownloadCurrent \/ LoadOrCreateDb \/ Commit \/ StartVacuum
                     \/ EndVacuum \/ GarbledFile
    PROVE  IInv'
<1>1. UNCHANGED <<day, object, version, named>>
  BY DEF StartJob, DownloadCurrent, LoadOrCreateDb, Commit, StartVacuum, EndVacuum,
         GarbledFile, bounds
<1>2. Dbs' \subseteq Dbs \cup {NoFile, Partial, EmptyDb}
  BY DEF StartJob, DownloadCurrent, LoadOrCreateDb, Commit, StartVacuum, EndVacuum,
         GarbledFile, Dbs
<1>3. Copies'
  BY <1>1, <1>2, CopiesMoved DEF IInv, Inv, AllNamed
<1>4. TypeOK'
  <2>1. CASE StartJob
    BY <2>1 DEF StartJob, bounds, IInv, TypeOK
  <2>2. CASE DownloadCurrent
    BY <2>2, Empties DEF DownloadCurrent, bounds, IInv, TypeOK
  <2>3. CASE LoadOrCreateDb
    BY <2>3, Empties DEF LoadOrCreateDb, bounds, IInv, TypeOK
  <2>4. CASE Commit
    BY <2>4, Bounds DEF Commit, bounds, IInv, TypeOK
  <2>5. CASE StartVacuum
    BY <2>5 DEF StartVacuum, bounds, IInv, TypeOK
  <2>6. CASE EndVacuum
    BY <2>6 DEF EndVacuum, bounds, IInv, TypeOK
  <2>7. CASE GarbledFile
    BY <2>7 DEF GarbledFile, IInv, TypeOK
  <2> QED
    BY <2>1, <2>2, <2>3, <2>4, <2>5, <2>6, <2>7
<1>5. Stages'
  <2>1. CASE StartJob
    BY <2>1 DEF StartJob, bounds, IInv, Inv, Stages
  <2>2. CASE DownloadCurrent
    BY <2>2 DEF DownloadCurrent, bounds, IInv, Inv, Stages
  <2>3. CASE LoadOrCreateDb
    <3>1. Stages /\ pc = "open" /\ pc' = "fetch" /\ UNCHANGED <<day, object>>
      BY <2>3 DEF LoadOrCreateDb, IInv, Inv
    <3>2. ~CheckScheduleFiles(EmptyDb)
      BY Empties DEF CheckScheduleFiles
    <3>3. \/ disk' = EmptyDb /\ full' /\ ~CheckScheduleFiles(object)
          \/ disk' = object /\ CheckScheduleFiles(object) /\ ~full'
      BY <2>3, <3>1, <3>2, Loaded DEF LoadOrCreateDb, Stages
    <3> QED
      BY <3>1, <3>3 DEF Stages, CheckScheduleFiles
  <2>4. CASE Commit
    BY <2>4 DEF Commit, bounds, IInv, Inv, Stages, MayReplace, Follows
  <2>5. CASE StartVacuum
    BY <2>5 DEF StartVacuum, bounds, IInv, Inv, Stages, MayReplace, Follows
  <2>6. CASE EndVacuum
    BY <2>6 DEF EndVacuum, bounds, IInv, Inv, Stages, MayReplace, Follows
  <2>7. CASE GarbledFile
    <3>1. CheckScheduleFiles(object) => Usable(object)
      BY Empties DEF IInv, Inv, Stages, CheckScheduleFiles
    <3>2. MayReplace(disk)
      BY <2>7, <3>1 DEF GarbledFile, IInv, Inv, Stages, MayReplace, Follows
    <3> QED
      BY <2>7, <3>2 DEF GarbledFile, IInv, Inv, Stages, MayReplace, Follows
  <2> QED
    BY <2>1, <2>2, <2>3, <2>4, <2>5, <2>6, <2>7
<1> QED
  BY <1>3, <1>4, <1>5 DEF IInv, Inv

(* A file is added to a database that has none, or that may have it next.     *)
LEMMA FetchKeeps ==
    ASSUME IInv, NEW file \in 1 .. MaxDay, FetchFile(file)
    PROVE  IInv'
<1>1. /\ pc = "fetch" /\ pc' = "import" /\ records' = 0
      /\ trans' = [disk EXCEPT !.files = Append(disk.files, file)]
      /\ UNCHANGED <<day, object, disk, backup, full, tries, version, named>>
      /\ \A i \in DOMAIN disk.files : disk.files[i] < file
      /\ file \in Published
  BY DEF FetchFile, TimetableIsNew, bounds
<1>2. disk \in Db /\ disk.files \in Seq(1 .. MaxDay)
  BY <1>1, FilesType, Empties DEF IInv, Inv, Stages, TypeOK, Usable, CheckScheduleFiles, Db
<1>3. /\ trans' \in Db /\ trans'.table = disk.table /\ trans'.state = "whole"
      /\ trans'.files = Append(disk.files, file)
  <2>1. Append(disk.files, file) \in Seq(1 .. MaxDay)
    BY <1>2
  <2>2. trans' = [state |-> disk.state, files |-> Append(disk.files, file),
                  table |-> disk.table]
    BY <1>1, <1>2 DEF Db
  <2> QED
    BY <1>2, <2>1, <2>2 DEF Db
<1>4. /\ Len(trans'.files) = Len(disk.files) + 1
      /\ DOMAIN trans'.files = 1 .. Len(disk.files) + 1
      /\ trans'.files[Len(disk.files) + 1] = file
      /\ \A i \in 1 .. Len(disk.files) : trans'.files[i] = disk.files[i]
  BY <1>2, <1>3
<1>5. Named(trans') = Named(disk)
  BY <1>3 DEF Named
<1>6. TypeOK'
  BY <1>1, <1>3, Bounds DEF IInv, TypeOK
<1>7. Copies'
  <2>1. Ordered(disk.files) /\ disk \in Dbs
    BY DEF IInv, Inv, Copies, Dbs
  <2>2. Ordered(trans'.files)
    BY <1>1, <1>2, <1>4, <2>1 DEF Ordered
  <2>5. \A i \in DOMAIN trans'.files : trans'.files[i] <= day
    BY <1>1, <1>2, <1>4, <2>1, Bounds DEF IInv, Inv, Copies, Published, TypeOK
  <2>3. \A db \in Dbs' : db = trans' \/ db \in Dbs
    BY <1>1 DEF Dbs
  <2>4. AllNamed' \subseteq AllNamed
    <3>1. \A db \in Dbs' : Named(db) \subseteq AllNamed
      BY <1>5, <2>1, <2>3 DEF AllNamed
    <3> QED
      BY <1>1, <3>1 DEF AllNamed, Named
  <2> QED
    BY <1>1, <2>2, <2>3, <2>4, <2>5 DEF IInv, Inv, Copies, Ordered
<1>8. Follows(trans)'
  <2>1. Usable(trans') /\ LastFile(trans') = file
    BY <1>2, <1>3, <1>4 DEF Usable, LastFile
  <2>2. CASE disk = EmptyDb /\ full
    <3>1. file = day /\ Len(trans'.files) = 1
      BY <1>1, <1>4, <2>2, Empties DEF Published
    <3>2. LastFile(object) <= day
      BY Bounds, FilesType DEF IInv, Inv, Copies, Dbs, TypeOK, LastFile, Usable
    <3> QED
      BY <1>1, <2>1, <3>1, <3>2 DEF Follows, LastFile, Usable, Gap
  <2>3. CASE disk = object /\ CheckScheduleFiles(object)
    <3>4. \A i \in DOMAIN object.files : object.files[i] \in Int
      BY <1>2, <2>3, Bounds
    <3>1. ~Gap(object)
      BY <1>2, <2>3, <3>4 DEF CheckScheduleFiles, Gap
    <3>2. LastFile(object) <= file
      <4>1. object.files \in Seq(1 .. MaxDay) /\ Len(object.files) \in Nat
        BY <1>2, <2>3
      <4>2. CASE Len(object.files) > 0
        BY <1>1, <2>3, <3>4, <4>1, <4>2 DEF LastFile, Usable
      <4>3. CASE ~(Len(object.files) > 0)
        BY <4>3, Bounds DEF LastFile, Usable
      <4> QED
        BY <4>2, <4>3
    <3>3. LastFile(trans)' >= LastFile(object)'
      BY <1>1, <1>2, <2>1, <3>2, Bounds DEF LastFile, Usable
    <3> QED
      BY <1>1, <2>1, <3>1, <3>3 DEF Follows, Usable, Gap
  <2> QED
    BY <1>1, <2>2, <2>3 DEF IInv, Inv, Stages
<1>9. Stages'
  BY <1>1, <1>8 DEF IInv, Inv, Stages, CheckScheduleFiles
<1> QED
  BY <1>6, <1>7, <1>9 DEF IInv, Inv

(* A record: the rows of the transaction that are not left alone get an id     *)
(* that nothing else has.                                                      *)
LEMMA TableKeeps ==
    ASSUME IInv, pc = "import", pc' = pc, records' \in 0 .. MaxRecords,
           UNCHANGED <<day, object, disk, backup, full, tries, named>>,
           version' \in version .. version + 1, version' <= MaxVersion,
           trans'.files = trans.files, trans'.state = trans.state, trans' \in Db,
           \A m \in Named(trans') :
               \/ m \in Named(trans)
               \/ m[1] = version + 1 /\ version' = version + 1,
           \A m, n \in Named(trans') : m[1] = n[1] => m[2] = n[2]
    PROVE  IInv'
<1>1. version \in Int /\ version' \in Int /\ version <= version'
  BY Bounds DEF IInv, TypeOK
<1>2. TypeOK'
  BY <1>1, Bounds DEF IInv, TypeOK
<1>3. \A db \in Dbs' : db = trans' \/ db \in Dbs
  BY DEF Dbs
<1>4. \A m \in AllNamed' :
          \/ m \in AllNamed
          \/ m \in Named(trans') /\ m[1] = version + 1 /\ version' = version + 1
  <2>1. Named(trans) \subseteq AllNamed
    BY DEF AllNamed, Dbs
  <2>2. \A db \in Dbs : Named(db) \subseteq AllNamed
    BY DEF AllNamed
  <2>3. AllNamed' \subseteq AllNamed \cup Named(trans')
    BY <1>3, <2>2 DEF AllNamed, Named
  <2> QED
    BY <2>1, <2>3
<1>5. Copies'
  <2>1. \A db \in Dbs' :
            Ordered(db.files) /\ \A i \in DOMAIN db.files : db.files[i] <= day'
    <3>1. Ordered(trans.files) /\ \A i \in DOMAIN trans.files : trans.files[i] <= day
      BY DEF IInv, Inv, Copies, Dbs
    <3> QED
      BY <1>3, <3>1 DEF IInv, Inv, Copies
  <2>2. \A m \in AllNamed : m[1] \in Int
    BY DEF IInv, Inv, TypeOK, AllNamed, Named, Dbs, Db, Row, NoFile, Partial, NoRows
  <2>3. \A m \in AllNamed' : m[1] <= version'
    BY <1>1, <1>4, <2>2 DEF IInv, Inv, Copies
  <2>4. \A m, n \in AllNamed' : m[1] = n[1] => m[2] = n[2]
    <3> SUFFICES ASSUME NEW m \in AllNamed', NEW n \in AllNamed', m[1] = n[1]
                 PROVE  m[2] = n[2]
      OBVIOUS
    <3>1. CASE m \in AllNamed /\ n \in AllNamed
      BY <3>1 DEF IInv, Inv, Copies
    <3>2. CASE m \notin AllNamed \/ n \notin AllNamed
      BY <1>1, <1>4, <2>2, <3>2 DEF IInv, Inv, Copies
    <3> QED
      BY <3>1, <3>2
  <2> QED
    BY <2>1, <2>3, <2>4 DEF Copies, Ordered
<1>6. Stages'
  BY DEF IInv, Inv, Stages, MayReplace, Follows, Usable, LastFile, Gap, CheckScheduleFiles
<1> QED
  BY <1>2, <1>5, <1>6 DEF IInv, Inv

LEMMA RecordKeeps ==
    ASSUME IInv, ApplyRecord
    PROVE  IInv'
<1>1. /\ pc = "import" /\ pc' = pc /\ records' \in 0 .. MaxRecords
      /\ UNCHANGED <<day, object, disk, backup, full, tries, named>>
  <2>1. records \in 0 .. MaxRecords /\ MaxRecords \in Nat
    BY BoundsAssumption DEF IInv, TypeOK
  <2> QED
    BY <2>1 DEF ApplyRecord, bounds
<1>2. /\ trans \in Db /\ trans.state = "whole"
      /\ version \in 0 .. MaxVersion /\ MaxVersion \in Nat
  BY <1>1, Bounds, Empties DEF IInv, Inv, Stages, MayReplace, Follows, Usable, TypeOK
<1>3. \A m, n \in Named(trans) : m[1] = n[1] => m[2] = n[2]
  BY DEF IInv, Inv, Copies, AllNamed, Dbs
<1>4. \A m \in Named(trans) : m[1] <= version /\ m[1] \in Int
  BY <1>2 DEF IInv, Inv, Copies, AllNamed, Dbs, Named, Db, Row
<1>5. PICK K \in SUBSET Keys : trans.table \in [K -> Row]
  BY <1>2 DEF Db
<1>6. PICK key \in Keys :
          \/ DeleteRecord(key)
          \/ \E validity \in Validities, timetable \in Timetables :
                CreateRecord(key, validity, timetable)
  BY DEF ApplyRecord
<1>7. CASE DeleteRecord(key)
  <2>1. version' = version
        /\ trans' = [trans EXCEPT !.table = [k \in K \ {key} |-> trans.table[k]]]
    BY <1>5, <1>7 DEF DeleteRecord
  <2>2. [k \in K \ {key} |-> trans.table[k]] \in [K \ {key} -> Row]
    BY <1>5
  <2>3. trans' \in Db /\ trans'.files = trans.files /\ trans'.state = trans.state
        /\ trans'.table = [k \in K \ {key} |-> trans.table[k]]
    <3>1. [k \in K \ {key} |-> trans.table[k]] \in UNION {[J -> Row] : J \in SUBSET Keys}
      BY <2>2
    <3> QED
      BY <1>2, <2>1, <3>1 DEF Db
  <2>4. Named(trans') \subseteq Named(trans)
    BY <1>5, <2>3 DEF Named
  <2> QED
    BY <1>1, <1>2, <1>3, <2>1, <2>3, <2>4, TableKeeps
<1>8. ASSUME NEW row \in Row, Put(key, row), row.version = version + 1,
             version' = version + 1, version < MaxVersion
      PROVE  IInv'
  <2> DEFINE new == [k \in K \cup {key} |-> IF k = key THEN row ELSE trans.table[k]]
  <2>1. trans' = [trans EXCEPT !.table = new]
    BY <1>5, <1>8 DEF Put
  <2>2. new \in UNION {[J -> Row] : J \in SUBSET Keys}
    <3>1. K \cup {key} \in SUBSET Keys /\ new \in [K \cup {key} -> Row]
      BY <1>5
    <3> QED
      BY <3>1
  <2>3. trans' \in Db /\ trans'.files = trans.files /\ trans'.state = trans.state
        /\ trans'.table = new
    BY <1>2, <2>1, <2>2 DEF Db
  <2>4. \A m \in Named(trans') :
            m \in Named(trans) \/ m = <<version + 1, row.timetable>>
    BY <1>5, <1>8, <2>3 DEF Named
  <2>5. \A m, n \in Named(trans') : m[1] = n[1] => m[2] = n[2]
    BY <1>2, <1>3, <1>4, <2>4
  <2> QED
    BY <1>1, <1>2, <1>8, <2>3, <2>4, <2>5, TableKeeps
<1>9. ASSUME NEW validity \in Validities, NEW timetable \in Timetables,
             CreateRecord(key, validity, timetable)
      PROVE  IInv'
  <2>1. CASE InsertRecord(key, validity, timetable)
    <3>1. [version |-> version + 1, validity |-> validity, timetable |-> timetable] \in Row
      BY <1>2, <2>1 DEF InsertRecord, Row
    <3> QED
      BY <1>8, <2>1, <3>1 DEF InsertRecord
  <2>2. CASE ReplaceMvts(key, timetable)
    <3>1. trans.table[key] \in Row
      BY <1>5, <2>2 DEF ReplaceMvts, HasRow
    <3> DEFINE row == [version |-> version + 1, validity |-> trans.table[key].validity,
                       timetable |-> timetable]
    <3>2. row \in Row /\ row.version = version + 1
      BY <1>2, <1>9, <2>2, <3>1 DEF ReplaceMvts, Row
    <3> QED
      BY <1>8, <2>2, <3>2 DEF ReplaceMvts
  <2>3. CASE LeaveMvts(key, timetable)
    BY <1>1, <1>2, <1>3, <2>3, TableKeeps DEF LeaveMvts
  <2> QED
    BY <1>9, <2>1, <2>2, <2>3 DEF CreateRecord
<1> QED
  BY <1>6, <1>7, <1>9

LEMMA UploadKeeps ==
    ASSUME IInv, Upload
    PROVE  IInv'
<1>1. /\ pc = "upload" /\ object' = backup /\ named' = named \cup Named(backup)
      /\ EndJob /\ UNCHANGED <<day, version>>
  BY DEF Upload, bounds
<1>2. backup \in Db
  BY <1>1, Empties DEF IInv, Inv, Stages, MayReplace, Follows, Usable, TypeOK, Db
<1>3. Named(backup) \subseteq (1 .. MaxVersion) \X Timetables
  BY <1>2 DEF Named, Db, Row
<1>4. TypeOK'
  BY <1>1, <1>2, <1>3, Bounds DEF EndJob, IInv, TypeOK
<1>5. Copies'
  <2>1. Dbs' \subseteq Dbs \cup {NoFile, Partial, EmptyDb} /\ named' \subseteq AllNamed
    BY <1>1 DEF EndJob, Dbs, AllNamed
  <2> QED
    BY <1>1, <2>1, CopiesMoved DEF IInv, Inv
<1>6. Stages'
  BY <1>1 DEF EndJob, IInv, Inv, Stages, MayReplace, Follows
<1> QED
  BY <1>4, <1>5, <1>6 DEF IInv, Inv

LEMMA NextKeeps ==
    ASSUME IInv, [Next]_vars
    PROVE  IInv'
<1>1. CASE NewFile
  BY <1>1, NewFileKeeps
<1>2. CASE StartJob \/ DownloadCurrent \/ LoadOrCreateDb \/ Commit \/ StartVacuum \/ EndVacuum
          \/ GarbledFile
  BY <1>2, MoveKeeps
<1>3. ASSUME NEW file \in 1 .. MaxDay, FetchFile(file) \/ TimetableNotNew(file)
      PROVE  IInv'
  <2>1. CASE FetchFile(file)
    BY <2>1, FetchKeeps
  <2>2. CASE TimetableNotNew(file)
    BY <2>2, RetryKeeps DEF TimetableNotNew
  <2> QED
    BY <1>3, <2>1, <2>2
<1>4. CASE Upload
  BY <1>4, UploadKeeps
<1>5. CASE ApplyRecord
  BY <1>5, RecordKeeps
<1>6. CASE Fail
  BY <1>6, RetryKeeps, EndJobKeeps DEF Fail
<1>7. CASE Kill
  BY <1>7, EndJobKeeps DEF Kill
<1>8. CASE UNCHANGED vars
  BY <1>8 DEF vars, local, bounds, IInv, Inv, TypeOK, Copies, Stages, MayReplace, Follows,
              Dbs, AllNamed
<1> QED
  BY <1>1, <1>2, <1>3, <1>4, <1>5, <1>6, <1>7, <1>8 DEF Next, JobStep

(* Types and the inductive invariant.                                        *)
THEOREM Correct == Spec => [](TypeOK /\ Inv)
<1>1. Spec => []IInv
  BY InitIInv, NextKeeps, PTL DEF Spec
<1> QED
  BY <1>1, PTL DEF IInv

(* An id that was ever in the bucket names one list of movements: every id     *)
(* that was is among those the invariant speaks of.                            *)
THEOREM IdsNameTimetables == Spec => []VersionNamesTimetable
<1>1. Spec => []IInv
  BY InitIInv, NextKeeps, PTL DEF Spec
<1>2. IInv => VersionNamesTimetable
  BY DEF IInv, Inv, Copies, AllNamed, VersionNamesTimetable
<1> QED
  BY <1>1, <1>2, PTL

(* No file is applied twice or late.                                          *)
THEOREM FilesAreOrdered == Spec => []FilesInOrder
<1>1. Spec => []IInv
  BY InitIInv, NextKeeps, PTL DEF Spec
<1>2. IInv => FilesInOrder
  BY DEF IInv, Inv, Copies, Dbs, FilesInOrder
<1> QED
  BY <1>1, <1>2, PTL

(* The bucket's database is only replaced by one that may replace it; by the    *)
(* empty one only where it is missing or has a gap.                            *)
THEOREM BucketImproves == Spec => ObjectImproves
<1> DEFINE Improves ==
        object' # object =>
            \/ /\ Usable(object')
               /\ LastFile(object') >= LastFile(object)
               /\ Gap(object) => Len(object'.files) = 1
            \/ object' = EmptyDb /\ (object = NoFile \/ Gap(object))
<1>1. Spec => []IInv
  BY InitIInv, NextKeeps, PTL DEF Spec
<1>2. IInv /\ [Next]_vars => [Improves]_vars
  <2> SUFFICES ASSUME IInv, [Next]_vars, object' # object
               PROVE  Improves
    OBVIOUS
  <2>1. Upload
    BY DEF Next, JobStep, NewFile, StartJob, DownloadCurrent, LoadOrCreateDb, FetchFile,
           TimetableNotNew, Commit, StartVacuum, EndVacuum, ApplyRecord, GarbledFile, Fail, Kill,
           vars, local, bounds
  <2>2. object' = backup /\ MayReplace(backup)
    BY <2>1 DEF Upload, IInv, Inv, Stages
  <2>3. CASE object' = EmptyDb /\ ~CheckScheduleFiles(object)
    <3>1. object # EmptyDb /\ (object = NoFile \/ Usable(object))
      BY <2>3 DEF IInv, Inv, Stages
    <3>2. CASE Usable(object)
      <4>1. object.files \in Seq(1 .. MaxDay) /\ Len(object.files) > 0
        BY <3>2, FilesType DEF IInv, TypeOK, Usable
      <4>2. \A i \in 1 .. Len(object.files) : object.files[i] \in Int
        BY <4>1, Bounds
      <4>3. PICK i \in 2 .. Len(object.files) : object.files[i] - 1 # object.files[i - 1]
        BY <2>3, <4>1 DEF CheckScheduleFiles
      <4>4. object.files[i] > object.files[i - 1]
        BY <4>1, <4>2, <4>3 DEF IInv, Inv, Copies, Dbs, Ordered
      <4> QED
        BY <2>3, <4>1, <4>2, <4>3, <4>4 DEF Gap
    <3> QED
      BY <2>3, <3>1, <3>2
  <2> QED
    BY <2>2, <2>3 DEF MayReplace, Follows
<1> QED
  BY <1>1, <1>2, PTL DEF Spec, ObjectImproves

(* The types of the databases and of the job, whatever fails or is killed.     *)
THEOREM Typed == Spec => []TypeOK
<1>1. TypeOK /\ Inv => TypeOK
  OBVIOUS
<1> QED
  BY <1>1, Correct, PTL
==============================================================================
