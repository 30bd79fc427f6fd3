--------------------------- MODULE FahrplanReplica ----------------------------
(***************************************************************************)
(* One tspl-fahrplan process: DbUpdater, which polls the bucket and puts a  *)
(* new current.sqlite under the running server, and the threads that answer *)
(* requests from the pool it swaps.  A database is known by the version of  *)
(* current.sqlite it was downloaded as; 0 is an empty one.                  *)
(***************************************************************************)
EXTENDS Integers, FiniteSets

CONSTANTS
    Requests,       \* threads answering requests
    MaxVersion,     \* bound on the versions published
    MaxRestarts,    \* bound on the times the process is killed
    MaxFailures     \* bound on the failures of the bucket, the disk and SQLite

ASSUME BoundsAssumption ==
    /\ MaxVersion \in Nat \ {0}
    /\ MaxRestarts \in Nat
    /\ MaxFailures \in Nat

VARIABLES
    object,         \* version in the bucket
    last_updated,   \* version whose timestamp the updater noted
    updater,        \* where the updater stands
    serving,        \* the server has been started
    dl,             \* version in fahrplan-dl.sqlite
    file,           \* version in fahrplan.sqlite
    pool,           \* version that the pool's connections have open
    reading,        \* requests that hold the pool's lock for reading
    conn,           \* request -> version its connection has open, or None
    shown,          \* newest version a request was given (history)
    restarts,       \* times it was killed so far
    failures        \* failures so far

None == -1

bounds == <<restarts, failures>>
updating == <<last_updated, updater, dl>>
disk == <<file, pool>>
vars == <<object, updating, serving, disk, reading, conn, shown, bounds>>

Versions == 0 .. MaxVersion
Steps == {"init", "sleep", "download", "lock", "temp", "rename", "open", "dead",
          "exited"}
\* The updater holds the pool's lock for writing.
Locked == updater \in {"temp", "rename", "open"}

TypeOK ==
    /\ object \in Versions /\ last_updated \in Versions /\ dl \in Versions
    /\ updater \in Steps
    /\ serving \in BOOLEAN
    /\ file \in Versions /\ pool \in Versions
    /\ reading \subseteq Requests
    /\ conn \in [Requests -> Versions \cup {None}]
    /\ shown \in Versions
    /\ restarts \in 0 .. MaxRestarts
    /\ failures \in 0 .. MaxFailures

Init ==
    /\ object = 1
    /\ last_updated = 0 /\ updater = "init" /\ dl = 0
    /\ serving = FALSE
    /\ file = 0 /\ pool = 0
    /\ reading = {}
    /\ conn = [r \in Requests |-> None]
    /\ shown = 0
    /\ restarts = 0 /\ failures = 0

-----------------------------------------------------------------------------
(* The updater                                                              *)

\* tspl-fahrplan-updater uploads a new database.
Publish ==
    /\ object < MaxVersion
    /\ object' = object + 1
    /\ UNCHANGED <<updating, serving, disk, reading, conn, shown, bounds>>

\* Mutant: the server starts with the database that is in the image.
InitBundled ==
    /\ updater = "init"
    /\ last_updated' = object
    /\ file' = 1 /\ pool' = 1
    /\ serving' = TRUE
    /\ updater' = "sleep"
    /\ UNCHANGED <<object, dl, reading, conn, shown, bounds>>
\* DbUpdater::init, then main calls download.
InitUpdater ==
    /\ updater = "init"
    /\ last_updated' = object
    /\ updater' = "download"
    /\ UNCHANGED <<object, serving, dl, disk, reading, conn, shown, bounds>>

\* check_if_changed, after a sleep.
CheckIfChanged ==
    /\ updater = "sleep"
    /\ object # last_updated
    /\ last_updated' = object
    /\ updater' = "download"
    /\ UNCHANGED <<object, serving, dl, disk, reading, conn, shown, bounds>>

\* The object may have been replaced since its metadata were read.
Download ==
    /\ updater = "download"
    /\ dl' = object
    /\ updater' = "lock"
    /\ UNCHANGED <<object, last_updated, serving, disk, reading, conn, shown, bounds>>

\* Mutant: readers that wait for a connection are not waited for.
AcquireLockAnyway ==
    /\ updater = "lock"
    /\ updater' = "temp"
    /\ UNCHANGED <<object, last_updated, dl, serving, disk, reading, conn, shown, bounds>>
\* The write lock: no request is taking a connection.
AcquireLock ==
    /\ updater = "lock"
    /\ reading = {}
    /\ updater' = "temp"
    /\ UNCHANGED <<object, last_updated, dl, serving, disk, reading, conn, shown, bounds>>

\* A pool of an empty temporary database replaces the one in use.
UseTemp ==
    /\ updater = "temp"
    /\ pool' = 0
    /\ updater' = "rename"
    /\ UNCHANGED <<object, last_updated, dl, serving, file, reading, conn, shown, bounds>>

\* Mutant: the file is not renamed.
KeepFile ==
    /\ updater = "rename"
    /\ updater' = "open"
    /\ UNCHANGED <<object, last_updated, dl, disk, serving, reading, conn, shown, bounds>>
Rename ==
    /\ updater = "rename"
    /\ file' = dl
    /\ updater' = "open"
    /\ UNCHANGED <<object, last_updated, dl, pool, serving, reading, conn, shown, bounds>>

\* A pool of the new database, and the lock is released.  The first time round
\* main then starts the server.
OpenNew ==
    /\ updater = "open"
    /\ pool' = file
    /\ updater' = "sleep"
    /\ serving' = TRUE
    /\ UNCHANGED <<object, last_updated, dl, file, reading, conn, shown, bounds>>

\* Any of these fails.  At first main returns; later the background thread
\* unwraps the error and is gone, and the lock is released as it unwinds.
UpdaterFails ==
    /\ failures < MaxFailures
    /\ updater \in {"init", "sleep", "download", "temp", "rename", "open"}
    /\ failures' = failures + 1
    /\ updater' = IF serving THEN "dead" ELSE "exited"
    /\ UNCHANGED <<object, last_updated, dl, serving, disk, reading, conn, shown,
                   restarts>>

\* The process starts, in a new container.
StartProcess ==
    /\ last_updated' = 0 /\ updater' = "init" /\ dl' = 0
    /\ serving' = FALSE
    /\ file' = 0 /\ pool' = 0
    /\ reading' = {}
    /\ conn' = [r \in Requests |-> None]
    /\ UNCHANGED <<object, shown, failures>>

\* The container is replaced when main returns ...
Restart ==
    /\ updater = "exited"
    /\ StartProcess
    /\ UNCHANGED restarts

\* ... and whenever Kubernetes moves or upgrades it.
Killed ==
    /\ restarts < MaxRestarts
    /\ restarts' = restarts + 1
    /\ StartProcess

-----------------------------------------------------------------------------
(* Requests: self.pool.read().unwrap().get()?                               *)

ReadPool(r) ==
    /\ serving
    /\ conn[r] = None /\ r \notin reading
    /\ ~Locked
    /\ reading' = reading \cup {r}
    /\ UNCHANGED <<object, updating, serving, disk, conn, shown, bounds>>

\* A connection of the pool, or the pool's timeout; the lock is released.
GetConn(r) ==
    /\ r \in reading
    /\ reading' = reading \ {r}
    /\ \/ /\ conn' = [conn EXCEPT ![r] = pool]
          /\ shown' = IF pool > shown THEN pool ELSE shown
       \/ UNCHANGED <<conn, shown>>
    /\ UNCHANGED <<object, updating, serving, disk, bounds>>

\* The queries of the request, all on the one connection.
Answer(r) ==
    /\ conn[r] # None
    /\ conn' = [conn EXCEPT ![r] = None]
    /\ UNCHANGED <<object, updating, serving, disk, reading, shown, bounds>>

UpdaterStep ==
    \/ InitUpdater \/ CheckIfChanged \/ Download
    \/ UseTemp \/ Rename \/ OpenNew

Next ==
    \/ Publish \/ UpdaterStep \/ AcquireLock \/ UpdaterFails \/ Restart \/ Killed
    \/ \E r \in Requests : ReadPool(r) \/ GetConn(r) \/ Answer(r)

\* The updater thread and the server's threads are scheduled, and a container
\* that exits is replaced.  The lock lets
\* readers in while a writer waits: that they leave a gap now and then, and the
\* writer is woken in one in the end, is an assumption about the load.
Fairness ==
    /\ WF_vars(UpdaterStep)
    /\ WF_vars(Restart)
    /\ SF_vars(AcquireLock)
    /\ []<>(reading = {})
    /\ \A r \in Requests : WF_vars(GetConn(r)) /\ WF_vars(Answer(r))

Spec == Init /\ [][Next]_vars
FairSpec == Spec /\ Fairness

-----------------------------------------------------------------------------
(* Properties                                                               *)

\* No request is answered from the empty database that stands in during a
\* swap, unless a swap failed half way and took the updater with it.
EmptyOnlyAfterFailure ==
    \A r \in Requests : conn[r] = 0 => updater = "dead"

\* A request that starts later never gets an older database, across swaps,
\* restarts and versions published in the middle of a download.
RequestsMoveForward ==
    [][\A r \in Requests :
          conn[r] = None /\ conn'[r] \notin {None, 0} => conn'[r] >= shown]_vars

\* As long as the updater lives, a version in the bucket, or a newer one, is
\* served in the end: also one published in the middle of a download, or when a
\* failure at startup or a move had the process start over.
LiveUpdaterServes ==
    \A v \in 1 .. MaxVersion : object >= v ~> pool >= v \/ updater = "dead"

\* "Handles downloading schedule files from GCS, including updated versions
\* when they become available."
UpdatesAreServed ==
    \A v \in 1 .. MaxVersion : object >= v ~> pool >= v

-----------------------------------------------------------------------------
(* The inductive invariant                                                  *)

\* Before the server starts there are no requests; a request with the lock
\* keeps the updater out; the pool is empty only in a swap or after one failed;
\* what is downloaded next is never older than what was shown.
Inv ==
    /\ ~serving => reading = {} /\ \A r \in Requests : conn[r] = None
    /\ updater \in {"init", "exited"} => ~serving
    /\ updater \in {"sleep", "dead"} => serving
    /\ Locked => reading = {}
    /\ serving /\ pool = 0 => updater \in {"rename", "open", "dead"}
    /\ updater \in {"lock", "temp", "rename", "open"} =>
          \A v \in {1, shown, pool} : dl >= v
    /\ updater = "open" => file = dl
    /\ \A v \in {1, shown, dl, file, pool} : object >= v
    /\ serving => pool = 0 \/ pool >= shown
    /\ EmptyOnlyAfterFailure
==============================================================================
