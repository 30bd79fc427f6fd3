# trainsplorer: a verification of the live train services

trainsplorer shows what British trains are planned to do and what they are
doing.  This project models the services that keep that data (the `tspl-*`
crates), and the schedules, trains and railway of their predecessor (the
`osms-*` crates), in TLA+, checks the models with TLC on small instances, and
proves with TLAPS, for every value of the constants, every invariant and action
property that the passing runs check.

## 1. The system

```
   NROD schedule files           TRUST and Darwin (STOMP)       CORPUS, MSN
            |                              |                        |
   tspl-fahrplan-updater        tspl-nrod (one process a feed)  tspl-nennen
     daily job, SQLite                16 workers each              names
            | current.sqlite               |                        |
            v (bucket)                     v HTTP                   |
      tspl-fahrplan  <---- HTTP ----  tspl-zugfuhrer --TCP--> live clients
      2 replicas, poll                SQLite, 1 process             |
            ^                              ^                        |
            +------- tspl-verknupfen ------+------- tspl-web -------+

   the predecessor, all of it over one PostgreSQL database:

   osms-db-setup (files, map)    osms-nrod (TRUST, VSTP, Darwin)    osms-web
         |    listener: ways            | workers                      |
         +------------------------- osms-db ---------------------------+
```

| part | state | operations | what makes it correct |
| --- | --- | --- | --- |
| **tspl-zugfuhrer** | `trains`, `train_movements`; a pool of connections; live clients with a queue each | activate (TRUST, Darwin), link TRUST ID, record update (TRUST, Darwin), terminate, cancel, look up, query one station or two; accept, synchronise and tell clients | one row a run, filled once; reports kept; no client misses a train; nobody waits for a thread that waits |
| **tspl-nrod** | a STOMP session, its events and timer; an unbounded queue; a cache of ids | connect, reconnect, acknowledge; one handler for a record of each kind | calls in the right order; day offsets that find the movement; the feed comes back, nothing acknowledged goes missing |
| **tspl-fahrplan** | one database file, a pool of connections under a lock | poll, download, swap; schedules for activation, authoritative schedule, schedules at a station, between two | versions only get newer, no half-swapped database is read, nothing superseded is shown |
| **tspl-fahrplan-updater** | `current.sqlite` on disk and in the bucket | fetch, import in one transaction, vacuum, upload | files in order, ids that keep their meaning, catches up |
| **tspl-verknupfen** | none | merge schedules and trains of a station | reported times first, the calls of schedules without a train (which it drops) |
| **tspl-sqlite** | the table of migrations | migrate at the start | each once and in order, whoever races |
| **osms-nrod** | `trains`, `train_movements`, Darwin's schedules | activate, link, report, estimate, cancel, VSTP | both feeds on one train; reports stay; no call twice |
| **osms-db-setup** | `schedules`, `schedule_files`, nodes and links | import, update, recover; listener with threads; the phases of the map | recovery exact, a schedule in one thread's hands, imports get their ways (with two exceptions, section 3) |
| **osms-db**, **osms-web** | the railway's graph | search a way, correct a station; movements of a train | shortest ways, no panic |
| tspl-web, tspl-nennen | none that changes | pages, names | |
| tspl-util, tspl-gcs, ntrod-types, darwin-types, atoc-msn, osms-darwin | none | clients, parsers, a printer | |

The services call each other over HTTP, and a handler makes its calls one after
the other: between two of them the tables change, the other replica may answer,
either process may restart.  What is hard here is that, rather than any step:

- *Two feeds, one train.*  TRUST and Darwin both activate trains, from 32 workers
  at once, from different keys (TRUST names the schedule, Darwin a UID and a
  date), and tspl-zugfuhrer asks tspl-fahrplan twice in between.  osms-nrod has
  the same task with transactions that see each other's commits.
- *Independent computations that have to agree.*  The day a call is made on is
  computed by three programs from three things.
- *A database changed under its readers.*  tspl-fahrplan renames a new file over
  the one its pool has open; a search for a way goes over a graph link by link
  while a station in it is moved.
- *Jobs that may stop anywhere.*  tspl-fahrplan-updater is started every minute
  from five to six, each time replacing a job that is still running; the setup of
  osms may be stopped between phases; migrations may be cut off.
- *Rows in any order.*  Queries fold over rows that the database may give in any
  order.
- *Acknowledged before it is done.*  The feed's messages are acknowledged when
  they are queued; clients are registered before they have read the table.

Every part, modelled or not, is in `PROJECT.json` with the reason; so is every
hazard that a property covers, at its line; what no property covers is in section 5.

## 2. The modules

Each component has a module with its actions, invariants and, where it is proved
about, the inductive invariant (`Inv`, or `FeedInv`, `LiveInv`, ... in modules
that are checked together); modules `...Proofs` have the theorems; modules
`MC...` the definitions of constants, or several modules side by side.
`PROJECT.json` maps each definition to the lines it stands for.  Mutated
definitions, each the form of a plausible bug, are next to the definition and
marked `Mutant:`.

### The tspl services

**TrainRegistry** is what tspl-zugfuhrer promises about trains: a run (a
schedule on a date) is entered once, perhaps as a stub without movements, and
filled once, from a version of its own schedule.  **Activation** is how it keeps
that.  A thread is a worker of tspl-nrod together with the handler it waits for;
`pc` says which of the calls it is at (`lookup`, `find`, `details`, `insert`,
`rid`, `announce`, `link`).  `latest` is the newest database of the updater,
`loaded[r]` the one that replica `r` has open.  `ActivateLowlevel` is one action
since the code has its SELECT, INSERTs and UPDATE in one EXCLUSIVE transaction.
Any call may `Fail`; a `Restart` ends the handlers but not the rows.

**LiveUpdates** is what happens to a train that is in the table: both feeds
record updates, TRUST cancels and terminates, after each commit the update is
broadcast, and both processes restart.  A worker takes any message at any time,
any number of times: that stands for 16 workers on one queue, for messages
delivered twice and for lost ones.  Times are names: the code does not compare
them.  `cast` holds the rows that live clients were told of since tspl-zugfuhrer was
started.  Clients that come back after a restart are sent today's trains and none of
their updates, so what was committed before it is on record as `missed`, whether it
had been broadcast or not.

**LiveBroadcast** is how they are told: threads that commit and then send a
packet, the listener, the broadcaster's `select!` between new streams and
packets, and a handler for each client that first reads today's trains and then
sends what is in its queue `rx`.  The broadcaster registers a client before the
client's handler reads the table, which is why no train falls in between; a
stream that has vanished when its address is asked for ends the broadcaster.

**NrodFeed** is a tspl-nrod process from the session to the workers.  `poll` is
two actions, the timer's half (`Reconnect`) and one event (`PollEvent`), since
the reactor may wake it for either.  `owed`, `unacked`, `acked` say where the
broker has a message, `handled` and `lost` what became of it.  The delay doubles
up to a bound of the model.

**ConnectionPool** is the connections of tspl-zugfuhrer and the handlers that
take them; `activate_train_darwin` keeps its first while it takes a second.
**Migrations** is a database that processes of several releases open at once,
each migration with its entry in one transaction.

**DayOffsets** has one train, the importer's `midnight_check`, the Darwin
worker's `update_day_offset` with its two phases (flatten, then send), the TRUST
worker's offset and tspl-zugfuhrer's look-ups by date and by (stop, time,
offset).  The offset is a `u8` and wraps.  Times are whole hours, the unit in
which the Darwin worker compares (`num_hours`).

**FahrplanReplica** is one tspl-fahrplan process: the updater thread with every
step of the swap (write lock, empty stand-in pool, rename, new pool), its
failures, and the threads that take the read lock, wait for a connection and
keep it after the lock is gone.  A database is the version it was published as;
0 is the empty one.

**FahrplanUpdater** is the job.  NROD keeps an update file for each weekday, so a
slot may still have last week's; the job fetches today's, imports it in one
transaction if its sequence number is new, and starts over from the full file
when there is a gap.  A file may come garbled (`GarbledFile`): a line that does not
parse is never cleared, so the lines after it fail too, and what was read before it
is committed, down to nothing, and uploaded.  One number stands for a file's day,
sequence number and timestamp; a record is a key, a validity and a list of movements.

**MovementQuery** is one question to tspl-verknupfen (and one look-up of a
UID) against changing tables: the join in tspl-fahrplan row by row, then the
trains of tspl-zugfuhrer, then the merge update by update.  Requests only read,
so one of each stands for all.  **ConnectingQuery** has the two queries for calls
at one station that go on to another: the rows, pairs of calls with a superseding
schedule or an update of either, are folded in any order into maps keyed by the
call here.

The modules share an interface rather than an instance: what Activation asks of
tspl-fahrplan is checked to be right in MovementQuery (`LookupFindsAuthoritative`)
and in FahrplanUpdater (`VersionNamesTimetable`, which is why copying movements by
`tspl_id` is sound); the offsets of DayOffsets are those of the rows that
Activation copies; LiveUpdates starts where Activation ends, at a train with an
announcement (`LinkedIsAnnounced`), and LiveBroadcast where LiveUpdates ends, at
a commit that is followed by its packet; a worker of NrodFeed that handles a
record is a thread of Activation, LiveUpdates or DayOffsets.

### osms

**OsmsLinking** is how osms-nrod makes one train of an activation and of
Darwin's messages.  A worker's hand has the message and the statement it is at
(`by_rid`, `unlinked`, `link`, `schedules`, `check` for each schedule found, `insert`):
each is an action, since
PostgreSQL shows a statement what others have committed.  The row of `trains` is
upserted with COALESCE, and a double activation makes Darwin's worker start
again.  Imports bring an overlay and take it away.

**OsmsMovements** is what is then recorded: TRUST's reports with the naive
estimates that they make and delete, cancellations, Darwin's TS messages location
by location, Darwin's own schedules with movements that get new ids, and
`mvt_query`'s fold over the rows of a call.  Two trains share a schedule's
movements, one a day.  Two workers have a transaction each (`hand`), statement by
statement: what it has written (`put`) and deleted (`gone`) is its own to see until
`Commit`, a statement that comes to such a row waits (`Free`), and a DELETE takes two
steps, since it goes by the rows that were committed when it started.  A deadlock or
an error is `Rollback`.

**OsmsSchedules** is where schedules come from: files imported by an update or a
recovery, single ones by VSTP, and the listener, which makes ways with several
threads (`FOR UPDATE SKIP LOCKED`) each time it is notified.  Commands and VSTP
messages write row by row in transactions that stay open (`writes`) until they commit,
and notify, or roll back: writers wait for each other's rows and for those of threads,
threads pass by those of writers.  A VSTP message that is a duplicate has its row
until its error rolls it back.  Activations, which take `FOR KEY SHARE`, and a DELETE
that waits for another row have a row for the moment a thread looks: `others` in
`TakeSched`.  `replaced`, `alone` and `missed` are history: that movements were
replaced after the mark, that no update was imported since recovery looked at the
files, and which rows the threads passed by since the last notification.

**RailwayGraph** is the graph: the phases of the setup, which a stop may cut off
and a start resumes, the correction of a station, and the search between two
stations with its heap and map, one query a step.  A station is joined to the ends of
any set of links that share no end, for those that cross its area are given by the map:
it may connect two pieces of track, or none, and when it is corrected cut them again.

## 3. The runs

Three runs check several modules *side by side*: a variable `part`, chosen in the
initial state, says which module moves, and the others stay in an initial state.
No step of one changes a variable of another, so each module is explored exactly
as by itself; what is shared is the run.  (The fairness formulas there have
`part` in each action; `Inv` and `TypeOK` are the ones of FahrplanUpdater,
FahrplanReplica and MovementQuery, which came first.)

| run | instance | what it shows |
| --- | --- | --- |
| `activation_race` | two workers, both feeds, an overlay and a permanent schedule, two versions | one row a run, announced before it can be reported about; RIDs are stable; implements TrainRegistry |
| `activation_replicas` | two replicas, two dates, a version without movements | a train is filled once, from its own schedule, whichever replica answered |
| `live_updates` | two Darwin workers, and beside them a TRUST one for two calls or two for the last; two times | terminations follow reports; what clients miss was committed before a restart; reports stay; one estimate, however two workers race |
| `timetables` | the job: four days, two slots, two keys, two timetables, a failure or a garbled file, a kill; linking: two workers, two TRUST IDs, a RID, two imports; schedules: a file's and a VSTP schedule, two days, two threads, two imports that may be rolled back, a failure | ids, order of the files, the bucket only improves (but for the empty database of a garbled file) and catches up; one train of both feeds, final links, no message for ever; rows and threads apart, recovery exact, imports processed |
| `processes` | the swap: two requests, three versions, a failure, a kill; feed: two messages (one garbled), a worker; live: two clients, a train; pool: three threads, two connections; migrations: three processes, two releases, a death | nobody reads the stand-in; the feed comes back and loses nothing; streams without a gap, trains told; who waits for whom; each migration once |
| `queries` | four schedules of a UID (two equal), two calls, two updates; every journey of up to three calls at four times and two stops; four journeys (two of equal rank, one of which does not go on to the second station), five updates; two trains, four stops, two workers, three messages of one location; two links that share no node, two stations, a stop of the setup, a correction | answers do not depend on the order of rows or on changes in between; offsets are true; reports stay and the best is shown; parts are components, searches are shortest |
| `offset_follows_table` | three times | **violated**: `last_time` is never moved on |
| `crosses_midnight_is_told` | three times | **violated**: the flag is never set |
| `fahrplan_updates_failing` | one failure | **violated**: an error ends the updates for good |
| `record_is_updated` | the job's | **violated**: a known schedule keeps its old validity |
| `scheduled_calls_are_shown` | the query's | **violated**: calls of schedules are dropped |
| `kept_movements_stay` | two trains, four stops | **violated**: movements in both schedules are deleted and made again |

A run checks few properties, each of which says much.  Some are conjunctions of
named parts that are about one hazard: `FoldsAreRight` (superseding, look-up,
reported times), `ConnectionsAreRight`, `CallsAreRight` (nothing after the end, no call
twice, best source),
`SearchIsRight`, and the liveness of a component, `FeedGoesOn` (`LinkComesBack`,
`AckedIsHandled`), `ClientsAreServed` (`TrainsAreTold`, `DeadBroadcasterLetsGo`)
and `NobodyWaitsForEver` (`EveryRequestEnds`, `NewestRuns`).  `TimetablesHold`,
`ProcessesHold` and `QueriesHold` are the types and inductive invariants of the
modules of a run, which are what the theorems rest on.  The types and inductive
invariants of Activation and LiveUpdates are proved and not run.

The bounds are what the interesting case takes.  A race needs two workers; a
third only repeats a step one of two could take, since the locks are on one
table.  A superseded schedule needs two keys of one UID; a version changed
between two calls needs two versions, and the look-ups of two replicas two
replicas.  The two schedules of a
UID that are of equal rank, of which one calls at only one of the two stations,
are where the order of the rows could tell.  Journeys of three calls have a first, a previous and a present time,
which is what the two offset rules differ in.  Four days and two slots make a
slot with an old file, a missed day and a gap, twice.  Three threads and two
connections make a thread that waits for two that hold one each.  Three processes
of two releases race and refuse.  Two imports make an overlay come and go under a
worker, or a recovery and an update in between, or one that is rolled back while a
thread looks.  Two estimates of a call race between two Darwin workers; beside them one
TRUST worker is enough for reports of different calls, and two are there for the
call whose report terminates the train.  Two pieces of track and two stations, each of
which may be on one, both or neither, make a ring with a way that is found first and
one that is shorter, two parts, and, cut by a correction, a part in two pieces.  Failures, kills and restarts are bounded
to one in the runs with liveness, where any number of them would let nothing ever
end; the safety of Activation and LiveUpdates is checked with any number.  The
proofs need none of these bounds.

Workers, replicas, times of updates, and the trains and stations of osms are
symmetric, and are declared so in runs of safety properties only.  In `queries` a
question to OsmsMovements is answered before the next message comes: it goes by the
rows it has read, so the order of the two tells nothing.
Darwin's schedules there have the train's first call and others that its own schedule
has not.  In `timetables` a row of OsmsSchedules is created with the first list of
movements, for two lists are only told from each other when one replaces the other.
Deadlock is checked wherever the system may not stop; the query ends, and the
others stop at their bounds.

### Fairness and what is assumed of libraries

- FahrplanReplica: the updater thread goes on (`WF` of its step), a container
  that exits is started again, requests get on with their connections.  The lock
  of the Rust library lets readers in while a writer waits, so the writer's turn
  (`SF` of `AcquireLock`, and `[]<>(reading = {})`) is an assumption about the
  load, not a promise of the code; the model names it.
- FahrplanUpdater: NROD goes on, the job is scheduled again and again, and the
  slot of the last day holds its file in some attempt (`SF` of `FetchFile(day)`),
  as the cron schedule of sixty starts and the retries justify.
- NrodFeed: timers fire, the workers are scheduled, and a broker that is asked
  again and again accepts at last (`SF` of `Accept`).  That the session wakes the
  reactor as long as it holds an event (`WF` of `PollEvent`) is assumed of the STOMP
  library: the code takes one event a poll and asks for no other.
- LiveBroadcast: threads run, and crossbeam's `select!`, which chooses at random
  among channels that are ready, takes from each in the end (`SF` of `NewStream`
  and of `Broadcast`).
- ConnectionPool: threads get on, and r2d2 refuses a thread after thirty seconds
  (`TimedOut`), which is a step a waiting thread can always take; that is all
  `EveryRequestEnds` (in `NobodyWaitsForEver`) rests on.
- Migrations, OsmsLinking: processes and workers run.
- OsmsSchedules: while the listener or any of its threads can run, one of them does
  (one `WF` of all their steps).  Nobody is assumed to start a listener that went down,
  nor that an import which is under way ends.
- PostgreSQL and SQLite: a transaction is done as a whole or not at all, a locked
  row is waited for or skipped, a unique key is unique, and NOTIFY reaches those
  who have said LISTEN.

### Where the code and its comments disagree

1. `update_day_offset` (tspl-nrod/src/darwin.rs:106) sets `last_time` only once,
   so every time is compared with the first; its table speaks of the time before.
   A train out for 18 hours gets day offset 255 and loses its estimates.
2. `crosses_midnight` is never set (tspl-zugfuhrer/src/activation.rs:72), against
   its comment; a report after midnight is only found while a cache lasts.
3. The background thread of tspl-fahrplan dies of the first error
   (tspl-fahrplan/src/updater.rs:43) and no version is served after that.
4. `apply_schedule_record` says it updates a record that is there; the end date
   and the days are left as they were (tspl-fahrplan-updater/src/import.rs:168).
5. tspl-verknupfen (src/ctx.rs:155) takes the id of a movement for that of its
   schedule and so drops calls that have no train.
6. `process_schedule` of osms-nrod (src/darwin.rs:259) says it leaves movements
   that both schedules have; their hashes differ, so all are deleted and made
   again, and with them the rows of what was reported there.
7. The listener "makes new schedule ways every time schedules are changed"
   (osms-db-setup/src/main.rs:132).  A schedule whose movements an import replaces
   keeps its mark and gets none for the new ones (osms-db/src/ntrod/types.rs:72), and a
   row that the threads pass by (make.rs:425), since an import that is then rolled
   back or an activation has it, is not done until the next notification.
   `ImportsAreProcessed` excuses just these two (`replaced`, `missed`), and is
   violated without either excuse; `DoneHasWays` has the first.
8. A connection is to come with "all movements that either have that ID or update
   that ID" (tspl-zugfuhrer/src/types.rs:363-376).  The query lists the updates of
   every call of the train at the second station (ctx.rs:307), so an arrival comes
   with those of the departure.  `ConnectionsAreRight` asks for all of the
   connection's own and none of another train.

The first six are runs that are violated.  Met while modelling besides, and written
into the properties as what the code does instead: a recovery with an update in between
deletes what it imported (`RecoveryIsExact`); a garbled file can put the empty database
into the bucket, over one with a gap or over none (`ObjectImproves`; that the rest of a
garbled file is lost no property sees, for the file's number is recorded); an update
committed before tspl-zugfuhrer was started is told to no client (`LiveIsOnRecord`); an
estimate that another worker commits between a cancellation's DELETE and its commit
outlives the cancellation (`NothingAfterTheEnd`, `slipped`); after a correction two
pieces of the railway may have one number, and a search between them panics (`NoPanic`).

## 4. The proofs

Each `...Proofs` module proves that types and the inductive invariant hold always
(`Correct`, `FeedCorrect`, ...), by one lemma per action (or group of actions that
leave the same part alone), and from it the properties.  The assumptions are the
named ones beside the constants: what the data of the repository is like (a RID
has one date, an STP indicator one rank, a uid and date one RID), and that bounds
are natural numbers.  Nothing is assumed finite but the threads of the pool and
the nodes and stations of the railway, and the bounds may be any.

For the three runs that check modules side by side, `TimetablesCorrect`,
`ProcessesCorrect` and `QueriesCorrect` prove of the run's own specification what
it checks (`TimetablesHold`, ...): the invariant of the part that moves is kept by
that part's lemmas, and those of the others are of variables that stay.

- **ActivationProofs.**  `OneTrainPerRun` is inductive by itself given the
  lock; `CopiedOnceFromOwnSchedule` is not: it needs that the version in a
  thread's hand was issued for the key in its hand (`LocalsAgree`), which needs
  that every table of every replica only has versions of their own keys
  (`SchedulesSound`).  `LinkedIsAnnounced` needs that a thread about to link a
  TRUST ID has announced its train.  `RidIsStable` needs that a RID comes with
  one date and that its train has it (`RidsResolve`).  `RefinesRegistry` maps
  each run to absent, stub or the version it was filled from, and shows each
  action to be a step of TrainRegistry or a stutter.
- **LiveUpdatesProofs.**  `TerminatedAfterReport` rests on `JobsFit`: a worker
  between the report and the termination has its report in the table, which
  holds since estimates only replace estimates.  That what is on record was
  broadcast, missed or is about to be (`LiveIsOnRecord`) needs no strengthening: a row
  that is inserted anew is taken off both lists, and its worker has it to send.
- **DayOffsetsProofs.**  The importer's offset is the day of the last call
  (`ImporterFits`) for a journey of less than a day (`JourneyInOrder`); then a row
  is determined by stop, time and offset, so a match can only be the call itself.
  `SameDayEstimatesMatch` is about a prefix of a Darwin message: the offset at its
  end is that of its last estimate, and its first time is still `last_time`
  (`EstimatesFit`), so one more location of that day, within 18 hours of the
  first, leaves the offset 0.
- **FahrplanUpdaterProofs.**  Ids are fresh in *every* copy of the database
  (`Copies`), not only in the bucket's; and a database nears the one it may
  replace stage by stage (`Stages`): it follows the bucket's, or, where a file came
  garbled, is the bucket's own or the empty one.
- **QueriesProofs.**  *MovementQuery*: each fold is right about the rows it has
  processed: the schedule kept for a UID is of that UID and no worse than any
  processed row (`Joined`); the update kept for a movement is one of the processed,
  and a report if there is one.  At the end all rows are processed.
  *ConnectingQuery*: the maps have an entry for just the calls that the processed
  rows have, and it is one that those rows justify, in whatever order they came
  (`SchedulesFold`, `TrainsFold`).
  *OsmsMovements*: what the feeds may write of a call has one form each
  (`SourcesTell`), Darwin's versions are of messages that came
  (`VersionsAreKnown`), which makes a new movement a new one, and what
  is shown is the best of the rows considered (`ShownSoFar`).  No row is in two
  transactions' hands (`HandsApart`), what is in one is of its train and its message
  (`WrittenRows`), and one that ends a train has found all of its estimates but those
  committed since it started (`EstimatesFound`); at the commit that is what is said of a
  train beyond its end.  That reports stay is proved of each step, from the same
  invariant.
- **ProcessesProofs.**  *FahrplanReplica*: readers and the swap exclude each other;
  what is downloaded is no older than what was shown, also when the object is
  replaced between its metadata and its content.  *Migrations*: what a process has
  read is never ahead of
  the table, so a commit that succeeds is the next one.  *ConnectionPool*: free
  connections and those in hands add up to `Size`; fewer Darwin handlers than
  connections then leave one in the hands of a thread that works.  *NrodFeed*: the
  places a message can be in are disjoint, and unacknowledged ones are only those
  of a link that is up.  *LiveBroadcast*: what a client has seen and what is in its
  queue is a stretch of what was taken (`ClientsInStep`), and a train that it was
  not synchronised with has its packet still to come (`TrainsOnTheWay`), since the
  client was registered before it read.
- **OsmsProofs.**  *OsmsLinking*: a worker's hand holds an id of one feed, and the
  schedule it goes by is the permanent one, or that of a row, while nothing was
  imported (`HandsHold`); from that no worker's INSERT makes a second row, and an
  id that is on a row stays.  *OsmsSchedules*: a thread has a row exactly while it
  makes its ways, the row is there and not yet marked (`ThreadsHold`,
  `OneThreadEach`), and no two open transactions, nor one and a thread, have the same
  row (`WritersHold`); a recovery that is alone has the newest file (`RecoveryHolds`).
- **RailwayGraphProofs.**  Setup may stop anywhere and begin again, so the graph's
  invariant says what is left of an earlier attempt: the map's nodes come together
  and each station has one of its own (`NodesStand`, `StationsStand`), a way that is
  imported again adds nothing (`LinksStand`), and no link joins two numbered parts
  (`PartsStand`).  The nodes that the separation numbers are the smallest set that
  has the first and is closed under links, so they are in one piece
  (`PartsAreComponents`).  A search goes by Dijkstra's invariant (`SearchStands`):
  who is done with is no farther than the next in the heap and has all its
  neighbours found, no farther than by itself.  A search whose heap is empty has
  therefore found a closed set, and the destination is in it (`NoPanic`); and
  every other way is at least as long (`SearchIsRight`).  That the way back along
  the parents ends, and passes no node twice, takes an invariant of the proof alone
  (`ParentsAreRanked`): the parents can be ranked by numbers.  TLC cannot check it,
  as it quantifies over functions into the naturals.

RailwayGraph's lengths, links of a way and parts are recursive functions.  The
library's theorems about those take an operator as a parameter, which the
installed provers cannot instantiate; `CountsUp` (induction over a set of numbers)
and `RecursionWorks` (a function over the naturals that is defined by its value
before is one) are stated for sets and functions instead, and proved from
the library's well-founded order of the naturals.

Only model-checked are the liveness properties, which rest on fairness and so on
ENABLED, out of the prover's reach: `JobCatchesUp`, `EveryMessageEnds`,
`ImportsAreProcessed`, `ReplicaServes`, `FeedGoesOn`, `ClientsAreServed` and
`NobodyWaitsForEver`.

## 5. What is left out

- *The month*: TRUST IDs are used again after one.
- *Yesterday's trains*, with which a live client is not synchronised: one date.
- *Two movements of a train at one stop and time* (an ambiguity the code refuses):
  a report fails, as any may.
- *The order of two broadcasts*, and of two estimates of a call: the code keeps
  nothing to tell the older by, so the one processed last stays
  (tspl-zugfuhrer/src/ctx.rs:348, 369).
- *A movement processed before its train's activation*, which is dropped: the
  models let it come first, and nothing in the code brings it back
  (tspl-nrod/src/nrod.rs:69).
- *The write-ahead log beside a renamed file* (tspl-fahrplan/src/updater.rs:60).
- *Platforms, cancelled calls, time windows* in the queries; the windows and the
  order of tspl-web, which keeps nothing.
- *The job run by hand twice in one directory*, where `backup.sqlite` of the first
  is uploaded by the second: pods start with an empty disk.
- *The imports of CORPUS, NAPTAN and MSN*, one transaction each that fills a
  reference table; tspl-nennen, which is made of such tables.
- *Geometry*: a link is its two ends and a length; level crossings and the cache
  of station paths.
- *The pool of osms*, whose timeout ends a listener's thread: a thread may fail at
  any step instead.
- Parsing, pages, names, statistics; osms-darwin, which prints.

## 6. What could come next

1. Activation and LiveUpdates composed on one train table, so that messages about
   trains that are not activated yet are the same messages; LiveBroadcast, with its
   clients' queues, in place of `cast` and `missed`.
2. An abstract specification of what a question to the tables is answered with,
   and both queries, and that of osms, shown to implement it.
3. Platforms in MovementQuery: an estimate's platform is wiped or kept depending on
   the order of the rows (tspl-verknupfen/src/ctx.rs:115).
4. doc/darwin_activation.md against the activation as it is.
