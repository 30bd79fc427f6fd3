----------------------------- MODULE MCProcesses ------------------------------
(***************************************************************************)
(* The mechanisms inside the services, checked side by side: in a behaviour  *)
(* one of them moves, the part chosen at the start, and the others stay in    *)
(* their initial states.                                                     *)
(***************************************************************************)
EXTENDS FahrplanReplica, NrodFeed, LiveBroadcast, ConnectionPool, Migrations

CONSTANTS p1, p2, p3    \* processes that migrate a database

VARIABLE part

all == <<part, vars, feedvars, livevars, poolvars, migvars>>

MCKnows == [p \in {p1, p2, p3} |-> IF p = p1 THEN 1 ELSE 3]

MCInit ==
    /\ part \in {"replica", "feed", "live", "pool", "migrations"}
    /\ Init /\ FeedInit /\ LiveInit /\ PoolInit /\ MigInit

ReplicaMoves ==
    part = "replica" /\ Next /\ UNCHANGED <<part, feedvars, livevars, poolvars, migvars>>
FeedMoves ==
    part = "feed" /\ FeedNext /\ UNCHANGED <<part, vars, livevars, poolvars, migvars>>
LiveMoves ==
    part = "live" /\ LiveNext /\ UNCHANGED <<part, vars, feedvars, poolvars, migvars>>
PoolMoves ==
    part = "pool" /\ PoolNext /\ UNCHANGED <<part, vars, feedvars, livevars, migvars>>
MigrationsMove ==
    part = "migrations" /\ MigNext
    /\ UNCHANGED <<part, vars, feedvars, livevars, poolvars>>

MCNext == ReplicaMoves \/ FeedMoves \/ LiveMoves \/ PoolMoves \/ MigrationsMove

-----------------------------------------------------------------------------
(* Fairness of the part that moves                                          *)

\* As in FahrplanReplica.
ReplicaFairness ==
    /\ WF_vars(part = "replica" /\ UpdaterStep)
    /\ WF_vars(part = "replica" /\ Restart)
    /\ SF_vars(part = "replica" /\ AcquireLock)
    /\ []<>(part = "replica" => reading = {})
    /\ \A r \in Requests :
          WF_vars(part = "replica" /\ GetConn(r)) /\ WF_vars(part = "replica" /\ Answer(r))

\* Timers fire, the reactor polls, the workers are scheduled, and a broker that
\* is asked again and again accepts at last.
FeedFairness ==
    /\ WF_feedvars(part = "feed" /\ Reconnect)
    /\ WF_feedvars(part = "feed" /\ PollEvent)
    /\ SF_feedvars(part = "feed" /\ Accept)
    /\ \A w \in FeedWorkers : WF_feedvars(part = "feed" /\ (Recv(w) \/ HandleRecord(w)))

\* Threads are scheduled; select! takes from either channel in the end.
LiveFairness ==
    /\ SF_livevars(part = "live" /\ NewStream)
    /\ SF_livevars(part = "live" /\ Broadcast)
    /\ \A packet \in Packets : WF_livevars(part = "live" /\ SendUpdate(packet))
    /\ \A c \in Clients : WF_livevars(part = "live" /\ Handle(c))

PoolFairness ==
    \A t \in PoolThreads : WF_poolvars(part = "pool" /\ Proceed(t))

\* Processes run, and are started again when they fail.
MigrationsFairness ==
    \A p \in Processes : WF_migvars(part = "migrations" /\ Migrate(p))

MCSpec ==
    /\ MCInit /\ [][MCNext]_all
    /\ ReplicaFairness /\ FeedFairness /\ LiveFairness /\ PoolFairness
    /\ MigrationsFairness

-----------------------------------------------------------------------------
(* Properties that say something of an initial state, of the part they are of *)

\* LiveUpdaterServes: as long as the updater lives, a version in the bucket, or
\* a newer one, is served in the end.
ReplicaServes == part = "replica" => LiveUpdaterServes

\* EveryRequestEnds and NewestRuns: whoever waits for a connection goes on or is
\* refused, though all may wait for each other; and processes of the newest
\* release that race, and fail by it, all run in the end.
NobodyWaitsForEver ==
    (part = "pool" => EveryRequestEnds) /\ (part = "migrations" => NewestRuns)

-----------------------------------------------------------------------------
(* The invariants that the modules' theorems rest on, in one                 *)

\* Types, and the inductive invariants: what the swap shows is what was published,
\* a session that is down will be noticed, a client's stream has no gap, free and
\* used connections add up, migrations are executed once and in order.
ProcessesHold ==
    TypeOK /\ Inv /\ FeedInv /\ LiveInv /\ PoolInv /\ MigInv
==============================================================================
