------------------------------ MODULE Migrations ------------------------------
(***************************************************************************)
(* The migrations of a database that several processes open, of the same    *)
(* release or of different ones.  tspl-sqlite and osms-db have the same      *)
(* text, over SQLite and over PostgreSQL; what is common to their            *)
(* transactions is that all of one is done or nothing is, and that two that  *)
(* insert the same entry do not both commit.  Migrations are numbered from   *)
(* 0; a release knows those below a number.                                  *)
(***************************************************************************)
EXTENDS Integers, Sequences, FiniteSets

CONSTANTS
    Processes,
    Knows,          \* process -> number of migrations its release knows
    MaxDeaths       \* bound on the times a process dies

ASSUME MigrationsAssumption ==
    /\ Knows \in [Processes -> Nat \ {0}]
    /\ MaxDeaths \in Nat

VARIABLES
    entries,        \* ids in migration_entries
    schema,         \* the migrations that were executed, in their order
    stage,          \* process -> where it stands
    last_migration, \* process -> the variable of run_pending_migrations
    checked,        \* process -> entries its transaction has found
    deaths

migvars == <<entries, schema, stage, last_migration, checked, deaths>>

NoMigration == -1
Known(p) == 0 .. Knows[p] - 1
AllKnown == UNION {Known(p) : p \in Processes}

MigTypeOK ==
    /\ entries \subseteq AllKnown
    /\ schema \in Seq(AllKnown)
    /\ stage \in [Processes -> {"start", "pending", "apply", "running", "failed"}]
    /\ last_migration \in [Processes -> AllKnown \cup {NoMigration}]
    /\ checked \in [Processes -> SUBSET AllKnown]
    /\ deaths \in 0 .. MaxDeaths

MigInit ==
    /\ entries = {} /\ schema = <<>>
    /\ stage = [p \in Processes |-> "start"]
    /\ last_migration = [p \in Processes |-> NoMigration]
    /\ checked = [p \in Processes |-> {}]
    /\ deaths = 0

-----------------------------------------------------------------------------

GetLastMigration ==
    IF entries = {} THEN NoMigration
    ELSE CHOOSE id \in entries : \A other \in entries : other <= id

\* Mutant: the last one is never due.
ReadLastOneShort(p) ==
    /\ stage[p] = "start"
    /\ last_migration' = [last_migration EXCEPT ![p] = GetLastMigration]
    /\ stage' = [stage EXCEPT ![p] =
                    IF GetLastMigration > Knows[p] - 1 THEN "failed"
                    ELSE IF GetLastMigration >= Knows[p] - 2 THEN "running"
                    ELSE "pending"]
    /\ UNCHANGED <<entries, schema, checked, deaths>>
\* Mutant: a newer database is taken for a finished one.
ReadLastIgnoringNewer(p) ==
    /\ stage[p] = "start"
    /\ last_migration' = [last_migration EXCEPT ![p] = GetLastMigration]
    /\ stage' = [stage EXCEPT ![p] =
                    IF GetLastMigration >= Knows[p] - 1 THEN "running" ELSE "pending"]
    /\ UNCHANGED <<entries, schema, checked, deaths>>
\* run_pending_migrations up to its loop.
ReadLast(p) ==
    /\ stage[p] = "start"
    /\ last_migration' = [last_migration EXCEPT ![p] = GetLastMigration]
    /\ stage' = [stage EXCEPT ![p] =
                    IF GetLastMigration > Knows[p] - 1 THEN "failed"
                    ELSE IF GetLastMigration = Knows[p] - 1 THEN "running"
                    ELSE "pending"]
    /\ UNCHANGED <<entries, schema, checked, deaths>>

\* Mutant: `WHERE id >= last`, which the last one itself is.
BeginStrictly(p) ==
    /\ stage[p] = "pending"
    /\ checked' = [checked EXCEPT ![p] = entries]
    /\ stage' = [stage EXCEPT ![p] =
                    IF \E id \in entries : id >= last_migration[p]
                    THEN "failed" ELSE "apply"]
    /\ UNCHANGED <<entries, schema, last_migration, deaths>>
\* Migration::up: the transaction begins, and looks for entries.
Begin(p) ==
    /\ stage[p] = "pending"
    /\ checked' = [checked EXCEPT ![p] = entries]
    /\ stage' = [stage EXCEPT ![p] =
                    IF \E id \in entries : id >= last_migration[p] + 1
                    THEN "failed" ELSE "apply"]
    /\ UNCHANGED <<entries, schema, last_migration, deaths>>

\* Mutant: the entry is written by itself, after the migration's own commit.
CommitEntryLater(p) ==
    LET id == last_migration[p] + 1
    IN /\ stage[p] = "apply"
       /\ id \notin entries
       /\ schema' = Append(schema, id)
       /\ \/ /\ entries' = entries \cup {id}
             /\ last_migration' = [last_migration EXCEPT ![p] = id]
             /\ stage' = [stage EXCEPT ![p] = IF id = Knows[p] - 1 THEN "running"
                                              ELSE "pending"]
          \/ /\ stage' = [stage EXCEPT ![p] = "failed"]
             /\ UNCHANGED <<entries, last_migration>>
       /\ UNCHANGED <<checked, deaths>>
\* The batch, the entry and the commit; then on to the next.
Commit(p) ==
    LET id == last_migration[p] + 1
    IN /\ stage[p] = "apply"
       /\ id \notin entries
       /\ schema' = Append(schema, id)
       /\ entries' = entries \cup {id}
       /\ last_migration' = [last_migration EXCEPT ![p] = id]
       /\ stage' = [stage EXCEPT ![p] = IF id = Knows[p] - 1 THEN "running"
                                        ELSE "pending"]
       /\ UNCHANGED <<checked, deaths>>

\* Another process has got in between: nothing is done, and main returns.
CommitFails(p) ==
    /\ stage[p] = "apply"
    /\ entries # checked[p]
    /\ stage' = [stage EXCEPT ![p] = "failed"]
    /\ UNCHANGED <<entries, schema, last_migration, checked, deaths>>

Dies(p) ==
    /\ deaths < MaxDeaths
    /\ deaths' = deaths + 1
    /\ stage' = [stage EXCEPT ![p] = "start"]
    /\ UNCHANGED <<entries, schema, last_migration, checked>>

\* A container that has failed is started again.
StartsAgain(p) ==
    /\ stage[p] = "failed"
    /\ stage' = [stage EXCEPT ![p] = "start"]
    /\ UNCHANGED <<entries, schema, last_migration, checked, deaths>>

Migrate(p) == ReadLast(p) \/ Begin(p) \/ Commit(p) \/ CommitFails(p) \/ StartsAgain(p)

MigNext == \E p \in Processes : Migrate(p) \/ Dies(p)

MigSpec == MigInit /\ [][MigNext]_migvars

-----------------------------------------------------------------------------
(* Properties                                                               *)

\* Whoever races with whom, and whoever dies in the middle, each migration is
\* executed once, and none before the one before it.
EachOnceInOrder == schema = [i \in 1 .. Len(schema) |-> i - 1]

\* A program that runs has every table and column it knows of.
RunsOnItsSchema ==
    \A p \in Processes : stage[p] = "running" =>
        \A id \in Known(p) : id + 1 \in DOMAIN schema /\ schema[id + 1] = id

\* A program never starts on a database that a newer release has migrated; one
\* that already runs is not told.
NeverStartsOnNewer ==
    [][\A p \in Processes : stage[p] # "running" /\ stage'[p] = "running" =>
          Len(schema') = Knows[p]]_migvars

\* Processes of the newest release that race, and fail by it, all run in the end.
NewestRuns ==
    \A p \in Processes :
        (\A q \in Processes : Knows[q] <= Knows[p]) => <>(stage[p] = "running")

-----------------------------------------------------------------------------
(* The inductive invariant                                                  *)

\* What is noted was executed, and nothing else; what a process has seen and
\* what it is about to execute is never ahead of the table.
MigInv ==
    /\ MigTypeOK
    /\ EachOnceInOrder
    /\ RunsOnItsSchema
    /\ entries = 0 .. Len(schema) - 1
    /\ \A p \in Processes :
          /\ last_migration[p] < Len(schema)
          /\ stage[p] \in {"pending", "apply"} => last_migration[p] < Knows[p] - 1
==============================================================================
