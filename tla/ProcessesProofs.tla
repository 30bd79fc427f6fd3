---------------------------- MODULE ProcessesProofs ----------------------------
(***************************************************************************)
(* Proofs about the mechanisms inside the services: Migrations,             *)
(* ConnectionPool, NrodFeed, LiveBroadcast and FahrplanReplica, for any       *)
(* processes, threads, messages, clients and requests; and about MCProcesses, *)
(* which puts them side by side.                                             *)
(***************************************************************************)
EXTENDS MCProcesses, FiniteSetTheorems, SequenceTheorems, TLAPS

(***************************************************************************)
(* Migrations                                                               *)
(***************************************************************************)

(* SELECT MAX(id) finds the migration that was executed last.                *)
LEMMA LastIsExecutedLast ==
    ASSUME MigInv
    PROVE  GetLastMigration = Len(schema) - 1
<1>1. Len(schema) \in Nat /\ entries = 0 .. Len(schema) - 1
  BY DEF MigInv, MigTypeOK
<1>2. CASE Len(schema) = 0
  BY <1>1, <1>2 DEF GetLastMigration, NoMigration
<1>3. CASE Len(schema) > 0
  <2>1. Len(schema) - 1 \in entries /\ \A other \in entries : other <= Len(schema) - 1
    BY <1>1, <1>3
  <2>2. \A id \in entries : (\A other \in entries : other <= id) => id = Len(schema) - 1
    BY <1>1, <2>1
  <2> QED
    BY <2>1, <2>2 DEF GetLastMigration
<1> QED
  BY <1>1, <1>2, <1>3

LEMMA KnownAreNat ==
    AllKnown \subseteq Nat /\ \A p \in Processes : Known(p) \subseteq AllKnown
  BY MigrationsAssumption DEF AllKnown, Known

LEMMA MigInitInv == MigInit => MigInv
<1> SUFFICES ASSUME MigInit PROVE MigInv
  OBVIOUS
<1>1. Len(schema) = 0 /\ schema \in Seq(AllKnown)
  BY DEF MigInit
<1> QED
  BY <1>1, MigrationsAssumption
  DEF MigInit, MigInv, MigTypeOK, EachOnceInOrder, RunsOnItsSchema, NoMigration

(* Steps that read the table and do not write it.                            *)
LEMMA MigReadKeeps ==
    ASSUME MigInv, NEW p \in Processes,
           ReadLast(p) \/ Begin(p) \/ CommitFails(p) \/ Dies(p) \/ StartsAgain(p)
    PROVE  MigInv'
<1> USE MigrationsAssumption
<1>1. /\ UNCHANGED <<entries, schema>>
      /\ Len(schema) \in Nat
      /\ Known(p) = 0 .. Knows[p] - 1 /\ Knows[p] \in Nat \ {0} /\ Known(p) \subseteq AllKnown
  BY DEF ReadLast, Begin, CommitFails, Dies, StartsAgain, MigInv, MigTypeOK, Known, AllKnown
<1>2. MigTypeOK'
  <2>1. GetLastMigration \in AllKnown \cup {NoMigration}
    BY LastIsExecutedLast, <1>1 DEF MigInv, MigTypeOK, NoMigration
  <2>2. last_migration' \in [Processes -> AllKnown \cup {NoMigration}]
    BY <2>1 DEF ReadLast, Begin, CommitFails, Dies, StartsAgain, MigInv, MigTypeOK
  <2>3. checked' \in [Processes -> SUBSET AllKnown]
    <3>1. CASE Begin(p)
      BY <3>1 DEF Begin, MigInv, MigTypeOK
    <3>2. CASE ReadLast(p) \/ CommitFails(p) \/ Dies(p) \/ StartsAgain(p)
      BY <3>2 DEF ReadLast, CommitFails, Dies, StartsAgain, MigInv, MigTypeOK
    <3> QED
      BY <3>1, <3>2
  <2>5. deaths' \in 0 .. MaxDeaths
    BY MigrationsAssumption
    DEF ReadLast, Begin, CommitFails, Dies, StartsAgain, MigInv, MigTypeOK
  <2>4. stage' \in [Processes -> {"start", "pending", "apply", "running", "failed"}]
    BY DEF ReadLast, Begin, CommitFails, Dies, StartsAgain, MigInv, MigTypeOK
  <2> QED
    BY <1>1, <2>2, <2>3, <2>4, <2>5 DEF MigInv, MigTypeOK
<1>3. \A q \in Processes \ {p} : stage'[q] = stage[q] /\ last_migration'[q] = last_migration[q]
  BY DEF ReadLast, Begin, CommitFails, Dies, StartsAgain, MigInv, MigTypeOK
<1>4. /\ last_migration'[p] < Len(schema)
      /\ stage'[p] \in {"pending", "apply"} => last_migration'[p] < Knows[p] - 1
      /\ stage'[p] = "running" => Len(schema) = Knows[p]
  <2>1. CASE ReadLast(p)
    BY <2>1, <1>1, LastIsExecutedLast DEF ReadLast, MigInv, MigTypeOK
  <2>2. CASE Begin(p)
    BY <2>2 DEF Begin, MigInv, MigTypeOK
  <2>3. CASE CommitFails(p) \/ Dies(p) \/ StartsAgain(p)
    BY <2>3 DEF CommitFails, Dies, StartsAgain, MigInv, MigTypeOK
  <2> QED
    BY <2>1, <2>2, <2>3
<1>5. EachOnceInOrder' /\ entries' = 0 .. Len(schema') - 1
  BY <1>1 DEF MigInv, EachOnceInOrder
<1>6. ASSUME stage'[p] = "running", NEW id \in Known(p)
      PROVE  id + 1 \in DOMAIN schema /\ schema[id + 1] = id
  BY <1>1, <1>4, <1>6 DEF MigInv, MigTypeOK, EachOnceInOrder
<1>7. RunsOnItsSchema'
  <2> SUFFICES ASSUME NEW q \in Processes, stage'[q] = "running", NEW id \in Known(q)
               PROVE  id + 1 \in DOMAIN schema' /\ schema'[id + 1] = id
    BY DEF RunsOnItsSchema, Known
  <2> QED
    BY <1>1, <1>3, <1>6 DEF MigInv, RunsOnItsSchema
<1> QED
  BY <1>1, <1>2, <1>3, <1>4, <1>5, <1>7 DEF MigInv

(* A commit is of the migration after the last one that was executed: its id   *)
(* is not in the table, and all below it are.                                *)
LEMMA CommitsNext ==
    ASSUME MigInv, NEW p \in Processes, Commit(p)
    PROVE  /\ last_migration[p] + 1 = Len(schema)
           /\ Len(schema) \in Known(p)
           /\ Len(schema') = Len(schema) + 1
           /\ schema' = Append(schema, Len(schema))
<1>1. /\ Len(schema) \in Nat /\ last_migration[p] \in -1 .. Len(schema) - 1
      /\ last_migration[p] < Knows[p] - 1 /\ Knows[p] \in Nat \ {0}
  <2>1. last_migration[p] \in Int /\ last_migration[p] >= -1 /\ Knows[p] \in Nat \ {0}
    <3>1. last_migration[p] \in AllKnown \cup {NoMigration}
      BY DEF MigInv, MigTypeOK
    <3>2. AllKnown \subseteq Nat /\ NoMigration = -1 /\ Knows[p] \in Nat \ {0}
      BY MigrationsAssumption, KnownAreNat DEF NoMigration
    <3>3. last_migration[p] \in Nat \/ last_migration[p] = -1
      BY <3>1, <3>2
    <3> QED
      BY <3>2, <3>3
  <2>2. Len(schema) \in Nat
    BY DEF MigInv, MigTypeOK
  <2>3. last_migration[p] < Len(schema) /\ last_migration[p] < Knows[p] - 1
    BY DEF Commit, MigInv
  <2> QED
    BY <2>1, <2>2, <2>3
<1>2. last_migration[p] + 1 \notin 0 .. Len(schema) - 1
  BY DEF Commit, MigInv
<1>3. last_migration[p] + 1 = Len(schema)
  BY <1>1, <1>2
<1> QED
  BY <1>1, <1>3 DEF Commit, Known, MigInv, MigTypeOK

LEMMA MigCommitKeeps ==
    ASSUME MigInv, NEW p \in Processes, Commit(p)
    PROVE  MigInv'
<1> DEFINE n == Len(schema)
<1>1. /\ n \in Nat /\ n \in AllKnown /\ Knows[p] \in Nat \ {0} /\ n \in 0 .. Knows[p] - 1
      /\ last_migration[p] + 1 = n /\ schema' = Append(schema, n) /\ Len(schema') = n + 1
      /\ entries' = entries \cup {n}
      /\ last_migration' = [last_migration EXCEPT ![p] = n]
      /\ stage' = [stage EXCEPT ![p] = IF n = Knows[p] - 1 THEN "running" ELSE "pending"]
      /\ UNCHANGED <<checked, deaths>>
  <2>1. Len(schema) \in Nat /\ Knows[p] \in Nat \ {0} /\ Len(schema) \in AllKnown
    BY CommitsNext, MigrationsAssumption, KnownAreNat DEF MigInv, MigTypeOK
  <2> QED
    BY <2>1, CommitsNext DEF Commit, Known
<1> HIDE DEF n
<1>2. MigTypeOK'
  BY <1>1 DEF MigInv, MigTypeOK
<1>3. /\ DOMAIN schema = 1 .. n /\ DOMAIN schema' = 1 .. n + 1
      /\ \A i \in 1 .. n + 1 : schema'[i] = i - 1
  BY <1>1 DEF MigInv, MigTypeOK, EachOnceInOrder, n
<1>4. EachOnceInOrder'
  <2>1. schema' = [i \in DOMAIN schema' |-> schema'[i]]
    BY <1>2 DEF MigTypeOK
  <2> QED
    BY <1>1, <1>3, <2>1 DEF EachOnceInOrder
<1>5. entries' = 0 .. Len(schema') - 1
  BY <1>1 DEF MigInv, n
<1>6. RunsOnItsSchema'
  <2> SUFFICES ASSUME NEW q \in Processes, stage'[q] = "running", NEW id \in Known(q)
               PROVE  id + 1 \in DOMAIN schema' /\ schema'[id + 1] = id
    BY DEF RunsOnItsSchema, Known
  <2>1. CASE q = p
    BY <2>1, <1>1, <1>3 DEF Known, MigInv, MigTypeOK
  <2>2. CASE q # p
    <3>1. stage[q] = "running"
      BY <2>2, <1>1 DEF MigInv, MigTypeOK
    <3>2. id \in Nat /\ id + 1 \in 1 .. n
      BY <3>1, <1>3, MigrationsAssumption DEF MigInv, RunsOnItsSchema, Known
    <3> QED
      BY <3>2, <1>1, <1>3
  <2> QED
    BY <2>1, <2>2
<1>7. \A q \in Processes :
          /\ last_migration'[q] < Len(schema')
          /\ stage'[q] \in {"pending", "apply"} => last_migration'[q] < Knows[q] - 1
  <2> SUFFICES ASSUME NEW q \in Processes
               PROVE  /\ last_migration'[q] < Len(schema')
                      /\ stage'[q] \in {"pending", "apply"} => last_migration'[q] < Knows[q] - 1
    OBVIOUS
  <2>1. CASE q = p
    BY <2>1, <1>1 DEF MigInv, MigTypeOK
  <2>2. CASE q # p
    <3>1. last_migration'[q] = last_migration[q] /\ stage'[q] = stage[q]
      BY <2>2, <1>1 DEF MigInv, MigTypeOK
    <3>2. last_migration[q] \in Int /\ last_migration[q] < n
      BY MigrationsAssumption DEF MigInv, MigTypeOK, AllKnown, Known, NoMigration, n
    <3> QED
      BY <3>1, <3>2, <1>1 DEF MigInv
  <2> QED
    BY <2>1, <2>2
<1> QED
  BY <1>2, <1>4, <1>5, <1>6, <1>7 DEF MigInv

LEMMA MigNextKeeps == MigInv /\ [MigNext]_migvars => MigInv'
<1>1. ASSUME MigInv, UNCHANGED migvars PROVE MigInv'
  BY <1>1
  DEF migvars, MigInv, MigTypeOK, EachOnceInOrder, RunsOnItsSchema
<1> QED
  BY <1>1, MigReadKeeps, MigCommitKeeps DEF MigNext, Migrate

(* Types and the inductive invariant of the migrations, for any processes, of  *)
(* any releases, that race and die as often as they like.                    *)
THEOREM MigrationsCorrect == MigSpec => []MigInv
  BY MigInitInv, MigNextKeeps, PTL DEF MigSpec

(* Each migration is executed once, and none before the one before it.        *)
THEOREM MigratedOnce == MigSpec => []EachOnceInOrder
<1>1. MigInv => EachOnceInOrder
  BY DEF MigInv
<1> QED
  BY <1>1, MigrationsCorrect, PTL

(* A program that runs has all the tables that it knows of.                   *)
THEOREM SchemaIsThere == MigSpec => []RunsOnItsSchema
<1>1. MigInv => RunsOnItsSchema
  BY DEF MigInv
<1> QED
  BY <1>1, MigrationsCorrect, PTL

(* A program never starts on a database that a newer release has migrated.     *)
THEOREM NewerIsRefused == MigSpec => NeverStartsOnNewer
<1> DEFINE Refused == \A p \in Processes : stage[p] # "running" /\ stage'[p] = "running" =>
                          Len(schema') = Knows[p]
<1>1. MigInv /\ [MigNext]_migvars => [Refused]_migvars
  <2> SUFFICES ASSUME MigInv, NEW p \in Processes, Migrate(p) \/ Dies(p),
                      NEW q \in Processes, stage[q] # "running", stage'[q] = "running"
               PROVE  Len(schema') = Knows[q]
    BY DEF MigNext
  <2>1. q = p
    BY DEF Migrate, ReadLast, Begin, Commit, CommitFails, StartsAgain, Dies, MigInv, MigTypeOK
  <2> Len(schema) \in Nat /\ Knows[p] \in Nat
    BY MigrationsAssumption DEF MigInv, MigTypeOK
  <2>2. CASE ReadLast(p)
    BY <2>1, <2>2, LastIsExecutedLast DEF ReadLast, MigInv, MigTypeOK
  <2>3. CASE Commit(p)
    <3>1. stage'[p] = IF last_migration[p] + 1 = Knows[p] - 1 THEN "running" ELSE "pending"
      BY <2>3 DEF Commit, MigInv, MigTypeOK
    <3> QED
      BY <2>1, <2>3, <3>1, CommitsNext
  <2>4. CASE Begin(p) \/ CommitFails(p) \/ StartsAgain(p) \/ Dies(p)
    BY <2>1, <2>4 DEF Begin, CommitFails, StartsAgain, Dies, MigInv, MigTypeOK
  <2> QED
    BY <2>2, <2>3, <2>4 DEF Migrate
<1> QED
  BY <1>1, MigrationsCorrect, PTL DEF MigSpec, NeverStartsOnNewer

(***************************************************************************)
(* ConnectionPool                                                           *)
(***************************************************************************)

HoldsOne == {"work", "wait_second", "work_second"}

(* An element that is put into a finite set, or taken out of it.              *)
LEMMA ElementMoves ==
    ASSUME NEW S, IsFiniteSet(S), NEW t, NEW T, NEW comes \in BOOLEAN,
           T = IF comes THEN S \cup {t} ELSE S \ {t}
    PROVE  Cardinality(T) = Cardinality(S) + (IF comes THEN 1 ELSE 0)
                                           - (IF t \in S THEN 1 ELSE 0)
<1>1. Cardinality(S) \in Nat
  BY FS_CardinalityType
<1>2. CASE comes
  <2>1. Cardinality(T) = IF t \in S THEN Cardinality(S) ELSE Cardinality(S) + 1
    BY <1>2, FS_AddElement
  <2> QED
    BY <1>1, <1>2, <2>1
<1>3. CASE ~comes
  <2>1. Cardinality(T) = IF t \in S THEN Cardinality(S) - 1 ELSE Cardinality(S)
    BY <1>3, FS_RemoveElement
  <2> QED
    BY <1>1, <1>3, <2>1
<1> QED
  BY <1>2, <1>3

(* How the two counts change when a thread takes a step.                     *)
LEMMA CountsFollow ==
    ASSUME PoolTypeOK, NEW t \in PoolThreads, NEW x, step' = [step EXCEPT ![t] = x]
    PROVE  /\ Cardinality(Holders) \in Nat /\ Cardinality(TwiceHolders) \in Nat
           /\ Cardinality(Holders') = Cardinality(Holders)
                + (IF x \in HoldsOne THEN 1 ELSE 0)
                - (IF step[t] \in HoldsOne THEN 1 ELSE 0)
           /\ Cardinality(TwiceHolders') = Cardinality(TwiceHolders)
                + (IF x = "work_second" THEN 1 ELSE 0)
                - (IF step[t] = "work_second" THEN 1 ELSE 0)
<1>1. IsFiniteSet(Holders) /\ IsFiniteSet(TwiceHolders)
  <2>1. Holders \in SUBSET PoolThreads /\ TwiceHolders \in SUBSET PoolThreads
    BY DEF Holders, TwiceHolders, At
  <2> QED
    BY <2>1, FS_Subset, PoolAssumption
<1>2. Cardinality(Holders) \in Nat /\ Cardinality(TwiceHolders) \in Nat
  BY <1>1, FS_CardinalityType
<1>3. /\ t \in Holders <=> step[t] \in HoldsOne
      /\ t \in TwiceHolders <=> step[t] = "work_second"
  BY DEF Holders, TwiceHolders, At, HoldsOne
<1>4. /\ Holders' = IF x \in HoldsOne THEN Holders \cup {t} ELSE Holders \ {t}
      /\ TwiceHolders' = IF x = "work_second" THEN TwiceHolders \cup {t}
                         ELSE TwiceHolders \ {t}
  BY DEF Holders, TwiceHolders, At, HoldsOne, PoolTypeOK
<1>5. Cardinality(Holders') = Cardinality(Holders)
                + (IF x \in HoldsOne THEN 1 ELSE 0)
                - (IF t \in Holders THEN 1 ELSE 0)
  <2> DEFINE comes == x \in HoldsOne
  <2>1. comes \in BOOLEAN /\ Holders' = IF comes THEN Holders \cup {t} ELSE Holders \ {t}
    BY <1>4
  <2> HIDE DEF comes
  <2>2. Cardinality(Holders') = Cardinality(Holders)
                + (IF comes THEN 1 ELSE 0) - (IF t \in Holders THEN 1 ELSE 0)
    BY <1>1, <2>1, ElementMoves
  <2> QED
    BY <2>2 DEF comes
<1>6. Cardinality(TwiceHolders') = Cardinality(TwiceHolders)
                + (IF x = "work_second" THEN 1 ELSE 0)
                - (IF t \in TwiceHolders THEN 1 ELSE 0)
  <2> DEFINE comes == x = "work_second"
  <2>1. comes \in BOOLEAN
        /\ TwiceHolders' = IF comes THEN TwiceHolders \cup {t} ELSE TwiceHolders \ {t}
    BY <1>4
  <2> HIDE DEF comes
  <2>2. Cardinality(TwiceHolders') = Cardinality(TwiceHolders)
                + (IF comes THEN 1 ELSE 0) - (IF t \in TwiceHolders THEN 1 ELSE 0)
    BY <1>1, <2>1, ElementMoves
  <2> QED
    BY <2>2 DEF comes
<1> QED
  BY <1>2, <1>3, <1>5, <1>6

PoolCounted ==
    /\ PoolTypeOK
    /\ free + Cardinality(Holders) + Cardinality(TwiceHolders) = Size
    /\ \A t \in PoolThreads :
          step[t] \in {"wait_second", "work_second"} => request[t] = "darwin"

(* That somebody is at work is a matter of counting: if nobody were, those who *)
(* have all the connections would be Darwin activations that wait, as many of  *)
(* them as there are connections.                                            *)
LEMMA CountingSuffices == PoolCounted => SomeoneIsAtWork
<1> SUFFICES ASSUME PoolCounted, free = 0, At({"work", "work_second"}) = {}
             PROVE  ~(Cardinality({t \in Holders : request[t] = "darwin"}) < Size)
  BY DEF SomeoneIsAtWork
<1>1. TwiceHolders = {} /\ {t \in Holders : request[t] = "darwin"} = Holders
  BY DEF TwiceHolders, Holders, At, PoolCounted, PoolTypeOK
<1>2. Holders \in SUBSET PoolThreads
  BY DEF Holders, At
<1>3. Cardinality(TwiceHolders) = 0 /\ Cardinality(Holders) \in Nat
  BY <1>1, <1>2, FS_EmptySet, FS_Subset, FS_CardinalityType, PoolAssumption
<1>4. Cardinality(Holders) = Size
  BY <1>3, PoolAssumption DEF PoolCounted
<1> QED
  BY <1>1, <1>4, PoolAssumption

LEMMA PoolInitInv == PoolInit => PoolInv
<1> SUFFICES ASSUME PoolInit PROVE PoolCounted
  BY CountingSuffices DEF PoolInv, PoolCounted
<1>1. Holders = {} /\ TwiceHolders = {}
  BY DEF PoolInit, Holders, TwiceHolders, At
<1>2. Cardinality(Holders) = 0 /\ Cardinality(TwiceHolders) = 0
  BY <1>1, FS_EmptySet
<1> QED
  BY <1>2, PoolAssumption DEF PoolInit, PoolCounted, PoolTypeOK

LEMMA PoolStepKeeps ==
    ASSUME PoolInv, NEW t \in PoolThreads,
           Proceed(t) \/ ActivatorFails(t) \/ \E kind \in {"plain", "darwin"} : Arrive(t, kind)
    PROVE  PoolInv'
<1> DEFINE x == step'[t]
           one(s) == IF s \in HoldsOne THEN 1 ELSE 0
           two(s) == IF s = "work_second" THEN 1 ELSE 0
<1> Size \in Nat
  BY PoolAssumption
<1> SUFFICES PoolCounted'
  BY CountingSuffices, PTL DEF PoolInv, PoolCounted
<1>1. /\ free \in 0 .. Size
      /\ request \in [PoolThreads -> {"none", "plain", "darwin"}]
      /\ step \in [PoolThreads -> {"idle", "wait", "work", "wait_second", "work_second"}]
      /\ step[t] \in {"wait_second", "work_second"} => request[t] = "darwin"
  BY DEF PoolInv, PoolTypeOK
<1>2. /\ step' = [step EXCEPT ![t] = x]
      /\ x \in {"idle", "wait", "work", "wait_second", "work_second"}
      /\ request' \in [PoolThreads -> {"none", "plain", "darwin"}]
      /\ x \in {"wait_second", "work_second"} => request'[t] = "darwin"
      /\ \A u \in PoolThreads \ {t} : request'[u] = request[u]
      /\ free' = free - one(x) - two(x) + one(step[t]) + two(step[t])
      /\ free' >= 0
  <2> USE <1>1 DEF HoldsOne
  <2>1. CASE \E kind \in {"plain", "darwin"} : Arrive(t, kind)
    BY <2>1 DEF Arrive
  <2>2. CASE GetConnection(t)
    BY <2>2 DEF GetConnection
  <2>3. CASE GetSecond(t) \/ ReturnSecond(t)
    BY <2>3 DEF GetSecond, ReturnSecond
  <2>4. CASE Finish(t)
    BY <2>4 DEF Finish
  <2>5. CASE TimedOut(t)
    BY <2>5 DEF TimedOut
  <2>6. CASE ActivatorFails(t)
    BY <2>6 DEF ActivatorFails
  <2> QED
    BY <2>1, <2>2, <2>3, <2>4, <2>5, <2>6 DEF Proceed
<1>3. /\ Cardinality(Holders) \in Nat /\ Cardinality(TwiceHolders) \in Nat
      /\ Cardinality(Holders') = Cardinality(Holders) + one(x) - one(step[t])
      /\ Cardinality(TwiceHolders') = Cardinality(TwiceHolders) + two(x) - two(step[t])
  BY <1>2, CountsFollow DEF PoolInv
<1> HIDE DEF x
<1>4. one(x) \in {0, 1} /\ two(x) \in {0, 1} /\ one(step[t]) \in {0, 1} /\ two(step[t]) \in {0, 1}
  OBVIOUS
<1> HIDE DEF one, two
<1>5. free' + Cardinality(Holders') + Cardinality(TwiceHolders') = Size
  BY <1>1, <1>2, <1>3, <1>4 DEF PoolInv
<1>6. Cardinality(Holders') \in Nat /\ Cardinality(TwiceHolders') \in Nat
  <2>1. Holders' \in SUBSET PoolThreads /\ TwiceHolders' \in SUBSET PoolThreads
    BY DEF Holders, TwiceHolders, At
  <2> QED
    BY <2>1, FS_Subset, FS_CardinalityType, PoolAssumption
<1>7. free' \in 0 .. Size
  BY <1>1, <1>2, <1>4, <1>5, <1>6
<1>8. PoolTypeOK'
  BY <1>1, <1>2, <1>7 DEF PoolTypeOK
<1>9. \A u \in PoolThreads :
          step'[u] \in {"wait_second", "work_second"} => request'[u] = "darwin"
  BY <1>1, <1>2 DEF PoolInv, x
<1> QED
  BY <1>5, <1>8, <1>9 DEF PoolCounted

LEMMA PoolNextKeeps == PoolInv /\ [PoolNext]_poolvars => PoolInv'
<1>1. PoolInv /\ UNCHANGED poolvars => PoolInv'
  BY DEF poolvars, PoolInv, PoolTypeOK, SomeoneIsAtWork, Holders, TwiceHolders, At
<1> QED
  BY <1>1, PoolStepKeeps DEF PoolNext

(* Types and the inductive invariant of the pool, for any number of threads    *)
(* and of connections: all connections are accounted for, and unless as many   *)
(* Darwin activations have begun as there are connections, one will come back. *)
THEOREM PoolCorrect == PoolSpec => []PoolInv
  BY PoolInitInv, PoolNextKeeps, PTL DEF PoolSpec

(* Nobody waits for a thread that waits, as long as fewer Darwin activations   *)
(* have begun than there are connections.                                    *)
THEOREM NobodyWaitsForWaiting == PoolSpec => []SomeoneIsAtWork
<1>1. PoolInv => SomeoneIsAtWork
  BY DEF PoolInv
<1> QED
  BY <1>1, PoolCorrect, PTL

(***************************************************************************)
(* NrodFeed                                                                 *)
(***************************************************************************)

(* What a queue holds after one is added at its end or taken from its front.   *)
LEMMA AppendIsThere ==
    ASSUME NEW S, NEW q \in Seq(S), NEW x \in S
    PROVE  /\ Append(q, x) \in Seq(S)
           /\ DOMAIN Append(q, x) = 1 .. Len(q) + 1 /\ DOMAIN q = 1 .. Len(q) /\ Len(q) \in Nat
           /\ \A i \in 1 .. Len(q) : Append(q, x)[i] = q[i]
           /\ Append(q, x)[Len(q) + 1] = x
  OBVIOUS

LEMMA TailIsLeft ==
    ASSUME NEW S, NEW q \in Seq(S), q # <<>>
    PROVE  /\ Head(q) = q[1] /\ Head(q) \in S /\ Tail(q) \in Seq(S)
           /\ Len(q) \in Nat \ {0} /\ DOMAIN q = 1 .. Len(q)
           /\ DOMAIN Tail(q) = 1 .. Len(q) - 1
           /\ \A i \in 1 .. Len(q) - 1 : Tail(q)[i] = q[i + 1]
  OBVIOUS

Events == [event : {"connected", "error", "disconnected"}]
          \cup [event : {"message"}, msg : Messages]
Hands == [msg : Messages, done : 0 .. Records - 1] \cup {Idle}

(* How the sets of messages and the last event follow the two queues.          *)
LEMMA EventAdded ==
    ASSUME events \in Seq(Events), NEW e \in Events, events' = Append(events, e)
    PROVE  /\ events' \in Seq(Events) /\ events' # <<>>
           /\ InEvents' = InEvents \cup (IF e.event = "message" THEN {e.msg} ELSE {})
           /\ DOMAIN events' = 1 .. Len(events) + 1 /\ Len(events') = Len(events) + 1
           /\ DOMAIN events = 1 .. Len(events) /\ Len(events) \in Nat
           /\ \A i \in 1 .. Len(events) : events'[i] = events[i]
           /\ events'[Len(events) + 1] = e
<1>1. /\ events' \in Seq(Events) /\ events' # <<>> /\ Len(events') = Len(events) + 1
      /\ DOMAIN events' = 1 .. Len(events) + 1 /\ DOMAIN events = 1 .. Len(events)
      /\ Len(events) \in Nat
      /\ \A i \in 1 .. Len(events) : events'[i] = events[i]
      /\ events'[Len(events) + 1] = e
  BY AppendIsThere
<1>2. InEvents' = InEvents \cup (IF e.event = "message" THEN {e.msg} ELSE {})
  <2>1. ASSUME NEW m
        PROVE  m \in InEvents' <=>
                  \E i \in 1 .. Len(events) + 1 : events'[i].event = "message" /\ m = events'[i].msg
    BY <1>1 DEF InEvents
  <2>2. ASSUME NEW m
        PROVE  m \in InEvents <=>
                  \E i \in 1 .. Len(events) : events[i].event = "message" /\ m = events[i].msg
    BY <1>1 DEF InEvents
  <2>3. ASSUME NEW m
        PROVE  m \in InEvents' <=> m \in InEvents \/ (e.event = "message" /\ m = e.msg)
    BY <1>1, <2>1, <2>2
  <2> QED
    BY <2>3
<1> QED
  BY <1>1, <1>2

LEMMA EventTaken ==
    ASSUME events \in Seq(Events), events # <<>>, events' = Tail(events)
    PROVE  /\ events' \in Seq(Events) /\ Head(events) = events[1] /\ Head(events) \in Events
           /\ InEvents = InEvents' \cup
                (IF Head(events).event = "message" THEN {Head(events).msg} ELSE {})
           /\ DOMAIN events = 1 .. Len(events) /\ Len(events) \in Nat \ {0}
           /\ DOMAIN events' = 1 .. Len(events) - 1 /\ Len(events') = Len(events) - 1
           /\ \A i \in 1 .. Len(events) - 1 : events'[i] = events[i + 1]
<1>1. /\ events' \in Seq(Events) /\ Head(events) = events[1] /\ Head(events) \in Events
      /\ DOMAIN events = 1 .. Len(events) /\ Len(events) \in Nat \ {0}
      /\ DOMAIN events' = 1 .. Len(events) - 1 /\ Len(events') = Len(events) - 1
      /\ \A i \in 1 .. Len(events) - 1 : events'[i] = events[i + 1]
  BY TailIsLeft
<1>2. ASSUME NEW m
      PROVE  m \in InEvents' <=>
                \E i \in 1 .. Len(events) - 1 : events'[i].event = "message" /\ m = events'[i].msg
  BY <1>1 DEF InEvents
<1>3. ASSUME NEW m
      PROVE  m \in InEvents <=>
                \E i \in 1 .. Len(events) : events[i].event = "message" /\ m = events[i].msg
  BY <1>1 DEF InEvents
<1>4. ASSUME NEW m, m \in InEvents
      PROVE  m \in InEvents' \/ (Head(events).event = "message" /\ m = Head(events).msg)
  <2>1. PICK i \in 1 .. Len(events) : events[i].event = "message" /\ m = events[i].msg
    BY <1>3, <1>4
  <2>2. CASE i = 1
    BY <1>1, <2>1, <2>2
  <2>3. CASE i # 1
    <3>1. i - 1 \in 1 .. Len(events) - 1 /\ events'[i - 1] = events[i]
      BY <1>1, <2>3
    <3> QED
      BY <1>2, <2>1, <3>1
  <2> QED
    BY <2>2, <2>3
<1>5. ASSUME NEW m, m \in InEvents' \/ (Head(events).event = "message" /\ m = Head(events).msg)
      PROVE  m \in InEvents
  <2>1. CASE m \in InEvents'
    <3>1. PICK i \in 1 .. Len(events) - 1 : events'[i].event = "message" /\ m = events'[i].msg
      BY <1>2, <2>1
    <3>2. i + 1 \in 1 .. Len(events) /\ events[i + 1] = events'[i]
      BY <1>1
    <3> QED
      BY <1>3, <3>1, <3>2
  <2>2. CASE m \notin InEvents'
    BY <1>1, <1>3, <1>5, <2>2
  <2> QED
    BY <2>1, <2>2
<1> QED
  BY <1>1, <1>4, <1>5

LEMMA FeedInitInv == FeedInit => FeedInv
<1> SUFFICES ASSUME FeedInit PROVE FeedInv
  OBVIOUS
<1>1. FeedTypeOK
  <2>1. events \in Seq(Events) /\ backlog \in Seq(Messages)
    BY DEF FeedInit
  <2>2. hand \in [FeedWorkers -> Hands] /\ delay \in 0 .. MaxDelay
    BY FeedAssumption DEF FeedInit, Hands
  <2> QED
    BY <2>1, <2>2 DEF FeedInit, FeedTypeOK, Events, Hands
<1> QED
  BY <1>1 DEF FeedInit, FeedInv, AckedIsInHand, SomeoneReconnects

(* The invariant in two parts, of the messages and of the link.               *)
MessagesKept ==
    /\ AckedIsInHand
    /\ unacked \subseteq InEvents
    /\ unacked # {} => link = "up"
    /\ owed \cap unacked = {} /\ (owed \cup unacked) \cap acked = {}
LinkKept ==
    /\ SomeoneReconnects
    /\ \A i \in DOMAIN events :
          events[i].event = "disconnected" => i = Len(events) /\ link = "down" /\ ~timer
    /\ timer => events = <<>>

LEMMA FeedInvParts == FeedInv <=> FeedTypeOK /\ MessagesKept /\ LinkKept
  BY DEF FeedInv, MessagesKept, LinkKept

(* The events that a step may append are events.                              *)
LEMMA EventsAre ==
    /\ \A e \in {"connected", "error", "disconnected"} :
          Event(e) \in Events /\ Event(e).event = e
    /\ \A m \in Messages :
          MessageEvent(m) \in Events /\ MessageEvent(m).event = "message" /\ MessageEvent(m).msg = m
  BY DEF Event, MessageEvent, Events

(* What a session does when it takes an event in.                             *)
TakesIn(e) ==
    /\ events' = Append(events, e)
    /\ UNCHANGED <<timer, delay, working, lost>>
    /\ link \in {"connecting", "up"} /\ link' \in {"connecting", "up", "down"}
    /\ link' = "down" <=> e.event = "disconnected"
    /\ owed' \subseteq Messages /\ unacked' \subseteq Messages /\ acked' \subseteq Messages
    /\ acked' \subseteq acked \cup unacked
    /\ unacked' \subseteq unacked \cup (IF e.event = "message" THEN {e.msg} ELSE {})
    /\ unacked' # {} => link' = "up"
    /\ owed' \cap unacked' = {} /\ (owed' \cup unacked') \cap acked' = {}

(* The session takes an event in: of the connection, of a message, of its end. *)
LEMMA SessionKeeps ==
    ASSUME FeedInv,
           Accept \/ Refuse \/ ServerError \/ Drop \/ \E msg \in Messages : Deliver(msg)
    PROVE  FeedInv'
<1>1. FeedTypeOK /\ events \in Seq(Events) /\ hand \in [FeedWorkers -> Hands]
  BY DEF FeedInv, FeedTypeOK, Events, Hands
<1>2. PICK e \in Events : TakesIn(e)
  <2> USE <1>1 DEF TakesIn, FeedInv, FeedTypeOK, broker
  <2>1. CASE Accept
    <3> TakesIn(Event("connected"))
      BY <2>1, EventsAre DEF Accept
    <3> QED
      BY EventsAre
  <2>2. CASE Refuse
    <3> TakesIn(Event("disconnected"))
      BY <2>2, EventsAre DEF Refuse
    <3> QED
      BY EventsAre
  <2>3. CASE ServerError
    <3> TakesIn(Event("error"))
      BY <2>3, EventsAre DEF ServerError
    <3> QED
      BY EventsAre
  <2>4. CASE Drop
    <3> TakesIn(Event("disconnected"))
      BY <2>4, EventsAre DEF Drop, Break
    <3> QED
      BY EventsAre
  <2>5. CASE \E msg \in Messages : Deliver(msg)
    <3>1. PICK msg \in Messages : Deliver(msg)
      BY <2>5
    <3> TakesIn(MessageEvent(msg))
      BY <3>1, EventsAre DEF Deliver
    <3> QED
      BY EventsAre
  <2> QED
    BY <2>1, <2>2, <2>3, <2>4, <2>5
<1>3. /\ events' \in Seq(Events) /\ events' # <<>>
      /\ InEvents' = InEvents \cup (IF e.event = "message" THEN {e.msg} ELSE {})
      /\ DOMAIN events' = 1 .. Len(events) + 1 /\ Len(events') = Len(events) + 1
      /\ DOMAIN events = 1 .. Len(events) /\ Len(events) \in Nat
      /\ \A i \in 1 .. Len(events) : events'[i] = events[i]
      /\ events'[Len(events) + 1] = e
  BY <1>1, <1>2, EventAdded DEF TakesIn
<1>4. FeedTypeOK'
  BY <1>1, <1>2, <1>3 DEF TakesIn, FeedTypeOK, Events, Hands, working
<1>5. InBacklog' = InBacklog /\ InHand' = InHand
  BY <1>2 DEF TakesIn, InBacklog, InHand, working
<1>6. MessagesKept'
  BY <1>2, <1>3, <1>5 DEF TakesIn, FeedInv, MessagesKept, AckedIsInHand, InProcess, working
<1>7. LinkKept'
  BY <1>2, <1>3 DEF TakesIn, FeedInv, LinkKept, SomeoneReconnects
<1> QED
  BY <1>4, <1>6, <1>7, FeedInvParts, PTL

(* Taking an event that is not the end of the session leaves its end, if there  *)
(* is one, the last.                                                         *)
LEMMA EndIsStillLast ==
    ASSUME FeedInv, events \in Seq(Events), events # <<>>, events' = Tail(events),
           Head(events).event # "disconnected", link' = link, timer' \in {timer, FALSE}
    PROVE  LinkKept'
<1>1. /\ Head(events) = events[1] /\ Len(events') = Len(events) - 1
      /\ DOMAIN events = 1 .. Len(events) /\ Len(events) \in Nat \ {0}
      /\ DOMAIN events' = 1 .. Len(events) - 1
      /\ \A i \in 1 .. Len(events) - 1 : events'[i] = events[i + 1]
  BY EventTaken
<1>2. timer = FALSE /\ timer' = FALSE
  BY DEF FeedInv, FeedTypeOK
<1>3. ASSUME NEW i \in DOMAIN events', events'[i].event = "disconnected"
      PROVE  i = Len(events') /\ link' = "down"
  <2>1. i + 1 \in DOMAIN events /\ events[i + 1].event = "disconnected"
    BY <1>1, <1>3
  <2>2. i + 1 = Len(events) /\ link = "down"
    BY <2>1 DEF FeedInv
  <2> QED
    BY <1>1, <1>3, <2>2
<1>4. ASSUME link' = "down"
      PROVE  \E i \in DOMAIN events' : events'[i].event = "disconnected"
  <2>1. PICK j \in DOMAIN events : events[j].event = "disconnected"
    BY <1>2, <1>4 DEF FeedInv, SomeoneReconnects
  <2>2. j # 1 /\ j \in 1 .. Len(events)
    BY <1>1, <2>1
  <2>3. j - 1 \in DOMAIN events' /\ events'[j - 1] = events[j]
    BY <1>1, <2>2
  <2> QED
    BY <2>1, <2>3
<1> QED
  BY <1>2, <1>3, <1>4 DEF LinkKept, SomeoneReconnects

(* poll takes an event from the session.                                     *)
LEMMA PollKeeps ==
    ASSUME FeedInv, PollEvent
    PROVE  FeedInv'
<1>1. FeedTypeOK /\ events \in Seq(Events) /\ hand \in [FeedWorkers -> Hands] /\ events # <<>>
  BY DEF FeedInv, FeedTypeOK, Events, Hands, PollEvent, OnConnected, OnErrorFrame, OnMessage,
         OnDisconnected
<1>2. /\ Head(events) = events[1] /\ Head(events) \in Events /\ Tail(events) \in Seq(Events)
      /\ DOMAIN events = 1 .. Len(events) /\ Len(events) \in Nat \ {0}
      /\ DOMAIN Tail(events) = 1 .. Len(events) - 1 /\ Len(Tail(events)) = Len(events) - 1
      /\ \A i \in 1 .. Len(events) - 1 : Tail(events)[i] = events[i + 1]
  BY <1>1, TailIsLeft
<1>3. CASE OnConnected
  <2>1. /\ events' = Tail(events) /\ Head(events).event = "connected"
        /\ UNCHANGED <<link, timer, delay, owed, unacked, acked, backlog, hand, handled, lost>>
    BY <1>3 DEF OnConnected, broker, working
  <2>2. InEvents' = InEvents
    BY <1>1, <2>1, EventTaken
  <2>3. FeedTypeOK'
    BY <1>1, <1>2, <2>1 DEF FeedTypeOK, Events
  <2>4. MessagesKept'
    BY <2>1, <2>2
    DEF FeedInv, MessagesKept, AckedIsInHand, InProcess, InBacklog, InHand
  <2>5. LinkKept'
    BY <1>1, <2>1, EndIsStillLast
  <2> QED
    BY <2>3, <2>4, <2>5, FeedInvParts, PTL
<1>4. CASE OnDisconnected
  <2>1. /\ events' = Tail(events) /\ Head(events).event = "disconnected" /\ timer' = TRUE
        /\ delay' = IF delay < MaxDelay THEN delay + 1 ELSE delay
        /\ UNCHANGED <<link, owed, unacked, acked, backlog, hand, handled, lost>>
    BY <1>4 DEF OnDisconnected, broker, working
  <2>2. InEvents' = InEvents
    BY <1>1, <2>1, EventTaken
  <2>3. FeedTypeOK'
    BY <1>1, <1>2, <2>1, FeedAssumption DEF FeedTypeOK, Events
  <2>4. MessagesKept'
    BY <2>1, <2>2
    DEF FeedInv, MessagesKept, AckedIsInHand, InProcess, InBacklog, InHand
  <2>5. Len(events) = 1 /\ link = "down"
    BY <1>2, <2>1 DEF FeedInv
  <2>6. events' = <<>>
    BY <1>2, <2>1, <2>5
  <2>7. LinkKept'
    BY <2>1, <2>5, <2>6 DEF LinkKept, SomeoneReconnects
  <2> QED
    BY <2>3, <2>4, <2>7, FeedInvParts, PTL
<1>5. CASE OnMessage
  <2> DEFINE msg == Head(events).msg
  <2>1. /\ events' = Tail(events) /\ Head(events).event = "message" /\ msg \in Messages
        /\ timer' = FALSE /\ delay' = 0
        /\ backlog' = Append(backlog, msg) \/ (msg \in Garbled /\ backlog' = backlog)
        /\ IF link = "up" /\ msg \in unacked
           THEN unacked' = unacked \ {msg} /\ acked' = acked \cup {msg}
           ELSE UNCHANGED <<unacked, acked>>
        /\ UNCHANGED <<link, owed, hand, handled, lost>>
    BY <1>2, <1>5 DEF OnMessage, Acknowledge, Events
  <2>2. InEvents = InEvents' \cup {msg}
    BY <1>1, <2>1, EventTaken
  <2>3. /\ backlog' \in Seq(Messages)
        /\ InBacklog \subseteq InBacklog'
        /\ msg \in InBacklog' \cup Garbled
    <3>1. CASE backlog' = Append(backlog, msg)
      <4>1. /\ backlog \in Seq(Messages) /\ backlog' \in Seq(Messages)
            /\ DOMAIN backlog' = 1 .. Len(backlog) + 1 /\ DOMAIN backlog = 1 .. Len(backlog)
            /\ Len(backlog) \in Nat
            /\ \A i \in 1 .. Len(backlog) : backlog'[i] = backlog[i]
            /\ backlog'[Len(backlog) + 1] = msg
        BY <1>1, <2>1, <3>1, AppendIsThere DEF FeedTypeOK
      <4>2. Len(backlog) + 1 \in DOMAIN backlog' /\ DOMAIN backlog \subseteq DOMAIN backlog'
        BY <4>1
      <4> QED
        BY <4>1, <4>2 DEF InBacklog
    <3>2. CASE msg \in Garbled /\ backlog' = backlog
      BY <1>1, <3>2 DEF FeedTypeOK, InBacklog
    <3> QED
      BY <2>1, <3>1, <3>2
  <2> HIDE DEF msg
  <2>4. FeedTypeOK'
    <3>1. unacked' \subseteq Messages /\ acked' \subseteq Messages /\ delay' \in 0 .. MaxDelay
      BY <1>1, <2>1, FeedAssumption DEF FeedTypeOK
    <3> QED
      BY <1>1, <1>2, <2>1, <2>3, <3>1 DEF FeedTypeOK, Events
  <2>5. MessagesKept'
    <3>1. unacked' \subseteq InEvents'
      BY <2>1, <2>2 DEF FeedInv
    <3>2. AckedIsInHand'
      BY <2>1, <2>2, <2>3 DEF FeedInv, AckedIsInHand, InProcess, InHand
    <3> QED
      BY <2>1, <3>1, <3>2 DEF FeedInv, MessagesKept
  <2>6. LinkKept'
    BY <1>1, <2>1, EndIsStillLast
  <2> QED
    BY <2>4, <2>5, <2>6, FeedInvParts, PTL
<1>6. CASE OnErrorFrame
  <2>1. CASE link # "up"
    <3>1. /\ events' = Tail(events) /\ Head(events).event = "error"
          /\ UNCHANGED <<link, timer, delay, owed, unacked, acked, backlog, hand, handled, lost>>
      BY <1>6, <2>1 DEF OnErrorFrame, broker, working
    <3>2. InEvents' = InEvents
      BY <1>1, <3>1, EventTaken
    <3>3. FeedTypeOK'
      BY <1>1, <1>2, <3>1 DEF FeedTypeOK, Events
    <3>4. MessagesKept'
      BY <3>1, <3>2
      DEF FeedInv, MessagesKept, AckedIsInHand, InProcess, InBacklog, InHand
    <3>5. LinkKept'
      BY <1>1, <3>1, EndIsStillLast
    <3> QED
      BY <3>3, <3>4, <3>5, FeedInvParts, PTL
  <2>2. CASE link = "up"
    <3> DEFINE e == Event("disconnected")
               left == Tail(events)
    <3>1. /\ events' = Append(left, e) /\ Head(events).event = "error" /\ Break
          /\ UNCHANGED <<timer, delay, backlog, hand, handled, lost>>
      BY <1>6, <2>2 DEF OnErrorFrame, working
    <3>2. e \in Events /\ e.event = "disconnected"
      BY EventsAre
    <3>3. /\ events' \in Seq(Events) /\ Len(events') = Len(events) /\ events' # <<>>
          /\ DOMAIN events' = 1 .. Len(events)
          /\ \A i \in 1 .. Len(events) - 1 : events'[i] = events[i + 1]
          /\ events'[Len(events)] = e
      BY <1>2, <3>1, <3>2, AppendIsThere
    <3>4. InEvents \subseteq InEvents'
      <4> SUFFICES ASSUME NEW i \in 1 .. Len(events), events[i].event = "message"
                   PROVE  \E j \in 1 .. Len(events) :
                             events'[j].event = "message" /\ events'[j].msg = events[i].msg
        BY <1>2, <3>3 DEF InEvents
      <4>1. i # 1
        BY <1>2, <3>1
      <4>2. i - 1 \in 1 .. Len(events) - 1 /\ events'[i - 1] = events[i]
        BY <1>2, <3>3, <4>1
      <4> QED
        BY <4>2
    <3> HIDE DEF e, left
    <3>5. FeedTypeOK'
      BY <1>1, <3>1, <3>3 DEF FeedTypeOK, Events, Break
    <3>6. MessagesKept'
      BY <3>1, <3>4
      DEF FeedInv, MessagesKept, AckedIsInHand, InProcess, InBacklog, InHand, Break
    <3>7. link' = "down" /\ ~timer
      BY <3>1, <2>2 DEF Break, FeedInv, SomeoneReconnects
    <3>8. \A i \in 1 .. Len(events) - 1 : events'[i].event # "disconnected"
      BY <1>2, <2>2, <3>3 DEF FeedInv
    <3>9. LinkKept'
      <4>1. Len(events) \in DOMAIN events' /\ events'[Len(events)].event = "disconnected"
        BY <1>2, <3>2, <3>3
      <4>2. \A i \in DOMAIN events' : events'[i].event = "disconnected" => i = Len(events')
        BY <1>2, <3>3, <3>8
      <4> QED
        BY <3>1, <3>7, <4>1, <4>2 DEF LinkKept, SomeoneReconnects
    <3> QED
      BY <3>5, <3>6, <3>9, FeedInvParts, PTL
  <2> QED
    BY <2>1, <2>2
<1> QED
  BY <1>3, <1>4, <1>5, <1>6 DEF PollEvent

(* A worker takes a message, or is through with a record of the one it has.     *)
LEMMA WorkerKeeps ==
    ASSUME FeedInv, NEW w \in FeedWorkers, Recv(w) \/ HandleRecord(w)
    PROVE  FeedInv'
<1>1. FeedTypeOK /\ hand \in [FeedWorkers -> Hands] /\ UNCHANGED <<session, broker, lost>>
  BY DEF FeedInv, FeedTypeOK, Hands, Recv, HandleRecord
<1>2. InEvents' = InEvents
  BY <1>1 DEF InEvents, session
<1>3. /\ hand' \in [FeedWorkers -> Hands] /\ backlog' \in Seq(Messages) /\ handled' \subseteq Messages
      /\ InBacklog \cup InHand \cup handled \subseteq InBacklog' \cup InHand' \cup handled'
  <2>1. CASE Recv(w)
    <3> DEFINE msg == Head(backlog)
    <3>1. /\ backlog \in Seq(Messages) /\ backlog # <<>> /\ backlog' = Tail(backlog)
          /\ hand[w] = Idle /\ hand' = [hand EXCEPT ![w] = [msg |-> msg, done |-> 0]]
          /\ handled' = handled
      BY <1>1, <2>1 DEF Recv, FeedTypeOK
    <3>2. /\ msg = backlog[1] /\ msg \in Messages /\ backlog' \in Seq(Messages)
          /\ Len(backlog) \in Nat \ {0} /\ DOMAIN backlog = 1 .. Len(backlog)
          /\ DOMAIN backlog' = 1 .. Len(backlog) - 1
          /\ \A i \in 1 .. Len(backlog) - 1 : backlog'[i] = backlog[i + 1]
      BY <3>1, TailIsLeft
    <3> HIDE DEF msg
    <3>3. [msg |-> msg, done |-> 0] \in Hands /\ [msg |-> msg, done |-> 0] # Idle
      BY <3>2, FeedAssumption DEF Hands, Idle
    <3>4. hand'[w] = [msg |-> msg, done |-> 0] /\ \A x \in FeedWorkers \ {w} : hand'[x] = hand[x]
      BY <1>1, <3>1
    <3>5. msg \in InHand' /\ InHand \subseteq InHand'
      BY <3>1, <3>3, <3>4 DEF InHand
    <3>6. InBacklog \subseteq InBacklog' \cup {msg}
      <4> SUFFICES ASSUME NEW i \in 1 .. Len(backlog), i # 1
                   PROVE  \E j \in DOMAIN backlog' : backlog'[j] = backlog[i]
        BY <3>2 DEF InBacklog
      <4> i - 1 \in 1 .. Len(backlog) - 1 /\ backlog'[i - 1] = backlog[i]
        BY <3>2
      <4> QED
        BY <3>2
    <3> QED
      BY <1>1, <3>1, <3>2, <3>3, <3>5, <3>6 DEF FeedTypeOK
  <2>2. CASE HandleRecord(w)
    <3>1. hand[w] \in [msg : Messages, done : 0 .. Records - 1] /\ UNCHANGED backlog
      BY <1>1, <2>2 DEF HandleRecord, Hands
    <3>2. CASE /\ hand[w].done + 1 < Records /\ UNCHANGED handled
               /\ hand' = [hand EXCEPT ![w].done = @ + 1]
      <4>1. hand'[w] = [msg |-> hand[w].msg, done |-> hand[w].done + 1]
        BY <1>1, <3>1, <3>2
      <4>2. hand'[w] \in Hands /\ hand'[w] # Idle /\ hand'[w].msg = hand[w].msg
        BY <3>1, <3>2, <4>1, FeedAssumption DEF Hands, Idle
      <4>3. \A x \in FeedWorkers \ {w} : hand'[x] = hand[x]
        BY <1>1, <3>2
      <4>4. InHand \subseteq InHand'
        BY <4>2, <4>3 DEF InHand
      <4> QED
        BY <1>1, <3>1, <3>2, <4>2, <4>4 DEF FeedTypeOK, InBacklog
    <3>3. CASE hand' = [hand EXCEPT ![w] = Idle] /\ handled' = handled \cup {hand[w].msg}
      <4>1. \A x \in FeedWorkers \ {w} : hand'[x] = hand[x]
        BY <1>1, <3>3
      <4>2. InHand \subseteq InHand' \cup {hand[w].msg}
        BY <4>1 DEF InHand
      <4>3. hand' \in [FeedWorkers -> Hands]
        BY <1>1, <3>3 DEF Hands
      <4> QED
        BY <1>1, <3>1, <3>3, <4>2, <4>3 DEF FeedTypeOK, InBacklog
    <3> QED
      BY <2>2, <3>2, <3>3 DEF HandleRecord
  <2> QED
    BY <2>1, <2>2
<1>4. FeedTypeOK'
  BY <1>1, <1>3 DEF FeedTypeOK, Hands, session, broker
<1>5. MessagesKept'
  BY <1>1, <1>2, <1>3 DEF FeedInv, MessagesKept, AckedIsInHand, InProcess, session, broker
<1>6. LinkKept'
  BY <1>1 DEF FeedInv, LinkKept, SomeoneReconnects, session
<1> QED
  BY <1>4, <1>5, <1>6, FeedInvParts, PTL

(* The timer has run out, or the process dies: what it had is lost, unless the  *)
(* broker still has it.                                                      *)
LEMMA StartsOverKeeps ==
    ASSUME FeedInv, Reconnect \/ Die
    PROVE  FeedInv'
<1>1. CASE Reconnect
  <2>1. /\ timer /\ link' = "connecting" /\ timer' = FALSE
        /\ UNCHANGED <<events, delay, owed, unacked, acked, backlog, hand, handled, lost>>
    BY <1>1 DEF Reconnect, broker, working
  <2>2. FeedTypeOK'
    BY <2>1 DEF FeedInv, FeedTypeOK
  <2>3. MessagesKept'
    BY <2>1 DEF FeedInv, MessagesKept, AckedIsInHand, SomeoneReconnects, InProcess, InEvents,
                InBacklog, InHand
  <2>4. LinkKept'
    BY <2>1 DEF FeedInv, LinkKept, SomeoneReconnects
  <2> QED
    BY <2>2, <2>3, <2>4, FeedInvParts, PTL
<1>2. CASE Die
  <2>1. PICK again \in SUBSET unacked :
            /\ owed' = owed \cup again
            /\ acked' = acked \cup (unacked \ again)
            /\ lost' = lost \cup ((InProcess \cup unacked) \ again)
    BY <1>2 DEF Die
  <2>2. /\ unacked' = {} /\ link' = "connecting" /\ events' = <<>> /\ timer' = FALSE
        /\ delay' = 0 /\ backlog' = <<>> /\ hand' = [w \in FeedWorkers |-> Idle]
        /\ UNCHANGED handled
    BY <1>2 DEF Die
  <2>3. InProcess \subseteq Messages
    <3>1. events \in Seq(Events) /\ hand \in [FeedWorkers -> Hands] /\ backlog \in Seq(Messages)
      BY DEF FeedInv, FeedTypeOK, Events, Hands
    <3>2. InEvents \subseteq Messages
      <4> SUFFICES ASSUME NEW i \in DOMAIN events, events[i].event = "message"
                   PROVE  events[i].msg \in Messages
        BY DEF InEvents
      <4>1. events[i] \in Events
        BY <3>1
      <4> QED
        BY <4>1 DEF Events
    <3>3. InBacklog \subseteq Messages
      BY <3>1 DEF InBacklog
    <3>4. InHand \subseteq Messages
      BY <3>1 DEF InHand, Hands
    <3> QED
      BY <3>2, <3>3, <3>4 DEF InProcess
  <2>4. FeedTypeOK'
    <3>1. events' \in Seq(Events) /\ backlog' \in Seq(Messages)
      BY <2>2
    <3>2. hand' \in [FeedWorkers -> Hands] /\ delay' \in 0 .. MaxDelay
      BY <2>2, FeedAssumption DEF Hands
    <3> QED
      BY <2>1, <2>2, <2>3, <3>1, <3>2 DEF FeedInv, FeedTypeOK, Events, Hands
  <2>5. MessagesKept'
    <3>1. AckedIsInHand'
      BY <2>1, <2>2 DEF FeedInv, AckedIsInHand, InProcess
    <3> QED
      BY <2>1, <2>2, <3>1 DEF FeedInv, MessagesKept
  <2>6. LinkKept'
    BY <2>2 DEF LinkKept, SomeoneReconnects
  <2> QED
    BY <2>4, <2>5, <2>6, FeedInvParts, PTL
<1> QED
  BY <1>1, <1>2

LEMMA FeedNextKeeps == FeedInv /\ [FeedNext]_feedvars => FeedInv'
<1>1. FeedInv /\ UNCHANGED feedvars => FeedInv'
  BY DEF feedvars, session, broker, working, FeedInv, FeedTypeOK, AckedIsInHand,
         SomeoneReconnects, InProcess, InEvents, InBacklog, InHand
<1> QED
  BY <1>1, SessionKeeps, PollKeeps, WorkerKeeps, StartsOverKeeps DEF FeedNext

(* Types and the inductive invariant of the feed, for any messages and workers, *)
(* any losses of the connection and of the process.                          *)
THEOREM FeedCorrect == FeedSpec => []FeedInv
  BY FeedInitInv, FeedNextKeeps, PTL DEF FeedSpec

(* The broker never gets rid of a message that the process neither has nor has  *)
(* been through.                                                             *)
THEOREM AcknowledgedIsInHand == FeedSpec => []AckedIsInHand
<1>1. FeedInv => AckedIsInHand
  BY DEF FeedInv
<1> QED
  BY <1>1, FeedCorrect, PTL

(* A session that is down has a timer, or the event that will set one.          *)
THEOREM DownIsNoticed == FeedSpec => []SomeoneReconnects
<1>1. FeedInv => SomeoneReconnects
  BY DEF FeedInv
<1> QED
  BY <1>1, FeedCorrect, PTL

(***************************************************************************)
(* LiveBroadcast                                                            *)
(***************************************************************************)

LEMMA InOfAppend ==
    ASSUME NEW S, NEW q \in Seq(S), NEW x \in S
    PROVE  In(Append(q, x)) = In(q) \cup {x}
<1>1. /\ DOMAIN Append(q, x) = 1 .. Len(q) + 1 /\ DOMAIN q = 1 .. Len(q) /\ Len(q) \in Nat
      /\ \A i \in 1 .. Len(q) : Append(q, x)[i] = q[i]
      /\ Append(q, x)[Len(q) + 1] = x
  BY AppendIsThere
<1>2. ASSUME NEW y PROVE y \in In(Append(q, x)) <=> y \in In(q) \/ y = x
  <2>1. y \in In(Append(q, x)) <=> \E i \in 1 .. Len(q) + 1 : y = Append(q, x)[i]
    BY <1>1 DEF In
  <2>2. y \in In(q) <=> \E i \in 1 .. Len(q) : y = q[i]
    BY <1>1 DEF In
  <2> QED
    BY <1>1, <2>1, <2>2
<1> QED
  BY <1>2

LEMMA InOfTail ==
    ASSUME NEW S, NEW q \in Seq(S), q # <<>>
    PROVE  In(q) = In(Tail(q)) \cup {Head(q)}
<1>1. /\ Head(q) = q[1] /\ Len(q) \in Nat \ {0} /\ DOMAIN q = 1 .. Len(q)
      /\ DOMAIN Tail(q) = 1 .. Len(q) - 1
      /\ \A i \in 1 .. Len(q) - 1 : Tail(q)[i] = q[i + 1]
  BY TailIsLeft
<1>2. ASSUME NEW y, y \in In(q) PROVE y \in In(Tail(q)) \cup {Head(q)}
  <2>1. PICK i \in 1 .. Len(q) : y = q[i]
    BY <1>1, <1>2 DEF In
  <2>2. CASE i = 1
    BY <1>1, <2>1, <2>2
  <2>3. CASE i # 1
    <3>1. i - 1 \in DOMAIN Tail(q) /\ Tail(q)[i - 1] = y
      BY <1>1, <2>1, <2>3
    <3> QED
      BY <3>1 DEF In
  <2> QED
    BY <2>2, <2>3
<1>3. ASSUME NEW y, y \in In(Tail(q)) \cup {Head(q)} PROVE y \in In(q)
  <2>1. CASE y = Head(q)
    BY <1>1, <2>1 DEF In
  <2>2. CASE y \in In(Tail(q))
    <3>1. PICK i \in 1 .. Len(q) - 1 : y = Tail(q)[i]
      BY <1>1, <2>2 DEF In
    <3>2. i + 1 \in DOMAIN q /\ q[i + 1] = y
      BY <1>1, <3>1
    <3> QED
      BY <3>2 DEF In
  <2> QED
    BY <1>3, <2>1, <2>2
<1> QED
  BY <1>2, <1>3

(* Appending to the whole and to the rest of it; moving the head of one list to  *)
(* the end of another.                                                       *)
LEMMA RestOfAppend ==
    ASSUME NEW S, NEW q \in Seq(S), NEW x \in S, NEW k \in Nat, k <= Len(q)
    PROVE  SubSeq(Append(q, x), k + 1, Len(Append(q, x))) = Append(SubSeq(q, k + 1, Len(q)), x)
<1> DEFINE longer == Append(q, x)
           n == Len(q)
           left == SubSeq(longer, k + 1, n + 1)
           rest == SubSeq(q, k + 1, n)
<1>1. /\ n \in Nat /\ longer \in Seq(S) /\ Len(longer) = n + 1
      /\ \A i \in 1 .. n : longer[i] = q[i]
      /\ longer[n + 1] = x
  BY AppendIsThere
<1>2. /\ left \in Seq(S) /\ Len(left) = n + 1 - k
      /\ \A i \in 1 .. n + 1 - k : left[i] = longer[k + i]
  BY <1>1
<1>3. /\ rest \in Seq(S) /\ Len(rest) = n - k
      /\ \A i \in 1 .. n - k : rest[i] = q[k + i]
  BY <1>1
<1>4. /\ Append(rest, x) \in Seq(S) /\ Len(Append(rest, x)) = n - k + 1
      /\ \A i \in 1 .. n - k : Append(rest, x)[i] = rest[i]
      /\ Append(rest, x)[n - k + 1] = x
  BY <1>3, AppendIsThere
<1> HIDE DEF left, rest, longer
<1>5. ASSUME NEW i \in 1 .. n + 1 - k PROVE left[i] = Append(rest, x)[i]
  <2>1. CASE i = n + 1 - k
    BY <1>1, <1>2, <1>4, <2>1
  <2>2. CASE i # n + 1 - k
    <3>1. i \in 1 .. n - k /\ k + i \in 1 .. n
      BY <1>1, <2>2
    <3> QED
      BY <1>1, <1>2, <1>3, <1>4, <3>1
  <2> QED
    BY <2>1, <2>2
<1>6. left = Append(rest, x)
  BY <1>1, <1>2, <1>4, <1>5, SeqEqual
<1> QED
  BY <1>1, <1>6 DEF left, rest, longer

LEMMA AppendToJoined ==
    ASSUME NEW S, NEW q \in Seq(S), NEW r \in Seq(S), NEW x \in S
    PROVE  q \o Append(r, x) = Append(q \o r, x)
  OBVIOUS

LEMMA HeadMoves ==
    ASSUME NEW S, NEW q \in Seq(S), NEW r \in Seq(S), r # <<>>
    PROVE  Append(q, Head(r)) \o Tail(r) = q \o r
<1> DEFINE left == Append(q, Head(r)) \o Tail(r)
           n == Len(q) + Len(r)
<1>1. /\ Head(r) = r[1] /\ Head(r) \in S /\ Tail(r) \in Seq(S)
      /\ Len(q) \in Nat /\ Len(r) \in Nat \ {0} /\ Len(Tail(r)) = Len(r) - 1
      /\ \A i \in 1 .. Len(r) - 1 : Tail(r)[i] = r[i + 1]
  BY TailIsLeft
<1>2. /\ Append(q, Head(r)) \in Seq(S) /\ Len(Append(q, Head(r))) = Len(q) + 1
      /\ \A i \in 1 .. Len(q) : Append(q, Head(r))[i] = q[i]
      /\ Append(q, Head(r))[Len(q) + 1] = r[1]
  BY <1>1, AppendIsThere
<1>3. /\ q \o r \in Seq(S) /\ Len(q \o r) = n
      /\ \A i \in 1 .. n : (q \o r)[i] = IF i <= Len(q) THEN q[i] ELSE r[i - Len(q)]
  BY ConcatProperties
<1>4. /\ left \in Seq(S) /\ Len(left) = n
      /\ \A i \in 1 .. n : left[i] = IF i <= Len(q) + 1 THEN Append(q, Head(r))[i]
                                     ELSE Tail(r)[i - (Len(q) + 1)]
  BY <1>1, <1>2, ConcatProperties
<1> HIDE DEF left
<1>5. ASSUME NEW i \in 1 .. n PROVE left[i] = (q \o r)[i]
  <2>1. CASE i <= Len(q)
    BY <1>1, <1>2, <1>3, <1>4, <2>1
  <2>2. CASE i = Len(q) + 1
    BY <1>1, <1>2, <1>3, <1>4, <2>2
  <2>3. CASE i > Len(q) + 1
    <3>1. i - (Len(q) + 1) \in 1 .. Len(r) - 1 /\ i - (Len(q) + 1) + 1 = i - Len(q)
      BY <1>1, <2>3
    <3> QED
      BY <1>1, <1>3, <1>4, <2>3, <3>1
  <2> QED
    BY <1>1, <2>1, <2>2, <2>3
<1>6. left = q \o r
  BY <1>1, <1>3, <1>4, <1>5, SeqEqual
<1> QED
  BY <1>6 DEF left

LEMMA NothingIsLeft ==
    ASSUME NEW S, NEW q \in Seq(S)
    PROVE  <<>> \o <<>> = SubSeq(q, Len(q) + 1, Len(q))
  OBVIOUS

LEMMA LiveInitInv == LiveInit => LiveInv
<1> SUFFICES ASSUME LiveInit PROVE LiveInv
  OBVIOUS
<1>1. LiveTypeOK
  BY DEF LiveInit, LiveTypeOK
<1> QED
  BY <1>1
  DEF LiveInit, LiveInv, StreamIsContiguous, TrainsOnTheWay, ClientsInStep, QueuedOnce,
      Registered

LEMMA PacketsAre == \A t \in Trains : Activation(t) \in Packets
  BY DEF Activation, Packets

(* Requests only touch the table and what is announced: whatever train they add  *)
(* is on its way.                                                            *)
LEMMA RequestsKeep ==
    ASSUME LiveInv,
           \/ \E t \in Trains : CommitActivation(t) \/ CommitMovement(t) \/ Terminate(t)
           \/ \E packet \in Packets : SendUpdate(packet)
    PROVE  LiveInv'
<1>1. UNCHANGED <<broadcaster, handlers, gone>> /\ LiveTypeOK
  BY DEF LiveInv, CommitActivation, CommitMovement, Terminate, SendUpdate
<1>2. /\ running' \subseteq Trains /\ ended' \subseteq Trains
      /\ committed' \subseteq Packets /\ announced' \subseteq Packets /\ updates' \in Seq(Packets)
      /\ alive => \A t \in running' :
            \/ Activation(t) \in committed' \cup In(updates')
            \/ t \in running /\ (Activation(t) \in committed \cup In(updates)
                                 => Activation(t) \in committed' \cup In(updates'))
  <2> USE <1>1, PacketsAre DEF LiveTypeOK
  <2>1. CASE \E t \in Trains : CommitActivation(t)
    BY <2>1 DEF CommitActivation
  <2>2. CASE \E t \in Trains : CommitMovement(t)
    BY <2>2 DEF CommitMovement, Packets, table
  <2>3. CASE \E t \in Trains : Terminate(t)
    BY <2>3 DEF Terminate, sending
  <2>4. CASE \E packet \in Packets : SendUpdate(packet)
    <3>1. PICK packet \in Packets : SendUpdate(packet)
      BY <2>4
    <3>2. CASE alive
      <4>1. In(updates') = In(updates) \cup {packet}
        BY <3>1, <3>2, InOfAppend DEF SendUpdate
      <4> QED
        BY <3>1, <3>2, <4>1 DEF SendUpdate, table
    <3>3. CASE ~alive
      BY <3>1, <3>3 DEF SendUpdate, table
    <3> QED
      BY <3>2, <3>3
  <2> QED
    BY <2>1, <2>2, <2>3, <2>4
<1>3. LiveTypeOK'
  BY <1>1, <1>2 DEF LiveTypeOK, broadcaster, handlers
<1>4. TrainsOnTheWay'
  BY <1>1, <1>2 DEF LiveInv, TrainsOnTheWay, broadcaster, handlers, Told
<1>5. StreamIsContiguous' /\ ClientsInStep' /\ QueuedOnce'
  BY <1>1 DEF LiveInv, StreamIsContiguous, ClientsInStep, QueuedOnce, Registered,
              broadcaster, handlers
<1> QED
  BY <1>3, <1>4, <1>5 DEF LiveInv

(* A client comes or goes: it is put into the queue once, or ends with it.      *)
LEMMA AcceptKeeps ==
    ASSUME LiveInv, NEW c \in Clients, AcceptClient(c) \/ ClientVanishes(c)
    PROVE  LiveInv'
<1>1. LiveTypeOK
  BY DEF LiveInv
<1>2. CASE ClientVanishes(c)
  BY <1>1, <1>2
  DEF ClientVanishes, LiveInv, LiveTypeOK, StreamIsContiguous, TrainsOnTheWay, ClientsInStep,
      QueuedOnce, Registered, Told, table, sending, broadcaster, handlers
<1>3. CASE AcceptClient(c) /\ alive
  <2>1. /\ handler[c] = "none" /\ new_streams' = Append(new_streams, c)
        /\ handler' = [handler EXCEPT ![c] = "queued"]
        /\ UNCHANGED <<running, ended, committed, announced, updates, listening, alive, streams,
                       taken, since, rx, unsynced, told, seen, gone>>
    BY <1>3 DEF AcceptClient, table, sending
  <2>2. /\ new_streams' \in Seq(Clients) /\ DOMAIN new_streams = 1 .. Len(new_streams)
        /\ DOMAIN new_streams' = 1 .. Len(new_streams) + 1 /\ Len(new_streams) \in Nat
        /\ \A i \in 1 .. Len(new_streams) : new_streams'[i] = new_streams[i]
        /\ new_streams'[Len(new_streams) + 1] = c
    BY <1>1, <2>1, AppendIsThere DEF LiveTypeOK
  <2>3. LiveTypeOK'
    BY <1>1, <2>1, <2>2 DEF LiveTypeOK
  <2>4. handler'[c] = "queued" /\ \A d \in Clients \ {c} : handler'[d] = handler[d]
    BY <1>1, <2>1 DEF LiveTypeOK
  <2>5. StreamIsContiguous' /\ TrainsOnTheWay' /\ ClientsInStep'
    BY <2>1, <2>4
    DEF LiveInv, StreamIsContiguous, TrainsOnTheWay, ClientsInStep, Registered, Told
  <2>6. QueuedOnce'
    <3>1. \A i \in DOMAIN new_streams : new_streams[i] # c /\ new_streams[i] \in Clients
      BY <1>1, <2>1 DEF LiveInv, QueuedOnce, LiveTypeOK
    <3>2. \A i \in DOMAIN new_streams' : handler'[new_streams'[i]] = "queued"
      BY <2>2, <2>4, <3>1 DEF LiveInv, QueuedOnce
    <3>3. ASSUME NEW i \in DOMAIN new_streams', NEW j \in DOMAIN new_streams',
                 new_streams'[i] = new_streams'[j]
          PROVE  i = j
      BY <2>2, <3>1, <3>3 DEF LiveInv, QueuedOnce
    <3> QED
      BY <3>2, <3>3 DEF QueuedOnce
  <2> QED
    BY <2>3, <2>5, <2>6 DEF LiveInv
<1>4. CASE AcceptClient(c) /\ ~alive
  <2>1. /\ new_streams' = <<>> /\ listening' = FALSE /\ alive' = FALSE
        /\ handler' = [x \in Clients |-> IF x = c \/ x \in In(new_streams)
                                         THEN "ended" ELSE handler[x]]
        /\ UNCHANGED <<running, ended, committed, announced, updates, alive, streams,
                       taken, since, rx, unsynced, told, seen, gone>>
    BY <1>4 DEF AcceptClient, table, sending
  <2>2. \A d \in Clients : handler'[d] = handler[d] \/ handler'[d] = "ended"
    BY <2>1
  <2>3. handler' \in [Clients -> {"none", "queued", "start", "sync", "live", "ended"}]
    <3>1. \A d \in Clients : handler'[d] \in {"none", "queued", "start", "sync", "live", "ended"}
      BY <1>1, <2>2 DEF LiveTypeOK
    <3> QED
      BY <2>1, <3>1
  <2>4. LiveTypeOK'
    <3>1. listening' \in BOOLEAN /\ alive' \in BOOLEAN
      BY <2>1
    <3>2. new_streams' \in Seq(Clients)
      <4>1. <<>> \in Seq(Clients)
        OBVIOUS
      <4> QED
        BY <2>1, <4>1
    <3> QED
      BY <1>1, <2>1, <2>3, <3>1, <3>2 DEF LiveTypeOK
  <2>5. StreamIsContiguous' /\ TrainsOnTheWay' /\ QueuedOnce'
    <3>1. DOMAIN new_streams' = {}
      BY <2>1
    <3>2. QueuedOnce'
      BY <3>1 DEF QueuedOnce
    <3>3. StreamIsContiguous' /\ TrainsOnTheWay'
      BY <2>1 DEF StreamIsContiguous, TrainsOnTheWay
    <3> QED
      BY <3>2, <3>3
  <2>6. ClientsInStep'
    BY <2>1, <2>2 DEF LiveInv, ClientsInStep, Registered
  <2> QED
    BY <2>4, <2>5, <2>6 DEF LiveInv
<1> QED
  BY <1>2, <1>3, <1>4

(* The broadcaster registers a client, which has nothing yet, or dies of it.     *)
LEMMA NewStreamKeeps ==
    ASSUME LiveInv, NewStream
    PROVE  LiveInv'
<1> DEFINE c == Head(new_streams)
<1>1. /\ LiveTypeOK /\ alive /\ new_streams # <<>> /\ new_streams' = Tail(new_streams)
      /\ UNCHANGED <<running, ended, committed, announced, updates, listening, taken, rx,
                     unsynced, told, seen, gone>>
  BY DEF LiveInv, NewStream, table, sending
<1>2. /\ c = new_streams[1] /\ c \in Clients /\ Tail(new_streams) \in Seq(Clients)
      /\ Len(new_streams) \in Nat \ {0} /\ DOMAIN new_streams = 1 .. Len(new_streams)
      /\ DOMAIN Tail(new_streams) = 1 .. Len(new_streams) - 1
      /\ \A i \in 1 .. Len(new_streams) - 1 : Tail(new_streams)[i] = new_streams[i + 1]
  BY <1>1, TailIsLeft DEF LiveTypeOK
<1>3. handler[c] = "queued" /\ rx[c] = <<>> /\ seen[c] = <<>>
  BY <1>2 DEF LiveInv, QueuedOnce, ClientsInStep
<1>4. \/ /\ streams' = streams \cup {c} /\ since' = [since EXCEPT ![c] = Len(taken)]
         /\ handler' = [handler EXCEPT ![c] = "start"] /\ alive' = TRUE
      \/ /\ alive' = FALSE /\ streams' = {} /\ since' = since
         /\ handler' = [handler EXCEPT ![c] = "ended"]
  BY <1>1 DEF NewStream
<1> HIDE DEF c
<1>5. handler'[c] \in {"start", "ended"} /\ \A d \in Clients \ {c} : handler'[d] = handler[d]
  BY <1>1, <1>2, <1>4 DEF LiveTypeOK
<1>6. Len(taken) \in Nat
  BY <1>1 DEF LiveTypeOK
<1>7. LiveTypeOK'
  <2>1. since' \in [Clients -> Nat]
    <3>1. since \in [Clients -> Nat]
      BY <1>1 DEF LiveTypeOK
    <3> QED
      BY <1>4, <1>6, <3>1
  <2>3. streams' \subseteq Clients /\ alive' \in BOOLEAN
    BY <1>1, <1>2, <1>4 DEF LiveTypeOK
  <2>2. handler' \in [Clients -> {"none", "queued", "start", "sync", "live", "ended"}]
    BY <1>1, <1>2, <1>4 DEF LiveTypeOK
  <2> QED
    BY <1>1, <1>2, <2>1, <2>2, <2>3 DEF LiveTypeOK
<1>8. QueuedOnce'
  <2>1. ASSUME NEW i \in DOMAIN new_streams'
        PROVE  /\ i + 1 \in DOMAIN new_streams /\ new_streams'[i] = new_streams[i + 1]
               /\ new_streams'[i] \in Clients \ {c}
    <3>1. i + 1 \in DOMAIN new_streams /\ new_streams'[i] = new_streams[i + 1]
      BY <1>1, <1>2
    <3>2. 1 \in DOMAIN new_streams /\ i \in Nat /\ i + 1 # 1
      BY <1>1, <1>2
    <3>3. new_streams[i + 1] # new_streams[1]
      BY <3>1, <3>2 DEF LiveInv, QueuedOnce
    <3> QED
      BY <1>1, <1>2, <3>1, <3>3 DEF LiveTypeOK
  <2>2. ASSUME NEW i \in DOMAIN new_streams', NEW j \in DOMAIN new_streams',
               new_streams'[i] = new_streams'[j]
        PROVE  i = j
    <3>1. i + 1 = j + 1
      BY <2>1, <2>2 DEF LiveInv, QueuedOnce
    <3> QED
      BY <1>1, <1>2, <3>1
  <2>3. \A i \in DOMAIN new_streams' : handler'[new_streams'[i]] = "queued"
    BY <1>5, <2>1 DEF LiveInv, QueuedOnce
  <2> QED
    BY <2>2, <2>3 DEF QueuedOnce
<1>9. CASE alive' = FALSE
  <2>1. ClientsInStep'
    BY <1>1, <1>4, <1>5, <1>9 DEF LiveInv, ClientsInStep, Registered
  <2>2. StreamIsContiguous' /\ TrainsOnTheWay'
    BY <1>9 DEF StreamIsContiguous, TrainsOnTheWay
  <2> QED
    BY <1>7, <1>8, <2>1, <2>2 DEF LiveInv
<1>10. CASE alive' = TRUE
  <2>1. /\ streams' = streams \cup {c} /\ handler'[c] = "start" /\ since'[c] = Len(taken)
        /\ \A d \in Clients \ {c} : since'[d] = since[d]
    BY <1>1, <1>2, <1>4, <1>10 DEF LiveTypeOK
  <2>2. ClientsInStep'
    BY <1>1, <1>5, <1>6, <2>1 DEF LiveInv, ClientsInStep, Registered
  <2>3. TrainsOnTheWay'
    BY <1>1, <1>5, <2>1 DEF LiveInv, TrainsOnTheWay, Told
  <2>4. seen'[c] \o rx'[c] = SubSeq(taken', since'[c] + 1, Len(taken'))
    BY <1>1, <1>3, <2>1, NothingIsLeft DEF LiveTypeOK
  <2>5. StreamIsContiguous'
    BY <1>1, <1>5, <2>1, <2>4 DEF LiveInv, StreamIsContiguous, Registered
  <2> QED
    BY <1>7, <1>8, <2>2, <2>3, <2>5 DEF LiveInv
<1> QED
  BY <1>4, <1>9, <1>10

(* A packet reaches every handler that has not ended, so all that are registered. *)
LEMMA BroadcastKeeps ==
    ASSUME LiveInv, Broadcast
    PROVE  LiveInv'
<1> DEFINE p == Head(updates)
<1>1. /\ LiveTypeOK /\ alive /\ updates # <<>> /\ updates' = Tail(updates)
      /\ rx' = [c \in Clients |-> IF c \in Reached THEN Append(rx[c], p) ELSE rx[c]]
      /\ streams' = streams \cap Reached /\ taken' = Append(taken, p)
      /\ UNCHANGED <<running, ended, committed, announced, listening, new_streams, alive, since,
                     handler, unsynced, told, seen, gone>>
  BY DEF LiveInv, Broadcast, table, sending
<1>2. p \in Packets /\ Tail(updates) \in Seq(Packets) /\ In(updates) = In(updates') \cup {p}
  BY <1>1, TailIsLeft, InOfTail DEF LiveTypeOK
<1>3. /\ taken \in Seq(Packets) /\ taken' \in Seq(Packets) /\ Len(taken) \in Nat
      /\ Len(taken') = Len(taken) + 1
  BY <1>1, <1>2, AppendIsThere DEF LiveTypeOK
<1> HIDE DEF p
<1>4. ASSUME NEW c \in Clients
      PROVE  /\ rx[c] \in Seq(Packets) /\ rx'[c] \in Seq(Packets)
             /\ In(rx[c]) \subseteq In(rx'[c])
             /\ c \in Reached => rx'[c] = Append(rx[c], p) /\ p \in In(rx'[c])
             /\ c \notin Reached => rx'[c] = rx[c]
  <2>1. rx[c] \in Seq(Packets)
    BY <1>1 DEF LiveTypeOK
  <2>2. Append(rx[c], p) \in Seq(Packets) /\ In(Append(rx[c], p)) = In(rx[c]) \cup {p}
    BY <1>2, <2>1, AppendIsThere, InOfAppend
  <2> QED
    BY <1>1, <2>1, <2>2
<1>5. \A c \in Clients : Registered(c) => c \in Reached
  BY <1>1 DEF LiveInv, ClientsInStep, Reached, Registered
<1>6. LiveTypeOK'
  <2>1. rx' \in [Clients -> Seq(Packets)]
    BY <1>1, <1>4
  <2> QED
    BY <1>1, <1>2, <1>3, <2>1 DEF LiveTypeOK
<1>7. StreamIsContiguous'
  <2> SUFFICES ASSUME NEW c \in Clients, Registered(c)
               PROVE  seen[c] \o rx'[c] = SubSeq(taken', since[c] + 1, Len(taken'))
    BY <1>1 DEF StreamIsContiguous, Registered
  <2>1. rx'[c] = Append(rx[c], p) /\ rx[c] \in Seq(Packets) /\ seen[c] \in Seq(Packets)
    BY <1>1, <1>4, <1>5 DEF LiveTypeOK
  <2>2. since[c] \in Nat /\ since[c] <= Len(taken)
    BY <1>1 DEF LiveInv, ClientsInStep, LiveTypeOK
  <2>3. seen[c] \o rx[c] = SubSeq(taken, since[c] + 1, Len(taken))
    BY <1>1 DEF LiveInv, StreamIsContiguous
  <2>4. seen[c] \o rx'[c] = Append(seen[c] \o rx[c], p)
    <3>1. seen[c] \o Append(rx[c], p) = Append(seen[c] \o rx[c], p)
      <4>1. ASSUME NEW q \in Seq(Packets), NEW r \in Seq(Packets), NEW x \in Packets
            PROVE  q \o Append(r, x) = Append(q \o r, x)
        BY AppendToJoined
      <4> QED
        BY <1>2, <2>1, <4>1
    <3> QED
      BY <2>1, <3>1
  <2>5. SubSeq(taken', since[c] + 1, Len(taken'))
           = Append(SubSeq(taken, since[c] + 1, Len(taken)), p)
    BY <1>1, <1>2, <1>3, <2>2, RestOfAppend
  <2> QED
    BY <2>3, <2>4, <2>5
<1>8. TrainsOnTheWay'
  <2> SUFFICES ASSUME NEW c \in Clients, handler[c] \in {"sync", "live"}, NEW t \in running,
                      t \notin unsynced[c] \cup Told(c)
               PROVE  Activation(t) \in committed \cup In(updates') \cup In(rx'[c])
    BY <1>1 DEF TrainsOnTheWay, Told
  <2>1. Activation(t) \in committed \cup In(updates) \cup In(rx[c])
    BY <1>1 DEF LiveInv, TrainsOnTheWay
  <2>2. c \in Reached
    BY <1>5 DEF Registered
  <2> QED
    BY <1>2, <1>4, <2>1, <2>2
<1>9. ClientsInStep'
  <2> SUFFICES ASSUME NEW c \in Clients
               PROVE  /\ since[c] <= Len(taken')
                      /\ Registered(c) => c \in streams'
                      /\ handler[c] = "live" => unsynced[c] = {}
                      /\ handler[c] \in {"none", "queued"} =>
                            rx'[c] = <<>> /\ seen[c] = <<>> /\ c \notin streams'
    BY <1>1 DEF ClientsInStep, Registered
  <2>1. since[c] \in Nat
    BY <1>1 DEF LiveTypeOK
  <2>2. handler[c] \in {"none", "queued"} => c \notin Reached
    BY DEF LiveInv, ClientsInStep, Reached
  <2> QED
    BY <1>1, <1>3, <1>4, <1>5, <2>1, <2>2 DEF LiveInv, ClientsInStep
<1>10. QueuedOnce'
  BY <1>1 DEF LiveInv, QueuedOnce
<1> QED
  BY <1>6, <1>7, <1>8, <1>9, <1>10 DEF LiveInv

(* A handler only touches what is its own.                                    *)
LEMMA HandleKeeps ==
    ASSUME LiveInv, NEW c \in Clients, Handle(c)
    PROVE  LiveInv'
<1>1. /\ LiveTypeOK /\ handler[c] \in {"start", "sync", "live"}
      /\ UNCHANGED <<running, ended, committed, announced, updates, listening, new_streams, alive,
                     streams, taken, since, gone>>
  BY DEF LiveInv, Handle, ReadTrains, ReadFails, SendTrain, SendMsg, SendFails, HangUp, table,
         sending, broadcaster
<1>2. /\ LiveTypeOK'
      /\ handler'[c] \in {"sync", "live", "ended"}
      /\ \A d \in Clients \ {c} :
            /\ handler'[d] = handler[d] /\ rx'[d] = rx[d] /\ unsynced'[d] = unsynced[d]
            /\ told'[d] = told[d] /\ seen'[d] = seen[d]
      /\ handler'[c] = "live" => unsynced'[c] = {}
      /\ handler'[c] # "ended" /\ alive =>
            /\ seen'[c] \o rx'[c] = seen[c] \o rx[c]
            /\ \A t \in running :
                  \/ t \in unsynced'[c] \cup Told(c)'
                  \/ Activation(t) \in committed \cup In(updates) \cup In(rx'[c])
  <2>1. CASE ReadTrains(c)
    <3>1. /\ unsynced' = [unsynced EXCEPT ![c] = running]
          /\ handler' = [handler EXCEPT ![c] = "sync"]
          /\ UNCHANGED <<rx, told, seen>>
      BY <2>1 DEF ReadTrains
    <3> QED
      BY <1>1, <3>1 DEF LiveTypeOK
  <2>2. CASE ReadFails(c) \/ SendFails(c) \/ HangUp(c)
    <3>1. /\ handler' = [handler EXCEPT ![c] = "ended"] /\ rx' = [rx EXCEPT ![c] = <<>>]
          /\ UNCHANGED <<unsynced, told, seen>>
      BY <2>2 DEF ReadFails, SendFails, HangUp, EndHandler
    <3> QED
      BY <1>1, <3>1 DEF LiveTypeOK
  <2>3. CASE SendTrain(c)
    <3>1. handler[c] = "sync" /\ UNCHANGED <<rx, seen>>
      BY <2>3 DEF SendTrain
    <3>2. CASE unsynced[c] = {}
      <4>1. handler' = [handler EXCEPT ![c] = "live"] /\ UNCHANGED <<unsynced, told>>
        BY <2>3, <3>2 DEF SendTrain
      <4> QED
        BY <1>1, <3>1, <3>2, <4>1 DEF LiveTypeOK, LiveInv, TrainsOnTheWay, Told
    <3>3. CASE unsynced[c] # {}
      <4>1. PICK t \in unsynced[c] :
                /\ unsynced' = [unsynced EXCEPT ![c] = @ \ {t}]
                /\ told' = [told EXCEPT ![c] = @ \cup {t}]
                /\ UNCHANGED handler
        BY <2>3, <3>3 DEF SendTrain
      <4>2. t \in Trains
        BY <1>1 DEF LiveTypeOK
      <4> QED
        BY <1>1, <3>1, <4>1, <4>2 DEF LiveTypeOK, LiveInv, TrainsOnTheWay, Told
    <3> QED
      BY <3>2, <3>3
  <2>4. CASE SendMsg(c)
    <3>1. /\ handler[c] = "live" /\ rx[c] # <<>>
          /\ seen' = [seen EXCEPT ![c] = Append(@, Head(rx[c]))]
          /\ rx' = [rx EXCEPT ![c] = Tail(@)]
          /\ UNCHANGED <<handler, unsynced, told>>
      BY <2>4 DEF SendMsg
    <3>2. rx[c] \in Seq(Packets) /\ seen[c] \in Seq(Packets)
      BY <1>1 DEF LiveTypeOK
    <3>3. /\ seen'[c] = Append(seen[c], Head(rx[c])) /\ rx'[c] = Tail(rx[c])
          /\ \A d \in Clients \ {c} : seen'[d] = seen[d] /\ rx'[d] = rx[d]
      BY <1>1, <3>1 DEF LiveTypeOK
    <3>4. Head(rx[c]) \in Packets /\ Tail(rx[c]) \in Seq(Packets)
      BY <3>1, <3>2, TailIsLeft
    <3>5. /\ Append(seen[c], Head(rx[c])) \in Seq(Packets)
          /\ In(seen'[c]) = In(seen[c]) \cup {Head(rx[c])}
          /\ In(rx[c]) = In(rx'[c]) \cup {Head(rx[c])}
      BY <3>1, <3>2, <3>3, <3>4, AppendIsThere, InOfAppend, InOfTail
    <3>6. seen'[c] \o rx'[c] = seen[c] \o rx[c]
      BY <3>1, <3>2, <3>3, HeadMoves
    <3>7. LiveTypeOK'
      BY <1>1, <3>1, <3>4, <3>5 DEF LiveTypeOK
    <3>8. ASSUME alive, NEW t \in running
          PROVE  \/ t \in unsynced[c] \cup Told(c)'
                 \/ Activation(t) \in committed \cup In(updates) \cup In(rx'[c])
      <4>1. Told(c) \subseteq Told(c)'
        BY <3>1, <3>5 DEF Told
      <4>2. CASE Head(rx[c]) = Activation(t)
        BY <3>5, <4>2 DEF Told, Activation
      <4>3. CASE Head(rx[c]) # Activation(t)
        BY <3>1, <3>5, <3>8, <4>1, <4>3 DEF LiveInv, TrainsOnTheWay
      <4> QED
        BY <4>2, <4>3
    <3> QED
      BY <1>1, <3>1, <3>3, <3>6, <3>7, <3>8 DEF LiveInv, ClientsInStep
  <2> QED
    BY <2>1, <2>2, <2>3, <2>4 DEF Handle
<1>3. StreamIsContiguous'
  BY <1>1, <1>2 DEF LiveInv, StreamIsContiguous, Registered
<1>4. TrainsOnTheWay'
  BY <1>1, <1>2 DEF LiveInv, TrainsOnTheWay, Told
<1>5. ClientsInStep'
  BY <1>1, <1>2 DEF LiveInv, ClientsInStep, Registered
<1>6. QueuedOnce'
  <2>1. \A i \in DOMAIN new_streams : new_streams[i] \in Clients \ {c}
    BY <1>1 DEF LiveInv, QueuedOnce, LiveTypeOK
  <2> QED
    BY <1>1, <1>2, <2>1 DEF LiveInv, QueuedOnce
<1> QED
  BY <1>2, <1>3, <1>4, <1>5, <1>6 DEF LiveInv

LEMMA LiveNextKeeps == LiveInv /\ [LiveNext]_livevars => LiveInv'
<1>1. LiveInv /\ UNCHANGED livevars => LiveInv'
  BY DEF livevars, table, sending, broadcaster, handlers, LiveInv, LiveTypeOK,
         StreamIsContiguous, TrainsOnTheWay, ClientsInStep, QueuedOnce, Registered, Told
<1> QED
  BY <1>1, RequestsKeep, AcceptKeeps, NewStreamKeeps, BroadcastKeeps, HandleKeeps DEF LiveNext

(* Types and the inductive invariant of the live connections, for any trains and *)
(* clients.                                                                  *)
THEOREM LiveCorrect == LiveSpec => []LiveInv
  BY LiveInitInv, LiveNextKeeps, PTL DEF LiveSpec

(* A client is given every announcement since it was registered, once and in the *)
(* order in which the broadcaster took them.                                  *)
THEOREM NothingSkipped == LiveSpec => []StreamIsContiguous
<1>1. LiveInv => StreamIsContiguous
  BY DEF LiveInv
<1> QED
  BY <1>1, LiveCorrect, PTL

(* Between what a client was sent from the table and what is announced to it, no  *)
(* running train is missed.                                                  *)
THEOREM NoTrainMissed == LiveSpec => []NoTrainIsMissed
<1>1. LiveInv => NoTrainIsMissed
  BY DEF LiveInv, TrainsOnTheWay, ClientsInStep, NoTrainIsMissed
<1> QED
  BY <1>1, LiveCorrect, PTL

(***************************************************************************)
(* FahrplanReplica                                                          *)
(***************************************************************************)

IInv == TypeOK /\ Inv

LEMMA InitIInv == Init => IInv
<1> SUFFICES ASSUME Init PROVE IInv
  OBVIOUS
<1>1. /\ 0 \in Versions /\ 1 \in Versions /\ None # 0 /\ 0 \in 0 .. MaxRestarts
      /\ 0 \in 0 .. MaxFailures
  BY BoundsAssumption DEF Versions, None
<1>2. TypeOK
  BY <1>1 DEF Init, TypeOK, Steps
<1> QED
  BY <1>1, <1>2 DEF Init, IInv, Inv, Locked, EmptyOnlyAfterFailure

LEMMA PublishKeeps ==
    ASSUME IInv, Publish
    PROVE  IInv'
  BY BoundsAssumption
  DEF Publish, updating, disk, bounds, IInv, TypeOK, Inv, Versions, Locked,
      EmptyOnlyAfterFailure

(* The updater's steps: what it downloads is the newest version, so it is not  *)
(* older than what was shown, and nobody can see the pool while it is empty.   *)
LEMMA UpdaterKeeps ==
    ASSUME IInv, UpdaterStep \/ AcquireLock \/ UpdaterFails
    PROVE  IInv'
<1> USE BoundsAssumption
    DEF updating, disk, bounds, IInv, TypeOK, Inv, Versions, Steps, Locked, None,
        EmptyOnlyAfterFailure
<1>1. CASE InitUpdater
  BY <1>1 DEF InitUpdater
<1>2. CASE CheckIfChanged
  BY <1>2 DEF CheckIfChanged
<1>3. CASE Download
  BY <1>3 DEF Download
<1>4. CASE AcquireLock
  BY <1>4 DEF AcquireLock
<1>5. CASE UseTemp
  BY <1>5 DEF UseTemp
<1>6. CASE Rename
  BY <1>6 DEF Rename
<1>7. CASE OpenNew
  BY <1>7 DEF OpenNew
<1>8. CASE UpdaterFails
  BY <1>8 DEF UpdaterFails
<1> QED
  BY <1>1, <1>2, <1>3, <1>4, <1>5, <1>6, <1>7, <1>8 DEF UpdaterStep

LEMMA StartKeeps ==
    ASSUME IInv, Restart \/ Killed
    PROVE  IInv'
<1>1. 0 \in Versions /\ None # 0
  BY BoundsAssumption DEF Versions, None
<1>2. restarts' \in 0 .. MaxRestarts
  BY BoundsAssumption DEF Restart, Killed, IInv, TypeOK
<1>3. StartProcess
  BY DEF Restart, Killed
<1>4. TypeOK'
  BY <1>1, <1>2, <1>3 DEF StartProcess, IInv, TypeOK, Steps
<1>5. /\ \A v \in {1, shown', dl', file', pool'} : object' >= v
      /\ \A r \in Requests : conn'[r] = None
  BY <1>3, BoundsAssumption DEF StartProcess, IInv, TypeOK, Inv, Versions
<1> QED
  BY <1>1, <1>3, <1>4, <1>5
  DEF StartProcess, IInv, Inv, Locked, EmptyOnlyAfterFailure

(* A request only sees the pool with the lock, when no swap is under way.      *)
LEMMA RequestKeeps ==
    ASSUME IInv, NEW r \in Requests, ReadPool(r) \/ GetConn(r) \/ Answer(r)
    PROVE  IInv'
<1> USE BoundsAssumption
    DEF updating, disk, bounds, IInv, TypeOK, Inv, Versions, Steps, Locked, None,
        EmptyOnlyAfterFailure
<1>1. CASE ReadPool(r)
  BY <1>1 DEF ReadPool
<1>2. CASE GetConn(r)
  <2>1. CASE conn' = [conn EXCEPT ![r] = pool]
             /\ shown' = IF pool > shown THEN pool ELSE shown
    <3>1. /\ r \in reading /\ serving /\ ~Locked /\ (pool = 0 => updater = "dead")
          /\ pool \in Versions /\ object >= pool
      BY <1>2 DEF GetConn
    <3>2. TypeOK'
      BY <1>2, <2>1, <3>1 DEF GetConn
    <3>3. conn'[r] = pool /\ \A q \in Requests \ {r} : conn'[q] = conn[q]
      BY <2>1
    <3>4. shown' >= shown /\ shown' <= object /\ (pool # 0 => pool >= shown')
          /\ (updater \in {"lock", "temp", "rename", "open"} => dl >= shown')
      BY <1>2, <2>1, <3>1 DEF GetConn
    <3> QED
      BY <1>2, <3>1, <3>2, <3>3, <3>4 DEF GetConn
  <2>2. CASE UNCHANGED <<conn, shown>>
    BY <1>2, <2>2 DEF GetConn
  <2> QED
    BY <1>2, <2>1, <2>2 DEF GetConn
<1>3. CASE Answer(r)
  BY <1>3 DEF Answer
<1> QED
  BY <1>1, <1>2, <1>3

LEMMA NextKeeps == IInv /\ [Next]_vars => IInv'
<1> SUFFICES ASSUME IInv, [Next]_vars PROVE IInv'
  OBVIOUS
<1>1. CASE UNCHANGED vars
  BY <1>1
  DEF vars, updating, disk, bounds, IInv, TypeOK, Inv, Locked, EmptyOnlyAfterFailure
<1> QED
  BY <1>1, PublishKeeps, UpdaterKeeps, StartKeeps, RequestKeeps DEF Next

(* Types and the inductive invariant, in every reachable state.               *)
THEOREM Correct == Spec => [](TypeOK /\ Inv)
<1>1. Init => IInv
  BY InitIInv
<1>2. IInv /\ [Next]_vars => IInv'
  BY NextKeeps
<1> QED
  BY <1>1, <1>2, PTL DEF Spec, IInv

(* DbUpdater::download keeps the lock for the whole swap, so no request meets  *)
(* the temporary database unless a swap failed.                               *)
THEOREM NoEmptyAnswers == Spec => []EmptyOnlyAfterFailure
<1>1. Inv => EmptyOnlyAfterFailure
  BY DEF Inv
<1> QED
  BY <1>1, Correct, PTL

(* No request is given an older database than one before it.                  *)
THEOREM MovesForward == Spec => RequestsMoveForward
<1> DEFINE Forward == \A r \in Requests :
               conn[r] = None /\ conn'[r] \notin {None, 0} => conn'[r] >= shown
<1>1. TypeOK /\ Inv /\ [Next]_vars => [Forward]_vars
  <2> SUFFICES ASSUME TypeOK, Inv, Next PROVE Forward
    OBVIOUS
  <2>1. ASSUME NEW r \in Requests, GetConn(r) PROVE Forward
    BY <2>1 DEF GetConn, TypeOK, Inv
  <2>2. ASSUME NEW r \in Requests, Answer(r) PROVE Forward
    BY <2>2 DEF Answer, TypeOK
  <2>3. ASSUME NEW r \in Requests, ReadPool(r) PROVE Forward
    BY <2>3 DEF ReadPool
  <2>4. ASSUME Restart \/ Killed PROVE Forward
    BY <2>4 DEF Restart, Killed, StartProcess
  <2>5. ASSUME Publish \/ UpdaterStep \/ AcquireLock \/ UpdaterFails PROVE Forward
    BY <2>5
    DEF Publish, UpdaterStep, AcquireLock, UpdaterFails, InitUpdater,
        CheckIfChanged, Download, UseTemp, Rename, OpenNew
  <2> QED
    BY <2>1, <2>2, <2>3, <2>4, <2>5 DEF Next
<1> QED
  BY <1>1, Correct, PTL DEF Spec, RequestsMoveForward

(* The types of the updater's state and of the requests', whatever fails.     *)
THEOREM Typed == Spec => []TypeOK
<1>1. TypeOK /\ Inv => TypeOK
  OBVIOUS
<1> QED
  BY <1>1, Correct, PTL

(***************************************************************************)
(* MCProcesses                                                              *)
(***************************************************************************)

(* Side by side: whichever part moves, its invariant is kept, and those of the *)
(* parts that do not move are of variables that stay.  So what the run checks  *)
(* of small instances holds for all.                                         *)
THEOREM ProcessesCorrect == MCSpec => []ProcessesHold
<1>1. MCInit => ProcessesHold
  BY InitIInv, FeedInitInv, LiveInitInv, PoolInitInv, MigInitInv
  DEF MCInit, ProcessesHold, IInv
<1>2. ProcessesHold /\ [MCNext]_all => ProcessesHold'
  <2> SUFFICES ASSUME ProcessesHold, [MCNext]_all PROVE ProcessesHold'
    OBVIOUS
  <2>1. /\ [Next]_vars /\ [FeedNext]_feedvars /\ [LiveNext]_livevars
        /\ [PoolNext]_poolvars /\ [MigNext]_migvars
    BY DEF MCNext, ReplicaMoves, FeedMoves, LiveMoves, PoolMoves, MigrationsMove, all
  <2> QED
    BY <2>1, NextKeeps, FeedNextKeeps, LiveNextKeeps, PoolNextKeeps, MigNextKeeps
    DEF ProcessesHold, IInv
<1> QED
  BY <1>1, <1>2, PTL DEF MCSpec
===============================================================================
