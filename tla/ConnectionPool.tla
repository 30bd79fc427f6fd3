---------------------------- MODULE ConnectionPool ----------------------------
(***************************************************************************)
(* The threads of tspl-zugfuhrer that answer requests, and the pool they    *)
(* take their connections to the database from.  Most requests take one and  *)
(* give it back at their end.  activate_train_darwin keeps one while the     *)
(* activator takes a second for the transaction that inserts the train, and  *)
(* gives that back.  The pool is a library: a thread that gets nothing for   *)
(* thirty seconds is refused.                                               *)
(***************************************************************************)
EXTENDS Integers, FiniteSets

CONSTANTS
    PoolThreads,
    Size            \* connections of the pool

ASSUME PoolAssumption ==
    /\ IsFiniteSet(PoolThreads)
    /\ Size \in Nat \ {0}

VARIABLES
    free,           \* connections in the pool
    request,        \* thread -> "none", "plain" or "darwin"
    step            \* thread -> how far it is

poolvars == <<free, request, step>>

\* A thread waits for its first connection, works with it, waits for the
\* activator's with the first in hand, or works with both.
PoolTypeOK ==
    /\ free \in 0 .. Size
    /\ request \in [PoolThreads -> {"none", "plain", "darwin"}]
    /\ step \in [PoolThreads -> {"idle", "wait", "work", "wait_second", "work_second"}]

PoolInit ==
    /\ free = Size
    /\ request = [t \in PoolThreads |-> "none"]
    /\ step = [t \in PoolThreads |-> "idle"]

At(where) == {t \in PoolThreads : step[t] \in where}
Holders == At({"work", "wait_second", "work_second"})
TwiceHolders == At({"work_second"})

Arrive(t, kind) ==
    /\ step[t] = "idle"
    /\ request' = [request EXCEPT ![t] = kind]
    /\ step' = [step EXCEPT ![t] = "wait"]
    /\ UNCHANGED free

\* self.pool.get()?
GetConnection(t) ==
    /\ step[t] = "wait" /\ free > 0
    /\ free' = free - 1
    /\ step' = [step EXCEPT ![t] = IF request[t] = "darwin" THEN "wait_second" ELSE "work"]
    /\ UNCHANGED request

\* activate_lowlevel
GetSecond(t) ==
    /\ step[t] = "wait_second" /\ free > 0
    /\ free' = free - 1
    /\ step' = [step EXCEPT ![t] = "work_second"]
    /\ UNCHANGED request
\* Mutant: the activator keeps its connection.
KeepSecond(t) ==
    /\ step[t] = "work_second"
    /\ step' = [step EXCEPT ![t] = "work"]
    /\ UNCHANGED <<free, request>>
ReturnSecond(t) ==
    /\ step[t] = "work_second"
    /\ free' = free + 1
    /\ step' = [step EXCEPT ![t] = "work"]
    /\ UNCHANGED request

\* The rest of the request, or its failure.
Finish(t) ==
    /\ step[t] = "work"
    /\ free' = free + 1
    /\ request' = [request EXCEPT ![t] = "none"]
    /\ step' = [step EXCEPT ![t] = "idle"]

\* Mutant: a thread that has a connection waits without a limit.
RefuseFirst(t) ==
    /\ free = 0
    /\ step[t] = "wait"
    /\ request' = [request EXCEPT ![t] = "none"]
    /\ step' = [step EXCEPT ![t] = "idle"]
    /\ UNCHANGED free
\* The pool has had nothing for this thread, which gives back what it has.
TimedOut(t) ==
    /\ free = 0
    /\ step[t] \in {"wait", "wait_second"}
    /\ free' = IF step[t] = "wait_second" THEN free + 1 ELSE free
    /\ request' = [request EXCEPT ![t] = "none"]
    /\ step' = [step EXCEPT ![t] = "idle"]

\* tspl-fahrplan does not answer, or knows of no schedule.
ActivatorFails(t) ==
    /\ step[t] = "wait_second"
    /\ free' = free + 1
    /\ request' = [request EXCEPT ![t] = "none"]
    /\ step' = [step EXCEPT ![t] = "idle"]

Proceed(t) ==
    \/ GetConnection(t) \/ GetSecond(t) \/ ReturnSecond(t) \/ Finish(t)
    \/ TimedOut(t)

PoolNext ==
    \E t \in PoolThreads :
        \/ \E kind \in {"plain", "darwin"} : Arrive(t, kind)
        \/ Proceed(t) \/ ActivatorFails(t)

PoolSpec == PoolInit /\ [][PoolNext]_poolvars

-----------------------------------------------------------------------------
(* Properties                                                               *)

\* As long as fewer Darwin activations have begun than there are connections,
\* an empty pool means that somebody is at work who will give one back, and
\* nobody waits for a thread that waits.  With as many, all can wait.
SomeoneIsAtWork ==
    Cardinality({t \in Holders : request[t] = "darwin"}) < Size /\ free = 0 =>
        At({"work", "work_second"}) # {}

\* However many there are: every request ends, if only by the timeout.
EveryRequestEnds ==
    \A t \in PoolThreads : step[t] # "idle" ~> step[t] = "idle"

-----------------------------------------------------------------------------
(* The inductive invariant                                                  *)

\* Every connection is in the pool or with a thread, and only a Darwin
\* activation waits with one.
PoolInv ==
    /\ PoolTypeOK
    /\ free + Cardinality(Holders) + Cardinality(TwiceHolders) = Size
    /\ \A t \in PoolThreads :
          step[t] \in {"wait_second", "work_second"} => request[t] = "darwin"
    /\ SomeoneIsAtWork
==============================================================================
