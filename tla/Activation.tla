----------------------------- MODULE Activation ------------------------------
(***************************************************************************)
(* tspl-zugfuhrer's activation of trains, with the workers of tspl-nrod     *)
(* that ask for it and the tspl-fahrplan replicas it asks for schedules.    *)
(* The schedules are those of one uid.  A thread stands for one worker and  *)
(* for the HTTP handler it is blocked on: at any moment one of the two is   *)
(* running.                                                                 *)
(***************************************************************************)
EXTENDS Integers, Sequences, FiniteSets

CONSTANTS
    Keys,       \* schedules: (start_date, stp_indicator, source), of one uid
    Dates,      \* run dates
    Versions,   \* tspl_ids of schedule versions
    Bare,       \* the versions with no movements (a cancelling schedule)
    RunsOn,     \* <<key, date>>: the schedule runs on that date
    Rank,       \* key -> number: the order of STP indicators
    TrustIds,   \* TRUST IDs
    Rids,       \* Darwin RIDs
    RidDate,    \* RID -> the date (ssd) Darwin sends it with
    Threads,    \* workers of tspl-nrod
    Replicas,   \* replicas of tspl-fahrplan
    None        \* no value (NULL)

ASSUME DataAssumption ==
    /\ Bare \subseteq Versions
    /\ RunsOn \subseteq Keys \X Dates
    /\ Rank \in [Keys -> Nat]
    /\ TrustIds \cap Rids = {}
    /\ None \notin Keys \cup Versions \cup TrustIds \cup Rids

\* A RID names one service of one uid on one date.
ASSUME RidAssumption ==
    /\ RidDate \in [Rids -> Dates]
    /\ \A r, s \in Rids : RidDate[r] = RidDate[s] => r = s

VARIABLES
    latest,     \* key -> version in the newest current.sqlite, or None
    loaded,     \* replica -> the schedules table it has open
    publisher,  \* version -> the key it was issued for, or None
    trains,     \* rows of the trains table, in order of id
    pc,         \* thread -> where it stands
    msg,        \* thread -> the TRUST ID or RID of its message
    ad,         \* thread -> ActivationDetails: [key, date]
    sched,      \* thread -> version fahrplan answered with, or None
    tid,        \* thread -> id of the train it was answered with, or 0
    told        \* ids a live client knows: synchronised or announced

fahrplan == <<latest, loaded, publisher>>
locals == <<msg, ad, sched, tid>>
vars == <<latest, loaded, publisher, trains, pc, msg, ad, sched, tid, told>>

Train == [key : Keys, date : Dates, trust_id : TrustIds \cup {None},
          darwin_rid : Rids \cup {None}, activated : BOOLEAN,
          mvts : Seq(Versions)]
NoDetails == [key |-> None, date |-> None]
Details == [key : Keys \cup {None}, date : Dates \cup {None}]
Tables == [Keys -> Versions \cup {None}]
States == {"idle", "lookup", "find", "details", "insert", "rid",
           "announce", "link"}
\* The states in which the thread runs inside tspl-zugfuhrer.
InZugfuhrer == {"lookup", "find", "details", "insert", "rid", "announce"}

TypeOK ==
    /\ latest \in Tables
    /\ loaded \in [Replicas -> Tables]
    /\ publisher \in [Versions -> Keys \cup {None}]
    /\ trains \in Seq(Train)
    /\ pc \in [Threads -> States]
    /\ msg \in [Threads -> TrustIds \cup Rids \cup {None}]
    /\ ad \in [Threads -> Details]
    /\ sched \in [Threads -> Versions \cup {None}]
    /\ tid \in [Threads -> Nat]
    /\ told \subseteq Nat

Init ==
    /\ publisher = [v \in Versions |-> None]
    /\ latest = [k \in Keys |-> None]
    /\ loaded = [r \in Replicas |-> latest]
    /\ trains = <<>>
    /\ pc = [w \in Threads |-> "idle"]
    /\ msg = [w \in Threads |-> None]
    /\ ad = [w \in Threads |-> NoDetails]
    /\ sched = [w \in Threads |-> None]
    /\ tid = [w \in Threads |-> 0]
    /\ told = {}

-----------------------------------------------------------------------------
(* The schedules: tspl-fahrplan-updater and the replicas of tspl-fahrplan   *)

\* An import creates or updates a schedule under a tspl_id never used before.
Publish(k, v) ==
    /\ publisher[v] = None
    /\ publisher' = [publisher EXCEPT ![v] = k]
    /\ latest' = [latest EXCEPT ![k] = v]
    /\ UNCHANGED <<loaded, trains, pc, locals, told>>

\* An import deletes a schedule.
Withdraw(k) ==
    /\ latest' = [latest EXCEPT ![k] = None]
    /\ UNCHANGED <<loaded, publisher, trains, pc, locals, told>>

\* A replica swaps in the newest database, in its own time.
Load(r) ==
    /\ loaded' = [loaded EXCEPT ![r] = latest]
    /\ UNCHANGED <<latest, publisher, trains, pc, locals, told>>

\* get_auth_schedule: the lowest STP indicator among the uid's schedules for
\* the date.
Running(r, d) == {k \in Keys : loaded[r][k] # None /\ <<k, d>> \in RunsOn}
Authoritative(r, d) ==
    {k \in Running(r, d) : \A other \in Running(r, d) : Rank[k] <= Rank[other]}

-----------------------------------------------------------------------------
(* The workers' messages                                                    *)

Goto(w, state) == pc' = [pc EXCEPT ![w] = state]

Finish(w) ==
    /\ Goto(w, "idle")
    /\ msg' = [msg EXCEPT ![w] = None]
    /\ ad' = [ad EXCEPT ![w] = NoDetails]
    /\ sched' = [sched EXCEPT ![w] = None]
    /\ tid' = [tid EXCEPT ![w] = 0]

\* A TRUST activation: POST /trains/activate.
ReceiveTrust(w) ==
    /\ pc[w] = "idle"
    /\ \E t \in TrustIds : msg' = [msg EXCEPT ![w] = t]
    /\ \E k \in Keys, d \in Dates :
          ad' = [ad EXCEPT ![w] = [key |-> k, date |-> d]]
    /\ Goto(w, "find")
    /\ UNCHANGED <<fahrplan, trains, sched, tid, told>>

\* A Darwin message about a RID: GET /trains/by-darwin-rid first.
ReceiveDarwin(w) ==
    /\ pc[w] = "idle"
    /\ \E r \in Rids :
          /\ msg' = [msg EXCEPT ![w] = r]
          /\ ad' = [ad EXCEPT ![w].date = RidDate[r]]
    /\ Goto(w, "lookup")
    /\ UNCHANGED <<fahrplan, trains, sched, tid, told>>

FromDarwin(w) == msg[w] \in Rids
KnownRid(r) == \E i \in DOMAIN trains : trains[i].darwin_rid = r

\* The RID resolves to a train; nothing to activate.
LookupHit(w) ==
    /\ pc[w] = "lookup"
    /\ KnownRid(msg[w])
    /\ Finish(w)
    /\ UNCHANGED <<fahrplan, trains, told>>

\* 404: POST /trains/activate-fuzzy.
LookupMiss(w) ==
    /\ pc[w] = "lookup"
    /\ ~KnownRid(msg[w])
    /\ Goto(w, "find")
    /\ UNCHANGED <<fahrplan, trains, locals, told>>

-----------------------------------------------------------------------------
(* The handlers of tspl-zugfuhrer                                           *)

\* GET /schedules/for-activation; no schedule means no movements.
FindForTrust(w) ==
    /\ pc[w] = "find"
    /\ ~FromDarwin(w)
    /\ \E r \in Replicas :
          LET v == loaded[r][ad[w].key]
          IN  /\ sched' = [sched EXCEPT ![w] = v]
              /\ Goto(w, IF v = None THEN "insert" ELSE "details")
    /\ UNCHANGED <<fahrplan, trains, msg, ad, tid, told>>

\* GET /schedules/by-uid-on-date; the train's key is the schedule's.
FindForDarwin(w) ==
    /\ pc[w] = "find"
    /\ FromDarwin(w)
    /\ \E r \in Replicas : \E k \in Authoritative(r, ad[w].date) :
          /\ ad' = [ad EXCEPT ![w].key = k]
          /\ sched' = [sched EXCEPT ![w] = loaded[r][k]]
    /\ Goto(w, "details")
    /\ UNCHANGED <<fahrplan, trains, msg, tid, told>>

\* GET /schedule/{tspl_id}, of whichever replica answers: 404 unless that one
\* has the same version.
GetDetails(w) ==
    /\ pc[w] = "details"
    /\ \E r \in Replicas, k \in Keys : loaded[r][k] = sched[w]
    /\ Goto(w, "insert")
    /\ UNCHANGED <<fahrplan, trains, locals, told>>

\* Mutant: only looks at the rows still to be filled.
PossiblesUnfilled(a) ==
    {i \in DOMAIN trains : /\ trains[i].key = a.key
                           /\ trains[i].date = a.date
                           /\ ~trains[i].activated}
Possibles(a) ==
    {i \in DOMAIN trains : trains[i].key = a.key /\ trains[i].date = a.date}
\* Mutant: an empty movement list counts as movements.
HasAnyVersion(v) == v # None
HasMvts(v) == v # None /\ v \notin Bare
NewTrain(a) ==
    [key |-> a.key, date |-> a.date, trust_id |-> None, darwin_rid |-> None,
     activated |-> FALSE, mvts |-> <<>>]
\* Mutants: the activated flag is not tested before the copy; a later version
\* replaces the movements.
CopyMvtsAgain(train, v) ==
    IF HasMvts(v)
    THEN [train EXCEPT !.mvts = Append(@, v), !.activated = TRUE]
    ELSE train
CopyMvtsOver(train, v) ==
    IF HasMvts(v)
    THEN [train EXCEPT !.mvts = <<v>>, !.activated = TRUE]
    ELSE train
CopyMvts(train, v) ==
    IF ~train.activated /\ HasMvts(v)
    THEN [train EXCEPT !.mvts = Append(@, v), !.activated = TRUE]
    ELSE train


\* activate_lowlevel: one EXCLUSIVE transaction.
ActivateLowlevel(w) ==
    /\ pc[w] = "insert"
    /\ \/ \E i \in Possibles(ad[w]) :
             /\ trains' = [trains EXCEPT ![i] = CopyMvts(@, sched[w])]
             /\ tid' = [tid EXCEPT ![w] = i]
       \/ /\ Possibles(ad[w]) = {}
          /\ trains' = Append(trains, CopyMvts(NewTrain(ad[w]), sched[w]))
          /\ tid' = [tid EXCEPT ![w] = Len(trains) + 1]
    /\ Goto(w, IF FromDarwin(w) THEN "rid" ELSE "announce")
    /\ UNCHANGED <<fahrplan, msg, ad, sched, told>>

\* Mutants: no UNIQUE constraint on darwin_rid; no announcement.
LinkRidTwice(w) ==
    /\ pc[w] = "rid"
    /\ trains' = [trains EXCEPT ![tid[w]].darwin_rid = msg[w]]
    /\ Goto(w, "announce")
    /\ UNCHANGED <<fahrplan, locals, told>>
LinkRidSilently(w) ==
    /\ pc[w] = "rid"
    /\ \A i \in DOMAIN trains :
          trains[i].darwin_rid = msg[w] => i = tid[w]
    /\ trains' = [trains EXCEPT ![tid[w]].darwin_rid = msg[w]]
    /\ Finish(w)
    /\ UNCHANGED <<fahrplan, told>>

\* UPDATE trains SET darwin_rid: refused when another train has the RID.
LinkRid(w) ==
    /\ pc[w] = "rid"
    /\ \A i \in DOMAIN trains :
          trains[i].darwin_rid = msg[w] => i = tid[w]
    /\ trains' = [trains EXCEPT ![tid[w]].darwin_rid = msg[w]]
    /\ Goto(w, "announce")
    /\ UNCHANGED <<fahrplan, locals, told>>

\* send_activation, and the response: a TRUST worker goes on to link its ID.
Announce(w) ==
    /\ pc[w] = "announce"
    /\ told' = told \cup {tid[w]}
    /\ IF FromDarwin(w)
       THEN Finish(w)
       ELSE Goto(w, "link") /\ UNCHANGED locals
    /\ UNCHANGED <<fahrplan, trains>>

\* POST /trains/{tspl_id}/trust-id: refused when another train of that date
\* has the TRUST ID.
LinkTrustId(w) ==
    /\ pc[w] = "link"
    /\ \A i \in DOMAIN trains :
          trains[i].trust_id = msg[w] /\ trains[i].date = trains[tid[w]].date
             => i = tid[w]
    /\ trains' = [trains EXCEPT ![tid[w]].trust_id = msg[w]]
    /\ Finish(w)
    /\ UNCHANGED <<fahrplan, told>>

\* Any call may fail instead: no such schedule, a UNIQUE constraint, a busy
\* database, no connection.  The handler returns the error, the worker logs
\* it and drops the message.
Fail(w) ==
    /\ pc[w] \in States \ {"idle", "announce"}
    /\ Finish(w)
    /\ UNCHANGED <<fahrplan, trains, told>>

\* tspl-zugfuhrer restarts: its handlers are gone, its live clients come back
\* and are synchronised.
Restart ==
    /\ LET lost == {w \in Threads : pc[w] \in InZugfuhrer}
           clear(f, value) ==
              [w \in Threads |-> IF w \in lost THEN value ELSE f[w]]
       IN  /\ pc' = clear(pc, "idle")
           /\ msg' = clear(msg, None)
           /\ ad' = clear(ad, NoDetails)
           /\ sched' = clear(sched, None)
           /\ tid' = clear(tid, 0)
    /\ told' = DOMAIN trains
    /\ UNCHANGED <<fahrplan, trains>>

Step(w) ==
    \/ ReceiveTrust(w) \/ ReceiveDarwin(w)
    \/ LookupHit(w) \/ LookupMiss(w)
    \/ FindForTrust(w) \/ FindForDarwin(w) \/ GetDetails(w)
    \/ ActivateLowlevel(w) \/ LinkRid(w) \/ Announce(w) \/ LinkTrustId(w)
    \/ Fail(w)

Next ==
    \/ \E k \in Keys : Withdraw(k) \/ \E v \in Versions : Publish(k, v)
    \/ \E r \in Replicas : Load(r)
    \/ \E w \in Threads : Step(w)
    \/ Restart

Spec == Init /\ [][Next]_vars

-----------------------------------------------------------------------------
(* Properties                                                               *)

\* Two activations of the same run, from either feed and in any
\* interleaving, end at one row: the SELECT and the INSERT of
\* activate_lowlevel are under one EXCLUSIVE lock.
OneTrainPerRun ==
    \A i, j \in DOMAIN trains :
        trains[i].key = trains[j].key /\ trains[i].date = trains[j].date
            => i = j

FilledFromOwnSchedule(train) ==
    IF train.activated
    THEN /\ Len(train.mvts) = 1
         /\ train.mvts[1] \notin Bare
         /\ publisher[train.mvts[1]] = train.key
    ELSE train.mvts = <<>>

\* A train has the movements of exactly one version once its activated flag
\* is set and none before, however many threads race to copy them; that
\* version has movements and was issued for the train's own schedule, even
\* when an import changes the schedule between the handler's calls.
CopiedOnceFromOwnSchedule ==
    \A i \in DOMAIN trains : FilledFromOwnSchedule(trains[i])

\* Movements are only reported for trains found by RID or TRUST ID; such a
\* train has been announced to the live clients, or its announcement is the
\* next thing the thread that linked it does.
LinkedIsAnnounced ==
    \A i \in DOMAIN trains :
        trains[i].trust_id # None \/ trains[i].darwin_rid # None =>
            \/ i \in told
            \/ \E w \in Threads : pc[w] = "announce" /\ tid[w] = i

\* Once a RID resolves to a train it resolves to that train for ever: the
\* rid_to_tspl caches of the Darwin workers are never stale.
RidIsStable ==
    [][\A i \in DOMAIN trains : trains[i].darwin_rid # None =>
          /\ i \in DOMAIN trains'
          /\ trains'[i].darwin_rid = trains[i].darwin_rid
          /\ \A j \in DOMAIN trains' :
                trains'[j].darwin_rid = trains[i].darwin_rid => j = i]_vars

-----------------------------------------------------------------------------
(* The inductive invariant: why the properties hold                         *)

\* A table of schedules only holds versions issued for their own key.
Sound(table) == \A k \in Keys : table[k] # None => publisher[table[k]] = k
SchedulesSound == Sound(latest) /\ \A r \in Replicas : Sound(loaded[r])

\* What a thread holds while it is under way agrees with its message, with the
\* schedule it was answered with and with the row it works on.
Agrees(w) ==
    /\ pc[w] # "idle" => msg[w] # None /\ ad[w].date \in Dates
    /\ pc[w] \in {"lookup", "rid"} => FromDarwin(w)
    /\ pc[w] = "link" => ~FromDarwin(w) /\ tid[w] \in told
    /\ FromDarwin(w) => ad[w].date = RidDate[msg[w]]
    /\ pc[w] = "find" /\ ~FromDarwin(w) => ad[w].key \in Keys
    /\ pc[w] \in {"details", "insert"} =>
          /\ ad[w].key \in Keys
          /\ sched[w] # None => publisher[sched[w]] = ad[w].key
    /\ pc[w] = "details" => sched[w] # None
    /\ pc[w] \in {"rid", "announce", "link"} =>
          tid[w] \in DOMAIN trains /\ trains[tid[w]].date = ad[w].date
LocalsAgree == \A w \in Threads : Agrees(w)

\* A linked RID is linked to a train of the date Darwin sends it with, and to
\* no other train.
RidsResolve ==
    \A i \in DOMAIN trains : trains[i].darwin_rid # None =>
        /\ trains[i].date = RidDate[trains[i].darwin_rid]
        /\ \A j \in DOMAIN trains :
              trains[j].darwin_rid = trains[i].darwin_rid => j = i

\* The locals, the schedules and the rows agree at every step of every thread
\* and across a restart: with this, each step keeps the properties above.
Inv ==
    /\ SchedulesSound
    /\ LocalsAgree
    /\ RidsResolve
    /\ OneTrainPerRun
    /\ CopiedOnceFromOwnSchedule
    /\ LinkedIsAnnounced

-----------------------------------------------------------------------------
\* The trains table implements TrainRegistry.
RunStatus(rows, r) ==
    LET found == {i \in DOMAIN rows : <<rows[i].key, rows[i].date>> = r}
    IN  IF found = {} THEN "absent"
        ELSE LET i == CHOOSE i \in found : TRUE
             IN  IF rows[i].activated THEN rows[i].mvts[1] ELSE "stub"
Registry == INSTANCE TrainRegistry
    WITH status <- [r \in Keys \X Dates |-> RunStatus(trains, r)]
ImplementsRegistry == Registry!Spec
==============================================================================
