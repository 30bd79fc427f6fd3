------------------------------ MODULE QueriesProofs ---------------------------
(***************************************************************************)
(* Proofs about the queries: MovementQuery and ConnectingQuery of tspl, and    *)
(* OsmsMovements; and about MCQueries, which puts them side by side.          *)
(***************************************************************************)
EXTENDS MCQueries, DayOffsetsProofs, RailwayGraphProofs, TLAPS

-----------------------------------------------------------------------------
(* MovementQuery, for any schedules, movements and updates                   *)

IInv == TypeOK /\ Inv

LEMMA Ranks == \A s \in Schedules : Stp[s] \in Int
  BY DataAssumption

LEMMA InitIInv == Init => IInv
<1> SUFFICES ASSUME Init PROVE IInv
  OBVIOUS
<1>1. TypeOK
  BY DEF Init, TypeOK, NoAnswer
<1>2. Inv
  BY DEF Init, Inv, SupersedingWins
<1> QED
  BY <1>1, <1>2 DEF IInv

(* What changes the tables changes nothing that a request has read.           *)
LEMMA TablesKeep ==
    ASSUME IInv,
           \/ \E s \in Schedules : ImportSchedule(s) \/ ActivateTrain(s)
           \/ \E u \in Updates : RecordUpdate(u)
    PROVE  IInv'
<1>1. UNCHANGED <<pc, fahrplan, zugfuhrer, shown, lookup>>
  BY DEF ImportSchedule, ActivateTrain, RecordUpdate
<1>2. present' \subseteq Schedules /\ trains' \subseteq Schedules /\ updates' \subseteq Updates
  BY DEF ImportSchedule, ActivateTrain, RecordUpdate, IInv, TypeOK
<1>3. TypeOK'
  BY <1>1, <1>2 DEF fahrplan, zugfuhrer, lookup, IInv, TypeOK
<1>4. Inv'
  BY <1>1 DEF fahrplan, zugfuhrer, lookup, IInv, Inv, SupersedingWins, Joined, Processed
<1> QED
  BY <1>3, <1>4 DEF IInv

(* The join in tspl-fahrplan.                                                 *)
LEMMA JoinKeeps ==
    ASSUME IInv, NEW r \in Mvts \X Schedules, ProcessRow(r)
    PROVE  IInv'
<1> DEFINE uid == Uid[r[2]]
           new == Join(by_uid[uid], Parent[r[1]], r[2])
<1>1. /\ pc = "join" /\ r \in rows /\ rows' = rows \ {r} /\ mvts' = mvts \cup {r[1]}
      /\ by_uid' = [by_uid EXCEPT ![uid] = new]
      /\ UNCHANGED <<tables, pc, held, schedules, zugfuhrer, shown, lookup>>
  BY DEF ProcessRow
<1>2. /\ r[1] \in Mvts /\ r[2] \in held /\ Parent[r[1]] \in held /\ Uid[Parent[r[1]]] = uid
      /\ held \subseteq Schedules /\ uid \in Uids
  BY <1>1 DEF IInv, TypeOK, Inv, Joined, Rows, Uids
<1>3. by_uid \in [Uids -> Schedules \cup {None}]
  BY DEF IInv, TypeOK
<1>4. \A u \in Uids : by_uid[u] # None => by_uid[u] \in held /\ Uid[by_uid[u]] = u
  BY <1>1 DEF IInv, Inv, Joined
<1>5. /\ new \in held /\ new # None /\ Uid[new] = uid /\ Stp[new] <= Stp[r[2]]
      /\ by_uid[uid] # None => Stp[new] <= Stp[by_uid[uid]]
  <2> DEFINE old == by_uid[uid]
             cur == IF old = None THEN Parent[r[1]] ELSE old
  <2>1. cur \in held /\ Uid[cur] = uid /\ (old # None => cur = old)
    BY <1>2, <1>4
  <2>2. new = IF Stp[r[2]] < Stp[cur] THEN r[2] ELSE cur
    BY DEF Join
  <2>3. Stp[r[2]] \in Int /\ Stp[cur] \in Int
    BY <1>2, <2>1, Ranks
  <2>4. None \notin held /\ Uid[r[2]] = uid
    BY <1>2, DataAssumption
  <2> HIDE DEF new, old, cur, uid
  <2>5. new \in held /\ new # None /\ Uid[new] = uid
    BY <1>2, <2>1, <2>2, <2>4
  <2>6. Stp[new] <= Stp[r[2]] /\ Stp[new] <= Stp[cur]
    <3>1. CASE Stp[r[2]] < Stp[cur]
      BY <2>2, <2>3, <3>1
    <3>2. CASE ~(Stp[r[2]] < Stp[cur])
      BY <2>2, <2>3, <3>2
    <3> QED
      BY <3>1, <3>2
  <2> QED
    BY <2>1, <2>5, <2>6 DEF old
<1> HIDE DEF new, uid
<1>6. TypeOK'
  BY <1>1, <1>2, <1>3, <1>5 DEF tables, zugfuhrer, lookup, IInv, TypeOK
<1>7. Joined'
  <2>1. rows' \subseteq Rows(held)
    BY <1>1 DEF IInv, Inv, Joined
  <2>2. \A m \in mvts' : Parent[m] \in held
    BY <1>1, <1>2 DEF IInv, Inv, Joined
  <2>3. ASSUME NEW q \in Rows(held) \ rows'
        PROVE  q[1] \in mvts' /\ by_uid'[Uid[q[2]]] # None
               /\ Stp[by_uid'[Uid[q[2]]]] <= Stp[q[2]]
    <3>0. q[2] \in held /\ Uid[q[2]] \in Uids /\ Stp[q[2]] \in Int
      BY <1>2, Ranks DEF Rows, Uids
    <3>1. CASE q = r
      BY <1>1, <1>2, <1>3, <1>5, <3>1 DEF uid
    <3>2. CASE q # r
      <4>1. /\ q[1] \in mvts /\ by_uid[Uid[q[2]]] # None
            /\ Stp[by_uid[Uid[q[2]]]] <= Stp[q[2]]
        BY <1>1, <3>2 DEF IInv, Inv, Joined
      <4>2. CASE Uid[q[2]] # uid
        BY <1>1, <1>3, <3>0, <4>1, <4>2
      <4>3. CASE Uid[q[2]] = uid
        <5>1. by_uid'[Uid[q[2]]] = new /\ by_uid[uid] \in held
          BY <1>1, <1>2, <1>3, <1>4, <4>1, <4>3
        <5>2. Stp[new] \in Int /\ Stp[by_uid[uid]] \in Int
          BY <1>2, <1>5, <5>1, Ranks
        <5> QED
          BY <1>1, <1>5, <3>0, <4>1, <4>3, <5>1, <5>2
      <4> QED
        BY <4>2, <4>3
    <3> QED
      BY <3>1, <3>2
  <2>4. ASSUME NEW u \in Uids, by_uid'[u] # None
        PROVE  /\ by_uid'[u] \in held /\ Uid[by_uid'[u]] = u
               /\ \E m \in Mvts : Parent[m] \in held /\ Uid[Parent[m]] = u
    <3>1. CASE u = uid
      BY <1>1, <1>2, <1>3, <1>5, <3>1
    <3>2. CASE u # uid
      BY <1>1, <1>3, <2>4, <3>2 DEF IInv, Inv, Joined
    <3> QED
      BY <3>1, <3>2
  <2> QED
    BY <1>1, <2>1, <2>2, <2>3, <2>4 DEF Joined, Rows
<1>8. Inv'
  BY <1>1, <1>7 DEF Inv, SupersedingWins
<1> QED
  BY <1>6, <1>8 DEF IInv

LEMMA StartKeeps ==
    ASSUME IInv, StartQuery
    PROVE  IInv'
<1>1. TypeOK'
  <2>1. rows' \subseteq Mvts \X Schedules /\ present \subseteq Schedules
    BY DEF StartQuery, Rows, IInv, TypeOK
  <2> QED
    BY <2>1 DEF StartQuery, tables, zugfuhrer, lookup, IInv, TypeOK
<1>2. rows' = Rows(held') /\ mvts' = {} /\ \A u \in Uids : by_uid'[u] = None
  BY DEF StartQuery, IInv, Inv
<1>3. Joined'
  BY <1>2 DEF Joined, Rows
<1>4. Inv'
  BY <1>3 DEF StartQuery, Inv, SupersedingWins
<1> QED
  BY <1>1, <1>4 DEF IInv

LEMMA EndJoinKeeps ==
    ASSUME IInv, EndJoin
    PROVE  IInv'
<1>1. /\ pc = "join" /\ rows = {} /\ pc' = "ask"
      /\ schedules' = {by_uid[u] : u \in Uids} \ {None}
      /\ mvts' = {m \in mvts : Parent[m] \in schedules'}
      /\ UNCHANGED <<tables, held, rows, by_uid, zugfuhrer, shown, lookup>>
  BY DEF EndJoin
<1>2. Joined /\ held \subseteq Schedules /\ mvts \subseteq Mvts
  BY <1>1 DEF IInv, Inv, TypeOK
<1>3. TypeOK'
  BY <1>1 DEF tables, zugfuhrer, lookup, IInv, TypeOK
<1>4. ASSUME NEW m \in Mvts, Parent[m] \in held, NEW t \in held, Uid[t] = Uid[Parent[m]]
      PROVE  /\ m \in mvts /\ by_uid[Uid[t]] \in schedules'
             /\ Stp[by_uid[Uid[t]]] <= Stp[t]
  <2>1. <<m, t>> \in Rows(held)
    BY <1>4 DEF Rows
  <2>2. m \in mvts /\ by_uid[Uid[t]] # None /\ Stp[by_uid[Uid[t]]] <= Stp[t]
    BY <1>1, <1>2, <2>1 DEF Joined
  <2> QED
    BY <1>1, <1>2, <2>2 DEF Uids
<1>5. ASSUME NEW s \in schedules'
      PROVE  s \in held /\ \A t \in held : ~Supersedes(t, s)
  <2>1. PICK u \in Uids : s = by_uid[u] /\ by_uid[u] # None
    BY <1>1
  <2>2. /\ s \in held /\ Uid[s] = u
        /\ \E m \in Mvts : Parent[m] \in held /\ Uid[Parent[m]] = u
    BY <1>2, <2>1 DEF Joined
  <2>3. \A t \in held : Uid[t] = u => Stp[s] <= Stp[t] /\ Stp[t] \in Int /\ Stp[s] \in Int
    BY <1>2, <1>4, <2>1, <2>2, Ranks
  <2> QED
    BY <2>2, <2>3 DEF Supersedes
<1>6. mvts' = {m \in Mvts : Parent[m] \in schedules'}
  BY <1>1, <1>2, <1>4, <1>5
<1>7. \A m \in Mvts : Parent[m] \in held =>
          \E s \in schedules' : Uid[s] = Uid[Parent[m]] /\ Stp[s] <= Stp[Parent[m]]
  <2> SUFFICES ASSUME NEW m \in Mvts, Parent[m] \in held
               PROVE  \E s \in schedules' : Uid[s] = Uid[Parent[m]] /\ Stp[s] <= Stp[Parent[m]]
    OBVIOUS
  <2>1. /\ by_uid[Uid[Parent[m]]] \in schedules'
        /\ Stp[by_uid[Uid[Parent[m]]]] <= Stp[Parent[m]]
    BY <1>4
  <2>2. Uid[by_uid[Uid[Parent[m]]]] = Uid[Parent[m]]
    BY <1>1, <1>2, <2>1 DEF Joined, Uids
  <2> QED
    BY <2>1, <2>2
<1>8. SupersedingWins'
  BY <1>1, <1>5, <1>6, <1>7 DEF SupersedingWins, Supersedes
<1>9. Inv'
  BY <1>1, <1>6, <1>8 DEF Inv
<1> QED
  BY <1>3, <1>9 DEF IInv

(* The question to tspl-zugfuhrer and the merge of the answers.               *)
LEMMA AskKeeps ==
    ASSUME IInv, AskZugfuhrer
    PROVE  IInv'
<1>1. /\ pc = "ask" /\ pc' = "merge"
      /\ answer'.mvts = {m \in Mvts : Parent[m] \in trains}
      /\ answer'.updates = {u \in updates : u.mvt \in answer'.mvts}
      /\ answer' = [mvts |-> answer'.mvts, updates |-> answer'.updates]
      /\ todo' = answer'.updates
      /\ merged' = [m \in answer'.mvts |-> None]
      /\ schedules' = schedules \ {Parent[m] : m \in answer'.mvts}
      /\ UNCHANGED <<tables, held, rows, by_uid, mvts, shown, lookup>>
  BY DEF AskZugfuhrer
<1>2. /\ answer'.mvts \subseteq Mvts /\ answer'.updates \subseteq Updates
      /\ answer' \in [mvts : SUBSET Mvts, updates : SUBSET Updates]
  BY <1>1 DEF IInv, TypeOK
<1>3. TypeOK'
  BY <1>1, <1>2 DEF tables, lookup, IInv, TypeOK
<1>4. ~IsReport(None)
  BY DataAssumption DEF IsReport
<1>5. \A m \in answer'.mvts : Processed(m)' = {} /\ merged'[m] = None
  BY <1>1 DEF Processed
<1>8. \A u \in answer'.updates : u.mvt \in answer'.mvts
  BY <1>1
<1>9. Inv'
  BY <1>1, <1>4, <1>5, <1>8 DEF Inv, SupersedingWins
<1> QED
  BY <1>3, <1>9 DEF IInv

LEMMA MergeKeeps ==
    ASSUME IInv, NEW u \in Updates, ProcessUpdate(u)
    PROVE  IInv'
<1>1. /\ pc = "merge" /\ u \in todo /\ todo' = todo \ {u}
      /\ merged' = [merged EXCEPT ![u.mvt] = Merge(merged[u.mvt], u)]
      /\ UNCHANGED <<tables, pc, fahrplan, answer, shown, lookup>>
  BY DEF ProcessUpdate
<1>2. /\ u \in answer.updates /\ u.mvt \in answer.mvts /\ todo \subseteq answer.updates
      /\ answer.mvts \subseteq Mvts
      /\ merged \in [answer.mvts -> Updates \cup {None}]
  BY <1>1 DEF IInv, Inv, TypeOK
<1>3. Merge(merged[u.mvt], u) \in {merged[u.mvt], u}
  BY DEF Merge
<1>4. TypeOK'
  BY <1>1, <1>2, <1>3 DEF tables, fahrplan, lookup, IInv, TypeOK
<1>5. \A m \in answer.mvts : Processed(m)' = IF m = u.mvt THEN Processed(m) \cup {u}
                                           ELSE Processed(m)
  BY <1>1, <1>2 DEF Processed
<1>6. \A m \in answer.mvts :
          /\ IF Processed(m) = {} THEN merged[m] = None ELSE merged[m] \in Processed(m)
          /\ (\E v \in Processed(m) : IsReport(v)) <=> IsReport(merged[m])
  BY <1>1 DEF IInv, Inv
<1>7. ~IsReport(None) /\ (u.source # "DARWIN" => IsReport(u)) /\ (u.source = "DARWIN" => ~IsReport(u))
  BY DataAssumption DEF IsReport
<1>8. ASSUME NEW m \in answer.mvts
      PROVE  /\ Processed(m)' = {} => merged'[m] = None
             /\ Processed(m)' # {} => merged'[m] \in Processed(m)'
             /\ (\E v \in Processed(m)' : IsReport(v)) <=> IsReport(merged'[m])
  <2>1. CASE m # u.mvt
    <3>1. merged'[m] = merged[m] /\ Processed(m)' = Processed(m)
      BY <1>1, <1>2, <1>5, <2>1
    <3> QED
      BY <3>1, <1>6
  <2>2. CASE m = u.mvt
    <3>1. merged'[m] = Merge(merged[m], u) /\ Processed(m)' = Processed(m) \cup {u}
      BY <1>1, <1>2, <1>5, <2>2
    <3>2. CASE u.source = "DARWIN" /\ IsReport(merged[m])
      <4>1. merged'[m] = merged[m] /\ Processed(m) # {}
        BY <3>1, <3>2, <1>6, <1>7 DEF Merge
      <4> QED
        BY <4>1, <3>1, <3>2, <1>6
    <3>3. CASE ~(u.source = "DARWIN" /\ IsReport(merged[m]))
      <4>1. merged'[m] = u
        BY <3>1, <3>3 DEF Merge
      <4>2. (\E v \in Processed(m)' : IsReport(v)) <=> IsReport(u)
        BY <3>1, <3>3, <1>6, <1>7
      <4> QED
        BY <4>1, <4>2, <3>1
    <3> QED
      BY <3>2, <3>3
  <2> QED
    BY <2>1, <2>2
<1>10. \A v \in answer.updates : v.mvt \in answer.mvts
  BY <1>1 DEF IInv, Inv
<1>11. schedules' = schedules /\ mvts' = mvts /\ answer' = answer
       /\ pc' = "merge" /\ todo' \subseteq answer.updates
  BY <1>1, <1>2 DEF fahrplan
<1>12. Inv'
  BY <1>8, <1>10, <1>11 DEF Inv, SupersedingWins
<1> QED
  BY <1>4, <1>12 DEF IInv

LEMMA EndQueryKeeps ==
    ASSUME IInv, EndQuery
    PROVE  IInv'
<1>1. /\ pc = "merge" /\ todo = {} /\ pc' = "done"
      /\ shown' = ShowTrains \cup ShowSchedules
      /\ UNCHANGED <<tables, fahrplan, zugfuhrer, lookup>>
  BY DEF EndQuery
<1>2. ShowTrains \cup ShowSchedules \subseteq Shown
  <2>1. answer.mvts \subseteq Mvts /\ mvts \subseteq Mvts
    BY DEF IInv, TypeOK
  <2>2. \A m \in Mvts : m \in Nat /\ Parent[m] \in Nat
    BY DataAssumption
  <2> QED
    BY <2>1, <2>2 DEF ShowTrains, ShowSchedules, Shown
<1>3. TypeOK'
  BY <1>1, <1>2 DEF tables, fahrplan, zugfuhrer, lookup, IInv, TypeOK
<1>4. Inv'
  BY <1>1 DEF fahrplan, zugfuhrer, lookup, IInv, Inv, SupersedingWins, Processed
<1> QED
  BY <1>3, <1>4 DEF IInv

(* The look-up of a uid's schedule.                                           *)
LEMMA StartLookupKeeps ==
    ASSUME IInv, NEW uid \in Uids, StartLookup(uid)
    PROVE  IInv'
<1>1. TypeOK'
  BY DEF StartLookup, tables, fahrplan, zugfuhrer, IInv, TypeOK
<1>2. Inv'
  BY DEF StartLookup, Inv, SupersedingWins
<1> QED
  BY <1>1, <1>2 DEF IInv

LEMMA ConsiderKeeps ==
    ASSUME IInv, NEW s \in Schedules, ConsiderSchedule(s)
    PROVE  IInv'
<1>1. /\ s \in looked /\ auth # Equal /\ looked' = looked \ {s}
      /\ auth' = Consider(auth, s)
      /\ UNCHANGED <<tables, pc, fahrplan, zugfuhrer, shown, found>>
  BY DEF ConsiderSchedule
<1>2. looked \subseteq found /\ found \subseteq Schedules /\ s # None /\ s # Equal
  BY DataAssumption DEF IInv, TypeOK
<1>3. auth' \in {auth, s, Equal}
  BY <1>1 DEF Consider
<1>4. TypeOK'
  BY <1>1, <1>2, <1>3 DEF tables, fahrplan, zugfuhrer, IInv, TypeOK
<1>5. ASSUME pc = "lookup", auth' # Equal
      PROVE  /\ auth' # None /\ auth' \in found
             /\ \A t \in (found \ looked') \ {auth'} : Stp[auth'] < Stp[t] \/ Stp[auth'] = Cancel
  <2>1. /\ auth = None => looked = found
        /\ \A t \in (found \ looked) \ {auth} : Stp[auth] < Stp[t] \/ Stp[auth] = Cancel
        /\ auth # None => auth \in found
    BY <1>1, <1>5 DEF IInv, Inv
  <2>2. CASE auth = None
    <3>1. auth' = s
      BY <1>1, <2>2 DEF Consider
    <3> QED
      BY <3>1, <1>1, <1>2, <2>1, <2>2
  <2>3. CASE auth # None /\ Stp[s] < Stp[auth]
    <3>1. auth' = s
      BY <1>1, <2>3 DEF Consider
    <3>2. Stp[s] \in 1 .. 4 /\ Stp[auth] \in 1 .. 4 /\ \A t \in found : Stp[t] \in 1 .. 4
      BY <1>1, <1>2, <2>1, <2>3, DataAssumption
    <3>3. \A t \in (found \ looked) \ {auth} : Stp[s] < Stp[t]
      BY <2>1, <2>3, <3>2 DEF Cancel
    <3>4. (found \ looked') \ {s} \subseteq ((found \ looked) \ {auth}) \cup {auth}
      BY <1>1
    <3> QED
      BY <3>1, <3>3, <3>4, <1>1, <1>2, <2>3
  <2>4. CASE auth # None /\ ~(Stp[s] < Stp[auth])
    <3>1. auth' = auth /\ (Stp[s] # Stp[auth] \/ Stp[s] = Cancel)
      BY <1>1, <1>5, <2>4 DEF Consider
    <3>2. Stp[s] \in 1 .. 4 /\ Stp[auth] \in 1 .. 4
      BY <1>1, <1>2, <2>1, <2>4, DataAssumption
    <3>3. Stp[auth] < Stp[s] \/ Stp[auth] = Cancel
      BY <2>4, <3>1, <3>2 DEF Cancel
    <3>4. (found \ looked') \ {auth} \subseteq ((found \ looked) \ {auth}) \cup {s}
      BY <1>1
    <3> QED
      BY <3>1, <3>3, <3>4, <2>1, <2>4
  <2> QED
    BY <2>2, <2>3, <2>4
<1>6. /\ pc' = pc /\ found' = found
      /\ UNCHANGED <<fahrplan, zugfuhrer>>
  BY <1>1
<1>7. Inv'
  BY <1>5, <1>6 DEF fahrplan, zugfuhrer, IInv, Inv, SupersedingWins, Joined, Processed
<1> QED
  BY <1>4, <1>7 DEF IInv

LEMMA NextKeeps == IInv /\ [Next]_vars => IInv'
<1> SUFFICES ASSUME IInv, [Next]_vars PROVE IInv'
  OBVIOUS
<1>1. CASE \/ \E s \in Schedules : ImportSchedule(s) \/ ActivateTrain(s)
           \/ \E u \in Updates : RecordUpdate(u)
  BY <1>1, TablesKeep
<1>2. CASE \E s \in Schedules : ConsiderSchedule(s)
  BY <1>2, ConsiderKeeps
<1>3. CASE \E u \in Updates : ProcessUpdate(u)
  BY <1>3, MergeKeeps
<1>4. CASE \E r \in Mvts \X Schedules : ProcessRow(r)
  BY <1>4, JoinKeeps
<1>5. CASE \E uid \in Uids : StartLookup(uid)
  BY <1>5, StartLookupKeeps
<1>6. CASE StartQuery
  BY <1>6, StartKeeps
<1>7. CASE EndJoin
  BY <1>7, EndJoinKeeps
<1>8. CASE AskZugfuhrer
  BY <1>8, AskKeeps
<1>9. CASE EndQuery
  BY <1>9, EndQueryKeeps
<1>10. CASE UNCHANGED vars
  <2>1. TypeOK'
    BY <1>10 DEF vars, tables, fahrplan, zugfuhrer, lookup, IInv, TypeOK
  <2>2. Inv'
    BY <1>10 DEF vars, tables, fahrplan, zugfuhrer, lookup, IInv, Inv, SupersedingWins,
                 Joined, Processed
  <2> QED
    BY <2>1, <2>2 DEF IInv
<1> QED
  BY <1>1, <1>2, <1>3, <1>4, <1>5, <1>6, <1>7, <1>8, <1>9, <1>10 DEF Next

(* Each fold is right about the rows that it has processed, in any order.     *)
THEOREM Correct == Spec => [](TypeOK /\ Inv)
<1>1. IInv => TypeOK /\ Inv
  BY DEF IInv
<1> QED
  BY <1>1, InitIInv, NextKeeps, PTL DEF Spec

(* tspl-fahrplan returns the schedules that none of its database supersedes.  *)
THEOREM NoneSuperseded == Spec => []SupersedingWins
<1>1. Inv => SupersedingWins
  BY DEF Inv
<1> QED
  BY <1>1, Correct, PTL

(* A look-up finds the authoritative schedule, in whatever order it gets them. *)
THEOREM Authoritative == Spec => []LookupFindsAuthoritative
<1>1. Inv => LookupFindsAuthoritative
  BY DEF Inv, LookupFindsAuthoritative
<1> QED
  BY <1>1, Correct, PTL

(* A reported time is never hidden by an estimate.                            *)
THEOREM ReportsShown == Spec => []ReportedTimeWins
<1>1. Inv => ReportedTimeWins
  <2> SUFFICES ASSUME Inv, pc = "done", NEW m \in answer.mvts
               PROVE  LET us == {u \in answer.updates : u.mvt = m}
                      IN  /\ us # {} => merged[m] \in us
                          /\ (\E u \in us : IsReport(u)) <=> IsReport(merged[m])
    BY DEF ReportedTimeWins
  <2>1. Processed(m) = {u \in answer.updates : u.mvt = m}
    BY DEF Inv, Processed
  <2>2. /\ IF Processed(m) = {} THEN merged[m] = None ELSE merged[m] \in Processed(m)
        /\ (\E u \in Processed(m) : IsReport(u)) <=> IsReport(merged[m])
    BY DEF Inv
  <2> QED
    BY <2>1, <2>2
<1> QED
  BY <1>1, Correct, PTL

(* The folds give the same in every order of the rows, whatever is done between  *)
(* the requests.                                                              *)
THEOREM AllFoldsAreRight == Spec => []FoldsAreRight
<1>1. SupersedingWins /\ LookupFindsAuthoritative /\ ReportedTimeWins => FoldsAreRight
  BY DEF FoldsAreRight
<1> QED
  BY <1>1, NoneSuperseded, Authoritative, ReportsShown, PTL

(* The types of an answer in the making, whatever the tables change to.       *)
THEOREM Typed == Spec => []TypeOK
<1>1. TypeOK /\ Inv => TypeOK
  OBVIOUS
<1> QED
  BY <1>1, Correct, PTL

-----------------------------------------------------------------------------
(* ConnectingQuery, for any journeys, calls and reports                      *)

ConnIInv == ConnTypeOK /\ ConnInv

LEMMA PairCalls ==
    ASSUME NEW js \in SUBSET Journeys, NEW m, NEW c, <<m, c>> \in Pairs(js)
    PROVE  /\ m \in Here /\ c \in There /\ JourneyOf[m] = JourneyOf[c]
           /\ JourneyOf[m] \in js /\ JourneyOf[m] \in Journeys
           /\ JourneyUid[JourneyOf[m]] \in ConnUids
  BY ConnectingAssumption DEF Pairs, ConnUids

LEMMA SameUidRowFields ==
    ASSUME ConnTypeOK, NEW row \in SameUidRows
    PROVE  /\ <<row.call, row.conn>> \in Pairs(on_date)
           /\ row.updating \in on_date /\ row.updating \in Journeys
           /\ JourneyUid[JourneyOf[row.call]] = JourneyUid[row.updating]
<1>1. row \in ScheduleRows(on_date) /\ SameUid(row)
  BY DEF SameUidRows
<1>2. PICK p \in Pairs(on_date), j \in on_date :
          row = [call |-> p[1], conn |-> p[2], updating |-> j]
  BY <1>1 DEF ScheduleRows
<1>3. p = <<p[1], p[2]>>
  BY DEF Pairs
<1> QED
  BY <1>1, <1>2, <1>3 DEF SameUid, ConnTypeOK

(* Every pair of a journey comes with every schedule of its uid.              *)
LEMMA RowOfPair ==
    ASSUME ConnTypeOK, NEW p \in Pairs(on_date), NEW k \in on_date,
           JourneyUid[k] = JourneyUid[JourneyOf[p[1]]]
    PROVE  [call |-> p[1], conn |-> p[2], updating |-> k] \in SameUidRows
  BY DEF SameUidRows, ScheduleRows, SameUid

LEMMA TrainRowFields ==
    ASSUME NEW row \in TrainRows(on_date, reported)
    PROVE  /\ <<row.call, row.conn>> \in Pairs(on_date)
           /\ row.upd \in UpdatesOf(row.call, reported)
           /\ row.conn_upd \in UpdatesOf(row.conn, reported)
<1>1. PICK p \in Pairs(on_date) :
          row \in {[call |-> p[1], conn |-> p[2], upd |-> u, conn_upd |-> v] :
                      u \in UpdatesOf(p[1], reported), v \in UpdatesOf(p[2], reported)}
  BY DEF TrainRows
<1>2. PICK u \in UpdatesOf(p[1], reported), v \in UpdatesOf(p[2], reported) :
          row = [call |-> p[1], conn |-> p[2], upd |-> u, conn_upd |-> v]
  BY <1>1
<1>3. p = <<p[1], p[2]>>
  BY DEF Pairs
<1> QED
  BY <1>2, <1>3

LEMMA RowOfUpdates ==
    ASSUME NEW p \in Pairs(on_date), NEW u \in UpdatesOf(p[1], reported),
           NEW v \in UpdatesOf(p[2], reported)
    PROVE  [call |-> p[1], conn |-> p[2], upd |-> u, conn_upd |-> v]
               \in TrainRows(on_date, reported)
  BY DEF TrainRows

(* The join has an update for a call whether or not there is one.              *)
LEMMA UpdatesOfCall ==
    ASSUME NEW m, NEW rs \in SUBSET Reports
    PROVE  /\ UpdatesOf(m, rs) \ {Nobody} = {r \in rs : r.updates = m}
           /\ UpdatesOf(m, rs) # {} /\ UpdatesOf(m, rs) \subseteq Reports \cup {Nobody}
  BY ConnectingAssumption DEF UpdatesOf

(* What a map is after an update of the call m.                               *)
Extended(after, map, m, orig, u) ==
    /\ DOMAIN after = DOMAIN map \cup {m}
    /\ \A k \in DOMAIN map : k # m => after[k] = map[k]
    /\ after[m] =
           IF m \in DOMAIN map
           THEN [orig |-> map[m].orig, updates |-> (map[m].updates \cup {u}) \ {Nobody}]
           ELSE [orig |-> orig, updates |-> {u} \ {Nobody}]

LEMMA ExtendEntry ==
    ASSUME NEW map, NEW m, NEW orig, NEW u,
           m \in DOMAIN map => map[m] \in Entry
    PROVE  Extended(Extend(map, m, orig, u), map, m, orig, u)
<1> DEFINE old == IF m \in DOMAIN map THEN map[m] ELSE [orig |-> orig, updates |-> {}]
           new == [old EXCEPT !.updates = (old.updates \cup {u}) \ {Nobody}]
<1>1. Extend(map, m, orig, u) = With(map, m, new)
  BY DEF Extend
<1>2. new = IF m \in DOMAIN map
            THEN [orig |-> map[m].orig, updates |-> (map[m].updates \cup {u}) \ {Nobody}]
            ELSE [orig |-> orig, updates |-> {u} \ {Nobody}]
  <2>1. CASE m \in DOMAIN map
    <3>1. map[m] \in Entry /\ old = map[m]
      BY <2>1
    <3> QED
      BY <2>1, <3>1 DEF Entry
  <2>2. CASE m \notin DOMAIN map
    BY <2>2
  <2> QED
    BY <2>1, <2>2
<1>3. /\ DOMAIN With(map, m, new) = DOMAIN map \cup {m}
      /\ With(map, m, new)[m] = new
      /\ \A k \in DOMAIN map : k # m => With(map, m, new)[k] = map[k]
  <2> HIDE DEF new
  <2> QED
    BY DEF With
<1> HIDE DEF new
<1> QED
  BY <1>1, <1>2, <1>3 DEF Extended

LEMMA ConnInitIInv == ConnInit => ConnIInv
<1> SUFFICES ASSUME ConnInit PROVE ConnIInv
  OBVIOUS
<1>1. DOMAIN passing = {} /\ DOMAIN connecting = {} /\ query # "answered"
  BY DEF ConnInit, NoEntries
<1>2. ConnTypeOK
  BY <1>1 DEF ConnInit, ConnTypeOK
<1>3. query = "sched" => SchedulesFold
  BY <1>1 DEF ConnInit, SchedulesFold, SameUidRows
<1>4. query = "train" => TrainsFold
  BY <1>1 DEF ConnInit, TrainsFold, Scheduled
<1> QED
  BY <1>1, <1>2, <1>3, <1>4
  DEF ConnIInv, ConnInv, ConnectionsAreRight, EveryCallConnects, UpdatesOfTheTrain

LEMMA InsertRowKeeps ==
    ASSUME ConnIInv, NEW row \in result, InsertRow(row)
    PROVE  ConnIInv'
<1> USE DEF ConnIInv
<1> DEFINE u == JourneyUid[JourneyOf[row.call]]
           current == IF superseding[u] = Nobody THEN JourneyOf[row.call]
                      ELSE superseding[u]
           winner == IF Rank[row.updating] < Rank[current] THEN row.updating ELSE current
           processed == SameUidRows \ result
           OfUid(v) == {r \in processed : JourneyUid[r.updating] = v}
<1>1. /\ query = "sched" /\ result' = result \ {row}
      /\ connecting' = With(connecting, row.call, [orig |-> row.conn, updates |-> {}])
      /\ passing' = With(passing, row.call, [orig |-> row.call, updates |-> {}])
      /\ superseding' = [superseding EXCEPT ![u] = winner]
      /\ UNCHANGED <<query, on_date, reported>>
  BY DEF InsertRow
<1>2. SchedulesFold /\ row \in SameUidRows /\ SameUidRows' = SameUidRows
  BY <1>1 DEF ConnInv, SchedulesFold, SameUidRows
<1>3. /\ <<row.call, row.conn>> \in Pairs(on_date) /\ row.updating \in on_date
      /\ u = JourneyUid[row.updating] /\ u \in ConnUids
      /\ row.call \in Here /\ row.conn \in There /\ JourneyOf[row.call] \in on_date
      /\ on_date \subseteq Journeys
  BY <1>2, SameUidRowFields, PairCalls DEF ConnTypeOK
<1> DEFINE entry == [orig |-> row.call, updates |-> {}]
           conn_entry == [orig |-> row.conn, updates |-> {}]
<1>4. /\ DOMAIN passing' = DOMAIN passing \cup {row.call}
      /\ passing'[row.call] = entry
      /\ \A m \in DOMAIN passing : m # row.call => passing'[m] = passing[m]
  <2> HIDE DEF entry
  <2>1. passing' = With(passing, row.call, entry)
    BY <1>1 DEF entry
  <2> QED
    BY <2>1 DEF With
<1>5. /\ DOMAIN connecting' = DOMAIN connecting \cup {row.call}
      /\ connecting'[row.call] = conn_entry
      /\ \A m \in DOMAIN connecting : m # row.call => connecting'[m] = connecting[m]
  <2> HIDE DEF conn_entry
  <2>1. connecting' = With(connecting, row.call, conn_entry)
    BY <1>1 DEF conn_entry
  <2> QED
    BY <2>1 DEF With
<1>6. entry \in Entry /\ conn_entry \in Entry /\ conn_entry.orig = row.conn
  BY <1>3 DEF Entry
<1>7. /\ superseding[u] # Nobody => superseding[u] \in on_date /\ JourneyUid[superseding[u]] = u
      /\ superseding'[u] = winner
      /\ \A v \in ConnUids \ {u} : superseding'[v] = superseding[v]
  BY <1>1, <1>2, <1>3 DEF SchedulesFold, ConnTypeOK
<1>8. current \in on_date /\ JourneyUid[current] = u
  BY <1>3, <1>7
<1>9. /\ winner \in on_date /\ JourneyUid[winner] = u
      /\ Rank[winner] <= Rank[row.updating] /\ Rank[winner] <= Rank[current]
  <2>1. Rank[row.updating] \in Int /\ Rank[current] \in Int
    BY <1>3, <1>8, ConnectingAssumption
  <2> HIDE DEF u, current
  <2> QED
    BY <1>3, <1>8, <2>1
<1> HIDE DEF u, current, winner, entry, conn_entry
<1>10. ConnTypeOK'
  <2>1. superseding' \in [ConnUids -> Journeys \cup {Nobody}]
    BY <1>1, <1>3, <1>9 DEF ConnTypeOK
  <2>2. /\ DOMAIN passing' \subseteq Here
        /\ \A m \in DOMAIN passing' : passing'[m] \in Entry
    BY <1>3, <1>4, <1>6 DEF ConnTypeOK
  <2>3. /\ DOMAIN connecting' \subseteq Here
        /\ \A m \in DOMAIN connecting' : connecting'[m] \in Entry
    BY <1>3, <1>5, <1>6 DEF ConnTypeOK
  <2> QED
    BY <1>1, <2>1, <2>2, <2>3 DEF ConnTypeOK
<1>11. /\ DOMAIN connecting' = DOMAIN passing'
       /\ \A m \in DOMAIN passing' : <<m, connecting'[m].orig>> \in Pairs(on_date)
  BY <1>3, <1>4, <1>5, <1>6 DEF ConnInv
<1>12. SchedulesFold'
  <2> DEFINE processed2 == SameUidRows \ result'
             OfUid2(v) == {r \in processed2 : JourneyUid[r.updating] = v}
  <2>1. processed2 = processed \cup {row}
    BY <1>1, <1>2 DEF SchedulesFold
  <2>2. DOMAIN passing' = {r.call : r \in processed2}
    BY <1>2, <1>4, <2>1 DEF SchedulesFold
  <2>3. ASSUME NEW v \in ConnUids
        PROVE  IF OfUid2(v) = {} THEN superseding'[v] = Nobody
               ELSE /\ superseding'[v] \in on_date /\ JourneyUid[superseding'[v]] = v
                    /\ \A r \in OfUid2(v) : Rank[superseding'[v]] <= Rank[r.updating]
    <3>1. CASE v # u
      <4>1. OfUid2(v) = OfUid(v) /\ superseding'[v] = superseding[v]
        BY <1>3, <1>7, <2>1, <3>1
      <4> QED
        BY <1>2, <4>1 DEF SchedulesFold
    <3>2. CASE v = u
      <4>1. row \in OfUid2(v) /\ \A r \in OfUid2(v) : r \in OfUid(v) \/ r = row
        BY <1>3, <2>1, <3>2
      <4>2. ASSUME NEW r \in OfUid(u)
            PROVE  Rank[winner] <= Rank[r.updating]
        <5>1. superseding[u] \in on_date /\ Rank[superseding[u]] <= Rank[r.updating]
          BY <1>2, <1>3 DEF SchedulesFold
        <5>2. current = superseding[u]
          BY <1>3, <5>1, ConnectingAssumption DEF current
        <5>3. r.updating \in Journeys /\ current \in Journeys /\ winner \in Journeys
          BY <1>3, <1>8, <1>9, SameUidRowFields
        <5>4. Rank[r.updating] \in Int /\ Rank[current] \in Int /\ Rank[winner] \in Int
          BY <5>3, ConnectingAssumption
        <5> QED
          BY <1>9, <5>1, <5>2, <5>4
      <4> HIDE DEF OfUid, OfUid2
      <4>3. /\ superseding'[v] \in on_date /\ JourneyUid[superseding'[v]] = v
            /\ OfUid2(v) # {}
        BY <1>7, <1>9, <3>2, <4>1
      <4>4. ASSUME NEW r \in OfUid2(v)
            PROVE  Rank[superseding'[v]] <= Rank[r.updating]
        BY <1>7, <1>9, <3>2, <4>1, <4>2
      <4> QED
        BY <4>3, <4>4
    <3> QED
      BY <3>1, <3>2
  <2>4. result' \subseteq SameUidRows
    BY <1>1, <1>2 DEF SchedulesFold
  <2> QED
    BY <1>1, <1>2, <2>2, <2>3, <2>4 DEF SchedulesFold
<1> QED
  BY <1>1, <1>10, <1>11, <1>12
  DEF ConnInv, ConnectionsAreRight, EveryCallConnects, UpdatesOfTheTrain

(* The rows of a uid are those of each of its calls here with each of its      *)
(* schedules: when all are processed, it goes by one that nothing supersedes.   *)
LEMMA UidGoesBy ==
    ASSUME ConnIInv, query = "sched", result = {}, NEW j \in on_date, Connects(j)
    PROVE  LET w == superseding[JourneyUid[j]]
           IN  /\ w \in on_date /\ JourneyUid[w] = JourneyUid[j]
               /\ \A k \in on_date : JourneyUid[k] = JourneyUid[j] => Rank[w] <= Rank[k]
<1> USE DEF ConnIInv
<1> DEFINE u == JourneyUid[j]
           OfUid(v) == {r \in SameUidRows \ result : JourneyUid[r.updating] = v}
<1>1. PICK p \in Pairs(on_date) : JourneyOf[p[1]] = j
  BY DEF Connects
<1>2. u \in ConnUids
  BY DEF ConnUids, ConnTypeOK
<1>3. ASSUME NEW k \in on_date, JourneyUid[k] = u
      PROVE  \E r \in OfUid(u) : r.updating = k
  <2>1. [call |-> p[1], conn |-> p[2], updating |-> k] \in SameUidRows
    BY <1>1, <1>3, RowOfPair
  <2> QED
    BY <1>3, <2>1
<1>4. OfUid(u) # {}
  BY <1>3
<1>5. /\ superseding[u] \in on_date /\ JourneyUid[superseding[u]] = u
      /\ \A r \in OfUid(u) : Rank[superseding[u]] <= Rank[r.updating]
  BY <1>2, <1>4 DEF ConnInv, SchedulesFold
<1> HIDE DEF OfUid
<1>6. \A k \in on_date : JourneyUid[k] = u => Rank[superseding[u]] <= Rank[k]
  BY <1>3, <1>5
<1> QED
  BY <1>5, <1>6

LEMMA RetainKeeps ==
    ASSUME ConnIInv, Retain
    PROVE  ConnIInv'
<1> USE DEF ConnIInv
<1> DEFINE goes_by == {superseding[u] : u \in ConnUids}
<1>1. /\ query = "sched" /\ result = {} /\ query' = "answered"
      /\ passing' = [m \in {k \in DOMAIN passing : JourneyOf[k] \in goes_by} |-> passing[m]]
      /\ connecting' = [m \in DOMAIN connecting \cap DOMAIN passing' |-> connecting[m]]
      /\ UNCHANGED <<on_date, reported, result, superseding>>
  BY DEF Retain
<1>2. SchedulesFold /\ DOMAIN connecting = DOMAIN passing
  BY <1>1 DEF ConnInv
<1>3. /\ DOMAIN passing' = {k \in DOMAIN passing : JourneyOf[k] \in goes_by}
      /\ DOMAIN connecting' = DOMAIN passing'
      /\ \A m \in DOMAIN passing' : /\ passing'[m] = passing[m]
                                   /\ connecting'[m] = connecting[m]
  BY <1>1, <1>2
<1>4. ConnTypeOK'
  BY <1>1, <1>3 DEF ConnTypeOK
<1>5. \A m \in DOMAIN passing' : <<m, connecting'[m].orig>> \in Pairs(on_date)
  BY <1>3 DEF ConnInv
<1>6. ASSUME NEW p \in Pairs(on_date)
      PROVE  p[1] \in DOMAIN passing /\ JourneyOf[p[1]] \in on_date
             /\ p[1] \in Here /\ superseding[JourneyUid[JourneyOf[p[1]]]] \in on_date
             /\ JourneyUid[JourneyOf[p[1]]] \in ConnUids
  <2>1. JourneyOf[p[1]] \in on_date /\ p[1] \in Here
    BY DEF Pairs
  <2>2. [call |-> p[1], conn |-> p[2], updating |-> JourneyOf[p[1]]] \in SameUidRows
    BY <2>1, RowOfPair
  <2>3. p[1] \in DOMAIN passing
    BY <1>1, <1>2, <2>2 DEF SchedulesFold
  <2>4. superseding[JourneyUid[JourneyOf[p[1]]]] \in on_date
    BY <1>1, <2>1, UidGoesBy DEF Connects
  <2> QED
    BY <2>1, <2>3, <2>4 DEF ConnUids, ConnTypeOK
<1>7. ASSUME NEW m \in DOMAIN passing'
      PROVE  LET j == JourneyOf[m]
             IN  j \in on_date /\ Connects(j) /\ ~Superseded(j)
  <2>1. /\ <<m, connecting'[m].orig>> \in Pairs(on_date) /\ Connects(JourneyOf[m])
        /\ JourneyOf[m] \in on_date
    BY <1>5 DEF Connects, Pairs
  <2>2. PICK u \in ConnUids : JourneyOf[m] = superseding[u]
    BY <1>3
  <2>3. superseding[u] \in on_date /\ superseding[u] # Nobody
    BY <2>1, <2>2, ConnectingAssumption DEF ConnTypeOK
  <2>4. JourneyUid[superseding[u]] = u
    BY <1>2, <2>3 DEF SchedulesFold
  <2>5. \A k \in on_date : JourneyUid[k] = JourneyUid[JourneyOf[m]]
                               => Rank[JourneyOf[m]] <= Rank[k]
    BY <1>1, <2>1, <2>2, <2>4, UidGoesBy
  <2>6. \A k \in on_date : Rank[k] \in Int
    BY ConnectingAssumption DEF ConnTypeOK
  <2> QED
    BY <2>1, <2>5, <2>6 DEF Superseded
<1>8. ASSUME NEW j \in on_date, ~Superseded(j), \A k \in Equals(j) : Connects(k)
      PROVE  \E m \in DOMAIN passing' : JourneyOf[m] \in Equals(j)
  <2> DEFINE w == superseding[JourneyUid[j]]
  <2>1. Connects(j)
    BY <1>8 DEF Equals
  <2>2. /\ w \in on_date /\ JourneyUid[w] = JourneyUid[j]
        /\ Rank[w] <= Rank[j]
    BY <1>1, <2>1, UidGoesBy
  <2>3. Rank[w] \in Int /\ Rank[j] \in Int /\ JourneyUid[j] \in ConnUids
    BY <2>2, ConnectingAssumption DEF ConnTypeOK, ConnUids
  <2> HIDE DEF w
  <2>4. w \in Equals(j)
    BY <1>8, <2>2, <2>3 DEF Equals, Superseded
  <2>5. PICK p \in Pairs(on_date) : JourneyOf[p[1]] = w
    BY <1>8, <2>4 DEF Connects
  <2>6. p[1] \in DOMAIN passing'
    BY <1>3, <1>6, <2>3, <2>5 DEF w
  <2> QED
    BY <2>4, <2>5, <2>6
<1>9. EveryCallConnects'
  <2>1. \A j \in on_date' :
            (\E m \in DOMAIN passing' : JourneyOf[m] = j) => (Connects(j) /\ ~Superseded(j))'
    BY <1>1, <1>7 DEF Connects, Superseded
  <2>2. \A j \in on_date' :
            (~Superseded(j) /\ (\A k \in Equals(j) : Connects(k)))'
                => \E m \in DOMAIN passing' : JourneyOf[m] \in Equals(j)'
    BY <1>1, <1>8 DEF Connects, Superseded, Equals
  <2> QED
    BY <1>1, <1>3, <1>5, <2>1, <2>2 DEF EveryCallConnects
<1>10. UpdatesOfTheTrain'
  <2> SUFFICES ASSUME ~Scheduled' PROVE Pairs(on_date) = {} /\ DOMAIN passing' = {}
    BY <1>1 DEF UpdatesOfTheTrain
  <2>1. superseding = [u \in ConnUids |-> Nobody]
    BY <1>1 DEF Scheduled
  <2>2. Nobody \notin on_date
    BY ConnectingAssumption DEF ConnTypeOK
  <2>3. Pairs(on_date) = {}
    BY <1>6, <2>1, <2>2
  <2> QED
    BY <1>5, <2>3
<1> QED
  BY <1>1, <1>3, <1>4, <1>5, <1>9, <1>10 DEF ConnInv, ConnectionsAreRight

LEMMA ExtendRowKeeps ==
    ASSUME ConnIInv, NEW row \in result, ExtendRow(row)
    PROVE  ConnIInv'
<1> USE DEF ConnIInv
<1> DEFINE joined == TrainRows(on_date, reported)
           processed == joined \ result
           OfCall(m) == {r \in processed : r.call = m}
<1>1. /\ query = "train" /\ result' = result \ {row}
      /\ passing' = Extend(passing, row.call, row.call, row.upd)
      /\ connecting' = Extend(connecting, row.call, row.conn, row.conn_upd)
      /\ UNCHANGED <<query, on_date, reported, superseding>>
  BY DEF ExtendRow
<1>2. TrainsFold /\ row \in joined /\ DOMAIN connecting = DOMAIN passing
  BY <1>1 DEF ConnInv, TrainsFold
<1>3. /\ <<row.call, row.conn>> \in Pairs(on_date)
      /\ row.upd \in UpdatesOf(row.call, reported)
      /\ row.conn_upd \in UpdatesOf(row.conn, reported)
  BY <1>2, TrainRowFields
<1>4. /\ row.call \in Here /\ row.conn \in There
      /\ row.upd \in Reports \cup {Nobody} /\ row.conn_upd \in Reports \cup {Nobody}
  BY <1>3, UpdatesOfCall DEF ConnTypeOK, Pairs
<1>5. /\ DOMAIN passing' = DOMAIN passing \cup {row.call}
      /\ \A k \in DOMAIN passing : k # row.call => passing'[k] = passing[k]
      /\ passing'[row.call] =
            IF row.call \in DOMAIN passing
            THEN [orig |-> passing[row.call].orig,
                  updates |-> (passing[row.call].updates \cup {row.upd}) \ {Nobody}]
            ELSE [orig |-> row.call, updates |-> {row.upd} \ {Nobody}]
  <2>1. row.call \in DOMAIN passing => passing[row.call] \in Entry
    BY DEF ConnTypeOK
  <2>2. Extended(passing', passing, row.call, row.call, row.upd)
    BY <1>1, <2>1, ExtendEntry
  <2> QED
    BY <2>2 DEF Extended
<1>6. /\ DOMAIN connecting' = DOMAIN connecting \cup {row.call}
      /\ \A k \in DOMAIN connecting : k # row.call => connecting'[k] = connecting[k]
      /\ connecting'[row.call] =
            IF row.call \in DOMAIN connecting
            THEN [orig |-> connecting[row.call].orig,
                  updates |-> (connecting[row.call].updates \cup {row.conn_upd}) \ {Nobody}]
            ELSE [orig |-> row.conn, updates |-> {row.conn_upd} \ {Nobody}]
  <2>1. row.call \in DOMAIN connecting => connecting[row.call] \in Entry
    BY DEF ConnTypeOK
  <2>2. Extended(connecting', connecting, row.call, row.conn, row.conn_upd)
    BY <1>1, <2>1, ExtendEntry
  <2> QED
    BY <2>2 DEF Extended
<1>7. ConnTypeOK'
  <2>1. \A m \in DOMAIN passing' : passing'[m] \in Entry
    BY <1>4, <1>5 DEF ConnTypeOK, Entry
  <2>2. \A m \in DOMAIN connecting' : connecting'[m] \in Entry
    BY <1>4, <1>6 DEF ConnTypeOK, Entry
  <2> QED
    BY <1>1, <1>4, <1>5, <1>6, <2>1, <2>2 DEF ConnTypeOK
<1>8. /\ DOMAIN connecting' = DOMAIN passing'
      /\ \A m \in DOMAIN passing' : <<m, connecting'[m].orig>> \in Pairs(on_date)
  BY <1>2, <1>3, <1>5, <1>6 DEF ConnInv
<1>9. TrainsFold'
  <2> DEFINE processed2 == joined \ result'
             OfCall2(m) == {r \in processed2 : r.call = m}
  <2>1. processed2 = processed \cup {row}
    BY <1>1, <1>2
  <2>2. DOMAIN passing' = {r.call : r \in processed2}
    BY <1>2, <1>5, <2>1 DEF TrainsFold
  <2>3. ASSUME NEW m \in DOMAIN passing'
        PROVE  /\ passing'[m].orig = m
               /\ passing'[m].updates = {r.upd : r \in OfCall2(m)} \ {Nobody}
               /\ connecting'[m].updates = {r.conn_upd : r \in OfCall2(m)} \ {Nobody}
    <3>1. CASE m # row.call
      <4>1. OfCall2(m) = OfCall(m) /\ m \in DOMAIN passing
        BY <1>5, <2>1, <3>1
      <4>2. passing'[m] = passing[m] /\ connecting'[m] = connecting[m]
        BY <1>2, <1>5, <1>6, <3>1, <4>1
      <4> QED
        BY <1>2, <4>1, <4>2 DEF TrainsFold
    <3>2. CASE m = row.call
      <4>1. OfCall2(m) = OfCall(m) \cup {row}
        BY <2>1, <3>2
      <4>2. /\ {r.upd : r \in OfCall2(m)} = {r.upd : r \in OfCall(m)} \cup {row.upd}
            /\ {r.conn_upd : r \in OfCall2(m)} = {r.conn_upd : r \in OfCall(m)} \cup {row.conn_upd}
        <5> HIDE DEF OfCall, OfCall2
        <5> QED
          BY <4>1
      <4>3. CASE m \in DOMAIN passing
        <5>1. /\ passing[m].orig = m
              /\ passing[m].updates = {r.upd : r \in OfCall(m)} \ {Nobody}
              /\ connecting[m].updates = {r.conn_upd : r \in OfCall(m)} \ {Nobody}
          BY <1>2, <4>3 DEF TrainsFold
        <5>2. /\ passing'[m].orig = passing[m].orig
              /\ passing'[m].updates = (passing[m].updates \cup {row.upd}) \ {Nobody}
              /\ connecting'[m].updates = (connecting[m].updates \cup {row.conn_upd}) \ {Nobody}
          BY <1>2, <1>5, <1>6, <3>2, <4>3
        <5> HIDE DEF OfCall, OfCall2
        <5> QED
          BY <4>2, <5>1, <5>2
      <4>4. CASE m \notin DOMAIN passing
        <5>1. OfCall(m) = {}
          BY <1>2, <4>4 DEF TrainsFold
        <5>2. /\ passing'[m].orig = m
              /\ passing'[m].updates = {row.upd} \ {Nobody}
              /\ connecting'[m].updates = {row.conn_upd} \ {Nobody}
          BY <1>2, <1>5, <1>6, <3>2, <4>4
        <5> HIDE DEF OfCall, OfCall2
        <5> QED
          BY <4>2, <5>1, <5>2
      <4> QED
        BY <4>3, <4>4
    <3> QED
      BY <3>1, <3>2
  <2>4. result' \subseteq joined /\ ~Scheduled'
    BY <1>1, <1>2 DEF TrainsFold, Scheduled
  <2> QED
    BY <1>1, <2>2, <2>3, <2>4 DEF TrainsFold
<1> QED
  BY <1>1, <1>7, <1>8, <1>9
  DEF ConnInv, ConnectionsAreRight, EveryCallConnects, UpdatesOfTheTrain

LEMMA AnswerTrainsKeeps ==
    ASSUME ConnIInv, AnswerTrains
    PROVE  ConnIInv'
<1> USE DEF ConnIInv
<1> DEFINE joined == TrainRows(on_date, reported)
           OfCall(m) == {r \in joined : r.call = m}
<1>1. /\ query = "train" /\ result = {} /\ query' = "answered"
      /\ UNCHANGED <<on_date, reported, result, superseding, passing, connecting>>
  BY DEF AnswerTrains
<1>2. TrainsFold /\ joined \ result = joined
  BY <1>1 DEF ConnInv
<1>3. ConnTypeOK'
  BY <1>1 DEF ConnTypeOK
<1>4. /\ DOMAIN connecting = DOMAIN passing
      /\ \A m \in DOMAIN passing : <<m, connecting[m].orig>> \in Pairs(on_date)
  BY DEF ConnInv
<1>5. EveryCallConnects'
  BY <1>1, <1>2, <1>4 DEF EveryCallConnects, TrainsFold, Scheduled
<1>6. ASSUME NEW p \in Pairs(on_date)
      PROVE  /\ \E r \in joined : r.call = p[1]
             /\ \A u \in UpdatesOf(p[1], reported) : \E r \in OfCall(p[1]) : r.upd = u
             /\ \A v \in UpdatesOf(p[2], reported) : \E r \in OfCall(p[1]) : r.conn_upd = v
  <2>1. reported \in SUBSET Reports
    BY DEF ConnTypeOK
  <2>2. PICK u0 \in UpdatesOf(p[1], reported), v0 \in UpdatesOf(p[2], reported) : TRUE
    BY <2>1, UpdatesOfCall
  <2>3. \A u \in UpdatesOf(p[1], reported), v \in UpdatesOf(p[2], reported) :
            [call |-> p[1], conn |-> p[2], upd |-> u, conn_upd |-> v] \in OfCall(p[1])
    BY RowOfUpdates
  <2> QED
    BY <2>2, <2>3
<1>7. DOMAIN passing = {p[1] : p \in Pairs(on_date)}
  <2>1. DOMAIN passing = {r.call : r \in joined}
    BY <1>2 DEF TrainsFold
  <2>2. \A r \in joined : \E p \in Pairs(on_date) : r.call = p[1]
    BY TrainRowFields
  <2> HIDE DEF joined
  <2> QED
    BY <1>6, <2>1, <2>2
<1>8. ASSUME NEW m \in DOMAIN passing
      PROVE  /\ passing[m].orig = m
             /\ passing[m].updates = {r \in reported : r.updates = m}
             /\ connecting[m].updates =
                   {r \in reported : r.updates \in There /\ JourneyOf[r.updates] = JourneyOf[m]}
  <2>1. /\ passing[m].orig = m
        /\ passing[m].updates = {r.upd : r \in OfCall(m)} \ {Nobody}
        /\ connecting[m].updates = {r.conn_upd : r \in OfCall(m)} \ {Nobody}
    BY <1>2 DEF TrainsFold
  <2>2. reported \in SUBSET Reports
    BY DEF ConnTypeOK
  <2>3. PICK p \in Pairs(on_date) : p[1] = m
    BY <1>7
  <2>4. {r.upd : r \in OfCall(m)} = UpdatesOf(m, reported)
    <3>1. \A r \in OfCall(m) : r.upd \in UpdatesOf(m, reported)
      BY TrainRowFields
    <3>2. \A u \in UpdatesOf(m, reported) : \E r \in OfCall(m) : r.upd = u
      BY <1>6, <2>3
    <3> HIDE DEF OfCall
    <3> QED
      BY <3>1, <3>2
  <2>5. ASSUME NEW r
        PROVE  r \in connecting[m].updates <=>
                   r \in reported /\ r.updates \in There /\ JourneyOf[r.updates] = JourneyOf[m]
    <3>1. ASSUME r \in connecting[m].updates
          PROVE  r \in reported /\ r.updates \in There /\ JourneyOf[r.updates] = JourneyOf[m]
      <4>1. PICK q \in OfCall(m) : r = q.conn_upd /\ r # Nobody
        BY <2>1, <3>1
      <4>2. /\ <<m, q.conn>> \in Pairs(on_date)
            /\ r \in UpdatesOf(q.conn, reported) \ {Nobody}
        BY <4>1, TrainRowFields
      <4>3. r \in reported /\ r.updates = q.conn
        BY <2>2, <4>2, UpdatesOfCall
      <4> QED
        BY <4>2, <4>3 DEF Pairs
    <3>2. ASSUME r \in reported, r.updates \in There, JourneyOf[r.updates] = JourneyOf[m]
          PROVE  r \in connecting[m].updates
      <4> DEFINE pair == <<m, r.updates>>
      <4>1. pair \in Pairs(on_date) /\ pair[1] = m /\ pair[2] = r.updates
        BY <2>3, <3>2 DEF Pairs
      <4>2. r \in UpdatesOf(r.updates, reported) /\ r # Nobody
        BY <2>2, <3>2, ConnectingAssumption DEF UpdatesOf
      <4>3. \E q \in OfCall(m) : q.conn_upd = r
        <5> HIDE DEF pair, OfCall
        <5> QED
          BY <1>6, <4>1, <4>2
      <4> HIDE DEF OfCall
      <4> QED
        BY <2>1, <4>2, <4>3
    <3> QED
      BY <3>1, <3>2
  <2>6. passing[m].updates = {r \in reported : r.updates = m}
    BY <2>1, <2>2, <2>4, UpdatesOfCall
  <2> QED
    BY <2>1, <2>5, <2>6
<1>9. UpdatesOfTheTrain'
  <2>1. \A m \in DOMAIN passing :
            connecting[m].orig \in There /\ JourneyOf[connecting[m].orig] = JourneyOf[m]
    BY <1>4 DEF Pairs
  <2> QED
    BY <1>1, <1>7, <1>8, <2>1 DEF UpdatesOfTheTrain
<1> QED
  BY <1>1, <1>3, <1>4, <1>5, <1>9 DEF ConnInv, ConnectionsAreRight

LEMMA ConnNextKeeps == ConnIInv /\ [ConnNext]_connvars => ConnIInv'
<1> SUFFICES ASSUME ConnIInv, [ConnNext]_connvars PROVE ConnIInv'
  OBVIOUS
<1>1. CASE UNCHANGED connvars
  BY <1>1
  DEF connvars, ConnIInv, ConnTypeOK, ConnInv, SchedulesFold, SameUidRows, TrainsFold,
      Scheduled, ConnectionsAreRight, EveryCallConnects, UpdatesOfTheTrain, Superseded,
      Equals, Connects
<1> QED
  BY <1>1, InsertRowKeeps, RetainKeeps, ExtendRowKeeps, AnswerTrainsKeeps DEF ConnNext

(* Both queries answer with what connects, in any order of the rows.            *)
THEOREM ConnectingAnswers == ConnSpec => []ConnectionsAreRight
<1>1. ConnInit => ConnIInv
  BY ConnInitIInv
<1>2. ConnIInv /\ [ConnNext]_connvars => ConnIInv'
  BY ConnNextKeeps
<1>3. ConnIInv => ConnectionsAreRight
  BY DEF ConnIInv, ConnInv
<1> QED
  BY <1>1, <1>2, <1>3, PTL DEF ConnSpec

-----------------------------------------------------------------------------
(* OsmsMovements, for any workers, trains, stops and messages                *)

OsmsIInv == OsmsTypeOK /\ RowsInv

LEMMA OsmsInitIInv == OsmsInit => OsmsIInv
<1> SUFFICES ASSUME OsmsInit PROVE OsmsIInv
  OBVIOUS
<1>0. NoTransaction \in Transaction
  BY DEF NoTransaction, Opened, Transaction
<1>1. OsmsTypeOK
  BY <1>0, OsmsAssumption DEF OsmsInit, OsmsTypeOK, NoQuestion
<1>2. SourcesTell(tmvts) /\ SourcesTell(asked.rows) /\ VersionsAreKnown
  BY DEF OsmsInit, SourcesTell, VersionsAreKnown, NoQuestion
<1>3. ShownSoFar
  BY DEF OsmsInit, ShownSoFar, BestEstimate, BestActual, NoQuestion
<1>4. NothingAfterTheEnd /\ NoCallTwice
  BY DEF OsmsInit, NothingAfterTheEnd, NoCallTwice, EstimatesOf
<1>5. \A w \in Workers : hand[w] = NoTransaction
  BY DEF OsmsInit
<1>6. HandsApart
  BY <1>5 DEF HandsApart, Held, Keys, NoTransaction, Opened
<1>7. /\ Progress(NoTransaction) /\ WrittenRows(NoTransaction)
      /\ EstimatesFound(NoTransaction)
  BY DEF NoTransaction, Opened, Progress, WrittenRows, EstimatesFound, SourcesTell
<1>8. \A w \in Workers :
          Progress(hand[w]) /\ WrittenRows(hand[w]) /\ EstimatesFound(hand[w])
  BY <1>5, <1>7
<1> QED
  BY <1>1, <1>2, <1>3, <1>4, <1>6, <1>8 DEF OsmsIInv, RowsInv

(* What a message leaves of the query is right as before.                     *)
LEMMA QueryStands ==
    ASSUME OsmsIInv, UNCHANGED query_of
    PROVE  /\ asked' \in [train : SUBSET OsmsTrains, rows : SUBSET Row]
           /\ unread' \subseteq asked'.rows
           /\ {expected, actual}' \subseteq {"none", "TRUST", "DARWIN", "NAIVE"}
           /\ SourcesTell(asked.rows)' /\ ShownSoFar'
<1>1. UNCHANGED <<asked, unread, expected, actual>>
  BY DEF query_of
<1>2. SourcesTell(asked.rows)'
  BY <1>1 DEF OsmsIInv, RowsInv, SourcesTell
<1>3. ShownSoFar'
  BY <1>1 DEF OsmsIInv, RowsInv, ShownSoFar, BestEstimate, BestActual
<1> QED
  BY <1>1, <1>2, <1>3 DEF OsmsIInv, OsmsTypeOK

(* What a transaction has in hand and the table that goes by it.               *)
LEMMA HandType ==
    ASSUME OsmsIInv, NEW w \in Workers
    PROVE  /\ hand[w] \in Transaction /\ hand[w].put \subseteq Row
           /\ hand[w].gone \subseteq RowKey /\ hand[w].doomed \subseteq RowKey
           /\ hand[w].missed \subseteq RowKey
           /\ Progress(hand[w]) /\ WrittenRows(hand[w]) /\ EstimatesFound(hand[w])
<1>1. hand[w] \in Transaction
  BY DEF OsmsIInv, OsmsTypeOK
<1> QED
  BY <1>1 DEF Transaction, OsmsIInv, RowsInv

LEMMA KeyTypes ==
    ASSUME NEW new, new \subseteq Row
    PROVE  Keys(new) \subseteq RowKey
  BY DEF Keys, Key, Row, RowKey

(* A statement of a worker: nothing is committed, so what its transaction is    *)
(* now has only to be right itself, and apart from those of others.             *)
LEMMA HandKeeps ==
    ASSUME OsmsIInv, NEW w \in Workers, NEW h \in Transaction,
           hand' = [hand EXCEPT ![w] = h],
           UNCHANGED <<tmvts, dsched, ended, last, query_of>>,
           messages' \in 0 .. MaxMessages, messages' >= messages,
           Progress(h), WrittenRows(h), EstimatesFound(h),
           Free(w, Keys(h.put) \cup h.gone)
    PROVE  OsmsIInv'
<1> USE DEF OsmsIInv
<1>1. /\ hand'[w] = h /\ \A v \in Workers \ {w} : hand'[v] = hand[v]
      /\ hand' \in [Workers -> Transaction]
  BY DEF OsmsTypeOK
<1>2. OsmsTypeOK'
  BY <1>1, QueryStands DEF OsmsTypeOK
<1>3. VersionsAreKnown'
  BY OsmsAssumption DEF OsmsTypeOK, RowsInv, VersionsAreKnown
<1>4. SourcesTell(tmvts)' /\ NothingAfterTheEnd' /\ NoCallTwice'
  BY DEF RowsInv, SourcesTell, NothingAfterTheEnd, EstimatesOf, Remaining, NoCallTwice
<1>5. HandsApart'
  <2>1. /\ Held(w)' = Keys(h.put) \cup h.gone
        /\ \A v \in Workers \ {w} : Held(v)' = Held(v)
    BY <1>1 DEF Held
  <2>2. \A v \in Workers \ {w} : Held(v) \cap Held(w)' = {}
    BY <2>1 DEF Free
  <2>3. HandsApart
    BY DEF RowsInv
  <2> SUFFICES ASSUME NEW v \in Workers, NEW u \in Workers, v # u
               PROVE  Held(v)' \cap Held(u)' = {}
    BY DEF HandsApart
  <2> QED
    BY <2>1, <2>2, <2>3 DEF HandsApart
<1>6. \A v \in Workers :
          (Progress(hand[v]) /\ WrittenRows(hand[v]) /\ EstimatesFound(hand[v]))'
  <2> SUFFICES ASSUME NEW v \in Workers
               PROVE  (Progress(hand[v]) /\ WrittenRows(hand[v]) /\ EstimatesFound(hand[v]))'
    OBVIOUS
  <2>1. hand'[v] = h \/ hand'[v] = hand[v]
    BY <1>1
  <2>2. CASE hand'[v] = h
    BY <2>2 DEF Progress, WrittenRows, EstimatesFound, EstimatesOf, SourcesTell, Remaining
  <2>3. CASE hand'[v] = hand[v]
    BY <2>3, HandType
    DEF Progress, WrittenRows, EstimatesFound, EstimatesOf, SourcesTell, Remaining
  <2> QED
    BY <2>1, <2>2, <2>3
<1> QED
  BY <1>2, <1>3, <1>4, <1>5, <1>6, QueryStands DEF RowsInv

LEMMA OsmsCount ==
    ASSUME OsmsIInv
    PROVE  /\ messages \in 0 .. MaxMessages /\ messages \in Nat /\ messages >= messages
           /\ messages < MaxMessages =>
                  messages + 1 \in 0 .. MaxMessages /\ messages + 1 >= messages
  BY OsmsAssumption DEF OsmsIInv, OsmsTypeOK

LEMMA NoHand ==
    /\ NoTransaction \in Transaction /\ Progress(NoTransaction)
    /\ WrittenRows(NoTransaction) /\ EstimatesFound(NoTransaction)
    /\ \A w \in Workers : Free(w, Keys(NoTransaction.put) \cup NoTransaction.gone)
<1>1. Keys(NoTransaction.put) \cup NoTransaction.gone = {}
  BY DEF NoTransaction, Opened, Keys
<1> QED
  BY <1>1 DEF NoTransaction, Opened, Transaction, Progress, WrittenRows, EstimatesFound, SourcesTell,
              Free

(* A message is taken up.                                                     *)
LEMMA BeginKeeps ==
    ASSUME OsmsIInv, NEW w \in Workers, NEW h \in Transaction,
           hand' = [hand EXCEPT ![w] = h],
           messages < MaxMessages, messages' = messages + 1,
           UNCHANGED <<tmvts, dsched, ended, last, query_of>>,
           Progress(h), h.put = {}, h.gone = {},
           h.step = "scan" \/ h.event \notin {"cancelled", "end"}
    PROVE  OsmsIInv'
<1>1. WrittenRows(h)
  BY DEF WrittenRows, SourcesTell
<1>2. EstimatesFound(h)
  BY DEF EstimatesFound
<1>3. Free(w, Keys(h.put) \cup h.gone)
  BY DEF Free, Keys
<1>4. messages' \in 0 .. MaxMessages /\ messages' >= messages
  BY OsmsCount
<1> QED
  BY <1>1, <1>2, <1>3, <1>4, HandKeeps

LEMMA BeginsKeep ==
    ASSUME OsmsIInv, NEW w \in Workers, NEW t \in OsmsTrains,
           \/ BeginCancellation(w, t)
           \/ \E s \in BaseStops, terminated \in BOOLEAN : BeginMovement(w, t, s, terminated)
           \/ \E ls \in Locations : BeginTs(w, t, ls)
    PROVE  OsmsIInv'
<1>1. CASE BeginCancellation(w, t)
  <2> DEFINE h == Opened("scan", {t}, "cancelled", {}, FALSE, {})
  <2>1. /\ hand' = [hand EXCEPT ![w] = h]
        /\ messages < MaxMessages /\ messages' = messages + 1
        /\ UNCHANGED <<tmvts, dsched, ended, last, query_of>>
    BY <1>1 DEF BeginCancellation, Begin
  <2>2. /\ h \in Transaction /\ Progress(h) /\ h.put = {} /\ h.gone = {}
        /\ h.step = "scan" \/ h.event \notin {"cancelled", "end"}
    BY DEF Transaction, Progress, Opened
  <2> QED
    BY <2>1, <2>2, BeginKeeps
<1>2. ASSUME NEW s \in BaseStops, NEW terminated \in BOOLEAN,
             BeginMovement(w, t, s, terminated)
      PROVE  OsmsIInv'
  <2> DEFINE h == Opened(IF terminated THEN "scan" ELSE "report", {t},
                         IF terminated THEN "end" ELSE "report", {s}, FALSE, {})
  <2>1. /\ hand' = [hand EXCEPT ![w] = h]
        /\ messages < MaxMessages /\ messages' = messages + 1
        /\ UNCHANGED <<tmvts, dsched, ended, last, query_of>>
    BY <1>2 DEF BeginMovement, Begin
  <2>2. /\ h \in Transaction /\ Progress(h) /\ h.put = {} /\ h.gone = {}
        /\ h.step = "scan" \/ h.event \notin {"cancelled", "end"}
    BY DEF Transaction, Progress, Opened
  <2> QED
    BY <2>1, <2>2, BeginKeeps
<1>3. ASSUME NEW ls \in Locations, BeginTs(w, t, ls)
      PROVE  OsmsIInv'
  <2>1. PICK D \in SUBSET OsmsStops : ls \in LocationsAt(D)
    BY DEF Locations
  <2>2. PICK kind \in [D -> Kinds] : ls = {[stop |-> s, kind |-> kind[s]] : s \in D}
    BY <2>1 DEF LocationsAt
  <2>3. ls \in SUBSET Location
    BY <2>2 DEF Location
  <2> DEFINE h == Opened("locations", {t}, "darwin", {}, dsched[t] # {}, ls)
  <2>4. /\ hand' = [hand EXCEPT ![w] = h]
        /\ messages < MaxMessages /\ messages' = messages + 1
        /\ UNCHANGED <<tmvts, dsched, ended, last, query_of>>
    BY <1>3 DEF BeginTs, Begin
  <2>5. /\ h \in Transaction /\ Progress(h) /\ h.put = {} /\ h.gone = {}
        /\ h.step = "scan" \/ h.event \notin {"cancelled", "end"}
    BY <2>3 DEF Transaction, Progress, Opened
  <2> QED
    BY <2>4, <2>5, BeginKeeps
<1> QED
  BY <1>1, <1>2, <1>3

(* The DELETE of a train's estimates: it finds what is committed, and what is   *)
(* an estimate still when nobody else has it in hand is gone.                   *)
LEMMA DeletesKeep ==
    ASSUME OsmsIInv, NEW w \in Workers, ScanEstimates(w) \/ DeleteEstimates(w)
    PROVE  OsmsIInv'
<1>1. UNCHANGED <<tmvts, dsched, messages, ended, last, query_of>>
  BY DEF ScanEstimates, DeleteEstimates
<1>2. CASE ScanEstimates(w)
  <2>1. PICK t \in hand[w].train :
            hand' = [hand EXCEPT ![w] = [@ EXCEPT !.doomed = Keys(EstimatesOf(t)),
                                                  !.missed = {}, !.step = "delete"]]
    BY <1>2 DEF ScanEstimates
  <2> DEFINE h == [hand[w] EXCEPT !.doomed = Keys(EstimatesOf(t)), !.missed = {},
                                  !.step = "delete"]
  <2>2. hand' = [hand EXCEPT ![w] = h] /\ hand[w].step = "scan"
    BY <1>2, <2>1 DEF ScanEstimates
  <2>3. Keys(EstimatesOf(t)) \subseteq RowKey
    BY KeyTypes DEF EstimatesOf, OsmsIInv, OsmsTypeOK
  <2>4. h \in Transaction
    BY <2>3, HandType DEF Transaction
  <2>5. /\ h.step = "delete" /\ h.train = hand[w].train /\ h.event = hand[w].event
        /\ h.at = hand[w].at /\ h.put = hand[w].put /\ h.gone = hand[w].gone
        /\ h.doomed = Keys(EstimatesOf(t)) /\ h.missed = {}
    BY HandType DEF Transaction
  <2>6. Progress(h) /\ WrittenRows(h)
    BY <2>2, <2>5, HandType DEF Progress, WrittenRows
  <2>7. EstimatesFound(h)
    <3>1. h.train = {t}
      BY <2>1, <2>2, <2>5, HandType DEF Progress
    <3> QED
      BY <2>5, <3>1 DEF EstimatesFound, Keys
  <2>8. Free(w, Keys(h.put) \cup h.gone)
    BY <2>5 DEF Free, Held, OsmsIInv, RowsInv, HandsApart
  <2> HIDE DEF h
  <2> QED
    BY <1>1, <2>2, <2>4, <2>6, <2>7, <2>8, OsmsCount, HandKeeps
<1>3. CASE DeleteEstimates(w)
  <2> DEFINE still == {r \in tmvts : Key(r) \in hand[w].doomed /\ r.estimated}
             h == [hand[w] EXCEPT !.gone = Keys(still), !.doomed = {},
                                  !.step = AfterDelete(w)]
  <2>2. /\ hand' = [hand EXCEPT ![w] = h] /\ hand[w].step = "delete"
        /\ Free(w, hand[w].doomed)
    BY <1>3 DEF DeleteEstimates
  <2>3. Keys(still) \subseteq RowKey /\ Keys(still) \subseteq hand[w].doomed
    <3>1. still \subseteq Row
      BY DEF OsmsIInv, OsmsTypeOK
    <3> QED
      BY <3>1, KeyTypes DEF Keys
  <2>4. AfterDelete(w) \in {"commit", "report"}
    BY DEF AfterDelete
  <2>5. /\ h.step = AfterDelete(w) /\ h.train = hand[w].train /\ h.event = hand[w].event
        /\ h.at = hand[w].at /\ h.put = hand[w].put /\ h.gone = Keys(still)
        /\ h.missed = hand[w].missed /\ h \in Transaction
    BY <2>3, <2>4, HandType DEF Transaction
  <2>6. Progress(h)
    BY <2>2, <2>4, <2>5, HandType DEF Progress, AfterDelete
  <2>7. WrittenRows(h)
    <3>1. hand[w].put = {}
      BY <2>2, HandType DEF WrittenRows
    <3>2. \A r \in still : r.source # "TRUST"
      BY DEF OsmsIInv, RowsInv, SourcesTell
    <3>3. \A k \in Keys(still) : k[3] # "TRUST"
      <4> HIDE DEF still
      <4> QED
        BY <3>2 DEF Keys, Key
    <3> QED
      BY <2>5, <3>1, <3>3 DEF WrittenRows, SourcesTell
  <2>8. EstimatesFound(h)
    <3> SUFFICES ASSUME NEW t \in hand[w].train, NEW r \in EstimatesOf(t),
                        h.event \in {"cancelled", "end"}
                 PROVE  Key(r) \in h.gone \cup h.missed
      BY <2>4, <2>5 DEF EstimatesFound
    <3>1. Key(r) \in hand[w].doomed \cup hand[w].missed
      BY <2>2, <2>5, HandType DEF EstimatesFound
    <3>2. r \in tmvts /\ r.estimated
      BY DEF EstimatesOf
    <3> QED
      BY <2>5, <3>1, <3>2 DEF Keys
  <2>9. Free(w, Keys(h.put) \cup h.gone)
    <3>1. \A v \in Workers \ {w} : Held(v) \cap Keys(hand[w].put) = {}
      BY DEF Held, OsmsIInv, RowsInv, HandsApart
    <3> QED
      BY <2>2, <2>3, <2>5, <3>1 DEF Free
  <2> HIDE DEF h
  <2> QED
    BY <1>1, <2>2, <2>5, <2>6, <2>7, <2>8, <2>9, OsmsCount, HandKeeps
<1> QED
  BY <1>2, <1>3

(* Rows that a transaction writes, of its train and of calls that are there.    *)
LEMMA WritesKeep ==
    ASSUME OsmsIInv, NEW w \in Workers, NEW h \in Transaction,
           NEW new \in SUBSET Row, NEW deleted \in SUBSET Row,
           hand' = [hand EXCEPT ![w] = h],
           UNCHANGED <<tmvts, dsched, messages, ended, last, query_of>>,
           hand[w].step \in {"report", "estimate", "locations"},
           h.train = hand[w].train, h.event = hand[w].event, h.at = hand[w].at,
           h.missed = hand[w].missed, h.step \in {"estimate", "commit", "locations"},
           h.put = Upsert(w, new), h.gone = hand[w].gone \cup Keys(deleted),
           Progress(h), Free(w, Keys(new) \cup Keys(deleted)),
           \A r \in new : {r.train} = h.train,
           \A r \in new : r.mvt[2] # 0 => r.mvt[1] \notin BaseStops /\ r.mvt \in dsched[r.train],
           \A r \in new : h.event = "end" /\ r.estimated =>
                               \A s \in h.at : r.mvt[1] \in Remaining(s),
           \A q, r \in new : Key(q) = Key(r) => q = r,
           SourcesTell(new), \A r \in deleted : r.source # "TRUST"
    PROVE  OsmsIInv'
<1>1. /\ \A r \in h.put : r \in hand[w].put \/ r \in new
      /\ \A r \in h.put : r \in new \/ Key(r) \notin Keys(new)
      /\ \A r \in new : Key(r) \in Keys(new)
  BY DEF Upsert, Keys
<1>2. Keys(h.put) \subseteq Keys(hand[w].put) \cup Keys(new)
  BY <1>1 DEF Keys
<1>3. WrittenRows(h)
  <2>1. h.event # "cancelled" /\ h.step \notin {"idle", "scan", "delete"}
    BY HandType DEF Progress
  <2>2. \A q, r \in h.put : Key(q) = Key(r) => q = r
    BY <1>1, HandType DEF WrittenRows
  <2>3. \A r \in h.put :
            /\ {r.train} = h.train
            /\ r.mvt[2] # 0 => r.mvt[1] \notin BaseStops /\ r.mvt \in dsched[r.train]
            /\ h.event = "end" /\ r.estimated => \A s \in h.at : r.mvt[1] \in Remaining(s)
    BY <1>1, HandType DEF WrittenRows
  <2>4. SourcesTell(h.put)
    BY <1>1, HandType DEF WrittenRows, SourcesTell
  <2>5. \A k \in h.gone : k[3] # "TRUST"
    BY HandType DEF WrittenRows, Keys, Key
  <2> QED
    BY <2>1, <2>2, <2>3, <2>4, <2>5 DEF WrittenRows
<1>4. EstimatesFound(h)
  BY HandType DEF EstimatesFound
<1>5. Free(w, Keys(h.put) \cup h.gone)
  <2>1. \A v \in Workers \ {w} : Held(v) \cap (Keys(hand[w].put) \cup hand[w].gone) = {}
    BY DEF Held, OsmsIInv, RowsInv, HandsApart
  <2> QED
    BY <1>2, <2>1 DEF Free
<1> QED
  BY <1>3, <1>4, <1>5, OsmsCount, HandKeeps

(* A report, and then estimates of the calls that remain.                      *)
LEMMA MovementKeeps ==
    ASSUME OsmsIInv, NEW w \in Workers, RecordReport(w) \/ Estimate(w)
    PROVE  OsmsIInv'
<1>1. UNCHANGED <<tmvts, dsched, messages, ended, last, query_of>>
  BY DEF RecordReport, Estimate
<1>2. ASSUME hand[w].step \in {"report", "estimate"}
      PROVE  \E t \in OsmsTrains, s \in BaseStops : hand[w].train = {t} /\ hand[w].at = {s}
  BY <1>2, HandType DEF Progress
<1>3. CASE RecordReport(w)
  <2>1. PICK t \in OsmsTrains, s \in BaseStops : hand[w].train = {t} /\ hand[w].at = {s}
    BY <1>2, <1>3 DEF RecordReport
  <2> DEFINE report == [train |-> t, mvt |-> <<s, 0>>, source |-> "TRUST",
                        estimated |-> FALSE]
             naive == {r \in tmvts : r.mvt = <<s, 0>> /\ r.source = "NAIVE"}
             h == [hand[w] EXCEPT !.put = Upsert(w, {report}),
                                  !.gone = hand[w].gone \cup Keys(naive), !.step = "estimate"]
  <2>2. /\ hand' = [hand EXCEPT ![w] = h] /\ hand[w].step = "report"
        /\ Free(w, {Key(report)} \cup Keys(naive))
    <3>1. /\ hand[w].step = "report"
          /\ \E u \in {t}, z \in {s} :
                LET said == [train |-> u, mvt |-> <<z, 0>>, source |-> "TRUST",
                             estimated |-> FALSE]
                    gone == {r \in tmvts : r.mvt = <<z, 0>> /\ r.source = "NAIVE"}
                IN  /\ Free(w, {Key(said)} \cup Keys(gone))
                    /\ hand' = [hand EXCEPT ![w] =
                                   [@ EXCEPT !.put = Upsert(w, {said}),
                                             !.gone = hand[w].gone \cup Keys(gone),
                                             !.step = "estimate"]]
      BY <1>3, <2>1 DEF RecordReport
    <3> QED
      BY <3>1
  <2>3. report \in Row /\ naive \subseteq Row
    BY OsmsAssumption DEF Row, OsmsCall, OsmsStops, Versions, Sources, OsmsIInv, OsmsTypeOK
  <2>4. Keys(naive) \subseteq RowKey /\ Upsert(w, {report}) \subseteq Row
    BY <2>3, KeyTypes, HandType DEF Upsert
  <2>5. /\ h \in Transaction /\ h.step = "estimate" /\ h.train = hand[w].train
        /\ h.event = hand[w].event /\ h.at = hand[w].at /\ h.missed = hand[w].missed
        /\ h.put = Upsert(w, {report}) /\ h.gone = hand[w].gone \cup Keys(naive)
    <3> HIDE DEF report, naive
    <3> QED
      BY <2>4, HandType DEF Transaction
  <2>6. Progress(h)
    BY <2>2, <2>5, HandType DEF Progress
  <2>7. Keys({report}) = {Key(report)} /\ SourcesTell({report})
    BY DEF Keys, SourcesTell
  <2>8. /\ {report.train} = h.train /\ report.mvt[2] = 0 /\ ~report.estimated
        /\ \A r \in naive : r.source # "TRUST"
    BY <2>1, <2>5
  <2> HIDE DEF h, report, naive
  <2>9. /\ \A r \in {report} : {r.train} = h.train
        /\ \A r \in {report} :
               r.mvt[2] # 0 => r.mvt[1] \notin BaseStops /\ r.mvt \in dsched[r.train]
        /\ \A r \in {report} : h.event = "end" /\ r.estimated =>
                                   \A z \in h.at : r.mvt[1] \in Remaining(z)
        /\ \A q, r \in {report} : Key(q) = Key(r) => q = r
        /\ {report} \in SUBSET Row /\ naive \in SUBSET Row
    BY <2>3, <2>8
  <2> QED
    BY <1>1, <2>2, <2>5, <2>6, <2>7, <2>8, <2>9, WritesKeep
<1>4. CASE Estimate(w)
  <2>1. PICK t \in OsmsTrains, s \in BaseStops : hand[w].train = {t} /\ hand[w].at = {s}
    BY <1>2, <1>4 DEF Estimate
  <2> DEFINE estimates == {[train |-> t, mvt |-> <<c, 0>>, source |-> "NAIVE",
                            estimated |-> TRUE] : c \in Remaining(s)}
             none == {r \in Row : FALSE}
             h == [hand[w] EXCEPT !.put = Upsert(w, estimates), !.step = "commit"]
  <2>2. /\ hand' = [hand EXCEPT ![w] = h] /\ hand[w].step = "estimate"
        /\ Free(w, Keys(estimates))
    BY <1>4, <2>1 DEF Estimate
  <2>3. \A r \in estimates :
            \E c \in BaseStops : /\ c \in Remaining(s)
                                 /\ r = [train |-> t, mvt |-> <<c, 0>>, source |-> "NAIVE",
                                         estimated |-> TRUE]
    BY DEF Remaining
  <2>4. \A r \in estimates :
            /\ r \in Row /\ r.train = t /\ r.mvt[2] = 0 /\ r.mvt[1] \in Remaining(s)
            /\ r.source = "NAIVE" /\ r.estimated
    <3> SUFFICES ASSUME NEW r \in estimates
                 PROVE  /\ r \in Row /\ r.train = t /\ r.mvt[2] = 0 /\ r.mvt[1] \in Remaining(s)
                        /\ r.source = "NAIVE" /\ r.estimated
      OBVIOUS
    <3>1. PICK c \in BaseStops : /\ c \in Remaining(s)
                                 /\ r = [train |-> t, mvt |-> <<c, 0>>, source |-> "NAIVE",
                                         estimated |-> TRUE]
      BY <2>3
    <3>2. <<c, 0>> \in OsmsCall
      BY OsmsAssumption DEF OsmsCall, OsmsStops, Versions
    <3> QED
      BY <3>1, <3>2 DEF Row, Sources
  <2>5. \A q, r \in estimates : Key(q) = Key(r) => q = r
    <3> SUFFICES ASSUME NEW q \in estimates, NEW r \in estimates, Key(q) = Key(r)
                 PROVE  q = r
      OBVIOUS
    <3>1. PICK c \in BaseStops : q = [train |-> t, mvt |-> <<c, 0>>, source |-> "NAIVE",
                                     estimated |-> TRUE]
      BY <2>3
    <3>2. PICK d \in BaseStops : r = [train |-> t, mvt |-> <<d, 0>>, source |-> "NAIVE",
                                     estimated |-> TRUE]
      BY <2>3
    <3>3. q.mvt = r.mvt
      BY DEF Key
    <3>4. <<c, 0>> = <<d, 0>>
      BY <3>1, <3>2, <3>3
    <3> QED
      BY <3>1, <3>2, <3>4
  <2> HIDE DEF estimates
  <2>6. estimates \in SUBSET Row /\ Upsert(w, estimates) \subseteq Row
    BY <2>4, HandType DEF Upsert
  <2>7. /\ h \in Transaction /\ h.step = "commit" /\ h.train = hand[w].train
        /\ h.event = hand[w].event /\ h.at = hand[w].at /\ h.missed = hand[w].missed
        /\ h.put = Upsert(w, estimates) /\ h.gone = hand[w].gone \cup Keys(none)
    BY <2>6, HandType DEF Transaction, Keys
  <2>8. Progress(h)
    BY <2>2, <2>7, HandType DEF Progress
  <2>9. SourcesTell(estimates)
    BY <2>4 DEF SourcesTell
  <2>10. /\ \A r \in estimates : {r.train} = h.train
         /\ \A r \in estimates :
                r.mvt[2] # 0 => r.mvt[1] \notin BaseStops /\ r.mvt \in dsched[r.train]
         /\ \A r \in estimates : h.event = "end" /\ r.estimated =>
                                    \A z \in h.at : r.mvt[1] \in Remaining(z)
         /\ \A r \in none : r.source # "TRUST"
    BY <2>1, <2>4, <2>7
  <2>11. Free(w, Keys(estimates) \cup Keys(none)) /\ none \in SUBSET Row
    BY <2>2 DEF Keys
  <2> HIDE DEF h, none
  <2> QED
    BY <1>1, <2>2, <2>5, <2>6, <2>7, <2>8, <2>9, <2>10, <2>11, WritesKeep
<1> QED
  BY <1>3, <1>4

(* A location is recorded at the schedule's call, or at one of the train's own *)
(* Darwin schedule where the schedule has none.                               *)
LEMMA TsLocationKeeps ==
    ASSUME OsmsIInv, NEW w \in Workers, NEW l \in hand[w].locations, TsLocation(w, l)
    PROVE  OsmsIInv'
<1>1. /\ UNCHANGED <<tmvts, dsched, messages, ended, last, query_of>>
      /\ hand[w].step = "locations" /\ hand[w].event = "darwin"
  BY HandType DEF TsLocation, Progress
<1>2. hand[w].locations \ {l} \subseteq Location
  BY HandType DEF Transaction
<1>3. CASE SkipLocation(w, l)
  <2> DEFINE h == [hand[w] EXCEPT !.locations = hand[w].locations \ {l}]
  <2>1. hand' = [hand EXCEPT ![w] = h]
    BY <1>3 DEF SkipLocation
  <2>2. /\ h \in Transaction /\ h.step = hand[w].step /\ h.train = hand[w].train
        /\ h.event = hand[w].event /\ h.at = hand[w].at /\ h.missed = hand[w].missed
        /\ h.put = hand[w].put /\ h.gone = hand[w].gone /\ h.doomed = hand[w].doomed
    BY <1>2, HandType DEF Transaction
  <2>3. Progress(h) /\ WrittenRows(h)
    BY <2>2, HandType DEF Progress, WrittenRows
  <2>4. EstimatesFound(h)
    BY <1>1, <2>2 DEF EstimatesFound
  <2>5. Free(w, Keys(h.put) \cup h.gone)
    BY <2>2 DEF Free, Held, OsmsIInv, RowsInv, HandsApart
  <2> HIDE DEF h
  <2> QED
    BY <1>1, <2>1, <2>2, <2>3, <2>4, <2>5, OsmsCount, HandKeeps
<1>4. CASE RecordLocation(w, l)
  <2>1. PICK t \in OsmsTrains : hand[w].train = {t}
    BY <1>1, HandType DEF Progress
  <2>2. PICK mvt \in FoundMovement(w, t, l.stop) :
            LET row == [train |-> t, mvt |-> mvt, source |-> "DARWIN",
                        estimated |-> l.kind # "at"]
                removed == {r \in View(w) : /\ l.kind = "removed"
                                            /\ r.mvt = mvt /\ r.source = "DARWIN"}
            IN  /\ Free(w, {Key(row)} \cup Keys(removed))
                /\ hand' = [hand EXCEPT ![w] =
                               [@ EXCEPT !.put = Upsert(w, {row}),
                                         !.gone = hand[w].gone \cup Keys(removed),
                                         !.locations = hand[w].locations \ {l}]]
    <3>1. \E u \in {t} : \E m \in FoundMovement(w, u, l.stop) :
              LET row == [train |-> u, mvt |-> m, source |-> "DARWIN",
                          estimated |-> l.kind # "at"]
                  removed == {r \in View(w) : /\ l.kind = "removed"
                                              /\ r.mvt = m /\ r.source = "DARWIN"}
              IN  /\ Free(w, {Key(row)} \cup Keys(removed))
                  /\ hand' = [hand EXCEPT ![w] =
                                 [@ EXCEPT !.put = Upsert(w, {row}),
                                           !.gone = hand[w].gone \cup Keys(removed),
                                           !.locations = hand[w].locations \ {l}]]
      BY <1>4, <2>1 DEF RecordLocation
    <3>2. PICK u \in {t} : \E m \in FoundMovement(w, u, l.stop) :
              LET row == [train |-> u, mvt |-> m, source |-> "DARWIN",
                          estimated |-> l.kind # "at"]
                  removed == {r \in View(w) : /\ l.kind = "removed"
                                              /\ r.mvt = m /\ r.source = "DARWIN"}
              IN  /\ Free(w, {Key(row)} \cup Keys(removed))
                  /\ hand' = [hand EXCEPT ![w] =
                                 [@ EXCEPT !.put = Upsert(w, {row}),
                                           !.gone = hand[w].gone \cup Keys(removed),
                                           !.locations = hand[w].locations \ {l}]]
      BY <3>1
    <3>3. u = t
      OBVIOUS
    <3> QED
      BY <3>2, <3>3
  <2> DEFINE row == [train |-> t, mvt |-> mvt, source |-> "DARWIN",
                     estimated |-> l.kind # "at"]
             removed == {r \in View(w) : /\ l.kind = "removed"
                                         /\ r.mvt = mvt /\ r.source = "DARWIN"}
             h == [hand[w] EXCEPT !.put = Upsert(w, {row}),
                                  !.gone = hand[w].gone \cup Keys(removed),
                                  !.locations = hand[w].locations \ {l}]
  <2>3. /\ hand' = [hand EXCEPT ![w] = h]
        /\ Free(w, {Key(row)} \cup Keys(removed))
    BY <2>2
  <2>4. /\ mvt \in OsmsCall
        /\ mvt[2] # 0 => mvt[1] \notin BaseStops /\ mvt \in dsched[t]
    BY OsmsAssumption DEF FoundMovement, OsmsCall, OsmsStops, Versions, OsmsIInv, OsmsTypeOK
  <2>5. row \in Row /\ removed \subseteq Row
    <3>1. View(w) \subseteq Row
      BY HandType DEF View, OsmsIInv, OsmsTypeOK
    <3> QED
      BY <2>4, <3>1 DEF Row, Sources
  <2>6. Keys(removed) \subseteq RowKey /\ Upsert(w, {row}) \subseteq Row
    BY <2>5, KeyTypes, HandType DEF Upsert
  <2>7. /\ h \in Transaction /\ h.step = "locations" /\ h.train = hand[w].train
        /\ h.event = hand[w].event /\ h.at = hand[w].at /\ h.missed = hand[w].missed
        /\ h.put = Upsert(w, {row}) /\ h.gone = hand[w].gone \cup Keys(removed)
    <3> HIDE DEF row, removed
    <3> QED
      BY <1>1, <1>2, <2>6, HandType DEF Transaction
  <2>8. Progress(h)
    BY <1>1, <2>7, HandType DEF Progress
  <2>9. Keys({row}) = {Key(row)} /\ SourcesTell({row})
    BY DEF Keys, SourcesTell
  <2>10. {row.train} = h.train /\ row.mvt = mvt /\ row.train = t
    BY <2>1, <2>7
  <2>11. \A r \in removed : r.source # "TRUST"
    OBVIOUS
  <2> HIDE DEF h, row, removed
  <2>12. /\ \A r \in {row} : {r.train} = h.train
         /\ \A r \in {row} :
                r.mvt[2] # 0 => r.mvt[1] \notin BaseStops /\ r.mvt \in dsched[r.train]
         /\ \A r \in {row} : h.event = "end" /\ r.estimated =>
                                 \A z \in h.at : r.mvt[1] \in Remaining(z)
         /\ \A q, r \in {row} : Key(q) = Key(r) => q = r
         /\ {row} \in SUBSET Row /\ removed \in SUBSET Row
    BY <1>1, <2>4, <2>5, <2>7, <2>10
  <2> QED
    BY <1>1, <2>3, <2>7, <2>8, <2>9, <2>11, <2>12, WritesKeep
<1> QED
  BY <1>3, <1>4 DEF TsLocation

(* A commit: the rows that the transaction has are the table's, those that it   *)
(* has deleted are not, and the transactions of others hear of it.              *)
LEMMA CommitKeeps ==
    ASSUME OsmsIInv, NEW w \in Workers, Commit(w)
    PROVE  OsmsIInv'
<1> USE DEF OsmsIInv
<1> DEFINE h == hand[w]
<1>1. /\ h.step \in {"commit", "locations"}
      /\ tmvts' = View(w)
      /\ \A t \in OsmsTrains :
            last'[t] = IF t \in h.train /\ (h.event = "darwin" => h.put # {})
                       THEN [event |-> h.event, at |-> h.at, slipped |-> h.missed]
                       ELSE last[t]
      /\ \A v \in Workers :
            hand'[v] = IF v = w THEN NoTransaction
                       ELSE IF hand[v].train = h.train
                       THEN [hand[v] EXCEPT !.missed = @ \cup Keys(h.put)]
                       ELSE hand[v]
      /\ UNCHANGED <<dsched, messages, query_of>>
  BY DEF Commit
<1>2. PICK t \in OsmsTrains : h.train = {t}
  BY <1>1, HandType DEF Progress
<1>3. /\ \A r \in tmvts' : r \in h.put \/ (r \in tmvts /\ Key(r) \notin Keys(h.put) \cup h.gone)
      /\ tmvts' \subseteq Row /\ \A r \in h.put : r.train = t /\ Key(r) \in Keys(h.put)
  <2>1. h.put \subseteq Row /\ \A r \in h.put : {r.train} = h.train
    BY HandType DEF WrittenRows
  <2>2. /\ tmvts' \subseteq Row
        /\ \A r \in tmvts' : r \in h.put \/ (r \in tmvts /\ Key(r) \notin Keys(h.put) \cup h.gone)
    <3>1. \A r \in View(w) :
              r \in h.put \/ (r \in tmvts /\ Key(r) \notin Keys(h.put) \cup h.gone)
      BY DEF View, Held
    <3>2. tmvts \subseteq Row
      BY DEF OsmsTypeOK
    <3> HIDE DEF h
    <3> QED
      BY <1>1, <2>1, <3>1, <3>2
  <2>3. \A r \in h.put : r.train = t /\ Key(r) \in Keys(h.put)
    BY <1>2, <2>1 DEF Keys
  <2> QED
    BY <2>2, <2>3
<1>4. \A v \in Workers \ {w} :
          /\ hand'[v] \in Transaction
          /\ hand'[v].step = hand[v].step /\ hand'[v].train = hand[v].train
          /\ hand'[v].event = hand[v].event /\ hand'[v].at = hand[v].at
          /\ hand'[v].put = hand[v].put /\ hand'[v].gone = hand[v].gone
          /\ hand'[v].doomed = hand[v].doomed
          /\ hand[v].missed \subseteq hand'[v].missed
          /\ hand[v].train = {t} => Keys(h.put) \subseteq hand'[v].missed
  <2> SUFFICES ASSUME NEW v \in Workers \ {w}
               PROVE  /\ hand'[v] \in Transaction
                      /\ hand'[v].step = hand[v].step /\ hand'[v].train = hand[v].train
                      /\ hand'[v].event = hand[v].event /\ hand'[v].at = hand[v].at
                      /\ hand'[v].put = hand[v].put /\ hand'[v].gone = hand[v].gone
                      /\ hand'[v].doomed = hand[v].doomed
                      /\ hand[v].missed \subseteq hand'[v].missed
                      /\ hand[v].train = {t} => Keys(h.put) \subseteq hand'[v].missed
    OBVIOUS
  <2>1. hand'[v] = IF hand[v].train = h.train
                   THEN [hand[v] EXCEPT !.missed = hand[v].missed \cup Keys(h.put)]
                   ELSE hand[v]
    BY <1>1
  <2>2. hand[v] \in Transaction /\ Keys(h.put) \subseteq RowKey
    BY HandType, KeyTypes
  <2> HIDE DEF h
  <2> QED
    BY <1>2, <2>1, <2>2 DEF Transaction
<1>5. OsmsTypeOK'
  <2>1. \A p, q \in tmvts' : Key(p) = Key(q) => p = q
    BY <1>3, HandType DEF OsmsTypeOK, WrittenRows, Keys
  <2>2. last' \in [OsmsTrains -> [event : {"nothing", "cancelled", "report", "end", "darwin"},
                                  at : SUBSET BaseStops, slipped : SUBSET RowKey]]
    <3>1. /\ h.event \in {"nothing", "cancelled", "report", "end", "darwin"}
          /\ h.at \subseteq BaseStops /\ h.missed \subseteq RowKey
      BY HandType DEF Transaction
    <3>2. last' = [u \in OsmsTrains |-> last'[u]]
      BY DEF Commit
    <3> QED
      BY <1>1, <3>1, <3>2 DEF OsmsTypeOK
  <2>3. ended' \in [OsmsTrains -> SUBSET {"cancelled", "terminated"}]
    BY DEF Commit, OsmsTypeOK
  <2>4. hand' \in [Workers -> Transaction]
    <3>1. hand' = [v \in Workers |-> hand'[v]]
      BY DEF Commit
    <3>2. \A v \in Workers : hand'[v] \in Transaction
      BY <1>1, <1>4, NoHand
    <3> QED
      BY <3>1, <3>2
  <2> QED
    BY <1>1, <1>3, <2>1, <2>2, <2>3, <2>4, QueryStands DEF OsmsTypeOK
<1>6. SourcesTell(tmvts)' /\ VersionsAreKnown'
  BY <1>1, <1>3, HandType DEF RowsInv, SourcesTell, WrittenRows, VersionsAreKnown
<1>7. HandsApart'
  <2>1. Held(w)' = {} /\ \A v \in Workers \ {w} : Held(v)' = Held(v)
    <3>1. Held(w)' = Keys(NoTransaction.put) \cup NoTransaction.gone
      BY <1>1 DEF Held, Keys
    <3>2. Keys(NoTransaction.put) \cup NoTransaction.gone = {}
      BY DEF NoTransaction, Opened, Keys
    <3> QED
      BY <1>4, <3>1, <3>2 DEF Held, Keys
  <2>2. HandsApart
    BY DEF RowsInv
  <2> SUFFICES ASSUME NEW v \in Workers, NEW u \in Workers, v # u
               PROVE  Held(v)' \cap Held(u)' = {}
    BY DEF HandsApart
  <2> QED
    BY <2>1, <2>2 DEF HandsApart
<1>8. \A v \in Workers : (Progress(hand[v]) /\ WrittenRows(hand[v]))'
  <2>1. (Progress(hand[w]) /\ WrittenRows(hand[w]))'
    BY <1>1, NoHand DEF NoTransaction, Opened, Progress, WrittenRows, SourcesTell
  <2>2. ASSUME NEW v \in Workers \ {w} PROVE (Progress(hand[v]) /\ WrittenRows(hand[v]))'
    BY <1>1, <1>4, HandType DEF Progress, WrittenRows, SourcesTell, Remaining
  <2> QED
    BY <2>1, <2>2
<1>9. \A v \in Workers : EstimatesFound(hand[v])'
  <2>1. EstimatesFound(hand[w])'
    <3>1. hand'[w].event = "nothing"
      <4>1. hand'[w] = NoTransaction
        BY <1>1
      <4> QED
        BY <4>1 DEF NoTransaction, Opened
    <3> QED
      BY <3>1 DEF EstimatesFound
  <2>2. ASSUME NEW v \in Workers \ {w} PROVE EstimatesFound(hand[v])'
    <3> SUFFICES ASSUME NEW u \in hand[v].train, NEW r \in EstimatesOf(u)',
                        hand[v].event \in {"cancelled", "end"}, hand[v].step # "scan"
                 PROVE  Key(r) \in (IF hand[v].step = "delete" THEN hand[v].doomed
                                    ELSE hand[v].gone) \cup hand'[v].missed
      BY <1>4 DEF EstimatesFound, EstimatesOf
    <3>1. r \in tmvts' /\ r.train = u /\ r.estimated
      BY DEF EstimatesOf
    <3>2. CASE r \in h.put
      <4>1. hand[v].train = {t}
        <5>1. u = t
          BY <1>3, <3>1, <3>2
        <5> QED
          BY <5>1, HandType DEF Progress
      <4> QED
        BY <1>3, <1>4, <3>2, <4>1
    <3>3. CASE r \in tmvts
      <4>1. r \in EstimatesOf(u)
        BY <3>1, <3>3 DEF EstimatesOf
      <4> QED
        BY <1>4, <4>1, HandType DEF EstimatesFound
    <3> QED
      BY <1>3, <3>1, <3>2, <3>3
  <2> QED
    BY <2>1, <2>2
<1>10. NothingAfterTheEnd'
  <2> SUFFICES ASSUME NEW u \in OsmsTrains, NEW r \in EstimatesOf(u)',
                      Key(r) \notin last'[u].slipped
               PROVE  /\ last'[u].event # "cancelled"
                      /\ last'[u].event = "end" =>
                             \A s \in last'[u].at : r.mvt[1] \in Remaining(s)
    BY DEF NothingAfterTheEnd, EstimatesOf, Remaining, Key
  <2>1. r \in tmvts' /\ r.train = u /\ r.estimated
    BY DEF EstimatesOf
  <2>2. CASE u = t /\ (h.event = "darwin" => h.put # {})
    <3>1. last'[u] = [event |-> h.event, at |-> h.at, slipped |-> h.missed]
      BY <1>1, <1>2, <2>2
    <3>2. CASE h.event \in {"cancelled", "end"}
      <4>1. CASE r \in h.put
        BY <2>1, <3>1, <3>2, <4>1, HandType DEF WrittenRows
      <4>2. CASE r \in tmvts /\ Key(r) \notin h.gone
        <5>1. r \in EstimatesOf(t) /\ h.step \notin {"scan", "delete"}
          BY <1>1, <2>1, <2>2, <4>2 DEF EstimatesOf
        <5>2. Key(r) \in h.gone \cup h.missed
          BY <1>2, <3>2, <5>1, HandType DEF EstimatesFound
        <5> QED
          BY <3>1, <4>2, <5>2
      <4> QED
        BY <1>3, <2>1, <4>1, <4>2
    <3> QED
      BY <3>1, <3>2
  <2>3. CASE ~(u = t /\ (h.event = "darwin" => h.put # {}))
    <3>1. last'[u] = last[u]
      BY <1>1, <1>2, <2>3
    <3>2. r \in EstimatesOf(u)
      BY <1>3, <2>1, <2>3 DEF EstimatesOf
    <3> QED
      BY <3>1, <3>2 DEF RowsInv, NothingAfterTheEnd
  <2> QED
    BY <2>2, <2>3
<1>11. NoCallTwice'
  BY <1>1, <1>3, HandType DEF RowsInv, NoCallTwice, WrittenRows
<1> QED
  BY <1>5, <1>6, <1>7, <1>8, <1>9, <1>10, <1>11, <1>1, QueryStands DEF RowsInv

(* A message inserts movements that no schedule had: it deletes all of those   *)
(* that the train's Darwin schedule had, with their rows, and no others.       *)
LEMMA ScheduleInserts ==
    ASSUME OsmsIInv, NEW t \in OsmsTrains, NEW visits \in SUBSET OsmsStops,
           ProcessSchedule(t, visits)
    PROVE  /\ dsched' = [dsched EXCEPT ![t] = {<<s, messages'>> : s \in visits}]
           /\ tmvts' = {r \in tmvts : r.mvt \notin dsched[t]}
           /\ \A w \in Workers : \A k \in Held(w) : k[2] \notin dsched[t]
<1> DEFINE wanted == {<<s, -1>> : s \in visits}
           deleted == dsched[t] \ wanted
           inserted == {<<w[1], messages'>> : w \in wanted \ dsched[t]}
<1>1. wanted \cap dsched[t] = {}
  BY DEF OsmsIInv, OsmsTypeOK, RowsInv, VersionsAreKnown
<1>2. deleted = dsched[t] /\ wanted \ dsched[t] = wanted
  BY <1>1
<1>3. {<<w[1], messages'>> : w \in wanted} = {<<s, messages'>> : s \in visits}
  <2>1. ASSUME NEW w \in wanted PROVE <<w[1], messages'>> \in {<<s, messages'>> : s \in visits}
    <3>1. PICK s \in visits : w = <<s, -1>>
      OBVIOUS
    <3> QED
      BY <3>1
  <2>2. ASSUME NEW s \in visits PROVE <<s, messages'>> \in {<<w[1], messages'>> : w \in wanted}
    <3>1. <<s, -1>> \in wanted /\ <<s, -1>>[1] = s
      OBVIOUS
    <3> HIDE DEF wanted
    <3> QED
      BY <3>1
  <2> HIDE DEF wanted
  <2> QED
    BY <2>1, <2>2
<1>4. (dsched[t] \ deleted) \cup inserted = {<<s, messages'>> : s \in visits}
  BY <1>2, <1>3
<1>5. /\ dsched' = [dsched EXCEPT ![t] = (dsched[t] \ deleted) \cup inserted]
      /\ tmvts' = {r \in tmvts : r.mvt \notin deleted}
      /\ \A w \in Workers : \A k \in Held(w) : k[2] \notin deleted
  BY DEF ProcessSchedule
<1> QED
  BY <1>2, <1>4, <1>5

LEMMA ScheduleKeeps ==
    ASSUME OsmsIInv, NEW t \in OsmsTrains, NEW visits \in SUBSET OsmsStops,
           ProcessSchedule(t, visits)
    PROVE  OsmsIInv'
<1> USE DEF OsmsIInv
<1>1. /\ dsched' = [dsched EXCEPT ![t] = {<<s, messages'>> : s \in visits}]
      /\ tmvts' = {r \in tmvts : r.mvt \notin dsched[t]}
      /\ \A w \in Workers : \A k \in Held(w) : k[2] \notin dsched[t]
  BY ScheduleInserts
<1>2. /\ UNCHANGED <<hand, ended, last, query_of>>
      /\ messages' \in 0 .. MaxMessages /\ messages' \in 1 .. messages'
      /\ messages' = messages + 1 /\ messages \in Nat
  BY OsmsCount DEF ProcessSchedule
<1>3. /\ \A c \in dsched'[t] : c[1] \in OsmsStops /\ c[2] = messages' /\ c = <<c[1], c[2]>>
      /\ \A u \in OsmsTrains \ {t} : dsched'[u] = dsched[u]
      /\ tmvts' \subseteq tmvts
  BY <1>1 DEF OsmsTypeOK
<1>4. OsmsTypeOK'
  <2>1. {<<s, messages'>> : s \in visits} \subseteq OsmsCall
    BY <1>2, OsmsAssumption DEF OsmsCall, Versions
  <2> QED
    BY <1>1, <1>2, <1>3, <2>1, QueryStands DEF OsmsTypeOK
<1>5. VersionsAreKnown'
  BY <1>2, <1>3 DEF RowsInv, VersionsAreKnown
<1>6. SourcesTell(tmvts)' /\ NothingAfterTheEnd' /\ HandsApart'
  BY <1>2, <1>3
  DEF RowsInv, SourcesTell, NothingAfterTheEnd, EstimatesOf, Remaining, HandsApart, Held
<1>7. NoCallTwice'
  <2>1. ASSUME NEW r \in tmvts', r.mvt[2] # 0
        PROVE  r.mvt[1] \notin BaseStops /\ r.mvt \in dsched'[r.train]
    <3>1. r \in tmvts /\ r.mvt \notin dsched[t] /\ r.train \in OsmsTrains
      BY <1>1, <1>3 DEF OsmsTypeOK, Row
    <3>2. r.mvt[1] \notin BaseStops /\ r.mvt \in dsched[r.train]
      BY <2>1, <3>1 DEF RowsInv, NoCallTwice
    <3> QED
      BY <1>3, <3>1, <3>2
  <2>2. \A u \in OsmsTrains : \A c, d \in dsched'[u] : c[1] = d[1] => c = d
    BY <1>3 DEF RowsInv, NoCallTwice
  <2> QED
    BY <2>1, <2>2 DEF NoCallTwice
<1>8. \A w \in Workers :
          (Progress(hand[w]) /\ WrittenRows(hand[w]) /\ EstimatesFound(hand[w]))'
  <2> SUFFICES ASSUME NEW w \in Workers
               PROVE  (Progress(hand[w]) /\ WrittenRows(hand[w]) /\ EstimatesFound(hand[w]))'
    OBVIOUS
  <2>1. hand' = hand /\ Progress(hand[w])'
    BY <1>2, HandType DEF Progress
  <2>2. WrittenRows(hand[w])'
    <3>1. ASSUME NEW r \in hand[w].put, r.mvt[2] # 0 PROVE r.mvt \in dsched'[r.train]
      <4>1. Key(r) \in Held(w) /\ Key(r)[2] = r.mvt
        BY DEF Held, Keys, Key
      <4>2. r.mvt \in dsched[r.train] /\ r.train \in OsmsTrains
        BY <3>1, HandType DEF WrittenRows, Row
      <4> QED
        BY <1>1, <1>3, <4>1, <4>2
    <3> QED
      BY <2>1, <3>1, HandType DEF WrittenRows, SourcesTell, Remaining
  <2>3. EstimatesFound(hand[w])'
    BY <1>3, <2>1, HandType DEF EstimatesFound, EstimatesOf
  <2> QED
    BY <2>1, <2>2, <2>3
<1> QED
  BY <1>2, <1>4, <1>5, <1>6, <1>7, <1>8, QueryStands DEF RowsInv

(* Where nothing is written, what workers have in hand is right as before.     *)
LEMMA HandsStay ==
    ASSUME OsmsIInv, UNCHANGED <<tmvts, dsched, hand>>
    PROVE  /\ HandsApart'
           /\ \A w \in Workers :
                 (Progress(hand[w]) /\ WrittenRows(hand[w]) /\ EstimatesFound(hand[w]))'
<1>1. HandsApart'
  BY DEF OsmsIInv, RowsInv, HandsApart, Held
<1>2. ASSUME NEW w \in Workers
      PROVE  (Progress(hand[w]) /\ WrittenRows(hand[w]) /\ EstimatesFound(hand[w]))'
  BY HandType
  DEF Progress, WrittenRows, EstimatesFound, EstimatesOf, SourcesTell, Remaining
<1> QED
  BY <1>1, <1>2

(* A question is about rows as they are, and each that it considers tells.     *)
LEMMA QueryStepsKeep ==
    ASSUME OsmsIInv,
           \/ \E t \in OsmsTrains, mvt \in OsmsCall : AskCall(t, mvt)
           \/ \E r \in unread : ConsiderRow(r)
           \/ Show
    PROVE  OsmsIInv'
<1> USE DEF OsmsIInv
<1>1. UNCHANGED <<tmvts, dsched, messages, hand, ended, last>>
  BY DEF AskCall, ConsiderRow, Show
<1>2. /\ VersionsAreKnown' /\ SourcesTell(tmvts)'
      /\ NothingAfterTheEnd' /\ NoCallTwice'
  BY <1>1 DEF RowsInv, SourcesTell, VersionsAreKnown, NothingAfterTheEnd, EstimatesOf,
              Remaining, NoCallTwice
<1>7. HandsApart' /\ \A w \in Workers :
          (Progress(hand[w]) /\ WrittenRows(hand[w]) /\ EstimatesFound(hand[w]))'
  BY <1>1, HandsStay
<1>3. ASSUME /\ asked' \in [train : SUBSET OsmsTrains, rows : SUBSET Row]
             /\ unread' \subseteq asked'.rows
             /\ {expected, actual}' \subseteq {"none", "TRUST", "DARWIN", "NAIVE"}
             /\ SourcesTell(asked.rows)' /\ ShownSoFar'
      PROVE  OsmsIInv'
  BY <1>1, <1>2, <1>3, <1>7 DEF OsmsTypeOK, RowsInv
<1>4. ASSUME NEW t \in OsmsTrains, NEW mvt \in OsmsCall, AskCall(t, mvt)
      PROVE  OsmsIInv'
  <2>1. /\ asked' = [train |-> {t}, rows |-> {r \in tmvts : r.train = t /\ r.mvt = mvt}]
        /\ unread' = asked'.rows /\ asked = NoQuestion
        /\ UNCHANGED <<expected, actual>>
    BY <1>4 DEF AskCall
  <2>2. asked'.rows \subseteq tmvts /\ asked.rows \ unread = {}
        /\ asked'.rows \ unread' = {}
    BY <2>1 DEF NoQuestion
  <2>3. ShownSoFar'
    BY <2>1, <2>2 DEF RowsInv, ShownSoFar, BestEstimate, BestActual
  <2>4. SourcesTell(asked.rows)'
    BY <2>2 DEF RowsInv, SourcesTell
  <2> QED
    BY <1>3, <2>1, <2>2, <2>3, <2>4 DEF OsmsTypeOK
<1>5. ASSUME NEW r \in unread, ConsiderRow(r)
      PROVE  OsmsIInv'
  <2> DEFINE before == asked.rows \ unread
             now == before \cup {r}
  <2>1. /\ asked' = asked /\ unread' = unread \ {r}
        /\ expected' = IF r.estimated /\ expected # "DARWIN" THEN r.source ELSE expected
        /\ actual' = IF ~r.estimated /\ actual # "TRUST" THEN r.source ELSE actual
    BY <1>5 DEF ConsiderRow
  <2>2. r \in asked.rows /\ r \in Row /\ asked'.rows \ unread' = now
    BY <2>1 DEF OsmsTypeOK
  <2>3. /\ expected = BestEstimate(before) /\ actual = BestActual(before)
        /\ r.source \in {"TRUST", "DARWIN", "NAIVE"}
        /\ r.source = "TRUST" => ~r.estimated
        /\ r.source = "NAIVE" => r.estimated
        /\ \A q \in before : q.source = "TRUST" => ~q.estimated
    BY <2>2 DEF RowsInv, ShownSoFar, SourcesTell, Row, Sources
  <2>4. expected' = BestEstimate(now)
    BY <2>1, <2>3 DEF BestEstimate
  <2>5. actual' = BestActual(now)
    BY <2>1, <2>3 DEF BestActual
  <2>6. ShownSoFar'
    BY <2>2, <2>4, <2>5 DEF ShownSoFar, BestEstimate, BestActual
  <2>7. SourcesTell(asked.rows)'
    BY <2>1 DEF RowsInv, SourcesTell
  <2>8. /\ asked' \in [train : SUBSET OsmsTrains, rows : SUBSET Row]
        /\ unread' \subseteq asked'.rows
        /\ {expected, actual}' \subseteq {"none", "TRUST", "DARWIN", "NAIVE"}
    BY <2>1, <2>3 DEF OsmsTypeOK
  <2> QED
    BY <1>3, <2>6, <2>7, <2>8
<1>6. ASSUME Show PROVE OsmsIInv'
  <2>1. /\ asked' = NoQuestion /\ expected' = "none" /\ actual' = "none"
        /\ unread' = {} /\ asked'.rows = {}
    BY <1>6 DEF Show, NoQuestion
  <2> QED
    BY <1>3, <2>1
    DEF NoQuestion, SourcesTell, ShownSoFar, BestEstimate, BestActual
<1> QED
  BY <1>4, <1>5, <1>6

LEMMA OsmsNextKeeps == OsmsIInv /\ [OsmsNext]_osmsvars => OsmsIInv'
<1> SUFFICES ASSUME OsmsIInv, [OsmsNext]_osmsvars PROVE OsmsIInv'
  OBVIOUS
<1>1. CASE UNCHANGED osmsvars
  <2>1. UNCHANGED <<tmvts, dsched, messages, hand, ended, last, query_of>>
    BY <1>1 DEF osmsvars, query_of
  <2>2. OsmsTypeOK'
    BY <2>1, QueryStands DEF OsmsIInv, OsmsTypeOK
  <2> QED
    BY <2>1, <2>2, QueryStands, HandsStay
    DEF OsmsIInv, RowsInv, SourcesTell, VersionsAreKnown, NothingAfterTheEnd, EstimatesOf,
        Remaining, NoCallTwice
<1>2. ASSUME NEW t \in OsmsTrains
      PROVE  /\ \A s \in BaseStops : <<s, 0>> \in OsmsCall
             /\ \A mvt \in dsched[t] : mvt \in OsmsCall
  BY OsmsAssumption DEF OsmsCall, OsmsStops, Versions, OsmsIInv, OsmsTypeOK
<1>3. ASSUME NEW t \in OsmsTrains,
             \/ \E s \in BaseStops : AskCall(t, <<s, 0>>)
             \/ \E mvt \in dsched[t] : AskCall(t, mvt)
      PROVE  OsmsIInv'
  BY <1>2, <1>3, QueryStepsKeep
<1>4. ASSUME NEW t \in OsmsTrains, NEW visits \in (SUBSET OsmsStops) \ {{}},
             ProcessSchedule(t, visits)
      PROVE  OsmsIInv'
  BY <1>4, ScheduleKeeps
<1>5. ASSUME NEW w \in Workers, NEW t \in OsmsTrains,
             \/ BeginCancellation(w, t)
             \/ \E s \in BaseStops, terminated \in BOOLEAN :
                   BeginMovement(w, t, s, terminated)
             \/ \E ls \in Locations : BeginTs(w, t, ls)
      PROVE  OsmsIInv'
  BY <1>5, BeginsKeep
<1>6. ASSUME NEW w \in Workers, Rollback(w)
      PROVE  OsmsIInv'
  <2>1. /\ hand' = [hand EXCEPT ![w] = NoTransaction]
        /\ UNCHANGED <<tmvts, dsched, messages, ended, last, query_of>>
    BY <1>6 DEF Rollback
  <2> QED
    BY <2>1, NoHand, OsmsCount, HandKeeps
<1>7. ASSUME NEW w \in Workers,
             \/ ScanEstimates(w) \/ DeleteEstimates(w) \/ RecordReport(w) \/ Estimate(w)
             \/ \E l \in hand[w].locations : TsLocation(w, l)
             \/ Commit(w)
      PROVE  OsmsIInv'
  BY <1>7, DeletesKeep, MovementKeeps, TsLocationKeeps, CommitKeeps
<1>8. CASE (\E r \in unread : ConsiderRow(r)) \/ Show
  BY <1>8, QueryStepsKeep
<1> QED
  BY <1>1, <1>3, <1>4, <1>5, <1>6, <1>7, <1>8 DEF OsmsNext

(* Types, and what the movements of a train are, in every reachable state.     *)
THEOREM OsmsCorrect == OsmsSpec => [](OsmsTypeOK /\ RowsInv)
<1>1. OsmsInit => OsmsIInv
  BY OsmsInitIInv
<1>2. OsmsIInv /\ [OsmsNext]_osmsvars => OsmsIInv'
  BY OsmsNextKeeps
<1> QED
  BY <1>1, <1>2, PTL DEF OsmsSpec, OsmsIInv

(* Whatever the order of the messages and of the rows, a call is shown once,    *)
(* with its best source, and not expected of a train that is beyond it.         *)
THEOREM OsmsCallsAreRight == OsmsSpec => []CallsAreRight
<1>1. OsmsTypeOK /\ RowsInv => CallsAreRight
  <2> SUFFICES ASSUME OsmsTypeOK, RowsInv PROVE CallsAreRight
    OBVIOUS
  <2>1. NothingAfterTheEnd /\ NoCallTwice
    BY DEF RowsInv
  <2>2. unread = {} => asked.rows \ unread = asked.rows
    OBVIOUS
  <2>3. BestSourceIsShown
    BY <2>2 DEF RowsInv, ShownSoFar, BestSourceIsShown
  <2> QED
    BY <2>1, <2>3 DEF CallsAreRight
<1> QED
  BY <1>1, OsmsCorrect, PTL

(* A row of a TRUST report is only ever replaced by the same.                  *)
LEMMA ReportsKept ==
    ASSUME OsmsIInv, [OsmsNext]_osmsvars, NEW q \in tmvts, q.source = "TRUST"
    PROVE  q \in tmvts'
<1> USE DEF OsmsIInv
<1>1. q \in Row /\ q.mvt[2] = 0 /\ ~q.estimated
  BY DEF OsmsTypeOK, RowsInv, SourcesTell
<1>2. q.estimated = FALSE
  <2>1. q.estimated \in BOOLEAN
    BY <1>1 DEF Row
  <2> QED
    BY <1>1, <2>1
<1>3. ASSUME NEW w \in Workers, Commit(w) PROVE q \in tmvts'
  <2>1. q \notin View(w) => Key(q) \in Held(w)
    BY DEF View
  <2>2. CASE Key(q) \in hand[w].gone /\ Key(q) \notin Keys(hand[w].put)
    BY <2>2, HandType DEF WrittenRows, Key
  <2>3. CASE Key(q) \in Keys(hand[w].put)
    <3>1. PICK r \in hand[w].put : Key(r) = Key(q)
      BY <2>3 DEF Keys
    <3>2. r \in Row /\ ~r.estimated /\ r.train = q.train /\ r.mvt = q.mvt /\ r.source = q.source
      BY <3>1, HandType DEF WrittenRows, SourcesTell, Key
    <3>3. r.estimated \in BOOLEAN
      BY <3>2 DEF Row
    <3>4. r.estimated = q.estimated
      BY <1>2, <3>2, <3>3
    <3>5. r = q
      BY <1>1, <3>2, <3>4 DEF Row
    <3> QED
      BY <1>3, <3>5 DEF Commit, View
  <2> QED
    BY <1>3, <2>1, <2>2, <2>3 DEF Commit, Held
<1>4. ASSUME NEW t \in OsmsTrains, NEW visits \in SUBSET OsmsStops, ProcessSchedule(t, visits)
      PROVE  q \in tmvts'
  <2>1. q.mvt \notin dsched[t]
    BY <1>1 DEF RowsInv, VersionsAreKnown
  <2> QED
    BY <1>4, <2>1, ScheduleInserts
<1>5. ASSUME UNCHANGED tmvts PROVE q \in tmvts'
  BY <1>5
<1>6. CASE UNCHANGED osmsvars
  BY <1>6 DEF osmsvars
<1>7. ASSUME NEW w \in Workers,
             \/ \E t \in OsmsTrains :
                   \/ BeginCancellation(w, t)
                   \/ \E s \in BaseStops, terminated \in BOOLEAN :
                         BeginMovement(w, t, s, terminated)
                   \/ \E ls \in Locations : BeginTs(w, t, ls)
             \/ ScanEstimates(w) \/ DeleteEstimates(w) \/ RecordReport(w) \/ Estimate(w)
             \/ \E l \in hand[w].locations : TsLocation(w, l)
             \/ Rollback(w)
      PROVE  q \in tmvts'
  BY <1>7 DEF BeginCancellation, BeginMovement, BeginTs, Begin, ScanEstimates,
              DeleteEstimates, RecordReport, Estimate, TsLocation, Rollback
<1>8. CASE \/ \E t \in OsmsTrains :
                 \/ \E s \in BaseStops : AskCall(t, <<s, 0>>)
                 \/ \E mvt \in dsched[t] : AskCall(t, mvt)
           \/ \E r \in unread : ConsiderRow(r)
           \/ Show
  BY <1>8 DEF AskCall, ConsiderRow, Show
<1> QED
  BY <1>3, <1>4, <1>6, <1>7, <1>8 DEF OsmsNext

(* A call that TRUST reported stays reported, whatever comes of that train or   *)
(* of those of other dates.                                                    *)
THEOREM OsmsReportsStay == OsmsSpec => ReportsStay
<1>1. OsmsIInv /\ [OsmsNext]_osmsvars
        => [{r \in tmvts : r.source = "TRUST"} \subseteq tmvts']_osmsvars
  BY ReportsKept
<1> QED
  BY <1>1, OsmsCorrect, PTL DEF OsmsSpec, OsmsIInv, ReportsStay

-----------------------------------------------------------------------------
(* MCQueries                                                                *)

(* Side by side: whichever part moves, its invariant is kept, and those of the *)
(* parts that do not move are of variables that stay.  So what the run checks  *)
(* of small instances holds for all.                                         *)
THEOREM QueriesCorrect == MCSpec => []QueriesHold
<1> DEFINE Hold == /\ IInv /\ DayIInv /\ EstimatesFit /\ SameDayEstimatesMatch
                   /\ ConnIInv /\ OsmsIInv /\ GraphIInv
<1>1. MCInit => Hold
  <2>1. DayInit => EstimatesFit /\ SameDayEstimatesMatch
    BY DEF DayInit, EstimatesFit, SameDayEstimatesMatch
  <2> QED
    BY <2>1, InitIInv, DayInitIInv, ConnInitIInv, OsmsInitIInv, GraphInitIInv
    DEF MCInit
<1>2. Hold /\ [MCNext]_all => Hold'
  <2> SUFFICES ASSUME Hold, [MCNext]_all PROVE Hold'
    OBVIOUS
  <2>1. /\ [Next]_vars /\ [DayNext]_dayvars /\ [ConnNext]_connvars
        /\ [OsmsNext]_osmsvars /\ [GraphNext]_graphvars
    BY DEF MCNext, MovementsMove, OffsetsMove, ConnectionsMove, OsmsMove, GraphMoves, all
  <2> QED
    BY <2>1, NextKeeps, DayNextKeeps, EstimatesKept, ConnNextKeeps, OsmsNextKeeps,
       GraphNextKeeps
<1>3. Hold => QueriesHold
  BY DEF QueriesHold, IInv, DayIInv, ConnIInv, OsmsIInv, GraphIInv
<1> QED
  BY <1>1, <1>2, <1>3, PTL DEF MCSpec
===============================================================================
