-------------------------- MODULE ActivationProofs ---------------------------
(* Proofs about Activation, for any number of threads, schedules, versions,  *)
(* replicas and identifiers.                                                 *)
EXTENDS Activation, TLAPS

IInv == TypeOK /\ Inv

LEMMA RowIsTrain ==
    ASSUME TypeOK, NEW i \in DOMAIN trains
    PROVE  /\ trains[i] \in Train
           /\ trains[i].key \in Keys
           /\ trains[i].date \in Dates
           /\ trains[i].trust_id \in TrustIds \cup {None}
           /\ trains[i].darwin_rid \in Rids \cup {None}
           /\ trains[i].activated \in BOOLEAN
           /\ trains[i].mvts \in Seq(Versions)
<1>1. trains[i] \in Train
  <2>1. trains \in Seq(Train)
    BY DEF TypeOK
  <2> QED
    BY <2>1
<1> QED
  BY <1>1 DEF Train

LEMMA InitIInv == Init => IInv
<1> SUFFICES ASSUME Init PROVE IInv
  OBVIOUS
<1>1. TypeOK
  BY DataAssumption DEF Init, TypeOK, Tables, States, Details, NoDetails, Train
<1>2. DOMAIN trains = {}
  BY DEF Init
<1>3. SchedulesSound /\ LocalsAgree
  BY DataAssumption DEF Init, SchedulesSound, Sound, LocalsAgree, Agrees, FromDarwin
<1>4. RidsResolve /\ OneTrainPerRun /\ CopiedOnceFromOwnSchedule
  BY <1>2 DEF RidsResolve, OneTrainPerRun, CopiedOnceFromOwnSchedule
<1>5. LinkedIsAnnounced
  BY <1>2 DEF LinkedIsAnnounced
<1> QED
  BY <1>1, <1>3, <1>4, <1>5 DEF IInv, Inv

(* Steps of tspl-fahrplan: only the schedules change. *)
LEMMA PublishKeeps ==
    ASSUME IInv, NEW k \in Keys, NEW v \in Versions, Publish(k, v)
    PROVE  IInv'
<1> USE DEF Publish
<1>1. TypeOK'
  BY DEF IInv, TypeOK, Tables, locals
<1>2. SchedulesSound'
  BY DataAssumption DEF IInv, Inv, TypeOK, Tables, SchedulesSound, Sound
<1>3. LocalsAgree'
  BY DataAssumption DEF IInv, Inv, TypeOK, Details, LocalsAgree, Agrees, FromDarwin, locals
<1>4. CopiedOnceFromOwnSchedule'
  <2> SUFFICES ASSUME NEW i \in DOMAIN trains, trains[i].activated
               PROVE  publisher'[trains[i].mvts[1]] = trains[i].key
    BY DEF IInv, Inv, CopiedOnceFromOwnSchedule, FilledFromOwnSchedule
  <2>1. trains[i].key \in Keys /\ trains[i].mvts \in Seq(Versions)
    BY RowIsTrain DEF IInv
  <2>2. Len(trains[i].mvts) = 1 /\ publisher[trains[i].mvts[1]] = trains[i].key
    BY DEF IInv, Inv, CopiedOnceFromOwnSchedule, FilledFromOwnSchedule
  <2>3. trains[i].mvts[1] # v
    BY <2>1, <2>2, DataAssumption
  <2> QED
    BY <2>1, <2>2, <2>3 DEF IInv, TypeOK
<1>5. RidsResolve' /\ OneTrainPerRun' /\ LinkedIsAnnounced'
  BY DEF IInv, Inv, RidsResolve, OneTrainPerRun, LinkedIsAnnounced, locals
<1> QED
  BY <1>1, <1>2, <1>3, <1>4, <1>5 DEF IInv, Inv

LEMMA WithdrawKeeps ==
    ASSUME IInv, NEW k \in Keys, Withdraw(k)
    PROVE  IInv'
<1>1. TypeOK'
  BY DEF Withdraw, IInv, TypeOK, Tables, locals
<1>2. SchedulesSound'
  BY DataAssumption
  DEF Withdraw, IInv, Inv, TypeOK, Tables, SchedulesSound, Sound
<1>3. LocalsAgree'
  BY DEF Withdraw, IInv, Inv, LocalsAgree, Agrees, FromDarwin, locals
<1>4. CopiedOnceFromOwnSchedule'
  BY DEF Withdraw, IInv, Inv, CopiedOnceFromOwnSchedule, FilledFromOwnSchedule
<1>5. RidsResolve' /\ OneTrainPerRun' /\ LinkedIsAnnounced'
  BY DEF Withdraw, IInv, Inv, RidsResolve, OneTrainPerRun, LinkedIsAnnounced,
         locals
<1> QED
  BY <1>1, <1>2, <1>3, <1>4, <1>5 DEF IInv, Inv

LEMMA LoadKeeps ==
    ASSUME IInv, NEW r \in Replicas, Load(r)
    PROVE  IInv'
<1>1. TypeOK'
  BY DEF Load, IInv, TypeOK, Tables, locals
<1>2. SchedulesSound'
  BY DEF Load, IInv, Inv, TypeOK, SchedulesSound, Sound
<1>3. LocalsAgree'
  BY DEF Load, IInv, Inv, LocalsAgree, Agrees, FromDarwin, locals
<1>4. CopiedOnceFromOwnSchedule'
  BY DEF Load, IInv, Inv, CopiedOnceFromOwnSchedule, FilledFromOwnSchedule
<1>5. RidsResolve' /\ OneTrainPerRun' /\ LinkedIsAnnounced'
  BY DEF Load, IInv, Inv, RidsResolve, OneTrainPerRun, LinkedIsAnnounced, locals
<1> QED
  BY <1>1, <1>2, <1>3, <1>4, <1>5 DEF IInv, Inv

(* Steps of a thread that leave the tables alone: what is about the schedules *)
(* and the rows only is kept, and so is LinkedIsAnnounced as long as no       *)
(* announcement is given up.                                                  *)
LEMMA ReadersKeep ==
    ASSUME IInv, UNCHANGED <<fahrplan, trains>>, TypeOK', LocalsAgree',
           LinkedIsAnnounced'
    PROVE  IInv'
<1>1. SchedulesSound'
  BY DEF IInv, Inv, SchedulesSound, Sound, fahrplan
<1>2. RidsResolve' /\ OneTrainPerRun'
  BY DEF IInv, Inv, RidsResolve, OneTrainPerRun
<1>3. CopiedOnceFromOwnSchedule'
  BY DEF IInv, Inv, CopiedOnceFromOwnSchedule, FilledFromOwnSchedule, fahrplan
<1> QED
  BY <1>1, <1>2, <1>3 DEF IInv, Inv

LEMMA AnnouncersKeep ==
    ASSUME IInv, UNCHANGED <<trains, told>>,
           \A x \in Threads : pc[x] = "announce" =>
               pc'[x] = "announce" /\ tid'[x] = tid[x]
    PROVE  LinkedIsAnnounced'
  BY DEF IInv, Inv, LinkedIsAnnounced

LEMMA ReceiveTrustKeeps ==
    ASSUME IInv, NEW w \in Threads, ReceiveTrust(w)
    PROVE  IInv'
<1>1. TypeOK'
  BY DEF ReceiveTrust, Goto, IInv, TypeOK, Details, States, fahrplan
<1>2. LocalsAgree'
  BY DataAssumption
  DEF ReceiveTrust, Goto, IInv, Inv, TypeOK, Details, LocalsAgree, Agrees,
      FromDarwin, fahrplan
<1>3. LinkedIsAnnounced'
  BY AnnouncersKeep DEF ReceiveTrust, Goto, IInv, TypeOK
<1> QED
  BY <1>1, <1>2, <1>3, ReadersKeep DEF ReceiveTrust

LEMMA ReceiveDarwinKeeps ==
    ASSUME IInv, NEW w \in Threads, ReceiveDarwin(w)
    PROVE  IInv'
<1>1. TypeOK'
  <2>1. PICK r \in Rids : /\ msg' = [msg EXCEPT ![w] = r]
                          /\ ad' = [ad EXCEPT ![w].date = RidDate[r]]
    BY DEF ReceiveDarwin
  <2>2. ad[w] \in Details /\ RidDate[r] \in Dates
    BY RidAssumption DEF IInv, TypeOK
  <2>3. [ad[w] EXCEPT !.date = RidDate[r]] \in Details
    BY <2>2 DEF Details
  <2>4. ad' \in [Threads -> Details]
    BY <2>1, <2>3 DEF IInv, TypeOK
  <2> QED
    BY <2>1, <2>4 DEF ReceiveDarwin, Goto, IInv, TypeOK, States, fahrplan
<1>2. LocalsAgree'
  BY DataAssumption, RidAssumption
  DEF ReceiveDarwin, Goto, IInv, Inv, TypeOK, Details, LocalsAgree, Agrees,
      FromDarwin, fahrplan
<1>3. LinkedIsAnnounced'
  BY AnnouncersKeep DEF ReceiveDarwin, Goto, IInv, TypeOK
<1> QED
  BY <1>1, <1>2, <1>3, ReadersKeep DEF ReceiveDarwin

LEMMA FinishKeepsLocals ==
    ASSUME IInv, NEW w \in Threads, Finish(w),
           trains' \in Seq(Train), \A i \in DOMAIN trains :
               i \in DOMAIN trains' /\ trains'[i].date = trains[i].date,
           UNCHANGED fahrplan, told \subseteq told', told' \subseteq Nat
    PROVE  TypeOK' /\ LocalsAgree'
<1>1. TypeOK'
  BY DEF Finish, Goto, NoDetails, IInv, TypeOK, Details, States, fahrplan
<1>2. ASSUME NEW x \in Threads PROVE Agrees(x)'
  <2>1. CASE x = w
    BY <2>1, DataAssumption
    DEF Finish, Goto, IInv, TypeOK, Agrees, FromDarwin
  <2>2. CASE x # w
    <3>1. /\ pc'[x] = pc[x] /\ msg'[x] = msg[x] /\ ad'[x] = ad[x]
          /\ sched'[x] = sched[x] /\ tid'[x] = tid[x] /\ publisher' = publisher
      BY <2>2 DEF Finish, Goto, IInv, TypeOK, fahrplan
    <3>2. Agrees(x)
      BY DEF IInv, Inv, LocalsAgree
    <3> QED
      BY <3>1, <3>2 DEF Agrees, FromDarwin
  <2> QED
    BY <2>1, <2>2
<1> QED
  BY <1>1, <1>2 DEF LocalsAgree

LEMMA LookupHitKeeps ==
    ASSUME IInv, NEW w \in Threads, LookupHit(w)
    PROVE  IInv'
<1>1. TypeOK' /\ LocalsAgree'
  BY FinishKeepsLocals DEF LookupHit, IInv, TypeOK
<1>2. LinkedIsAnnounced'
  BY AnnouncersKeep DEF LookupHit, Finish, Goto, IInv, TypeOK
<1> QED
  BY <1>1, <1>2, ReadersKeep DEF LookupHit

LEMMA FailKeeps ==
    ASSUME IInv, NEW w \in Threads, Fail(w)
    PROVE  IInv'
<1>1. TypeOK' /\ LocalsAgree'
  BY FinishKeepsLocals DEF Fail, IInv, TypeOK
<1>2. LinkedIsAnnounced'
  BY AnnouncersKeep DEF Fail, Finish, Goto, IInv, TypeOK
<1> QED
  BY <1>1, <1>2, ReadersKeep DEF Fail

LEMMA LookupMissKeeps ==
    ASSUME IInv, NEW w \in Threads, LookupMiss(w)
    PROVE  IInv'
<1>1. TypeOK'
  BY DEF LookupMiss, Goto, IInv, TypeOK, States, fahrplan, locals
<1>2. LocalsAgree'
  BY DEF LookupMiss, Goto, IInv, Inv, TypeOK, LocalsAgree, Agrees, FromDarwin,
         fahrplan, locals
<1>3. LinkedIsAnnounced'
  BY AnnouncersKeep DEF LookupMiss, Goto, IInv, TypeOK, locals
<1> QED
  BY <1>1, <1>2, <1>3, ReadersKeep DEF LookupMiss

LEMMA FindForTrustKeeps ==
    ASSUME IInv, NEW w \in Threads, FindForTrust(w)
    PROVE  IInv'
<1>1. PICK r \in Replicas :
          /\ sched' = [sched EXCEPT ![w] = loaded[r][ad[w].key]]
          /\ Goto(w, IF loaded[r][ad[w].key] = None THEN "insert"
                                                    ELSE "details")
  BY DEF FindForTrust
<1>2. ad[w].key \in Keys
  BY DEF FindForTrust, IInv, Inv, LocalsAgree, Agrees
<1>3. /\ loaded[r][ad[w].key] \in Versions \cup {None}
      /\ loaded[r][ad[w].key] # None =>
            publisher[loaded[r][ad[w].key]] = ad[w].key
  BY <1>2 DEF IInv, Inv, TypeOK, Tables, SchedulesSound, Sound
<1>4. TypeOK'
  BY <1>1, <1>3 DEF FindForTrust, Goto, IInv, TypeOK, States, fahrplan
<1>5. LocalsAgree'
  BY <1>1, <1>2, <1>3
  DEF FindForTrust, Goto, IInv, Inv, TypeOK, LocalsAgree, Agrees, FromDarwin,
      fahrplan
<1>6. LinkedIsAnnounced'
  BY <1>1, AnnouncersKeep DEF FindForTrust, Goto, IInv, TypeOK
<1> QED
  BY <1>4, <1>5, <1>6, ReadersKeep DEF FindForTrust

LEMMA FindForDarwinKeeps ==
    ASSUME IInv, NEW w \in Threads, FindForDarwin(w)
    PROVE  IInv'
<1>1. PICK r \in Replicas, k \in Keys :
          /\ k \in Authoritative(r, ad[w].date)
          /\ ad' = [ad EXCEPT ![w].key = k]
          /\ sched' = [sched EXCEPT ![w] = loaded[r][k]]
  BY DEF FindForDarwin, Authoritative, Running
<1>2. k \in Keys /\ loaded[r][k] # None
  BY <1>1 DEF Authoritative, Running
<1>3. loaded[r][k] \in Versions /\ publisher[loaded[r][k]] = k
  BY <1>2 DEF IInv, Inv, TypeOK, Tables, SchedulesSound, Sound
<1>4. [ad[w] EXCEPT !.key = k] \in Details
  <2>1. ad[w] \in Details
    BY DEF IInv, TypeOK
  <2> QED
    BY <1>2, <2>1 DEF Details
<1>5. TypeOK'
  BY <1>1, <1>3, <1>4 DEF FindForDarwin, Goto, IInv, TypeOK, States, fahrplan
<1>6. ad'[w].key = k /\ ad'[w].date = ad[w].date
  BY <1>1 DEF IInv, TypeOK, Details
<1>7. LocalsAgree'
  BY <1>1, <1>2, <1>3, <1>6
  DEF FindForDarwin, Goto, IInv, Inv, TypeOK, LocalsAgree, Agrees, FromDarwin,
      fahrplan
<1>8. LinkedIsAnnounced'
  BY <1>1, AnnouncersKeep DEF FindForDarwin, Goto, IInv, TypeOK
<1> QED
  BY <1>5, <1>7, <1>8, ReadersKeep DEF FindForDarwin

LEMMA GetDetailsKeeps ==
    ASSUME IInv, NEW w \in Threads, GetDetails(w)
    PROVE  IInv'
<1>1. TypeOK'
  BY DEF GetDetails, Goto, IInv, TypeOK, States, fahrplan, locals
<1>2. LocalsAgree'
  BY DEF GetDetails, Goto, IInv, Inv, TypeOK, LocalsAgree, Agrees, FromDarwin,
         fahrplan, locals
<1>3. LinkedIsAnnounced'
  BY AnnouncersKeep DEF GetDetails, Goto, IInv, TypeOK, locals
<1> QED
  BY <1>1, <1>2, <1>3, ReadersKeep DEF GetDetails

(* Copying movements into a row leaves its identity alone and keeps it filled *)
(* from one version of its own schedule at most.                              *)
LEMMA CopyMvtsFills ==
    ASSUME NEW row \in Train, NEW v \in Versions \cup {None},
           FilledFromOwnSchedule(row), v # None => publisher[v] = row.key
    PROVE  LET new == CopyMvts(row, v)
           IN  /\ new \in Train
               /\ FilledFromOwnSchedule(new)
               /\ new.key = row.key /\ new.date = row.date
               /\ new.trust_id = row.trust_id
               /\ new.darwin_rid = row.darwin_rid
<1>1. CASE ~row.activated /\ HasMvts(v)
  <2>1. row.mvts = <<>> /\ v \in Versions \ Bare /\ publisher[v] = row.key
    BY <1>1 DEF FilledFromOwnSchedule, HasMvts
  <2>2. Append(row.mvts, v) = <<v>> /\ <<v>> \in Seq(Versions)
    BY <2>1
  <2>3. CopyMvts(row, v) = [row EXCEPT !.mvts = <<v>>, !.activated = TRUE]
    BY <1>1, <2>2 DEF CopyMvts
  <2> DEFINE new == CopyMvts(row, v)
  <2>4. new \in Train
    BY <2>2, <2>3 DEF Train
  <2>5. /\ new.mvts = <<v>> /\ new.activated = TRUE
        /\ new.key = row.key /\ new.date = row.date
        /\ new.trust_id = row.trust_id /\ new.darwin_rid = row.darwin_rid
    BY <2>3 DEF Train
  <2> HIDE DEF new
  <2>6. FilledFromOwnSchedule(new)
    BY <2>1, <2>5 DEF FilledFromOwnSchedule
  <2> QED
    BY <2>4, <2>5, <2>6 DEF new
<1>2. CASE ~(~row.activated /\ HasMvts(v))
  BY <1>2 DEF CopyMvts
<1> QED
  BY <1>1, <1>2

(* What the transaction of activate_lowlevel does to the table: the rows it   *)
(* finds keep their identity, and at most one row is added, for the run asked *)
(* for.                                                                       *)
LEMMA LowlevelRows ==
    ASSUME IInv, NEW w \in Threads, ActivateLowlevel(w)
    PROVE  /\ trains' \in Seq(Train)
           /\ \A i \in DOMAIN trains :
                /\ i \in DOMAIN trains'
                /\ trains'[i].key = trains[i].key
                /\ trains'[i].date = trains[i].date
                /\ trains'[i].trust_id = trains[i].trust_id
                /\ trains'[i].darwin_rid = trains[i].darwin_rid
           /\ \A i \in DOMAIN trains' : FilledFromOwnSchedule(trains'[i])
           /\ tid' = [tid EXCEPT ![w] = tid'[w]]
           /\ tid'[w] \in DOMAIN trains' /\ tid'[w] \in Nat
           /\ trains'[tid'[w]].key = ad[w].key
           /\ trains'[tid'[w]].date = ad[w].date
           /\ \A i \in DOMAIN trains' \ DOMAIN trains :
                /\ i = tid'[w]
                /\ Possibles(ad[w]) = {}
                /\ trains'[i].trust_id = None /\ trains'[i].darwin_rid = None
<1>1. /\ ad[w].key \in Keys /\ ad[w].date \in Dates
      /\ sched[w] \in Versions \cup {None}
      /\ sched[w] # None => publisher[sched[w]] = ad[w].key
  BY DEF ActivateLowlevel, IInv, Inv, TypeOK, LocalsAgree, Agrees
<1>2. trains \in Seq(Train) /\ tid \in [Threads -> Nat]
  BY DEF IInv, TypeOK
<1>3. \A i \in DOMAIN trains : FilledFromOwnSchedule(trains[i])
  BY DEF IInv, Inv, CopiedOnceFromOwnSchedule
<1>4. CASE \E i \in Possibles(ad[w]) :
             /\ trains' = [trains EXCEPT ![i] = CopyMvts(@, sched[w])]
             /\ tid' = [tid EXCEPT ![w] = i]
  <2>1. PICK i \in DOMAIN trains :
             /\ trains[i].key = ad[w].key /\ trains[i].date = ad[w].date
             /\ trains' = [trains EXCEPT ![i] = CopyMvts(trains[i], sched[w])]
             /\ tid' = [tid EXCEPT ![w] = i]
    BY <1>4 DEF Possibles
  <2>2. trains[i] \in Train
    BY RowIsTrain DEF IInv
  <2>3. /\ CopyMvts(trains[i], sched[w]) \in Train
        /\ FilledFromOwnSchedule(CopyMvts(trains[i], sched[w]))
        /\ CopyMvts(trains[i], sched[w]).key = trains[i].key
        /\ CopyMvts(trains[i], sched[w]).date = trains[i].date
        /\ CopyMvts(trains[i], sched[w]).trust_id = trains[i].trust_id
        /\ CopyMvts(trains[i], sched[w]).darwin_rid = trains[i].darwin_rid
    BY <1>1, <1>3, <2>1, <2>2, CopyMvtsFills
  <2>4. trains' \in Seq(Train) /\ DOMAIN trains' = DOMAIN trains
    BY <1>2, <2>1, <2>3
  <2>5. \A j \in DOMAIN trains :
            trains'[j] = IF j = i THEN CopyMvts(trains[i], sched[w])
                                  ELSE trains[j]
    BY <2>1
  <2>6. i \in Nat
    BY <1>2, <2>1
  <2> QED
    BY <1>2, <1>3, <2>1, <2>3, <2>4, <2>5, <2>6
<1>5. CASE /\ Possibles(ad[w]) = {}
           /\ trains' = Append(trains, CopyMvts(NewTrain(ad[w]), sched[w]))
           /\ tid' = [tid EXCEPT ![w] = Len(trains) + 1]
  <2> DEFINE row == CopyMvts(NewTrain(ad[w]), sched[w])
  <2>1. NewTrain(ad[w]) \in Train /\ FilledFromOwnSchedule(NewTrain(ad[w]))
    BY <1>1 DEF NewTrain, Train, FilledFromOwnSchedule
  <2>2. /\ row \in Train /\ FilledFromOwnSchedule(row)
        /\ row.key = ad[w].key /\ row.date = ad[w].date
        /\ row.trust_id = None /\ row.darwin_rid = None
    BY <1>1, <2>1, CopyMvtsFills DEF NewTrain
  <2> HIDE DEF row
  <2>3. trains' = Append(trains, row)
    BY <1>5 DEF row
  <2>4. /\ trains' \in Seq(Train) /\ Len(trains) \in Nat
        /\ DOMAIN trains = 1 .. Len(trains)
        /\ DOMAIN trains' = 1 .. Len(trains) + 1
        /\ trains'[Len(trains) + 1] = row
        /\ \A j \in DOMAIN trains : trains'[j] = trains[j]
    BY <1>2, <2>2, <2>3
  <2> QED
    BY <1>2, <1>3, <1>5, <2>2, <2>4
<1> QED
  BY <1>4, <1>5 DEF ActivateLowlevel

LEMMA ActivateLowlevelKeeps ==
    ASSUME IInv, NEW w \in Threads, ActivateLowlevel(w)
    PROVE  IInv'
<1>1. /\ trains' \in Seq(Train)
      /\ \A i \in DOMAIN trains :
            /\ i \in DOMAIN trains'
            /\ trains'[i].key = trains[i].key
            /\ trains'[i].date = trains[i].date
            /\ trains'[i].trust_id = trains[i].trust_id
            /\ trains'[i].darwin_rid = trains[i].darwin_rid
      /\ \A i \in DOMAIN trains' : FilledFromOwnSchedule(trains'[i])
      /\ tid' = [tid EXCEPT ![w] = tid'[w]]
      /\ tid'[w] \in DOMAIN trains' /\ tid'[w] \in Nat
      /\ trains'[tid'[w]].key = ad[w].key
      /\ trains'[tid'[w]].date = ad[w].date
      /\ \A i \in DOMAIN trains' \ DOMAIN trains :
            /\ i = tid'[w]
            /\ Possibles(ad[w]) = {}
            /\ trains'[i].trust_id = None /\ trains'[i].darwin_rid = None
  BY LowlevelRows
<1>2. TypeOK'
  BY <1>1 DEF ActivateLowlevel, Goto, IInv, TypeOK, States, fahrplan
<1>3. SchedulesSound'
  BY DEF ActivateLowlevel, IInv, Inv, SchedulesSound, Sound, fahrplan
<1>4. LocalsAgree'
  <2> SUFFICES ASSUME NEW x \in Threads PROVE Agrees(x)'
    BY DEF LocalsAgree
  <2>1. Agrees(x)
    BY DEF IInv, Inv, LocalsAgree
  <2>2. /\ msg' = msg /\ ad' = ad /\ sched' = sched /\ told' = told
        /\ publisher' = publisher /\ FromDarwin(x)' = FromDarwin(x)
    BY DEF ActivateLowlevel, fahrplan, FromDarwin
  <2>3. CASE x = w
    <3>1. pc[w] = "insert" /\ pc'[w] = IF FromDarwin(w) THEN "rid" ELSE "announce"
      BY DEF ActivateLowlevel, Goto, IInv, TypeOK
    <3> QED
      BY <1>1, <2>1, <2>2, <2>3, <3>1 DEF Agrees, FromDarwin
  <2>4. CASE x # w
    <3>1. pc'[x] = pc[x] /\ tid'[x] = tid[x]
      BY <2>4 DEF ActivateLowlevel, Goto, IInv, TypeOK
    <3> QED
      BY <1>1, <2>1, <2>2, <3>1 DEF Agrees
  <2> QED
    BY <2>3, <2>4
<1>5. RidsResolve'
  <2> SUFFICES ASSUME NEW i \in DOMAIN trains', trains'[i].darwin_rid # None
               PROVE  /\ trains'[i].date = RidDate[trains'[i].darwin_rid]
                      /\ \A j \in DOMAIN trains' :
                            trains'[j].darwin_rid = trains'[i].darwin_rid
                                => j = i
    BY DEF RidsResolve
  <2>1. i \in DOMAIN trains /\ trains[i].darwin_rid # None
    BY <1>1
  <2>2. \A j \in DOMAIN trains' :
            trains'[j].darwin_rid = trains'[i].darwin_rid =>
                j \in DOMAIN trains
    BY <1>1
  <2> QED
    BY <1>1, <2>1, <2>2 DEF IInv, Inv, RidsResolve
<1>6. OneTrainPerRun'
  <2> SUFFICES ASSUME NEW i \in DOMAIN trains', NEW j \in DOMAIN trains',
                      trains'[i].key = trains'[j].key,
                      trains'[i].date = trains'[j].date
               PROVE  i = j
    BY DEF OneTrainPerRun
  <2>1. CASE i \in DOMAIN trains /\ j \in DOMAIN trains
    BY <1>1, <2>1 DEF IInv, Inv, OneTrainPerRun
  <2>2. CASE i \notin DOMAIN trains
    BY <1>1, <2>2 DEF Possibles
  <2>3. CASE j \notin DOMAIN trains
    BY <1>1, <2>3 DEF Possibles
  <2> QED
    BY <2>1, <2>2, <2>3
<1>7. CopiedOnceFromOwnSchedule'
  BY <1>1
  DEF CopiedOnceFromOwnSchedule, FilledFromOwnSchedule, ActivateLowlevel,
      fahrplan
<1>8. LinkedIsAnnounced'
  <2> SUFFICES ASSUME NEW i \in DOMAIN trains',
                      \/ trains'[i].trust_id # None
                      \/ trains'[i].darwin_rid # None
               PROVE  \/ i \in told'
                      \/ \E x \in Threads : pc'[x] = "announce" /\ tid'[x] = i
    BY DEF LinkedIsAnnounced
  <2>1. i \in told \/ \E x \in Threads : pc[x] = "announce" /\ tid[x] = i
    BY <1>1 DEF IInv, Inv, LinkedIsAnnounced
  <2>2. \A x \in Threads : pc[x] = "announce" =>
            pc'[x] = "announce" /\ tid'[x] = tid[x]
    BY DEF ActivateLowlevel, Goto, IInv, TypeOK
  <2> QED
    BY <2>1, <2>2 DEF ActivateLowlevel
<1> QED
  BY <1>2, <1>3, <1>4, <1>5, <1>6, <1>7, <1>8 DEF IInv, Inv

LEMMA LinkRidKeeps ==
    ASSUME IInv, NEW w \in Threads, LinkRid(w)
    PROVE  IInv'
<1> DEFINE i == tid[w]
<1>1. /\ msg[w] \in Rids /\ ad[w].date = RidDate[msg[w]]
      /\ i \in DOMAIN trains /\ trains[i].date = ad[w].date
      /\ pc[w] = "rid"
  BY DEF LinkRid, IInv, Inv, TypeOK, LocalsAgree, Agrees, FromDarwin
<1>2. /\ \A j \in DOMAIN trains : trains[j].darwin_rid = msg[w] => j = i
      /\ trains' = [trains EXCEPT ![i].darwin_rid = msg[w]]
      /\ pc' = [pc EXCEPT ![w] = "announce"]
      /\ UNCHANGED <<latest, loaded, publisher, msg, ad, sched, tid, told>>
  BY DEF LinkRid, Goto, fahrplan, locals
<1>3. trains \in Seq(Train) /\ trains[i] \in Train
  BY <1>1, RowIsTrain DEF IInv, TypeOK
<1>4. [trains[i] EXCEPT !.darwin_rid = msg[w]] \in Train
  BY <1>1, <1>3 DEF Train
<1>5. trains' \in Seq(Train) /\ DOMAIN trains' = DOMAIN trains
  BY <1>1, <1>2, <1>3, <1>4
<1>6. \A j \in DOMAIN trains :
          /\ trains'[j].key = trains[j].key
          /\ trains'[j].date = trains[j].date
          /\ trains'[j].trust_id = trains[j].trust_id
          /\ trains'[j].activated = trains[j].activated
          /\ trains'[j].mvts = trains[j].mvts
          /\ trains'[j].darwin_rid = IF j = i THEN msg[w]
                                             ELSE trains[j].darwin_rid
  BY <1>1, <1>2, <1>3, RowIsTrain DEF Train, IInv
<1> HIDE DEF i
<1>7. TypeOK'
  BY <1>2, <1>5 DEF IInv, TypeOK, States
<1>8. SchedulesSound'
  BY <1>2 DEF IInv, Inv, SchedulesSound, Sound
<1>9. LocalsAgree'
  <2> SUFFICES ASSUME NEW x \in Threads PROVE Agrees(x)'
    BY DEF LocalsAgree
  <2>1. Agrees(x)
    BY DEF IInv, Inv, LocalsAgree
  <2>2. CASE x = w
    BY <1>1, <1>2, <1>5, <1>6, <2>1, <2>2
    DEF Agrees, FromDarwin, IInv, TypeOK, i
  <2>3. CASE x # w
    <3>1. pc'[x] = pc[x]
      BY <1>2, <2>3 DEF IInv, TypeOK
    <3> QED
      BY <1>2, <1>5, <1>6, <2>1, <3>1 DEF Agrees, FromDarwin
  <2> QED
    BY <2>2, <2>3
<1>10. RidsResolve'
  BY <1>1, <1>2, <1>5, <1>6 DEF IInv, Inv, RidsResolve
<1>11. OneTrainPerRun'
  BY <1>5, <1>6 DEF IInv, Inv, OneTrainPerRun
<1>12. CopiedOnceFromOwnSchedule'
  BY <1>2, <1>5, <1>6
  DEF IInv, Inv, CopiedOnceFromOwnSchedule, FilledFromOwnSchedule
<1>13. LinkedIsAnnounced'
  <2>1. pc'[w] = "announce" /\ tid'[w] = i
    BY <1>2 DEF IInv, TypeOK, i
  <2>2. \A x \in Threads : pc[x] = "announce" => pc'[x] = "announce"
    BY <1>2 DEF IInv, TypeOK
  <2> QED
    BY <1>2, <1>5, <1>6, <2>1, <2>2 DEF IInv, Inv, LinkedIsAnnounced
<1> QED
  BY <1>7, <1>8, <1>9, <1>10, <1>11, <1>12, <1>13 DEF IInv, Inv

LEMMA LinkTrustIdKeeps ==
    ASSUME IInv, NEW w \in Threads, LinkTrustId(w)
    PROVE  IInv'
<1> DEFINE i == tid[w]
<1>1. /\ msg[w] \in TrustIds /\ i \in told
      /\ i \in DOMAIN trains /\ trains[i].date = ad[w].date
  BY DEF LinkTrustId, IInv, Inv, TypeOK, LocalsAgree, Agrees, FromDarwin
<1>2. /\ trains' = [trains EXCEPT ![i].trust_id = msg[w]]
      /\ pc[w] = "link" /\ Finish(w)
      /\ UNCHANGED <<latest, loaded, publisher, told>> /\ UNCHANGED fahrplan
  BY DEF LinkTrustId, fahrplan
<1>3. trains \in Seq(Train) /\ trains[i] \in Train
  BY <1>1, RowIsTrain DEF IInv, TypeOK
<1>4. [trains[i] EXCEPT !.trust_id = msg[w]] \in Train
  BY <1>1, <1>3 DEF Train
<1>5. trains' \in Seq(Train) /\ DOMAIN trains' = DOMAIN trains
  BY <1>1, <1>2, <1>3, <1>4
<1>6. \A j \in DOMAIN trains :
          /\ trains'[j].key = trains[j].key
          /\ trains'[j].date = trains[j].date
          /\ trains'[j].darwin_rid = trains[j].darwin_rid
          /\ trains'[j].activated = trains[j].activated
          /\ trains'[j].mvts = trains[j].mvts
          /\ j # i => trains'[j].trust_id = trains[j].trust_id
  BY <1>1, <1>2, <1>3, RowIsTrain DEF Train, IInv
<1> HIDE DEF i
<1>7. TypeOK' /\ LocalsAgree'
  BY <1>2, <1>5, <1>6, FinishKeepsLocals DEF IInv, TypeOK
<1>8. SchedulesSound'
  BY <1>2 DEF IInv, Inv, SchedulesSound, Sound
<1>9. RidsResolve'
  BY <1>5, <1>6 DEF IInv, Inv, RidsResolve
<1>10. OneTrainPerRun'
  BY <1>5, <1>6 DEF IInv, Inv, OneTrainPerRun
<1>11. CopiedOnceFromOwnSchedule'
  BY <1>2, <1>5, <1>6
  DEF IInv, Inv, CopiedOnceFromOwnSchedule, FilledFromOwnSchedule
<1>12. LinkedIsAnnounced'
  <2>1. \A x \in Threads : pc[x] = "announce" =>
            pc'[x] = "announce" /\ tid'[x] = tid[x]
    BY <1>2 DEF Finish, Goto, IInv, TypeOK
  <2> QED
    BY <1>1, <1>2, <1>5, <1>6, <2>1 DEF IInv, Inv, LinkedIsAnnounced
<1> QED
  BY <1>7, <1>8, <1>9, <1>10, <1>11, <1>12 DEF IInv, Inv

LEMMA AnnounceKeeps ==
    ASSUME IInv, NEW w \in Threads, Announce(w)
    PROVE  IInv'
<1>1. /\ pc[w] = "announce" /\ told' = told \cup {tid[w]}
      /\ UNCHANGED <<fahrplan, trains>>
  BY DEF Announce
<1>2. TypeOK' /\ LocalsAgree'
  <2>1. CASE FromDarwin(w)
    BY <1>1, <2>1, FinishKeepsLocals DEF Announce, IInv, TypeOK
  <2>2. CASE ~FromDarwin(w)
    <3>1. pc' = [pc EXCEPT ![w] = "link"] /\ UNCHANGED locals
      BY <2>2 DEF Announce, Goto
    <3>2. TypeOK'
      BY <1>1, <3>1 DEF IInv, TypeOK, States, fahrplan, locals
    <3>3. LocalsAgree'
      <4> SUFFICES ASSUME NEW x \in Threads PROVE Agrees(x)'
        BY DEF LocalsAgree
      <4>1. Agrees(x)
        BY DEF IInv, Inv, LocalsAgree
      <4> QED
        BY <1>1, <2>2, <3>1, <4>1
        DEF Agrees, FromDarwin, IInv, TypeOK, fahrplan, locals
    <3> QED
      BY <3>2, <3>3
  <2> QED
    BY <2>1, <2>2
<1>3. LinkedIsAnnounced'
  <2>1. \A x \in Threads : x # w => pc'[x] = pc[x] /\ tid'[x] = tid[x]
    BY DEF Announce, Finish, Goto, IInv, TypeOK, locals
  <2> QED
    BY <1>1, <2>1 DEF IInv, Inv, LinkedIsAnnounced
<1> QED
  BY <1>1, <1>2, <1>3, ReadersKeep

LEMMA RestartKeeps ==
    ASSUME IInv, Restart
    PROVE  IInv'
<1>1. told' = DOMAIN trains /\ UNCHANGED <<fahrplan, trains>>
  BY DEF Restart
<1>2. DOMAIN trains \subseteq Nat
  BY DEF IInv, TypeOK
<1>3. \A w \in Threads :
          \/ pc[w] \in InZugfuhrer /\ pc'[w] = "idle" /\ msg'[w] = None
          \/ /\ pc[w] \notin InZugfuhrer
             /\ pc'[w] = pc[w] /\ msg'[w] = msg[w] /\ ad'[w] = ad[w]
             /\ sched'[w] = sched[w] /\ tid'[w] = tid[w]
  BY DEF Restart
<1>4. TypeOK'
  BY <1>1, <1>2
  DEF Restart, IInv, TypeOK, States, Details, NoDetails, fahrplan
<1>5. LocalsAgree'
  <2> SUFFICES ASSUME NEW x \in Threads PROVE Agrees(x)'
    BY DEF LocalsAgree
  <2>1. Agrees(x)
    BY DEF IInv, Inv, LocalsAgree
  <2>2. CASE pc[x] \in InZugfuhrer
    BY <1>3, <2>2, DataAssumption DEF Agrees, FromDarwin, InZugfuhrer
  <2>3. CASE pc[x] \notin InZugfuhrer
    BY <1>1, <1>3, <2>1, <2>3 DEF Agrees, FromDarwin, fahrplan, InZugfuhrer
  <2> QED
    BY <2>2, <2>3
<1>6. LinkedIsAnnounced'
  BY <1>1 DEF LinkedIsAnnounced
<1> QED
  BY <1>1, <1>4, <1>5, <1>6, ReadersKeep

LEMMA NextKeeps == IInv /\ [Next]_vars => IInv'
<1> SUFFICES ASSUME IInv, [Next]_vars PROVE IInv'
  OBVIOUS
<1>1. ASSUME NEW k \in Keys, Withdraw(k) PROVE IInv'
  BY <1>1, WithdrawKeeps
<1>2. ASSUME NEW k \in Keys, NEW v \in Versions, Publish(k, v) PROVE IInv'
  BY <1>2, PublishKeeps
<1>3. ASSUME NEW r \in Replicas, Load(r) PROVE IInv'
  BY <1>3, LoadKeeps
<1>4. ASSUME NEW w \in Threads, Step(w) PROVE IInv'
  BY <1>4, ReceiveTrustKeeps, ReceiveDarwinKeeps, LookupHitKeeps,
     LookupMissKeeps, FindForTrustKeeps, FindForDarwinKeeps, GetDetailsKeeps,
     ActivateLowlevelKeeps, LinkRidKeeps, AnnounceKeeps, LinkTrustIdKeeps,
     FailKeeps DEF Step
<1>5. CASE Restart
  BY <1>5, RestartKeeps
<1>6. CASE UNCHANGED vars
  <2>1. TypeOK'
    BY <1>6 DEF vars, IInv, TypeOK
  <2>2. LocalsAgree'
    BY <1>6 DEF vars, IInv, Inv, LocalsAgree, Agrees, FromDarwin
  <2>3. LinkedIsAnnounced'
    BY <1>6 DEF vars, IInv, Inv, LinkedIsAnnounced
  <2> QED
    BY <1>6, <2>1, <2>2, <2>3, ReadersKeep DEF vars, fahrplan
<1> QED
  BY <1>1, <1>2, <1>3, <1>4, <1>5, <1>6 DEF Next

(* The types and the inductive invariant hold of every reachable state.       *)
THEOREM Correct == Spec => [](TypeOK /\ Inv)
<1>1. IInv = (TypeOK /\ Inv)
  BY DEF IInv
<1> QED
  BY <1>1, InitIInv, NextKeeps, PTL DEF Spec, IInv

(* However many threads activate a run, it has one row.                       *)
THEOREM OneTrain == Spec => []OneTrainPerRun
<1>1. TypeOK /\ Inv => OneTrainPerRun
  BY DEF Inv
<1> QED
  BY <1>1, Correct, PTL

(* The movements of a train are those of one version of its own schedule.     *)
THEOREM CopiedOnce == Spec => []CopiedOnceFromOwnSchedule
<1>1. TypeOK /\ Inv => CopiedOnceFromOwnSchedule
  BY DEF Inv
<1> QED
  BY <1>1, Correct, PTL

(* Whatever can be reported about a train, the train is announced first, or   *)
(* is about to be.                                                            *)
THEOREM Announced == Spec => []LinkedIsAnnounced
<1>1. TypeOK /\ Inv => LinkedIsAnnounced
  BY DEF Inv
<1> QED
  BY <1>1, Correct, PTL

-----------------------------------------------------------------------------
(* A RID keeps its train.                                                     *)
LEMMA StepKeepsRids ==
    ASSUME IInv, [Next]_vars, NEW i \in DOMAIN trains,
           trains[i].darwin_rid # None
    PROVE  i \in DOMAIN trains' /\ trains'[i].darwin_rid = trains[i].darwin_rid
<1>1. CASE UNCHANGED trains
  BY <1>1
<1>2. ASSUME NEW w \in Threads, ActivateLowlevel(w)
      PROVE  /\ i \in DOMAIN trains'
             /\ trains'[i].darwin_rid = trains[i].darwin_rid
  BY <1>2, LowlevelRows
<1>3. ASSUME NEW w \in Threads, LinkRid(w)
      PROVE  /\ i \in DOMAIN trains'
             /\ trains'[i].darwin_rid = trains[i].darwin_rid
  <2>1. /\ msg[w] \in Rids /\ ad[w].date = RidDate[msg[w]]
        /\ tid[w] \in DOMAIN trains /\ trains[tid[w]].date = ad[w].date
        /\ trains' = [trains EXCEPT ![tid[w]].darwin_rid = msg[w]]
    BY <1>3 DEF LinkRid, IInv, Inv, TypeOK, LocalsAgree, Agrees, FromDarwin
  <2>2. /\ trains[i] \in Train /\ trains[i].darwin_rid \in Rids
        /\ trains[i].date = RidDate[trains[i].darwin_rid]
    BY RowIsTrain DEF IInv, Inv, RidsResolve
  <2>3. CASE i # tid[w]
    BY <2>1, <2>3
  <2>4. CASE i = tid[w]
    <3>1. trains[i].darwin_rid = msg[w]
      BY <2>1, <2>2, <2>4, RidAssumption
    <3>2. trains' = [trains EXCEPT ![i] = [trains[i] EXCEPT !.darwin_rid = msg[w]]]
      BY <2>1, <2>4
    <3> QED
      BY <2>2, <3>1, <3>2 DEF Train
  <2> QED
    BY <2>3, <2>4
<1>4. ASSUME NEW w \in Threads, LinkTrustId(w)
      PROVE  /\ i \in DOMAIN trains'
             /\ trains'[i].darwin_rid = trains[i].darwin_rid
  <2>1. trains' = [trains EXCEPT ![tid[w]].trust_id = msg[w]]
    BY <1>4 DEF LinkTrustId
  <2>2. trains[i] \in Train
    BY RowIsTrain DEF IInv
  <2> QED
    BY <2>1, <2>2 DEF Train
<1> QED
  BY <1>1, <1>2, <1>3, <1>4
  DEF Next, Step, Withdraw, Publish, Load, Restart, ReceiveTrust,
      ReceiveDarwin, LookupHit, LookupMiss, FindForTrust, FindForDarwin,
      GetDetails, Announce, Fail, vars

(* No step of any thread, import or restart moves a RID to another train.     *)
THEOREM RidStable == Spec => RidIsStable
<1>1. ASSUME IInv, IInv', [Next]_vars
      PROVE  [\A i \in DOMAIN trains : trains[i].darwin_rid # None =>
                /\ i \in DOMAIN trains'
                /\ trains'[i].darwin_rid = trains[i].darwin_rid
                /\ \A j \in DOMAIN trains' :
                      trains'[j].darwin_rid = trains[i].darwin_rid
                          => j = i]_vars
  <2> SUFFICES ASSUME NEW i \in DOMAIN trains, trains[i].darwin_rid # None
               PROVE  /\ i \in DOMAIN trains'
                      /\ trains'[i].darwin_rid = trains[i].darwin_rid
                      /\ \A j \in DOMAIN trains' :
                            trains'[j].darwin_rid = trains[i].darwin_rid
                                => j = i
    OBVIOUS
  <2>1. i \in DOMAIN trains' /\ trains'[i].darwin_rid = trains[i].darwin_rid
    BY <1>1, StepKeepsRids
  <2> QED
    BY <1>1, <2>1 DEF IInv, Inv, RidsResolve
<1>2. Spec => []IInv
  BY InitIInv, NextKeeps, PTL DEF Spec
<1> QED
  BY <1>1, <1>2, PTL DEF Spec, RidIsStable

-----------------------------------------------------------------------------
(* The trains table implements TrainRegistry.                                 *)
LEMMA RunStatusOfRow ==
    ASSUME NEW rows, NEW i \in DOMAIN rows,
           \A j \in DOMAIN rows :
               rows[j].key = rows[i].key /\ rows[j].date = rows[i].date
                   => j = i
    PROVE  RunStatus(rows, <<rows[i].key, rows[i].date>>) =
               IF rows[i].activated THEN rows[i].mvts[1] ELSE "stub"
<1>1. {j \in DOMAIN rows :
          <<rows[j].key, rows[j].date>> = <<rows[i].key, rows[i].date>>} = {i}
  OBVIOUS
<1>2. (CHOOSE j \in {i} : TRUE) = i
  OBVIOUS
<1> QED
  BY <1>1, <1>2 DEF RunStatus

(* The status of a run depends on its rows' key, date, flag and movements.    *)
LEMMA RunStatusSame ==
    ASSUME NEW rows, NEW new, NEW r,
           {i \in DOMAIN new : <<new[i].key, new[i].date>> = r} =
               {i \in DOMAIN rows : <<rows[i].key, rows[i].date>> = r},
           \A i \in DOMAIN rows : <<rows[i].key, rows[i].date>> = r =>
               /\ new[i].activated = rows[i].activated
               /\ new[i].mvts = rows[i].mvts
    PROVE  RunStatus(new, r) = RunStatus(rows, r)
<1> DEFINE found == {i \in DOMAIN rows : <<rows[i].key, rows[i].date>> = r}
<1>1. CASE found = {}
  BY <1>1 DEF RunStatus
<1>2. CASE found # {}
  <2> DEFINE again == {i \in DOMAIN new : <<new[i].key, new[i].date>> = r}
             c == CHOOSE i \in found : TRUE
  <2>1. c \in found
    BY <1>2
  <2>2. RunStatus(rows, r) =
            IF rows[c].activated THEN rows[c].mvts[1] ELSE "stub"
    BY <1>2 DEF RunStatus
  <2>3. RunStatus(new, r) =
            LET d == CHOOSE i \in again : TRUE
            IN  IF new[d].activated THEN new[d].mvts[1] ELSE "stub"
    BY <1>2 DEF RunStatus
  <2>4. again = found
    OBVIOUS
  <2>5. RunStatus(new, r) =
            IF new[c].activated THEN new[c].mvts[1] ELSE "stub"
    BY <2>3, <2>4
  <2> QED
    BY <2>1, <2>2, <2>5
<1> QED
  BY <1>1, <1>2

LEMMA LowlevelImplements ==
    ASSUME IInv, IInv', NEW w \in Threads, ActivateLowlevel(w)
    PROVE  [Registry!Next]_<<[r \in Keys \X Dates |-> RunStatus(trains, r)],
                             publisher>>
<1> DEFINE status == [r \in Keys \X Dates |-> RunStatus(trains, r)]
           r == <<ad[w].key, ad[w].date>>
           v == sched[w]
<1>1. /\ r \in Keys \X Dates /\ publisher' = publisher
      /\ v \in Versions \cup {None}
      /\ v # None => publisher[v] = ad[w].key
  BY DEF ActivateLowlevel, fahrplan, IInv, Inv, TypeOK, LocalsAgree, Agrees
<1>2. trains \in Seq(Train) /\ OneTrainPerRun /\ OneTrainPerRun'
  BY DEF IInv, Inv, TypeOK
<1>3. ASSUME NEW q \in Keys \X Dates, q # r
      PROVE  RunStatus(trains', q) = RunStatus(trains, q)
  <2>1. CASE \E i \in Possibles(ad[w]) :
                trains' = [trains EXCEPT ![i] = CopyMvts(@, v)]
    <3>1. PICK i \in DOMAIN trains :
                /\ <<trains[i].key, trains[i].date>> = r
                /\ trains' = [trains EXCEPT ![i] = CopyMvts(trains[i], v)]
      BY <2>1 DEF Possibles
    <3>2. /\ DOMAIN trains' = DOMAIN trains
          /\ \A j \in DOMAIN trains : j # i => trains'[j] = trains[j]
      BY <1>2, <3>1
    <3>3. trains'[i].key = trains[i].key /\ trains'[i].date = trains[i].date
      BY <3>1, LowlevelRows
    <3>4. {j \in DOMAIN trains' : <<trains'[j].key, trains'[j].date>> = q} =
          {j \in DOMAIN trains : <<trains[j].key, trains[j].date>> = q}
      BY <3>2, <3>3
    <3>5. \A j \in DOMAIN trains : <<trains[j].key, trains[j].date>> = q =>
              trains'[j] = trains[j]
      BY <1>3, <3>1, <3>2
    <3> QED
      BY <3>4, <3>5, RunStatusSame
  <2>2. CASE /\ Possibles(ad[w]) = {}
             /\ trains' = Append(trains, CopyMvts(NewTrain(ad[w]), v))
             /\ tid' = [tid EXCEPT ![w] = Len(trains) + 1]
    <3>1. /\ DOMAIN trains' = DOMAIN trains \cup {Len(trains) + 1}
          /\ Len(trains) + 1 \notin DOMAIN trains
          /\ \A j \in DOMAIN trains : trains'[j] = trains[j]
      BY <1>2, <2>2
    <3>2. /\ trains'[Len(trains) + 1].key = ad[w].key
          /\ trains'[Len(trains) + 1].date = ad[w].date
      BY <2>2, LowlevelRows DEF IInv, TypeOK
    <3> QED
      BY <1>3, <3>1, <3>2, RunStatusSame
  <2> QED
    BY <2>1, <2>2 DEF ActivateLowlevel
<1>4. \/ RunStatus(trains', r) = RunStatus(trains, r)
      \/ RunStatus(trains, r) = "absent" /\ RunStatus(trains', r) = "stub"
      \/ /\ RunStatus(trains, r) \in {"absent", "stub"}
         /\ v \in Versions /\ RunStatus(trains', r) = v
  <2>1. CASE \E i \in Possibles(ad[w]) :
                trains' = [trains EXCEPT ![i] = CopyMvts(@, v)]
    <3>1. PICK i \in DOMAIN trains :
                /\ trains[i].key = ad[w].key /\ trains[i].date = ad[w].date
                /\ trains' = [trains EXCEPT ![i] = CopyMvts(trains[i], v)]
      BY <2>1 DEF Possibles
    <3>2. /\ DOMAIN trains' = DOMAIN trains
          /\ trains'[i] = CopyMvts(trains[i], v)
          /\ trains'[i].key = ad[w].key /\ trains'[i].date = ad[w].date
      BY <1>2, <3>1, LowlevelRows
    <3>3. RunStatus(trains, r) =
              IF trains[i].activated THEN trains[i].mvts[1] ELSE "stub"
      <4>1. \A j \in DOMAIN trains :
               trains[j].key = trains[i].key /\ trains[j].date = trains[i].date
                   => j = i
        BY <1>2, <3>1 DEF OneTrainPerRun
      <4> QED
        BY <3>1, <4>1, RunStatusOfRow
    <3>4. RunStatus(trains', r) =
              IF trains'[i].activated THEN trains'[i].mvts[1] ELSE "stub"
      <4>1. \A j \in DOMAIN trains' :
               trains'[j].key = trains'[i].key /\ trains'[j].date = trains'[i].date
                   => j = i
        BY <1>2, <3>1, <3>2 DEF OneTrainPerRun
      <4> QED
        BY <3>1, <3>2, <4>1, RunStatusOfRow
    <3>5. CASE ~trains[i].activated /\ HasMvts(v)
      <4>1. trains[i] \in Train /\ trains[i].mvts = <<>>
        BY <3>5, RowIsTrain
        DEF IInv, Inv, CopiedOnceFromOwnSchedule, FilledFromOwnSchedule
      <4>2. Append(trains[i].mvts, v)[1] = v
        BY <4>1
      <4>3. trains'[i].activated /\ trains'[i].mvts = Append(trains[i].mvts, v)
        BY <3>2, <3>5, <4>1 DEF CopyMvts, Train
      <4> QED
        BY <1>1, <3>3, <3>4, <3>5, <4>2, <4>3 DEF HasMvts
    <3>6. CASE ~(~trains[i].activated /\ HasMvts(v))
      BY <3>2, <3>3, <3>4, <3>6 DEF CopyMvts
    <3> QED
      BY <3>5, <3>6
  <2>2. CASE /\ Possibles(ad[w]) = {}
             /\ trains' = Append(trains, CopyMvts(NewTrain(ad[w]), v))
             /\ tid' = [tid EXCEPT ![w] = Len(trains) + 1]
    <3> DEFINE i == Len(trains) + 1
    <3>1. /\ i \in DOMAIN trains' /\ trains'[i] = CopyMvts(NewTrain(ad[w]), v)
          /\ trains'[i].key = ad[w].key /\ trains'[i].date = ad[w].date
      <4>1. tid'[w] = i
        BY <2>2 DEF IInv, TypeOK
      <4>2. trains'[i] = CopyMvts(NewTrain(ad[w]), v)
        BY <1>2, <2>2
      <4> QED
        BY <4>1, <4>2, LowlevelRows
    <3> HIDE DEF i
    <3>2. RunStatus(trains', r) =
              IF trains'[i].activated THEN trains'[i].mvts[1] ELSE "stub"
      BY <1>2, <3>1, RunStatusOfRow DEF OneTrainPerRun
    <3>3. RunStatus(trains, r) = "absent"
      BY <2>2 DEF RunStatus, Possibles
    <3>4. CASE HasMvts(v)
      <4>1. trains'[i].activated /\ trains'[i].mvts = Append(<<>>, v)
        BY <3>1, <3>4 DEF CopyMvts, NewTrain
      <4> QED
        BY <1>1, <3>2, <3>3, <3>4, <4>1 DEF HasMvts
    <3>5. CASE ~HasMvts(v)
      BY <3>1, <3>2, <3>3, <3>5 DEF CopyMvts, NewTrain
    <3> QED
      BY <3>4, <3>5
  <2> QED
    BY <2>1, <2>2 DEF ActivateLowlevel
<1>5. status' = [status EXCEPT ![r] = RunStatus(trains', r)]
  <2>1. status' = [q \in Keys \X Dates |-> RunStatus(trains', q)]
    OBVIOUS
  <2> QED
    BY <1>1, <1>3, <2>1
<1>6. status[r] = RunStatus(trains, r)
  BY <1>1
<1> HIDE DEF status
<1>7. [Registry!Next]_<<status, publisher>>
  <2>1. CASE RunStatus(trains', r) = RunStatus(trains, r)
    <3>1. status' = status
      BY <1>5, <1>6, <2>1 DEF status
    <3> QED
      BY <1>1, <3>1
  <2>2. CASE RunStatus(trains, r) = "absent" /\ RunStatus(trains', r) = "stub"
    <3>1. Registry!Enter(r)
      BY <1>1, <1>5, <1>6, <2>2 DEF Registry!Enter, status
    <3> QED
      BY <1>1, <3>1 DEF Registry!Next, Registry!Runs
  <2>3. CASE /\ RunStatus(trains, r) \in {"absent", "stub"}
             /\ v \in Versions /\ RunStatus(trains', r) = v
    <3>1. Registry!Fill(r, v)
      BY <1>1, <1>5, <1>6, <2>3, DataAssumption DEF Registry!Fill, status
    <3> QED
      BY <1>1, <2>3, <3>1 DEF Registry!Next, Registry!Runs
  <2> QED
    BY <1>4, <2>1, <2>2, <2>3
<1> QED
  BY <1>7 DEF status

LEMMA LinksImplement ==
    ASSUME IInv, NEW w \in Threads, LinkRid(w) \/ LinkTrustId(w),
           NEW r \in Keys \X Dates
    PROVE  RunStatus(trains', r) = RunStatus(trains, r)
<1>1. /\ DOMAIN trains' = DOMAIN trains
      /\ \A i \in DOMAIN trains :
            /\ trains'[i].key = trains[i].key
            /\ trains'[i].date = trains[i].date
            /\ trains'[i].activated = trains[i].activated
            /\ trains'[i].mvts = trains[i].mvts
  BY RowIsTrain DEF LinkRid, LinkTrustId, Train, IInv
<1>2. {i \in DOMAIN trains' : <<trains'[i].key, trains'[i].date>> = r} =
      {i \in DOMAIN trains : <<trains[i].key, trains[i].date>> = r}
  BY <1>1
<1> QED
  BY <1>1, <1>2, RunStatusSame

(* Every activation, in whichever steps it is done and whatever it races      *)
(* with, is one entry or one filling of the run in the abstract registry.     *)
THEOREM RefinesRegistry == Spec => ImplementsRegistry
<1> DEFINE status == [r \in Keys \X Dates |-> RunStatus(trains, r)]
<1>1. Init => Registry!Init
  BY DEF Init, Registry!Init, Registry!Runs, RunStatus
<1>2. ASSUME IInv, IInv', [Next]_vars
      PROVE  [Registry!Next]_<<status, publisher>>
  <2>1. ASSUME NEW k \in Keys, NEW v \in Versions, Publish(k, v)
        PROVE  [Registry!Next]_<<status, publisher>>
    <3>1. status' = status
      BY <2>1 DEF Publish
    <3>2. Registry!Publish(v)
      BY <2>1, <3>1 DEF Publish, Registry!Publish, Registry!Runs
    <3> QED
      BY <3>2 DEF Registry!Next
  <2>2. ASSUME NEW w \in Threads, ActivateLowlevel(w)
        PROVE  [Registry!Next]_<<status, publisher>>
    BY <1>2, <2>2, LowlevelImplements
  <2>3. ASSUME NEW w \in Threads, LinkRid(w) \/ LinkTrustId(w)
        PROVE  [Registry!Next]_<<status, publisher>>
    <3>1. \A r \in Keys \X Dates : RunStatus(trains', r) = RunStatus(trains, r)
      BY <1>2, <2>3, LinksImplement
    <3>2. publisher' = publisher
      BY <2>3 DEF LinkRid, LinkTrustId, fahrplan
    <3>3. status' = status
      BY <3>1
    <3> QED
      BY <3>2, <3>3
  <2>4. CASE UNCHANGED <<trains, publisher>>
    BY <2>4
  <2> QED
    BY <1>2, <2>1, <2>2, <2>3, <2>4
    DEF Next, Step, Withdraw, Load, Restart, ReceiveTrust, ReceiveDarwin,
        LookupHit, LookupMiss, FindForTrust, FindForDarwin, GetDetails,
        Announce, Fail, vars, fahrplan
<1>3. Spec => []IInv
  BY InitIInv, NextKeeps, PTL DEF Spec
<1> QED
  BY <1>1, <1>2, <1>3, PTL DEF Spec, ImplementsRegistry, Registry!Spec

(* Whatever the workers, the replicas and the imports do, the tables and the
   threads have their types.                                                *)
THEOREM Typed == Spec => []TypeOK
<1>1. TypeOK /\ Inv => TypeOK
  OBVIOUS
<1> QED
  BY <1>1, Correct, PTL
==============================================================================
