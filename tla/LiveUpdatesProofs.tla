-------------------------- MODULE LiveUpdatesProofs --------------------------
(* Proofs about LiveUpdates, for any trains, calls, times and workers.       *)
EXTENDS LiveUpdates, TLAPS

IInv == TypeOK /\ Inv

(* Steps that leave the rows and the broadcasts alone: it is enough that no   *)
(* broadcast is given up and that the workers' jobs still fit.                *)
LEMMA RowsUntouched ==
    ASSUME IInv, UNCHANGED <<rows, casts>>, terminated' = terminated,
           TypeOK', JobsFit',
           \A w \in Workers : pc[w] = "send" =>
               pc'[w] = "send" /\ job'[w].update = job[w].update
    PROVE  IInv'
  BY DEF IInv, Inv, TerminatedAfterReport, OneEstimate, LiveIsOnRecord, casts

(* A worker that goes idle has no job left to fit.                            *)
LEMMA DoneFits ==
    ASSUME IInv, NEW w \in Workers, Done(w), rows' = rows
    PROVE  /\ pc' \in [Workers -> States] /\ job' \in [Workers -> Job]
           /\ JobsFit'
<1>1. NoJob \in Job
  BY DEF NoJob, TrainJob, Job
<1>2. pc' \in [Workers -> States] /\ job' \in [Workers -> Job]
  BY <1>1 DEF Done, Goto, casts, IInv, TypeOK, States
<1>3. ASSUME NEW x \in Workers PROVE JobFits(x)'
  <2>1. JobFits(x)
    BY DEF IInv, Inv, JobsFit
  <2>2. CASE x = w
    BY <2>2 DEF Done, Goto, IInv, TypeOK, JobFits, NoJob, TrainJob
  <2>3. CASE x # w
    BY <2>1, <2>3 DEF Done, Goto, IInv, TypeOK, JobFits
  <2> QED
    BY <2>2, <2>3
<1> QED
  BY <1>2, <1>3 DEF JobsFit

LEMMA ReceiveKeeps ==
    ASSUME IInv, NEW w \in Workers, pc[w] = "idle",
           UNCHANGED <<Tables, cached, casts>>, NEW new \in Job,
           job' = [job EXCEPT ![w] = new], NEW state, Goto(w, state),
           \/ state \in {"link", "lookup"}
           \/ state = "update" /\ new.update # None,
           new.train \in Trains,
           new.update # None =>
              /\ new.update.train = new.train
              /\ new.update.source = IF w \in Nrod THEN "TRUST" ELSE "DARWIN"
              /\ new.last => w \in Nrod /\ new.update.call = LastCall
    PROVE  IInv'
<1>1. TypeOK'
  BY DEF Goto, casts, IInv, TypeOK, States, Tables
<1>2. ASSUME NEW x \in Workers PROVE JobFits(x)'
  <2>1. JobFits(x)
    BY DEF IInv, Inv, JobsFit
  <2>2. CASE x = w
    BY <2>2 DEF Goto, IInv, TypeOK, JobFits, Tables
  <2>3. CASE x # w
    BY <2>1, <2>3 DEF Goto, IInv, TypeOK, JobFits, Tables
  <2> QED
    BY <2>2, <2>3
<1>3. \A x \in Workers : pc[x] = "send" =>
          pc'[x] = "send" /\ job'[x].update = job[x].update
  BY DEF Goto, IInv, TypeOK
<1> QED
  BY <1>1, <1>2, <1>3, RowsUntouched DEF JobsFit, Tables

LEMMA InitIInv == Init => IInv
<1> SUFFICES ASSUME Init PROVE IInv
  OBVIOUS
<1>1. NoJob \in Job
  BY DEF NoJob, TrainJob, Job
<1>2. TypeOK
  BY <1>1 DEF Init, TypeOK, States
<1> QED
  BY <1>2
  DEF Init, IInv, Inv, JobsFit, JobFits, NoJob, TrainJob, TerminatedAfterReport,
      OneEstimate, LiveIsOnRecord

LEMMA ReceiveTrainKeeps ==
    ASSUME IInv, NEW w \in Nrod, ReceiveActivation(w) \/ ReceiveCancellation(w)
    PROVE  IInv'
<1>1. PICK t \in Trains, state \in {"link", "lookup"} :
          job' = [job EXCEPT ![w] = TrainJob(t)] /\ Goto(w, state)
  BY DEF ReceiveActivation, ReceiveCancellation
<1>2. w \in Workers /\ pc[w] = "idle" /\ UNCHANGED <<Tables, cached, casts>>
  BY DEF ReceiveActivation, ReceiveCancellation, Workers
<1>3. /\ TrainJob(t) \in Job /\ TrainJob(t).train \in Trains
      /\ TrainJob(t).update = None
  BY DEF TrainJob, Job
<1> QED
  BY <1>1, <1>2, <1>3, ReceiveKeeps

LEMMA ReceiveMovementKeeps ==
    ASSUME IInv, NEW w \in Nrod, ReceiveMovement(w)
    PROVE  IInv'
<1>1. PICK t \in Trains, c \in Calls, at \in Times :
          job' = [job EXCEPT ![w] =
                    MovementJob(NewUpdate(t, c, at, "TRUST"), c = LastCall)]
  BY DEF ReceiveMovement
<1> DEFINE new == MovementJob(NewUpdate(t, c, at, "TRUST"), c = LastCall)
<1>2. /\ new \in Job /\ new.update = NewUpdate(t, c, at, "TRUST")
      /\ new.train = t /\ new.last = (c = LastCall)
  BY DEF MovementJob, NewUpdate, Job, Update, Sources
<1>3. NewUpdate(t, c, at, "TRUST") \in Update
  BY DEF NewUpdate, Update, Sources
<1>4. /\ new.update.train = t /\ new.update.source = "TRUST"
      /\ new.update.call = c
  BY <1>2 DEF NewUpdate
<1> HIDE DEF new
<1>5. job' = [job EXCEPT ![w] = new]
  BY <1>1 DEF new
<1> QED
  BY <1>2, <1>4, <1>5, ReceiveKeeps DEF ReceiveMovement, Workers

LEMMA ReceiveTsKeeps ==
    ASSUME IInv, NEW w \in Darwin, ReceiveTs(w)
    PROVE  IInv'
<1>1. PICK t \in Trains, c \in Calls, at \in Times :
          job' = [job EXCEPT ![w] =
                    MovementJob(NewUpdate(t, c, at, "DARWIN"), FALSE)]
  BY DEF ReceiveTs
<1> DEFINE new == MovementJob(NewUpdate(t, c, at, "DARWIN"), FALSE)
<1>2. /\ new \in Job /\ new.update = NewUpdate(t, c, at, "DARWIN")
      /\ new.train = t /\ new.last = FALSE
  BY DEF MovementJob, NewUpdate, Job, Update, Sources
<1>3. NewUpdate(t, c, at, "DARWIN") \in Update /\ w \notin Nrod
  BY UpdateAssumption DEF NewUpdate, Update, Sources
<1>5. job' = [job EXCEPT ![w] = new]
  BY <1>1
<1> HIDE DEF new
<1>4. new.update.train = t /\ new.update.source = "DARWIN"
  BY <1>2 DEF NewUpdate
<1>6. new.update # None
  BY <1>2, <1>3, UpdateAssumption
<1> QED
  BY <1>2, <1>3, <1>4, <1>5, <1>6, ReceiveKeeps DEF ReceiveTs, Workers

-----------------------------------------------------------------------------
(* The steps of a message on its way                                        *)

LEMMA LinkTrustIdKeeps ==
    ASSUME IInv, NEW w \in Nrod, LinkTrustId(w)
    PROVE  IInv'
<1>1. w \in Workers /\ JobFits(w) /\ job[w].train \in Trains
  BY DEF IInv, Inv, JobsFit, JobFits, LinkTrustId, Workers
<1>2. TypeOK'
  BY <1>1 DEF LinkTrustId, Goto, casts, IInv, TypeOK, States
<1>3. ASSUME NEW x \in Workers PROVE JobFits(x)'
  BY <1>1, <1>3 DEF LinkTrustId, Goto, IInv, Inv, TypeOK, JobsFit, JobFits
<1>4. \A x \in Workers : pc[x] = "send" =>
          pc'[x] = "send" /\ job'[x].update = job[x].update
  BY DEF LinkTrustId, Goto, IInv, TypeOK
<1> QED
  BY <1>2, <1>3, <1>4, RowsUntouched DEF JobsFit, LinkTrustId

LEMMA CacheTrustIdKeeps ==
    ASSUME IInv, NEW w \in Nrod, CacheTrustId(w)
    PROVE  IInv'
<1>1. w \in Workers /\ JobFits(w) /\ job[w].train \in Trains
  BY DEF IInv, Inv, JobsFit, JobFits, CacheTrustId, Workers
<1>2. /\ pc' \in [Workers -> States] /\ job' \in [Workers -> Job]
      /\ JobsFit'
  BY <1>1, DoneFits DEF CacheTrustId, Tables
<1>3. TypeOK'
  BY <1>1, <1>2 DEF casts, CacheTrustId, Tables, IInv, TypeOK
<1>4. \A x \in Workers : pc[x] = "send" =>
          pc'[x] = "send" /\ job'[x].update = job[x].update
  BY DEF CacheTrustId, Done, Goto, IInv, TypeOK
<1> QED
  BY <1>2, <1>3, <1>4, RowsUntouched DEF CacheTrustId, Tables

LEMMA LookupTrustIdKeeps ==
    ASSUME IInv, NEW w \in Nrod, LookupTrustId(w)
    PROVE  IInv'
<1>1. w \in Workers /\ JobFits(w) /\ job[w].train \in Trains
  BY DEF IInv, Inv, JobsFit, JobFits, LookupTrustId, Workers
<1>2. TypeOK'
  BY <1>1 DEF LookupTrustId, Goto, Tables, casts, IInv, TypeOK, States
<1>3. ASSUME NEW x \in Workers PROVE JobFits(x)'
  BY <1>1, <1>3
  DEF LookupTrustId, Goto, Tables, IInv, Inv, TypeOK, JobsFit, JobFits
<1>4. \A x \in Workers : pc[x] = "send" =>
          pc'[x] = "send" /\ job'[x].update = job[x].update
  BY DEF LookupTrustId, Goto, IInv, TypeOK
<1> QED
  BY <1>2, <1>3, <1>4, RowsUntouched DEF JobsFit, LookupTrustId, Tables

LEMMA CancelTrainKeeps ==
    ASSUME IInv, NEW w \in Nrod, CancelTrain(w)
    PROVE  IInv'
<1>1. w \in Workers /\ JobFits(w) /\ job[w].train \in Trains
  BY DEF IInv, Inv, JobsFit, JobFits, CancelTrain, Workers
<1>2. /\ pc' \in [Workers -> States] /\ job' \in [Workers -> Job]
      /\ JobsFit'
  BY <1>1, DoneFits DEF CancelTrain
<1>3. TypeOK'
  BY <1>1, <1>2 DEF casts, CancelTrain, IInv, TypeOK
<1>4. \A x \in Workers : pc[x] = "send" =>
          pc'[x] = "send" /\ job'[x].update = job[x].update
  BY DEF CancelTrain, Done, Goto, IInv, TypeOK
<1> QED
  BY <1>2, <1>3, <1>4, RowsUntouched DEF CancelTrain

LEMMA FailKeeps ==
    ASSUME IInv, NEW w \in Workers, Fail(w)
    PROVE  IInv'
<1>2. /\ pc' \in [Workers -> States] /\ job' \in [Workers -> Job]
      /\ JobsFit'
  BY DoneFits DEF Fail, Tables
<1>3. TypeOK'
  BY <1>2 DEF casts, Fail, Tables, IInv, TypeOK
<1>4. \A x \in Workers : pc[x] = "send" =>
          pc'[x] = "send" /\ job'[x].update = job[x].update
  BY DEF Fail, Done, Goto, IInv, TypeOK
<1> QED
  BY <1>2, <1>3, <1>4, RowsUntouched DEF Fail, Tables

(* The termination follows the movement of the last call, whose row nothing   *)
(* has removed since.                                                         *)
LEMMA TerminateTrainKeeps ==
    ASSUME IInv, NEW w \in Nrod, TerminateTrain(w)
    PROVE  IInv'
<1>1. /\ w \in Workers /\ job[w].train \in Trains /\ job[w].update \in rows
      /\ job[w].update.train = job[w].train
      /\ job[w].update.source = "TRUST" /\ job[w].update.call = LastCall
  BY DEF IInv, Inv, JobsFit, JobFits, TerminateTrain, Workers
<1>2. /\ pc' \in [Workers -> States] /\ job' \in [Workers -> Job]
      /\ JobsFit'
  BY <1>1, DoneFits DEF TerminateTrain
<1>3. TypeOK'
  BY <1>1, <1>2 DEF casts, TerminateTrain, IInv, TypeOK
<1>4. TerminatedAfterReport'
  BY <1>1 DEF TerminateTrain, TerminatedAfterReport, IInv, Inv
<1>5. \A x \in Workers : pc[x] = "send" =>
          pc'[x] = "send" /\ job'[x].update = job[x].update
  BY DEF TerminateTrain, Done, Goto, IInv, TypeOK
<1>6. LiveIsOnRecord'
  BY <1>5 DEF casts, TerminateTrain, LiveIsOnRecord, IInv, Inv
<1> QED
  BY <1>2, <1>3, <1>4, <1>6
  DEF TerminateTrain, IInv, Inv, OneEstimate

(* After the broadcast the update is with the clients.                        *)
LEMMA SendMvtKeeps ==
    ASSUME IInv, NEW w \in Workers, SendMvt(w)
    PROVE  IInv'
<1>1. /\ JobFits(w) /\ job[w].update # None
      /\ rows' = rows /\ terminated' = terminated /\ missed' = missed
      /\ cast' = cast \cup ({job[w].update} \cap rows)
  BY DEF IInv, Inv, JobsFit, JobFits, SendMvt, Tables
<1>2. /\ pc' \in [Workers -> States] /\ job' \in [Workers -> Job]
      /\ JobsFit'
  <2>1. CASE job[w].last
    <3>1. w \in Nrod
      BY <1>1, <2>1 DEF IInv, TypeOK, JobFits, SendMvt, Job
    <3> QED
      BY <1>1, <2>1, <3>1
      DEF IInv, Inv, TypeOK, States, JobsFit, JobFits, SendMvt, Goto
  <2>2. CASE ~job[w].last
    BY <1>1, <2>2, DoneFits DEF SendMvt
  <2> QED
    BY <2>1, <2>2
<1>3. TypeOK'
  BY <1>1, <1>2 DEF SendMvt, Tables, IInv, TypeOK
<1>4. \A x \in Workers \ {w} : pc'[x] = pc[x] /\ job'[x] = job[x]
  BY DEF SendMvt, Done, Goto, IInv, TypeOK
<1>5. LiveIsOnRecord'
  BY <1>1, <1>4 DEF LiveIsOnRecord, IInv, Inv
<1> QED
  BY <1>1, <1>2, <1>3, <1>5
  DEF IInv, Inv, TerminatedAfterReport, OneEstimate

-----------------------------------------------------------------------------
(* The steps that write rows                                                *)

(* What both have in common: the row added is the worker's update, which it   *)
(* is about to broadcast, and no worker loses a row it relies on.             *)
LEMMA RecordKeeps ==
    ASSUME IInv, NEW w \in Workers, pc[w] = "update",
           rows' \subseteq rows \cup {job[w].update}, job[w].update \in rows',
           \A row \in rows : row.source = "TRUST" => row \in rows',
           Commit(rows', job[w].update), Goto(w, "send"),
           UNCHANGED <<linked, cached, terminated, cancelled, job>>
    PROVE  TypeOK' /\ JobsFit' /\ LiveIsOnRecord' /\ TerminatedAfterReport'
<1>1. JobFits(w) /\ job[w].update # None
  BY DEF IInv, Inv, JobsFit, JobFits
<1>2. job[w] \in Job /\ job[w].update \in Update
  BY <1>1 DEF IInv, TypeOK, Job
<1>3. TypeOK'
  BY <1>2 DEF Goto, Commit, casts, IInv, TypeOK, States
<1>4. ASSUME NEW x \in Workers PROVE JobFits(x)'
  <2>1. JobFits(x)
    BY DEF IInv, Inv, JobsFit
  <2>2. CASE x = w
    BY <1>1, <2>2 DEF Goto, IInv, TypeOK, JobFits
  <2>3. CASE x # w
    BY <2>1, <2>3 DEF Goto, IInv, TypeOK, JobFits
  <2> QED
    BY <2>2, <2>3
<1>5. \A x \in Workers : pc[x] = "send" => pc'[x] = "send"
  BY DEF Goto, IInv, TypeOK
<1>6. pc'[w] = "send"
  BY DEF Goto, IInv, TypeOK
<1>7. LiveIsOnRecord'
  BY <1>5, <1>6 DEF LiveIsOnRecord, Commit, IInv, Inv
<1>8. TerminatedAfterReport'
  BY DEF TerminatedAfterReport, IInv, Inv
<1> QED
  BY <1>3, <1>4, <1>7, <1>8 DEF JobsFit

LEMMA RecordTrustKeeps ==
    ASSUME IInv, NEW w \in Nrod, RecordTrust(w)
    PROVE  IInv'
<1>1. /\ w \in Workers /\ pc[w] = "update" /\ Goto(w, "send")
      /\ rows' = rows \cup {job[w].update}
      /\ Commit(rows', job[w].update)
      /\ UNCHANGED <<linked, cached, terminated, cancelled, job>>
  BY DEF RecordTrust, Commit, Workers
<1>2. /\ TypeOK' /\ JobsFit' /\ LiveIsOnRecord' /\ TerminatedAfterReport'
  BY <1>1, RecordKeeps
<1>3. job[w].update.source = "TRUST"
  BY <1>1 DEF IInv, Inv, JobsFit, JobFits
<1>4. OneEstimate'
  BY <1>1, <1>3 DEF OneEstimate, IInv, Inv
<1> QED
  BY <1>2, <1>4 DEF IInv, Inv

LEMMA RecordDarwinKeeps ==
    ASSUME IInv, NEW w \in Darwin, RecordDarwin(w)
    PROVE  IInv'
<1> DEFINE new == job[w].update
<1>1. /\ w \in Workers /\ pc[w] = "update" /\ Goto(w, "send")
      /\ rows' = (rows \ Superseded(new)) \cup {new}
      /\ Commit(rows', new)
      /\ UNCHANGED <<linked, cached, terminated, cancelled, job>>
  BY DEF RecordDarwin, Commit, Workers
<1>2. /\ rows' \subseteq rows \cup {new} /\ new \in rows'
      /\ \A row \in rows : row.source = "TRUST" => row \in rows'
  BY <1>1 DEF Superseded
<1>3. /\ TypeOK' /\ JobsFit' /\ LiveIsOnRecord' /\ TerminatedAfterReport'
  BY <1>1, <1>2, RecordKeeps
<1>4. \A row \in rows' : row.source = "DARWIN" /\ row.train = new.train
                         /\ row.call = new.call => row = new
  BY <1>1 DEF Superseded
<1>5. OneEstimate'
  BY <1>2, <1>4 DEF OneEstimate, IInv, Inv
<1> QED
  BY <1>3, <1>5 DEF IInv, Inv

-----------------------------------------------------------------------------
(* The restarts                                                             *)

LEMMA RestartNrodKeeps ==
    ASSUME IInv, RestartNrod
    PROVE  IInv'
<1>1. NoJob \in Job /\ \A w \in Workers : job[w] \in Job
  BY DEF NoJob, TrainJob, Job, IInv, TypeOK
<1>2. ASSUME NEW w \in Workers, w \in Nrod, pc[w] = "send"
      PROVE  /\ job'[w] \in Job /\ pc'[w] = "send"
             /\ job'[w].update = job[w].update /\ job'[w].train = job[w].train
             /\ job'[w].last = FALSE
  BY <1>1, <1>2 DEF RestartNrod, Job
<1>3. ASSUME NEW w \in Workers, w \in Nrod, pc[w] # "send"
      PROVE  job'[w] = NoJob /\ pc'[w] = "idle"
  BY <1>3 DEF RestartNrod
<1>4. ASSUME NEW w \in Workers, w \notin Nrod
      PROVE  job'[w] = job[w] /\ pc'[w] = pc[w]
  BY <1>4 DEF RestartNrod
<1>5. pc' \in [Workers -> States]
  BY DEF RestartNrod, casts, IInv, TypeOK, States
<1>6. job' \in [Workers -> Job]
  <2>1. \A w \in Workers : job'[w] \in Job
    BY <1>1, <1>2, <1>3, <1>4
  <2> QED
    BY <2>1 DEF RestartNrod
<1>7. TypeOK'
  BY <1>5, <1>6 DEF casts, RestartNrod, Tables, IInv, TypeOK
<1>8. ASSUME NEW w \in Workers PROVE JobFits(w)'
  <2>1. JobFits(w)
    BY DEF IInv, Inv, JobsFit
  <2>2. CASE w \in Nrod /\ pc[w] = "send"
    BY <1>2, <2>1, <2>2 DEF RestartNrod, Tables, JobFits
  <2>3. CASE w \in Nrod /\ pc[w] # "send"
    <3>1. job'[w] = NoJob /\ pc'[w] = "idle" /\ NoJob.update = None
      BY <1>3, <2>3 DEF NoJob, TrainJob
    <3> QED
      BY <3>1 DEF JobFits, NoJob
  <2>4. CASE w \notin Nrod
    BY <1>4, <2>1, <2>4 DEF RestartNrod, Tables, JobFits
  <2> QED
    BY <2>2, <2>3, <2>4
<1>9. \A w \in Workers : pc[w] = "send" =>
          pc'[w] = "send" /\ job'[w].update = job[w].update
  BY <1>2, <1>4
<1> QED
  BY <1>7, <1>8, <1>9, RowsUntouched DEF RestartNrod, Tables, JobsFit

LEMMA RestartZugfuhrerKeeps ==
    ASSUME IInv, RestartZugfuhrer
    PROVE  IInv'
<1>1. NoJob \in Job
  BY DEF NoJob, TrainJob, Job
<1>2. TypeOK'
  BY <1>1 DEF RestartZugfuhrer, Tables, casts, IInv, TypeOK, States
<1>3. ASSUME NEW w \in Workers PROVE JobFits(w)'
  <2>1. JobFits(w)
    BY DEF IInv, Inv, JobsFit
  <2> QED
    BY <2>1 DEF RestartZugfuhrer, Tables, JobFits, NoJob, TrainJob
<1>4. LiveIsOnRecord'
  BY DEF RestartZugfuhrer, Tables, LiveIsOnRecord, IInv, Inv
<1> QED
  BY <1>2, <1>3, <1>4
  DEF RestartZugfuhrer, Tables, JobsFit, IInv, Inv, TerminatedAfterReport,
      OneEstimate

-----------------------------------------------------------------------------
(* The theorems                                                             *)

LEMMA NextKeeps == IInv /\ [Next]_vars => IInv'
<1> SUFFICES ASSUME IInv, [Next]_vars PROVE IInv'
  OBVIOUS
<1>1. ASSUME NEW w \in Nrod, NrodStep(w) PROVE IInv'
  BY <1>1, ReceiveTrainKeeps, ReceiveMovementKeeps, LinkTrustIdKeeps,
     CacheTrustIdKeeps, LookupTrustIdKeeps, CancelTrainKeeps, RecordTrustKeeps,
     SendMvtKeeps, TerminateTrainKeeps, FailKeeps DEF NrodStep, Workers
<1>2. ASSUME NEW w \in Darwin, DarwinStep(w) PROVE IInv'
  BY <1>2, ReceiveTsKeeps, RecordDarwinKeeps, SendMvtKeeps, FailKeeps
  DEF DarwinStep, Workers
<1>3. CASE UNCHANGED vars
  BY <1>3
  DEF vars, casts, IInv, TypeOK, Inv, JobsFit, JobFits, TerminatedAfterReport,
      OneEstimate, LiveIsOnRecord
<1> QED
  BY <1>1, <1>2, <1>3, RestartNrodKeeps, RestartZugfuhrerKeeps DEF Next

(* Types and the inductive invariant, in every reachable state.               *)
THEOREM Correct == Spec => [](TypeOK /\ Inv)
<1>1. Init => IInv
  BY InitIInv
<1>2. IInv /\ [Next]_vars => IInv'
  BY NextKeeps
<1> QED
  BY <1>1, <1>2, PTL DEF Spec, IInv

(* handle_movement asks for the termination only after the last call has been *)
(* recorded, so a terminated train always has that report.                    *)
THEOREM TerminationIsReported == Spec => []TerminatedAfterReport
<1>1. Inv => TerminatedAfterReport
  BY DEF Inv
<1> QED
  BY <1>1, Correct, PTL

(* process_darwin_mvt_update never leaves two Darwin rows for one call.       *)
THEOREM EstimatesReplace == Spec => []OneEstimate
<1>1. Inv => OneEstimate
  BY DEF Inv
<1> QED
  BY <1>1, Correct, PTL

(* Every row has been broadcast or is being broadcast, but for those from before *)
(* the start of the process.                                                  *)
THEOREM BroadcastMatches == Spec => []LiveIsOnRecord
<1>1. Inv => LiveIsOnRecord
  BY DEF Inv
<1> QED
  BY <1>1, Correct, PTL

(* No step takes back what TRUST reported.                                    *)
THEOREM ReportsKept == Spec => ReportsAreKept
<1> DEFINE Kept == \A row \in rows : row.source = "TRUST" => row \in rows'
<1>1. [Next]_vars => [Kept]_vars
  <2> SUFFICES ASSUME Next PROVE Kept
    OBVIOUS
  <2>1. ASSUME NEW w \in Nrod, NrodStep(w) PROVE Kept
    BY <2>1
    DEF NrodStep, ReceiveActivation, LinkTrustId, CacheTrustId, ReceiveMovement,
        ReceiveCancellation, LookupTrustId, CancelTrain, RecordTrust, Commit,
        SendMvt, TerminateTrain, Fail, Tables
  <2>2. ASSUME NEW w \in Darwin, DarwinStep(w) PROVE Kept
    BY <2>2
    DEF DarwinStep, ReceiveTs, RecordDarwin, Commit, Superseded, SendMvt, Fail, Tables
  <2> QED
    BY <2>1, <2>2 DEF Next, RestartNrod, RestartZugfuhrer, Tables
<1> QED
  BY <1>1, PTL DEF Spec, ReportsAreKept

(* Updates of both feeds, restarts and repeated messages keep the types of the
   tables, the caches and the jobs.                                         *)
THEOREM Typed == Spec => []TypeOK
<1>1. TypeOK /\ Inv => TypeOK
  OBVIOUS
<1> QED
  BY <1>1, Correct, PTL
==============================================================================
