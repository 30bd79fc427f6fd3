----------------------------- MODULE LiveUpdates -----------------------------
(***************************************************************************)
(* Live reports on trains: the workers of the two tspl-nrod processes take  *)
(* TRUST records and Darwin TS locations and have tspl-zugfuhrer record     *)
(* them; tspl-zugfuhrer commits each in a transaction and then broadcasts   *)
(* it.  A message names a train by the TRUST ID or RID it carries.  Workers  *)
(* run in parallel on one queue and a batch that was not acknowledged is    *)
(* sent again, so any message may be taken at any time, any number of       *)
(* times, or not at all.                                                    *)
(***************************************************************************)
CONSTANTS
    Trains,     \* trains in the table
    Stubs,      \* the ones among them without movements
    Calls,      \* movements of a schedule (tiploc, action, time, day_offset)
    LastCall,   \* the one TRUST marks as train_terminated
    Times,      \* updated times
    Nrod,       \* workers on the TRUST feed
    Darwin,     \* workers on the Darwin feed
    None

Sources == {"TRUST", "DARWIN"}
Update == [train : Trains, call : Calls, time : Times, source : Sources]

ASSUME UpdateAssumption ==
    /\ Stubs \subseteq Trains
    /\ LastCall \in Calls
    /\ Nrod \cap Darwin = {}
    /\ None \notin Trains \cup Update

VARIABLES
    linked,     \* trains whose TRUST ID is linked
    cached,     \* trains whose TRUST ID is in trust_to_tspl
    rows,       \* train_movements with an updates value
    terminated, \* trains with the terminated flag
    cancelled,  \* trains with the cancelled flag
    pc,         \* worker -> where it stands
    job,        \* worker -> its message
    cast,       \* the rows that were broadcast (history)
    missed      \* those from before tspl-zugfuhrer was started (history)

casts == <<cast, missed>>
vars == <<linked, cached, rows, terminated, cancelled, pc, job, casts>>

Workers == Nrod \cup Darwin
TrainJob(t) == [train |-> t, update |-> None, last |-> FALSE]
NoJob == TrainJob(None)
Job == [train : Trains \cup {None}, update : Update \cup {None}, last : BOOLEAN]
States == {"idle", "link", "cache", "lookup", "cancel", "update", "send",
           "terminate"}

TypeOK ==
    /\ linked \subseteq Trains
    /\ cached \subseteq Trains
    /\ rows \subseteq Update
    /\ terminated \subseteq Trains
    /\ cancelled \subseteq Trains
    /\ pc \in [Workers -> States]
    /\ job \in [Workers -> Job]
    /\ cast \subseteq rows /\ missed \subseteq rows

Init ==
    /\ linked = {} /\ cached = {}
    /\ rows = {}
    /\ terminated = {} /\ cancelled = {}
    /\ pc = [w \in Workers |-> "idle"]
    /\ job = [w \in Workers |-> NoJob]
    /\ cast = {} /\ missed = {}

Goto(w, state) == pc' = [pc EXCEPT ![w] = state]
Done(w) == Goto(w, "idle") /\ job' = [job EXCEPT ![w] = NoJob]
Tables == <<linked, rows, terminated, cancelled>>

-----------------------------------------------------------------------------
(* The TRUST workers                                                        *)

\* handle_activation, once the train is activated: only the link is left.
ReceiveActivation(w) ==
    /\ pc[w] = "idle"
    /\ \E t \in Trains : job' = [job EXCEPT ![w] = TrainJob(t)]
    /\ Goto(w, "link")
    /\ UNCHANGED <<Tables, cached, casts>>

LinkTrustId(w) ==
    /\ pc[w] = "link"
    /\ linked' = linked \cup {job[w].train}
    /\ Goto(w, "cache")
    /\ UNCHANGED <<cached, rows, terminated, cancelled, job, casts>>

CacheTrustId(w) ==
    /\ pc[w] = "cache"
    /\ cached' = cached \cup {job[w].train}
    /\ Done(w)
    /\ UNCHANGED <<Tables, casts>>

NewUpdate(t, c, at, src) == [train |-> t, call |-> c, time |-> at, source |-> src]
MovementJob(update, last) ==
    [train |-> update.train, update |-> update, last |-> last]

\* handle_movement: TRUST reports what happened at a call, and at the last one
\* that the train has terminated.
ReceiveMovement(w) ==
    /\ pc[w] = "idle"
    /\ \E t \in Trains, c \in Calls, at \in Times :
          job' = [job EXCEPT ![w] =
                    MovementJob(NewUpdate(t, c, at, "TRUST"), c = LastCall)]
    /\ Goto(w, "lookup")
    /\ UNCHANGED <<Tables, cached, casts>>

\* handle_cancellation.
ReceiveCancellation(w) ==
    /\ pc[w] = "idle"
    /\ \E t \in Trains : job' = [job EXCEPT ![w] = TrainJob(t)]
    /\ Goto(w, "lookup")
    /\ UNCHANGED <<Tables, cached, casts>>

\* lookup_trust_id: the cache, or GET /trains/by-trust-id and into the cache.
LookupTrustId(w) ==
    /\ pc[w] = "lookup"
    /\ job[w].train \in cached \cup linked
    /\ cached' = cached \cup {job[w].train}
    /\ Goto(w, IF job[w].update = None THEN "cancel" ELSE "update")
    /\ UNCHANGED <<Tables, job, casts>>

\* cancel_train.
CancelTrain(w) ==
    /\ pc[w] = "cancel"
    /\ cancelled' = cancelled \cup {job[w].train}
    /\ Done(w)
    /\ UNCHANGED <<linked, cached, rows, terminated, casts>>

\* The new row is one that was not broadcast, also when it is like an old one.
Commit(new, update) ==
    /\ rows' = new
    /\ cast' = (cast \cap new) \ {update}
    /\ missed' = (missed \cap new) \ {update}

\* Mutant: nothing is broadcast.
RecordTrustSilently(w) ==
    /\ pc[w] = "update"
    /\ w \in Nrod
    /\ job[w].train \notin Stubs
    /\ job[w].update \notin rows
    /\ Commit(rows \cup {job[w].update}, job[w].update)
    /\ Goto(w, IF job[w].last THEN "terminate" ELSE "idle")
    /\ UNCHANGED <<linked, cached, terminated, cancelled, job>>

\* process_trust_mvt_update: add a row for the matched movement; the unique
\* index refuses one that is there already.
RecordTrust(w) ==
    /\ pc[w] = "update"
    /\ w \in Nrod
    /\ job[w].train \notin Stubs
    /\ job[w].update \notin rows
    /\ Commit(rows \cup {job[w].update}, job[w].update)
    /\ Goto(w, "send")
    /\ UNCHANGED <<linked, cached, terminated, cancelled, job>>

-----------------------------------------------------------------------------
(* The Darwin workers                                                       *)

\* process_ts, for one location of a train whose RID is linked.
ReceiveTs(w) ==
    /\ pc[w] = "idle"
    /\ \E t \in Trains, c \in Calls, at \in Times :
          job' = [job EXCEPT ![w] =
                    MovementJob(NewUpdate(t, c, at, "DARWIN"), FALSE)]
    /\ Goto(w, "update")
    /\ UNCHANGED <<Tables, cached, casts>>

\* Mutants: the DELETE forgets the source; it only matches the same time.
SupersededAll(update) ==
    {row \in rows : row.train = update.train /\ row.call = update.call}
SupersededSameTime(update) ==
    {row \in rows : row = update}
Superseded(update) ==
    {row \in rows : /\ row.train = update.train
                    /\ row.call = update.call
                    /\ row.source = "DARWIN"}

\* process_darwin_mvt_update: delete the Darwin row of the matched movement,
\* then add the new one.
RecordDarwin(w) ==
    /\ pc[w] = "update"
    /\ w \in Darwin
    /\ job[w].train \notin Stubs
    /\ Commit((rows \ Superseded(job[w].update)) \cup {job[w].update}, job[w].update)
    /\ Goto(w, "send")
    /\ UNCHANGED <<linked, cached, terminated, cancelled, job>>

-----------------------------------------------------------------------------
(* Both                                                                     *)

\* send_mvt after the commit, and the response.
SendMvt(w) ==
    /\ pc[w] = "send"
    /\ cast' = cast \cup ({job[w].update} \cap rows)
    /\ IF job[w].last
       THEN Goto(w, "terminate") /\ UNCHANGED job
       ELSE Done(w)
    /\ UNCHANGED <<Tables, cached, missed>>

\* terminate_train, asked for once the movement has been recorded.
TerminateTrain(w) ==
    /\ pc[w] = "terminate"
    /\ terminated' = terminated \cup {job[w].train}
    /\ Done(w)
    /\ UNCHANGED <<linked, cached, rows, cancelled, casts>>

\* Mutant: the error of the movement is dropped, the termination is asked for.
FailAndGoOn(w) ==
    /\ pc[w] \in States \ {"idle", "send"}
    /\ IF pc[w] = "update" /\ job[w].last
       THEN Goto(w, "terminate") /\ UNCHANGED job
       ELSE Done(w)
    /\ UNCHANGED <<Tables, cached, casts>>

\* Any call may fail: 404, no movement or several matched, the unique index,
\* a busy database, no connection.  The worker logs it and goes on.
Fail(w) ==
    /\ pc[w] \in States \ {"idle", "send"}
    /\ Done(w)
    /\ UNCHANGED <<Tables, cached, casts>>

\* The tspl-nrod process on the TRUST feed restarts: its workers' messages and
\* its cache are lost; a handler of tspl-zugfuhrer that has committed goes on
\* to its broadcast, and nobody asks for the termination after it.
RestartNrod ==
    /\ cached' = {}
    /\ pc' = [w \in Workers |->
                 IF w \in Nrod /\ pc[w] # "send" THEN "idle" ELSE pc[w]]
    /\ job' = [w \in Workers |->
                  CASE w \notin Nrod -> job[w]
                    [] w \in Nrod /\ pc[w] = "send" ->
                          [job[w] EXCEPT !.last = FALSE]
                    [] OTHER -> NoJob]
    /\ UNCHANGED <<Tables, casts>>

\* tspl-zugfuhrer restarts: what it was about to broadcast is never sent, and the live
\* clients are cut off.  When they come back they are sent today's trains, but none of
\* the updates recorded for them.
RestartZugfuhrer ==
    /\ LET lost == {w \in Workers : pc[w] = "send"}
       IN  /\ pc' = [w \in Workers |-> IF w \in lost THEN "idle" ELSE pc[w]]
           /\ job' = [w \in Workers |-> IF w \in lost THEN NoJob ELSE job[w]]
    /\ cast' = {} /\ missed' = rows
    /\ UNCHANGED <<Tables, cached>>

NrodStep(w) ==
    \/ ReceiveActivation(w) \/ LinkTrustId(w) \/ CacheTrustId(w)
    \/ ReceiveMovement(w) \/ ReceiveCancellation(w)
    \/ LookupTrustId(w) \/ CancelTrain(w) \/ RecordTrust(w)
    \/ SendMvt(w) \/ TerminateTrain(w) \/ Fail(w)
DarwinStep(w) == ReceiveTs(w) \/ RecordDarwin(w) \/ SendMvt(w) \/ Fail(w)

Next ==
    \/ \E w \in Nrod : NrodStep(w)
    \/ \E w \in Darwin : DarwinStep(w)
    \/ RestartNrod
    \/ RestartZugfuhrer

Spec == Init /\ [][Next]_vars

-----------------------------------------------------------------------------
(* Properties                                                               *)

\* A train is only marked terminated when the TRUST report of its last call is
\* on record: handle_movement asks for the termination after the movement, and
\* nothing that happens to the row in between can remove it.
TerminatedAfterReport ==
    \A t \in terminated :
        \E row \in rows : /\ row.train = t /\ row.call = LastCall
                          /\ row.source = "TRUST"

\* A Darwin estimate replaces the one before it: however the workers
\* interleave, a call never has two.
OneEstimate ==
    \A row, other \in rows :
        /\ row.source = "DARWIN" /\ other.source = "DARWIN"
        /\ row.train = other.train /\ row.call = other.call
        => row = other

\* Live clients are told of every update that is on record, or a handler is about to
\* tell them: however the workers replace each other's estimates and fail, all that the
\* clients miss was committed before tspl-zugfuhrer last started.
LiveIsOnRecord ==
    \A row \in rows \ (cast \cup missed) :
        \E w \in Workers : pc[w] = "send" /\ job[w].update = row

\* What TRUST reported is never taken back: neither by an estimate for the
\* same call, nor by a later report.
ReportsAreKept ==
    [][\A row \in rows : row.source = "TRUST" => row \in rows']_vars

-----------------------------------------------------------------------------
(* The inductive invariant                                                  *)

\* A worker's update is for its train and of its feed, and one that is
\* recorded stays on record as long as the worker relies on it.
JobFits(w) ==
    /\ IF pc[w] = "idle" THEN job[w] = NoJob ELSE job[w].train \in Trains
    /\ pc[w] \in {"update", "send", "terminate"} => job[w].update # None
    /\ job[w].update # None =>
          /\ job[w].update.train = job[w].train
          /\ job[w].update.source = IF w \in Nrod THEN "TRUST" ELSE "DARWIN"
          /\ job[w].last => w \in Nrod /\ job[w].update.call = LastCall
    /\ pc[w] = "send" /\ w \in Nrod => job[w].update \in rows
    /\ pc[w] = "terminate" =>
          job[w].last /\ job[w].update \in rows
JobsFit == \A w \in Workers : JobFits(w)

\* What the proofs show to be kept by every step.
Inv ==
    /\ JobsFit
    /\ TerminatedAfterReport
    /\ OneEstimate
    /\ LiveIsOnRecord
==============================================================================
