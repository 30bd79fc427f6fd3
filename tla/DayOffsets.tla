----------------------------- MODULE DayOffsets ------------------------------
(***************************************************************************)
(* One train's calls and the day_offset that three programs give them, each *)
(* from something else: tspl-fahrplan-updater from the order of the times   *)
(* in the schedule, the Darwin worker from the times in a TS message, and   *)
(* the TRUST worker from the day of the month in the TRUST ID.              *)
(* tspl-zugfuhrer finds the call that a message is about by stop, time and  *)
(* day_offset, so they have to agree.  Times are in hours, the unit in      *)
(* which the Darwin worker compares.                                        *)
(***************************************************************************)
EXTENDS Integers, Sequences

CONSTANTS
    Times,      \* times of day used
    Stops,      \* a TIPLOC with an action
    MaxCalls    \* bound on the length of a schedule

ASSUME TimesAssumption ==
    /\ Times \subseteq 0 .. 23
    /\ MaxCalls \in Nat

VARIABLES
    calls,          \* the calls as the train makes them: stop, time, day
    day_offset,     \* importer: days so far
    last_time,      \* importer: time of the call before
    movements,      \* the movements imported, then copied to the train
    stored,         \* the train is activated
    crosses_midnight,   \* its flag
    cached,         \* the TRUST worker has the train in its cache
    ts_updates,     \* Darwin worker: the TsUpdates of the message in hand
    sending,        \* it is past flattening and sends them
    ts_offset,      \* Darwin worker: its day_offset
    ts_last,        \* Darwin worker: its last_time, or -1
    recorded,       \* <<source, call, row>> of what was recorded
    lost            \* reports of a train that was found, without a movement

importer == <<calls, day_offset, last_time, movements>>
darwin == <<ts_updates, sending, ts_offset, ts_last>>
dayvars == <<importer, stored, crosses_midnight, cached, darwin, recorded, lost>>

Call == [stop : Stops, time : Times, day : {0, 1}]
Movement == [stop : Stops, time : Times, day_offset : 0 .. 255]
TsUpdate == [call : 1 .. MaxCalls, day_offset : 0 .. 255]

DayTypeOK ==
    /\ calls \in Seq(Call) /\ Len(calls) \in 0 .. MaxCalls
    /\ day_offset \in 0 .. 255
    /\ last_time \in Times \cup {0}
    /\ movements \in Seq(Movement) /\ Len(movements) = Len(calls)
    /\ stored \in BOOLEAN /\ crosses_midnight \in BOOLEAN /\ cached \in BOOLEAN
    /\ ts_updates \in Seq(TsUpdate) /\ sending \in BOOLEAN
    /\ ts_offset \in 0 .. 255 /\ ts_last \in Times \cup {-1}
    /\ recorded \subseteq {"TRUST", "DARWIN"} \X (1 .. MaxCalls) \X (1 .. MaxCalls)
    /\ lost \subseteq 1 .. MaxCalls

DayInit ==
    /\ calls = <<>> /\ day_offset = 0 /\ last_time = 0 /\ movements = <<>>
    /\ stored = FALSE /\ crosses_midnight = FALSE /\ cached = FALSE
    /\ ts_updates = <<>> /\ sending = FALSE /\ ts_offset = 0 /\ ts_last = -1
    /\ recorded = {} /\ lost = {}

-----------------------------------------------------------------------------
(* The importer                                                             *)

\* A train sets off on day 0, each call is later than the one before, and the
\* journey takes less than a day.
Follows(call) ==
    IF calls = <<>>
    THEN call.day = 0
    ELSE LET prev == calls[Len(calls)]
         IN  /\ call.day > prev.day \/ (call.day = prev.day /\ call.time > prev.time)
             /\ call.day = 0 \/ call.time < calls[1].time

\* Mutant: last_time is left at the first time, as in the Darwin worker.
CheckOnce(time) ==
    /\ day_offset' = IF time < last_time THEN (day_offset + 1) % 256 ELSE day_offset
    /\ last_time' = IF calls = <<>> THEN time ELSE last_time
\* midnight_check.
MidnightCheck(time) ==
    /\ day_offset' = IF time < last_time THEN (day_offset + 1) % 256 ELSE day_offset
    /\ last_time' = time

ImportCall ==
    /\ ~stored
    /\ Len(calls) < MaxCalls
    /\ \E call \in Call :
          /\ Follows(call)
          /\ calls' = Append(calls, call)
          /\ MidnightCheck(call.time)
          /\ movements' = Append(movements, [stop |-> call.stop, time |-> call.time,
                                   day_offset |-> day_offset'])
    /\ UNCHANGED <<stored, crosses_midnight, cached, darwin, recorded, lost>>

\* The schedule is inserted, the train activated from it and its TRUST ID linked.
\* Both rows are written with crosses_midnight = false.
Activate ==
    /\ ~stored /\ calls # <<>>
    /\ stored' = TRUE
    /\ crosses_midnight' = FALSE
    /\ cached' = TRUE
    /\ UNCHANGED <<importer, darwin, recorded, lost>>

-----------------------------------------------------------------------------
(* tspl-zugfuhrer: the movement a message is about                          *)

Matches(stop, time, offset) ==
    {row \in DOMAIN movements : /\ movements[row].stop = stop
                                /\ movements[row].time = time
                                /\ movements[row].day_offset = offset}

-----------------------------------------------------------------------------
(* The TRUST worker: a report of call i                                     *)

\* Mutant: the offset is 1 on the day the TRUST ID names.
OffsetSwapped(i) == IF calls[i].day = 0 THEN 1 ELSE 0
\* The day of the planned time against the day of the month in the TRUST ID.
TrustOffset(i) == IF calls[i].day = 0 THEN 0 ELSE 1

\* get_train_for_trust_id with the date of the planned time.
Found(i) == calls[i].day = 0 \/ (crosses_midnight /\ calls[i].day = 1)

Report(i) ==
    /\ stored
    /\ cached \/ Found(i)
    /\ cached' = TRUE
    /\ LET rows == Matches(calls[i].stop, calls[i].time, TrustOffset(i))
       IN  \/ \E row \in rows : /\ rows = {row}
                                /\ recorded' = recorded \cup {<<"TRUST", i, row>>}
                                /\ UNCHANGED lost
           \/ /\ \A row \in rows : rows # {row}
              /\ lost' = lost \cup {i}
              /\ UNCHANGED recorded
    /\ UNCHANGED <<importer, stored, crosses_midnight, darwin>>

\* tspl-nrod restarts, and with it its caches and the message in hand go.
Restart ==
    /\ cached' = FALSE
    /\ ts_updates' = <<>> /\ sending' = FALSE /\ ts_offset' = 0 /\ ts_last' = -1
    /\ UNCHANGED <<importer, stored, crosses_midnight, recorded, lost>>

-----------------------------------------------------------------------------
(* The Darwin worker: a TS message with some of the calls, in their order   *)

\* Mutant: the thresholds swapped.
NextOffsetHasty(time) ==
    CASE ts_last # -1 /\ time < ts_last /\ ts_last - time >= 18 ->
            (ts_offset + 1) % 256
      [] ts_last # -1 /\ time >= ts_last /\ time - ts_last >= 6 ->
            (ts_offset - 1) % 256
      [] OTHER -> ts_offset
\* update_day_offset, on a u8: the offset after a location at time.
NextOffset(time) ==
    CASE ts_last # -1 /\ time < ts_last /\ ts_last - time >= 6 ->
            (ts_offset + 1) % 256
      [] ts_last # -1 /\ time >= ts_last /\ time - ts_last >= 18 ->
            (ts_offset - 1) % 256
      [] OTHER -> ts_offset

\* last_time is only set by the first location.
LastOf(time) == IF ts_last = -1 THEN time ELSE ts_last

Flatten(i) ==
    /\ stored /\ ~sending
    /\ \A n \in DOMAIN ts_updates : ts_updates[n].call < i
    /\ ts_offset' = NextOffset(calls[i].time)
    /\ ts_last' = LastOf(calls[i].time)
    /\ ts_updates' = Append(ts_updates, [call |-> i, day_offset |-> ts_offset'])
    /\ UNCHANGED <<importer, stored, crosses_midnight, cached, sending, recorded, lost>>

Forget == ts_updates' = <<>> /\ ts_offset' = 0 /\ ts_last' = -1

\* A location without timings: the message is given up before anything is sent.
MissingTimings ==
    /\ ts_updates # <<>> /\ ~sending
    /\ Forget
    /\ UNCHANGED <<importer, stored, crosses_midnight, cached, sending, recorded, lost>>

StartSending ==
    /\ ts_updates # <<>> /\ ~sending
    /\ sending' = TRUE
    /\ UNCHANGED <<importer, stored, crosses_midnight, cached, ts_updates, ts_offset,
                   ts_last, recorded, lost>>

\* One RPC; an update that fails or finds no movement is skipped.
SendUpdate ==
    /\ sending /\ ts_updates # <<>>
    /\ LET update == Head(ts_updates)
           call == calls[update.call]
           rows == Matches(call.stop, call.time, update.day_offset)
       IN  recorded' = recorded \cup
               {<<"DARWIN", update.call, row>> : row \in {r \in rows : rows = {r}}}
    /\ ts_updates' = Tail(ts_updates)
    /\ UNCHANGED <<importer, stored, crosses_midnight, cached, sending, ts_offset,
                   ts_last, lost>>

EndTs ==
    /\ sending /\ ts_updates = <<>>
    /\ sending' = FALSE
    /\ Forget
    /\ UNCHANGED <<importer, stored, crosses_midnight, cached, recorded, lost>>

DayNext ==
    \/ ImportCall \/ Activate
    \/ \E i \in DOMAIN calls : Report(i) \/ Flatten(i)
    \/ MissingTimings \/ StartSending \/ SendUpdate \/ EndTs
    \/ Restart

DaySpec == DayInit /\ [][DayNext]_dayvars

-----------------------------------------------------------------------------
(* Properties                                                               *)

\* The importer's offset is the day on which the call is really made, so the
\* order of (day_offset, time) is the order of the journey.
OffsetsAreTrue ==
    \A i \in DOMAIN movements :
        /\ movements[i].day_offset = calls[i].day
        /\ movements[i].stop = calls[i].stop /\ movements[i].time = calls[i].time

\* A report of a train that was found is recorded, and whatever is recorded is
\* recorded for the call that the message was about.
RecordedForItsCall ==
    /\ lost = {}
    /\ \A r \in recorded : r[2] = r[3]

\* As long as a TS message stays on the first day, less than 18 hours after its
\* first location, the Darwin worker gives the offset of the schedule.
SameDayEstimatesMatch ==
    ~sending => \A n \in DOMAIN ts_updates :
        (\A k \in 1 .. n : /\ calls[ts_updates[k].call].day = 0
                           /\ calls[ts_updates[k].call].time
                                < calls[ts_updates[1].call].time + 18)
        => ts_updates[n].day_offset = 0

\* The table in update_day_offset: what the difference to the previous time
\* says of midnight.
TableStep(diff) ==
    CASE diff < -6 -> 1
      [] diff > 18 -> -1
      [] OTHER     -> 0
OffsetFollowsTable ==
    ~sending => \A n \in 2 .. Len(ts_updates) :
        LET diff == calls[ts_updates[n].call].time - calls[ts_updates[n - 1].call].time
        IN  ts_updates[n].day_offset
              = (ts_updates[n - 1].day_offset + TableStep(diff)) % 256

\* "Whether or not this train's schedule crosses over into the next day."
CrossesMidnightIsTold ==
    stored => crosses_midnight = \E i \in DOMAIN movements : movements[i].day_offset > 0

-----------------------------------------------------------------------------
(* The inductive invariant                                                  *)

Before(c, d) == c.day < d.day \/ (c.day = d.day /\ c.time < d.time)

\* The calls are in order, and those after midnight before the time of the first.
JourneyInOrder ==
    /\ \A i, j \in DOMAIN calls : i < j => Before(calls[i], calls[j])
    /\ \A i \in DOMAIN calls : calls[i].day = 1 => calls[i].time < calls[1].time

\* The importer stands at the last call.
ImporterFits ==
    /\ day_offset = IF calls = <<>> THEN 0 ELSE calls[Len(calls)].day
    /\ last_time = IF calls = <<>> THEN 0 ELSE calls[Len(calls)].time

\* The workers only deal with calls of the schedule, and the schedule stands.
WorkersFit == \A n \in DOMAIN ts_updates : ts_updates[n].call \in DOMAIN calls

\* What the proofs show to be kept by every step.
DayInv ==
    /\ JourneyInOrder
    /\ ImporterFits
    /\ WorkersFit
    /\ OffsetsAreTrue
    /\ RecordedForItsCall

\* A message in hand: the calls are in the journey's order, and the worker stands at
\* the last, with the time of the first.
EstimatesFit ==
    ~sending =>
        /\ IF ts_updates = <<>>
           THEN ts_offset = 0 /\ ts_last = -1
           ELSE /\ ts_last = calls[ts_updates[1].call].time
                /\ ts_offset = ts_updates[Len(ts_updates)].day_offset
        /\ \A m, n \in DOMAIN ts_updates : m < n => ts_updates[m].call < ts_updates[n].call
==============================================================================
