-------------------------- MODULE DayOffsetsProofs ---------------------------
(* Proofs about DayOffsets, for any times, stops and length of schedule.     *)
EXTENDS DayOffsets, TLAPS

DayIInv == DayTypeOK /\ DayInv

LEMMA CallFields ==
    ASSUME NEW c \in Call
    PROVE  /\ c.time \in Times /\ c.time \in Int /\ c.time >= 0 /\ c.time < 24
           /\ c.day \in {0, 1} /\ c.stop \in Stops
<1>1. c.time \in Times /\ c.day \in {0, 1} /\ c.stop \in Stops
  BY DEF Call
<1>2. \A k \in Times : k \in Int /\ k >= 0 /\ k < 24
  BY TimesAssumption
<1> QED
  BY <1>1, <1>2

(* No two calls of a journey have the same time of day.                       *)
LEMMA TimesDiffer ==
    ASSUME DayIInv, NEW i \in DOMAIN calls, NEW j \in DOMAIN calls, i < j
    PROVE  calls[i].time # calls[j].time
<1>1. /\ Before(calls[i], calls[j])
      /\ \A k \in DOMAIN calls : calls[k].day = 1 => calls[k].time < calls[1].time
  BY DEF DayIInv, DayInv, JourneyInOrder
<1>2. /\ calls[i] \in Call /\ calls[j] \in Call /\ 1 \in DOMAIN calls
      /\ calls[1] \in Call /\ i \in Nat /\ i >= 1
  BY DEF DayIInv, DayTypeOK
<1>3. \A k \in {1, i, j} : calls[k].time \in Int /\ calls[k].day \in {0, 1}
  BY <1>2, CallFields
<1>4. i # 1 => Before(calls[1], calls[i])
  BY <1>2 DEF DayIInv, DayInv, JourneyInOrder
<1> QED
  BY <1>1, <1>2, <1>3, <1>4 DEF Before

(* A stop, a time and the offset of the day find the call they are of.        *)
LEMMA MatchesItsCall ==
    ASSUME DayIInv, NEW i \in DOMAIN calls, NEW offset
    PROVE  /\ Matches(calls[i].stop, calls[i].time, offset) \subseteq {i}
           /\ offset = calls[i].day =>
                  Matches(calls[i].stop, calls[i].time, offset) = {i}
<1>1. DOMAIN movements = DOMAIN calls /\ DOMAIN calls \subseteq Int
  BY DEF DayIInv, DayTypeOK
<1>2. ASSUME NEW j \in DOMAIN calls, calls[j].time = calls[i].time
      PROVE  j = i
  BY <1>1, <1>2, TimesDiffer
<1>3. \A j \in DOMAIN movements : /\ movements[j].stop = calls[j].stop
                             /\ movements[j].time = calls[j].time
                             /\ movements[j].day_offset = calls[j].day
  BY DEF DayIInv, DayInv, OffsetsAreTrue
<1> QED
  BY <1>1, <1>2, <1>3 DEF Matches

(* The schedule does not change under the workers.                            *)
LEMMA ScheduleStands ==
    ASSUME DayIInv, UNCHANGED importer, DayTypeOK', WorkersFit', RecordedForItsCall'
    PROVE  DayIInv'
  BY DEF importer, DayIInv, DayInv, JourneyInOrder, ImporterFits, OffsetsAreTrue

LEMMA DayInitIInv == DayInit => DayIInv
<1> SUFFICES ASSUME DayInit PROVE DayIInv
  OBVIOUS
<1>1. DayTypeOK
  <2>1. /\ calls \in Seq(Call) /\ movements \in Seq(Movement) /\ ts_updates \in Seq(TsUpdate)
        /\ Len(calls) \in 0 .. MaxCalls /\ Len(movements) = Len(calls)
    BY TimesAssumption DEF DayInit
  <2>2. day_offset \in 0 .. 255 /\ ts_offset \in 0 .. 255
    BY DEF DayInit
  <2>3. recorded = {} /\ lost = {}
    BY DEF DayInit
  <2> QED
    BY <2>1, <2>2, <2>3 DEF DayInit, DayTypeOK
<1>2. DOMAIN calls = {} /\ DOMAIN movements = {} /\ DOMAIN ts_updates = {}
  BY DEF DayInit
<1>3. ImporterFits
  BY DEF DayInit, ImporterFits
<1> QED
  BY <1>1, <1>2, <1>3
  DEF DayInit, DayIInv, DayInv, JourneyInOrder, WorkersFit, OffsetsAreTrue,
      RecordedForItsCall

LEMMA ImportCallKeeps ==
    ASSUME DayIInv, ImportCall
    PROVE  DayIInv'
<1> USE DEF DayIInv, DayTypeOK, DayInv
<1>1. PICK call \in Call :
          /\ Follows(call) /\ calls' = Append(calls, call)
          /\ MidnightCheck(call.time)
          /\ movements' = Append(movements, [stop |-> call.stop, time |-> call.time,
                                   day_offset |-> day_offset'])
  BY DEF ImportCall
<1> DEFINE n == Len(calls)
<1>2. /\ n \in Nat /\ n < MaxCalls /\ Len(calls') = n + 1 /\ calls' \in Seq(Call)
      /\ \A i \in 1 .. n : calls'[i] = calls[i] /\ calls[i] \in Call
      /\ calls'[n + 1] = call
  BY <1>1, TimesAssumption DEF ImportCall
<1>3. /\ call.time \in Times /\ call.time \in Int /\ call.time >= 0
      /\ call.day \in {0, 1}
  BY CallFields
<1>4. day_offset' = call.day /\ last_time' = call.time
  <2>1. CASE calls = <<>>
    <3>1. call.day = 0 /\ day_offset = 0 /\ last_time = 0
      BY <1>1, <2>1 DEF Follows, ImporterFits
    <3> QED
      BY <1>1, <1>3, <3>1 DEF MidnightCheck
  <2>2. CASE calls # <<>>
    <3>1. /\ n >= 1 /\ calls[n] \in Call /\ day_offset = calls[n].day
          /\ last_time = calls[n].time
      BY <1>2, <2>2 DEF ImporterFits
    <3>2. calls[n].day = 1 => calls[n].time < calls[1].time
      <4>1. n \in DOMAIN calls
        BY <1>2, <3>1
      <4> QED
        BY <4>1 DEF JourneyInOrder
    <3>3. n # 1 => Before(calls[1], calls[n])
      <4>1. 1 \in DOMAIN calls /\ n \in DOMAIN calls /\ (n # 1 => 1 < n)
        BY <1>2, <3>1
      <4> QED
        BY <4>1 DEF JourneyInOrder
    <3>4. \A k \in {1, n} : calls[k].time \in Int /\ calls[k].day \in {0, 1}
      BY <1>2, <3>1, CallFields
    <3>5. /\ call.day > calls[n].day
             \/ (call.day = calls[n].day /\ call.time > calls[n].time)
          /\ call.day = 0 \/ call.time < calls[1].time
      BY <1>1, <2>2 DEF Follows
    <3>6. call.time < calls[n].time <=> call.day = calls[n].day + 1
      BY <1>3, <3>2, <3>3, <3>4, <3>5 DEF Before
    <3> QED
      BY <1>1, <1>3, <3>1, <3>4, <3>5, <3>6 DEF MidnightCheck
  <2> QED
    BY <2>1, <2>2
<1>5. /\ movements' \in Seq(Movement) /\ Len(movements') = n + 1
      /\ \A i \in 1 .. n : movements'[i] = movements[i]
      /\ movements'[n + 1] = [stop |-> call.stop, time |-> call.time,
                         day_offset |-> call.day]
  <2>1. [stop |-> call.stop, time |-> call.time, day_offset |-> call.day]
          \in Movement
    BY <1>3 DEF Movement, Call
  <2> QED
    BY <1>1, <1>2, <1>4, <2>1
<1>6. DayTypeOK'
  <2>1. /\ calls' \in Seq(Call) /\ Len(calls') \in 0 .. MaxCalls
        /\ movements' \in Seq(Movement) /\ Len(movements') = Len(calls')
        /\ day_offset' \in 0 .. 255 /\ last_time' \in Times \cup {0}
    BY <1>2, <1>3, <1>4, <1>5, TimesAssumption
  <2>2. UNCHANGED <<stored, crosses_midnight, cached, ts_updates, sending, ts_offset,
                    ts_last, recorded, lost>>
    BY DEF ImportCall, darwin
  <2> QED
    BY <2>1, <2>2
<1>7. OffsetsAreTrue'
  <2>1. DOMAIN movements' = 1 .. n + 1 /\ DOMAIN movements = 1 .. n
    BY <1>2, <1>5
  <2>2. ASSUME NEW i \in 1 .. n
        PROVE  /\ movements'[i].day_offset = calls'[i].day
               /\ movements'[i].stop = calls'[i].stop /\ movements'[i].time = calls'[i].time
    <3>1. movements'[i] = movements[i] /\ calls'[i] = calls[i] /\ i \in DOMAIN movements
      BY <1>2, <1>5, <2>1
    <3> QED
      BY <3>1 DEF OffsetsAreTrue
  <2>3. calls'[n + 1] = call
    BY <1>2
  <2>4. \A i \in 1 .. n + 1 : i \in 1 .. n \/ i = n + 1
    BY <1>2
  <2> QED
    BY <1>5, <2>1, <2>2, <2>3, <2>4 DEF OffsetsAreTrue
<1>8. JourneyInOrder'
  <2>1. ASSUME NEW i \in 1 .. n PROVE Before(calls[i], call)
    <3>1. i # n => Before(calls[i], calls[n])
      BY <1>2 DEF JourneyInOrder
    <3>2. /\ calls # <<>> /\ n \in 1 .. n
          /\ \A k \in {i, n} : calls[k].time \in Int /\ calls[k].day \in {0, 1}
      BY <1>2, CallFields
    <3>3. Before(calls[n], call)
      BY <1>1, <3>2 DEF Before, Follows
    <3> QED
      BY <1>3, <3>1, <3>2, <3>3 DEF Before
  <2>2. \A i, j \in DOMAIN calls' : i < j => Before(calls'[i], calls'[j])
    BY <1>2, <2>1 DEF JourneyInOrder
  <2>3. call.day = 1 => n >= 1 /\ call.time < calls[1].time
    BY <1>1, <1>2 DEF Follows
  <2>4. \A i \in DOMAIN calls' :
            calls'[i].day = 1 => calls'[i].time < calls'[1].time
    BY <1>2, <2>3 DEF JourneyInOrder
  <2> QED
    BY <2>2, <2>4 DEF JourneyInOrder
<1>9. ImporterFits'
  BY <1>2, <1>4 DEF ImporterFits
<1>10. WorkersFit' /\ RecordedForItsCall'
  BY <1>2 DEF WorkersFit, RecordedForItsCall, ImportCall, darwin
<1> QED
  BY <1>6, <1>7, <1>8, <1>9, <1>10

(* A report is of a call that the schedule has, on the day it is made.        *)
LEMMA ReportKeeps ==
    ASSUME DayIInv, NEW i \in DOMAIN calls, Report(i)
    PROVE  DayIInv'
<1>1. i \in 1 .. MaxCalls /\ calls[i] \in Call
  BY TimesAssumption DEF DayIInv, DayTypeOK
<1>2. Matches(calls[i].stop, calls[i].time, TrustOffset(i)) = {i}
  BY <1>1, MatchesItsCall DEF TrustOffset, Call
<1>3. lost' = lost /\ recorded' = recorded \cup {<<"TRUST", i, i>>}
  BY <1>2 DEF Report
<1>4. DayTypeOK' /\ WorkersFit'
  BY <1>1, <1>3
  DEF Report, importer, darwin, DayIInv, DayTypeOK, DayInv, WorkersFit
<1>5. RecordedForItsCall'
  BY <1>3 DEF RecordedForItsCall, DayIInv, DayInv
<1> QED
  BY <1>4, <1>5, ScheduleStands DEF Report

LEMMA FlattenKeeps ==
    ASSUME DayIInv, NEW i \in DOMAIN calls, Flatten(i)
    PROVE  DayIInv'
<1>1. i \in 1 .. MaxCalls /\ calls[i] \in Call
  BY TimesAssumption DEF DayIInv, DayTypeOK
<1>2. ts_offset' \in 0 .. 255
  <2>1. \A k \in Int : k % 256 \in 0 .. 255
    OBVIOUS
  <2>2. ts_offset + 1 \in Int /\ ts_offset - 1 \in Int /\ ts_offset \in 0 .. 255
    BY DEF DayIInv, DayTypeOK
  <2> QED
    BY <2>1, <2>2 DEF Flatten, NextOffset
<1>3. ts_last' \in Times
  BY <1>1 DEF Flatten, LastOf, DayIInv, DayTypeOK, Call
<1>4. [call |-> i, day_offset |-> ts_offset'] \in TsUpdate
  BY <1>1, <1>2 DEF TsUpdate
<1>5. DayTypeOK'
  BY <1>2, <1>3, <1>4 DEF Flatten, importer, DayIInv, DayTypeOK
<1>6. WorkersFit'
  BY <1>4 DEF Flatten, importer, DayIInv, DayTypeOK, DayInv, WorkersFit
<1> QED
  BY <1>5, <1>6, ScheduleStands
  DEF Flatten, DayIInv, DayInv, RecordedForItsCall

(* An estimate with a wrong offset finds nothing; it never finds another call. *)
LEMMA SendUpdateKeeps ==
    ASSUME DayIInv, SendUpdate
    PROVE  DayIInv'
<1> DEFINE update == Head(ts_updates)
           rows == Matches(calls[update.call].stop, calls[update.call].time,
                           update.day_offset)
<1>1. /\ update.call \in DOMAIN calls /\ update.call \in 1 .. MaxCalls
      /\ Tail(ts_updates) \in Seq(TsUpdate)
      /\ \A n \in DOMAIN Tail(ts_updates) : Tail(ts_updates)[n] = ts_updates[n + 1]
                                         /\ n + 1 \in DOMAIN ts_updates
  <2>1. /\ ts_updates # <<>> /\ ts_updates \in Seq(TsUpdate)
        /\ \A n \in DOMAIN ts_updates : ts_updates[n].call \in DOMAIN calls
    BY DEF SendUpdate, DayIInv, DayTypeOK, DayInv, WorkersFit
  <2>2. update = ts_updates[1] /\ 1 \in DOMAIN ts_updates /\ update \in TsUpdate
    BY <2>1
  <2>3. /\ Tail(ts_updates) \in Seq(TsUpdate)
        /\ \A n \in DOMAIN Tail(ts_updates) : Tail(ts_updates)[n] = ts_updates[n + 1]
                                           /\ n + 1 \in DOMAIN ts_updates
    BY <2>1
  <2> QED
    BY <2>1, <2>2, <2>3 DEF TsUpdate
<1>2. rows \subseteq {update.call}
  BY <1>1, MatchesItsCall
<1>3. recorded' \subseteq recorded \cup {<<"DARWIN", update.call, update.call>>}
  BY <1>2 DEF SendUpdate
<1>4. DayTypeOK'
  BY <1>1, <1>3 DEF SendUpdate, importer, DayIInv, DayTypeOK
<1>5. WorkersFit'
  BY <1>1 DEF SendUpdate, importer, DayIInv, DayInv, WorkersFit
<1>6. RecordedForItsCall'
  BY <1>3 DEF SendUpdate, DayIInv, DayInv, RecordedForItsCall
<1> QED
  BY <1>4, <1>5, <1>6, ScheduleStands DEF SendUpdate

(* The steps that record nothing and take up no call.                         *)
LEMMA OtherStepsKeep ==
    ASSUME DayIInv,
           Activate \/ Restart \/ MissingTimings \/ StartSending \/ EndTs
    PROVE  DayIInv'
<1>1. /\ UNCHANGED <<importer, recorded, lost>>
      /\ ts_updates' = ts_updates \/ ts_updates' = <<>>
  BY DEF Activate, Restart, MissingTimings, StartSending, EndTs, Forget, darwin
<1>2. DayTypeOK'
  <2>1. <<>> \in Seq(TsUpdate) /\ 0 \in 0 .. 255
    OBVIOUS
  <2>2. /\ stored' \in BOOLEAN /\ crosses_midnight' \in BOOLEAN
        /\ cached' \in BOOLEAN /\ sending' \in BOOLEAN
        /\ ts_updates' \in Seq(TsUpdate) /\ ts_offset' \in 0 .. 255
        /\ ts_last' \in Times \cup {-1}
    <3>1. CASE Activate
      BY <3>1 DEF Activate, darwin, DayIInv, DayTypeOK
    <3>2. CASE Restart
      BY <2>1, <3>2 DEF Restart, DayIInv, DayTypeOK
    <3>3. CASE MissingTimings
      BY <2>1, <3>3 DEF MissingTimings, Forget, DayIInv, DayTypeOK
    <3>4. CASE StartSending
      BY <3>4 DEF StartSending, DayIInv, DayTypeOK
    <3>5. CASE EndTs
      BY <2>1, <3>5 DEF EndTs, Forget, DayIInv, DayTypeOK
    <3> QED
      BY <3>1, <3>2, <3>3, <3>4, <3>5
  <2> QED
    BY <1>1, <2>2 DEF importer, DayIInv, DayTypeOK
<1>3. WorkersFit' /\ RecordedForItsCall'
  BY <1>1 DEF importer, DayIInv, DayInv, WorkersFit, RecordedForItsCall
<1> QED
  BY <1>1, <1>2, <1>3, ScheduleStands

LEMMA DayNextKeeps == DayIInv /\ [DayNext]_dayvars => DayIInv'
<1> SUFFICES ASSUME DayIInv, [DayNext]_dayvars PROVE DayIInv'
  OBVIOUS
<1>1. CASE UNCHANGED dayvars
  <2>1. UNCHANGED <<importer, stored, crosses_midnight, cached, darwin, recorded, lost>>
    BY <1>1 DEF dayvars
  <2>2. DayTypeOK' /\ WorkersFit' /\ RecordedForItsCall'
    BY <2>1
    DEF importer, darwin, DayIInv, DayTypeOK, DayInv, WorkersFit, RecordedForItsCall
  <2> QED
    BY <2>1, <2>2, ScheduleStands
<1> QED
  BY <1>1, ImportCallKeeps, ReportKeeps, FlattenKeeps, SendUpdateKeeps,
     OtherStepsKeep DEF DayNext

(* Types and the inductive invariant, in every reachable state.               *)
THEOREM DayCorrect == DaySpec => [](DayTypeOK /\ DayInv)
<1>1. DayInit => DayIInv
  BY DayInitIInv
<1>2. DayIInv /\ [DayNext]_dayvars => DayIInv'
  BY DayNextKeeps
<1> QED
  BY <1>1, <1>2, PTL DEF DaySpec, DayIInv

(* midnight_check gives every call of a journey of less than a day its day.   *)
THEOREM ImportedOffsets == DaySpec => []OffsetsAreTrue
<1>1. DayInv => OffsetsAreTrue
  BY DEF DayInv
<1> QED
  BY <1>1, DayCorrect, PTL

(* Reports of a train that was found are never lost, and nothing is recorded  *)
(* for a call that the message was not about.                                 *)
THEOREM Recorded == DaySpec => []RecordedForItsCall
<1>1. DayInv => RecordedForItsCall
  BY DEF DayInv
<1> QED
  BY <1>1, DayCorrect, PTL

(* Offsets stay numbers of eight bits, whatever the journey and its messages.  *)
THEOREM DayTyped == DaySpec => []DayTypeOK
<1>1. DayTypeOK /\ DayInv => DayTypeOK
  OBVIOUS
<1> QED
  BY <1>1, DayCorrect, PTL

-----------------------------------------------------------------------------
(* The estimates of a TS message                                            *)

(* A location later the same day, and not 18 hours later, moves no offset.     *)
LEMMA SameDayStays ==
    ASSUME NEW time \in Int, ts_last \in Int, time > ts_last, time < ts_last + 18
    PROVE  NextOffset(time) = ts_offset
  BY DEF NextOffset

LEMMA FlattenFits ==
    ASSUME DayIInv, EstimatesFit, SameDayEstimatesMatch, NEW i \in DOMAIN calls, Flatten(i)
    PROVE  EstimatesFit' /\ SameDayEstimatesMatch'
<1> DEFINE n == Len(ts_updates)
           update == [call |-> i, day_offset |-> ts_offset']
<1>1. /\ ~sending /\ ~sending' /\ calls' = calls
      /\ ts_updates' = Append(ts_updates, update)
      /\ ts_offset' = NextOffset(calls[i].time) /\ ts_last' = LastOf(calls[i].time)
      /\ \A k \in DOMAIN ts_updates : ts_updates[k].call < i
  BY DEF Flatten, importer
<1>2. /\ n \in Nat /\ Len(ts_updates') = n + 1 /\ DOMAIN ts_updates' = 1 .. n + 1
      /\ DOMAIN ts_updates = 1 .. n /\ ts_updates'[n + 1] = update
      /\ \A k \in 1 .. n : ts_updates'[k] = ts_updates[k]
      /\ ts_updates = <<>> <=> n = 0
      /\ ts_updates' # <<>>
  <2> HIDE DEF update
  <2>1. ts_updates \in Seq(TsUpdate) /\ n \in Nat
    BY DEF DayIInv, DayTypeOK
  <2>2. /\ Len(Append(ts_updates, update)) = n + 1
        /\ DOMAIN Append(ts_updates, update) = 1 .. n + 1 /\ DOMAIN ts_updates = 1 .. n
        /\ Append(ts_updates, update)[n + 1] = update
    BY <2>1
  <2>3. \A k \in 1 .. n : Append(ts_updates, update)[k] = ts_updates[k]
    BY <2>1
  <2>4. ts_updates = <<>> <=> n = 0
    BY <2>1
  <2>5. Append(ts_updates, update) # <<>>
    BY <2>1, <2>2
  <2> QED
    BY <1>1, <2>1, <2>2, <2>3, <2>4, <2>5
<1>3. /\ \A k \in 1 .. n : ts_updates[k].call \in DOMAIN calls
      /\ \A k \in DOMAIN calls : /\ calls[k].time \in Int /\ calls[k].time >= 0
                               /\ k \in Int
  <2>1. \A k \in DOMAIN calls : calls[k] \in Call /\ k \in Int
    BY DEF DayIInv, DayTypeOK
  <2>2. \A k \in DOMAIN ts_updates : ts_updates[k].call \in DOMAIN calls
    BY DEF DayIInv, DayInv, WorkersFit
  <2> QED
    BY <1>2, <2>1, <2>2, CallFields
<1> HIDE DEF n, update
<1>4. IF n = 0 THEN ts_offset = 0 /\ ts_last = -1
      ELSE /\ ts_last = calls[ts_updates[1].call].time /\ ts_last >= 0 /\ ts_last \in Int
           /\ ts_offset = ts_updates[n].day_offset
           /\ ts_updates[1].call \in DOMAIN calls /\ ts_updates[1].call < i
  <2>1. n # 0 => 1 \in 1 .. n
    BY <1>2
  <2> QED
    BY <1>1, <1>2, <1>3, <2>1 DEF EstimatesFit, n
<1>5. ts_last' = calls[ts_updates'[1].call].time
  <2>1. CASE n = 0
    BY <1>1, <1>2, <1>4, <2>1 DEF LastOf, update
  <2>2. CASE n # 0
    BY <1>1, <1>2, <1>4, <2>2 DEF LastOf
  <2> QED
    BY <2>1, <2>2
<1>6. \A k, m \in DOMAIN ts_updates' : k < m => ts_updates'[k].call < ts_updates'[m].call
  <2> SUFFICES ASSUME NEW k \in 1 .. n + 1, NEW m \in 1 .. n + 1, k < m
               PROVE  ts_updates'[k].call < ts_updates'[m].call
    BY <1>2
  <2>1. k \in 1 .. n /\ (m \in 1 .. n \/ m = n + 1)
    BY <1>2
  <2> QED
    BY <1>1, <1>2, <2>1 DEF EstimatesFit, update
<1>7. EstimatesFit'
  BY <1>1, <1>2, <1>5, <1>6 DEF EstimatesFit, update
<1>8. SameDayEstimatesMatch'
  <2> DEFINE SameDay(k, us) == /\ calls[us[k].call].day = 0
                               /\ calls[us[k].call].time < calls[us[1].call].time + 18
  <2> SUFFICES ASSUME NEW m \in 1 .. n + 1, \A k \in 1 .. m : SameDay(k, ts_updates')
               PROVE  ts_updates'[m].day_offset = 0
    BY <1>1, <1>2 DEF SameDayEstimatesMatch
  <2>1. ASSUME NEW j \in 1 .. n, \A k \in 1 .. j : SameDay(k, ts_updates')
        PROVE  ts_updates[j].day_offset = 0
    <3>1. \A k \in 1 .. j : SameDay(k, ts_updates)
      BY <1>2, <2>1
    <3> QED
      BY <1>1, <1>2, <3>1 DEF SameDayEstimatesMatch
  <2>2. CASE m # n + 1
    BY <1>2, <2>1, <2>2
  <2>3. CASE m = n + 1
    <3>1. CASE n = 0
      BY <1>1, <1>2, <1>4, <2>3, <3>1 DEF update, NextOffset
    <3>2. CASE n # 0
      <4> DEFINE first == ts_updates[1].call
      <4>1. /\ first \in DOMAIN calls /\ first < i /\ ts_last = calls[first].time
            /\ ts_last \in Int /\ calls[i].time \in Int
        BY <1>3, <1>4, <3>2
      <4>2. 1 \in 1 .. m /\ m \in 1 .. m /\ n \in 1 .. n /\ ts_updates'[1].call = first
        BY <1>2, <2>3, <3>2
      <4>3. /\ calls[first].day = 0 /\ calls[i].day = 0
            /\ calls[i].time < calls[first].time + 18
        BY <1>2, <2>3, <4>2 DEF update
      <4>4. calls[i].time > calls[first].time
        BY <4>1, <4>3 DEF DayIInv, DayInv, JourneyInOrder, Before
      <4>5. ts_offset' = ts_offset
        BY <1>1, <4>1, <4>3, <4>4, SameDayStays
      <4>6. ts_updates[n].day_offset = 0
        <5>1. \A k \in 1 .. n : k \in 1 .. m
          BY <1>2, <2>3
        <5> QED
          BY <2>1, <4>2, <5>1
      <4> QED
        BY <1>2, <1>4, <2>3, <3>2, <4>5, <4>6 DEF update
    <3> QED
      BY <3>1, <3>2
  <2> QED
    BY <2>2, <2>3
<1> QED
  BY <1>7, <1>8

(* No other step adds to a message: it is sent, given up or left as it is.     *)
LEMMA EstimatesKept ==
    ASSUME DayIInv, EstimatesFit, SameDayEstimatesMatch, [DayNext]_dayvars
    PROVE  EstimatesFit' /\ SameDayEstimatesMatch'
<1>1. ASSUME ts_updates' = <<>>, ts_offset' = 0, ts_last' = -1
      PROVE  EstimatesFit' /\ SameDayEstimatesMatch'
  BY <1>1 DEF EstimatesFit, SameDayEstimatesMatch
<1>2. ASSUME sending' = TRUE
      PROVE  EstimatesFit' /\ SameDayEstimatesMatch'
  BY <1>2 DEF EstimatesFit, SameDayEstimatesMatch
<1>3. ASSUME UNCHANGED <<sending, ts_updates, ts_offset, ts_last>>,
             \A i \in DOMAIN calls : calls'[i] = calls[i]
      PROVE  EstimatesFit' /\ SameDayEstimatesMatch'
  <2>1. \A n \in DOMAIN ts_updates : calls'[ts_updates[n].call] = calls[ts_updates[n].call]
    BY <1>3 DEF DayIInv, DayInv, WorkersFit
  <2>2. ts_updates # <<>> => 1 \in DOMAIN ts_updates
    BY DEF DayIInv, DayTypeOK
  <2>3. \A n \in DOMAIN ts_updates : \A k \in 1 .. n : k \in DOMAIN ts_updates
    BY DEF DayIInv, DayTypeOK
  <2>4. EstimatesFit'
    BY <1>3, <2>1, <2>2 DEF EstimatesFit
  <2>5. SameDayEstimatesMatch'
    BY <1>3, <2>1, <2>2, <2>3 DEF SameDayEstimatesMatch
  <2> QED
    BY <2>4, <2>5
<1>4. CASE ImportCall
  <2>1. PICK call \in Call : calls' = Append(calls, call)
    BY <1>4 DEF ImportCall
  <2>2. \A i \in DOMAIN calls : calls'[i] = calls[i]
    BY <2>1 DEF DayIInv, DayTypeOK
  <2> QED
    BY <1>3, <1>4, <2>2 DEF ImportCall, darwin
<1>5. CASE Activate \/ (\E i \in DOMAIN calls : Report(i)) \/ UNCHANGED dayvars
  BY <1>3, <1>5 DEF Activate, Report, importer, darwin, dayvars
<1>6. CASE Restart \/ MissingTimings \/ EndTs
  BY <1>1, <1>6 DEF Restart, MissingTimings, EndTs, Forget
<1>7. CASE StartSending \/ SendUpdate
  BY <1>2, <1>7 DEF StartSending, SendUpdate, DayIInv, DayTypeOK
<1> QED
  BY <1>4, <1>5, <1>6, <1>7, FlattenFits DEF DayNext

(* As long as a TS message stays on the first day, less than 18 hours after its *)
(* first location, the Darwin worker gives the offset of the schedule.         *)
THEOREM SameDayEstimates == DaySpec => []SameDayEstimatesMatch
<1>1. DayInit => EstimatesFit /\ SameDayEstimatesMatch
  BY DEF DayInit, EstimatesFit, SameDayEstimatesMatch
<1>2. DayIInv /\ (EstimatesFit /\ SameDayEstimatesMatch) /\ [DayNext]_dayvars
        => (EstimatesFit /\ SameDayEstimatesMatch)'
  BY EstimatesKept
<1>3. DaySpec => []DayIInv
  BY DayCorrect DEF DayIInv
<1> QED
  BY <1>1, <1>2, <1>3, PTL DEF DaySpec
==============================================================================
