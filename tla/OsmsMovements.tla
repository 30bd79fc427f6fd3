----------------------------- MODULE OsmsMovements -----------------------------
(***************************************************************************)
(* The train_movements of osms-nrod: trains that run by one schedule on        *)
(* different dates, reported by TRUST, which estimates the calls to come, and  *)
(* by Darwin, which may have a schedule of its own for a train.  Workers share *)
(* the tables; each message is a READ COMMITTED transaction of several          *)
(* statements, or for Darwin two, whose rows nobody else sees before it         *)
(* commits.  mvt_query reads what is shown of a call.  A row is unique in train, *)
(* call and source.                                                           *)
(***************************************************************************)
EXTENDS Integers, FiniteSets

CONSTANTS
    Workers,        \* threads of osms-nrod
    OsmsTrains,     \* trains of the schedule, one a day
    BaseStops,      \* its calls, in order
    ExtraStops,     \* calls that only a Darwin schedule may have
    TimeOf,         \* the time of day of a call
    MaxMessages,    \* bound on the messages of a behaviour
    MaxLocations    \* bound on the locations of a TS message

OsmsStops == BaseStops \cup ExtraStops
Versions == -1 .. MaxMessages

ASSUME OsmsAssumption ==
    /\ OsmsStops \subseteq Nat
    /\ TimeOf \in [BaseStops -> Nat]
    /\ MaxMessages \in Nat /\ MaxLocations \in Nat

VARIABLES
    tmvts,      \* train_movements, as committed
    dsched,     \* the movements of a train's Darwin schedule, if it has one
    messages,   \* messages received
    hand,       \* the transaction a worker is in
    ended,      \* the columns cancelled and terminated of a train
    last,       \* what a train was told last, and at which stop
    asked,      \* the call a mvt_query is at: its train, and its rows
    unread,     \* the rows it has not considered
    expected, actual    \* sources of the times it shows

osmsvars == <<tmvts, dsched, messages, hand, ended, last, asked, unread, expected, actual>>
query_of == <<asked, unread, expected, actual>>

\* A call: its stop, and 0 for the schedule's own or the message that inserted it.
OsmsCall == OsmsStops \X Versions
Sources == {"TRUST", "DARWIN", "NAIVE"}
Row == [train : OsmsTrains, mvt : OsmsCall, source : Sources, estimated : BOOLEAN]
Key(r) == <<r.train, r.mvt, r.source>>
Keys(rows) == {Key(r) : r \in rows}
RowKey == OsmsTrains \X OsmsCall \X Sources
\* What a location of a TS message has: see TsLocation.
Kinds == {"at", "et", "removed"}
Location == [stop : OsmsStops, kind : Kinds]
NoQuestion == [train |-> {}, rows |-> {}]

\* A transaction: the statement it is at, what the message says, the rows that the
\* DELETE it is at has found, those it has written and the keys of those it has
\* deleted.  (History: the keys others have committed of its train since.)
Transaction ==
    [step : {"idle", "scan", "delete", "report", "estimate", "locations", "commit"},
     train : SUBSET OsmsTrains, event : {"nothing", "cancelled", "report", "end", "darwin"},
     at : SUBSET BaseStops, nre : BOOLEAN, locations : SUBSET Location,
     doomed : SUBSET RowKey, put : SUBSET Row, gone : SUBSET RowKey, missed : SUBSET RowKey]
Opened(step, train, event, at, nre, locations) ==
    [step |-> step, train |-> train, event |-> event, at |-> at, nre |-> nre,
     locations |-> locations, doomed |-> {}, put |-> {}, gone |-> {}, missed |-> {}]
NoTransaction == Opened("idle", {}, "nothing", {}, FALSE, {})

OsmsTypeOK ==
    /\ tmvts \subseteq Row
    /\ \A q, r \in tmvts : Key(q) = Key(r) => q = r
    /\ dsched \in [OsmsTrains -> SUBSET OsmsCall]
    /\ messages \in 0 .. MaxMessages
    /\ hand \in [Workers -> Transaction]
    /\ ended \in [OsmsTrains -> SUBSET {"cancelled", "terminated"}]
    /\ last \in [OsmsTrains -> [event : {"nothing", "cancelled", "report", "end", "darwin"},
                                at : SUBSET BaseStops, slipped : SUBSET RowKey]]
    /\ asked \in [train : SUBSET OsmsTrains, rows : SUBSET Row]
    /\ unread \subseteq asked.rows
    /\ {expected, actual} \subseteq {"none", "TRUST", "DARWIN", "NAIVE"}

OsmsInit ==
    /\ tmvts = {} /\ dsched = [t \in OsmsTrains |-> {}]
    /\ messages = 0 /\ hand = [w \in Workers |-> NoTransaction]
    /\ ended = [t \in OsmsTrains |-> {}]
    /\ last = [t \in OsmsTrains |-> [event |-> "nothing", at |-> {}, slipped |-> {}]]
    /\ asked = NoQuestion /\ unread = {} /\ expected = "none" /\ actual = "none"

-----------------------------------------------------------------------------
(* Transactions                                                             *)

\* What a transaction sees: what is committed, under what it has written itself.
Held(w) == Keys(hand[w].put) \cup hand[w].gone
View(w) == {r \in tmvts : Key(r) \notin Held(w)} \cup hand[w].put
EstimatesOf(t) == {r \in tmvts : r.train = t /\ r.estimated}

\* A statement that comes to a row in the hands of another waits for its commit.
Free(w, keys) == \A v \in Workers \ {w} : Held(v) \cap keys = {}

\* TrainMvt::insert_self
Upsert(w, rows) == {o \in hand[w].put : Key(o) \notin Keys(rows)} \cup rows

Begin(w, t, step, event, at, nre, locations) ==
    /\ messages < MaxMessages /\ messages' = messages + 1
    /\ hand[w].step = "idle"
    /\ hand' = [hand EXCEPT ![w] = Opened(step, {t}, event, at, nre, locations)]
    /\ UNCHANGED <<tmvts, dsched, ended, last, query_of>>

\* trans.commit(): all is seen at once.  A TS message without a row tells nothing.
Commit(w) ==
    LET h == hand[w]
    IN  /\ h.step \in {"commit", "locations"} /\ h.locations = {}
        /\ tmvts' = View(w)
        /\ ended' = [t \in OsmsTrains |-> ended[t] \cup
                       (IF t \notin h.train THEN {}
                        ELSE {c \in {"cancelled"} : h.event = "cancelled"}
                             \cup {c \in {"terminated"} : h.event = "end"})]
        /\ last' = [t \in OsmsTrains |->
                       IF t \in h.train /\ (h.event = "darwin" => h.put # {})
                       THEN [event |-> h.event, at |-> h.at, slipped |-> h.missed]
                       ELSE last[t]]
        /\ hand' = [v \in Workers |->
                       IF v = w THEN NoTransaction
                       ELSE IF hand[v].train = h.train
                       THEN [hand[v] EXCEPT !.missed = @ \cup Keys(h.put)]
                       ELSE hand[v]]
        /\ UNCHANGED <<dsched, messages, query_of>>

\* An error, as where two transactions wait for each other, undoes all of it.
Rollback(w) ==
    /\ hand[w].step # "idle"
    /\ hand' = [hand EXCEPT ![w] = NoTransaction]
    /\ UNCHANGED <<tmvts, dsched, messages, ended, last, query_of>>

-----------------------------------------------------------------------------
(* TRUST                                                                    *)

BeginCancellation(w, t) == Begin(w, t, "scan", "cancelled", {}, FALSE, {})
\* Mutant: the estimates of a train that terminates are left.
BeginLeaving(w, t, s, terminated) ==
    Begin(w, t, "report", IF terminated THEN "end" ELSE "report", {s}, FALSE, {})
BeginMovement(w, t, s, terminated) ==
    Begin(w, t, IF terminated THEN "scan" ELSE "report",
          IF terminated THEN "end" ELSE "report", {s}, FALSE, {})

\* The row of the train is updated, which others that would have to wait for, and
\* the DELETE of its estimates starts: it goes by what is committed now.
HasTrainRow(v, t) ==
    /\ hand[v].train = {t} /\ hand[v].event \in {"cancelled", "end"}
    /\ hand[v].step # "scan"
ScanEstimates(w) ==
    /\ hand[w].step = "scan"
    /\ \E t \in hand[w].train :
          /\ \A v \in Workers \ {w} : ~HasTrainRow(v, t)
          /\ hand' = [hand EXCEPT ![w] = [@ EXCEPT !.doomed = Keys(EstimatesOf(t)),
                                                  !.missed = {}, !.step = "delete"]]
    /\ UNCHANGED <<tmvts, dsched, messages, ended, last, query_of>>

AfterDelete(w) == IF hand[w].event = "cancelled" THEN "commit" ELSE "report"
\* Mutant: what was reported goes too.
DeleteAllRows(w) ==
    /\ hand[w].step = "delete"
    /\ LET rows == {r \in tmvts : {r.train} = hand[w].train}
       IN  /\ Free(w, Keys(rows))
           /\ hand' = [hand EXCEPT ![w] = [@ EXCEPT !.gone = Keys(rows), !.doomed = {},
                                                   !.step = AfterDelete(w)]]
    /\ UNCHANGED <<tmvts, dsched, messages, ended, last, query_of>>
\* When nobody else has them in hand, the rows go that it found and that are
\* estimates still; others that were committed meanwhile stay.
DeleteEstimates(w) ==
    /\ hand[w].step = "delete"
    /\ Free(w, hand[w].doomed)
    /\ LET still == {r \in tmvts : Key(r) \in hand[w].doomed /\ r.estimated}
       IN  hand' = [hand EXCEPT ![w] = [@ EXCEPT !.gone = Keys(still), !.doomed = {},
                                                !.step = AfterDelete(w)]]
    /\ UNCHANGED <<tmvts, dsched, messages, ended, last, query_of>>

\* The calls that are estimated after one: those later in the day.
Remaining(s) == {c \in BaseStops : TimeOf[c] > TimeOf[s]}
\* The report, of a call that is found, and no estimate of that call any more, of
\* no train.
RecordReport(w) ==
    /\ hand[w].step = "report"
    /\ \E t \in hand[w].train, s \in hand[w].at :
          LET report == [train |-> t, mvt |-> <<s, 0>>, source |-> "TRUST",
                         estimated |-> FALSE]
              naive == {r \in tmvts : r.mvt = <<s, 0>> /\ r.source = "NAIVE"}
          IN  /\ Free(w, {Key(report)} \cup Keys(naive))
              /\ hand' = [hand EXCEPT ![w] =
                             [@ EXCEPT !.put = Upsert(w, {report}),
                                       !.gone = hand[w].gone \cup Keys(naive), !.step = "estimate"]]
    /\ UNCHANGED <<tmvts, dsched, messages, ended, last, query_of>>

\* Estimates of those to come, of a terminated train too.
Estimate(w) ==
    /\ hand[w].step = "estimate"
    /\ \E t \in hand[w].train, s \in hand[w].at :
          LET estimates == {[train |-> t, mvt |-> <<c, 0>>, source |-> "NAIVE",
                             estimated |-> TRUE] : c \in Remaining(s)}
          IN  /\ Free(w, Keys(estimates))
              /\ hand' = [hand EXCEPT ![w] = [@ EXCEPT !.put = Upsert(w, estimates),
                                                      !.step = "commit"]]
    /\ UNCHANGED <<tmvts, dsched, messages, ended, last, query_of>>

-----------------------------------------------------------------------------
(* Darwin                                                                   *)

\* process_schedule, of a worker that is free: nothing if the train's own schedule
\* has the same calls.  Sets of movements are compared by hash first, which is over
\* id and all, and a movement of the message has no id (-1): A \ B is all of A, B \ A
\* all of B.  The rows of movements that are deleted go with them.  (One step, for
\* all that it reads it has locked, FOR UPDATE: rows of others that are not
\* committed hold its movements, and it waits for them.)
ProcessSchedule(t, stops) ==
    /\ messages < MaxMessages /\ messages' = messages + 1
    /\ \E w \in Workers : hand[w].step = "idle"
    /\ \A w \in Workers : ~HasTrainRow(w, t)
    /\ stops # BaseStops
    /\ LET wanted == {<<s, -1>> : s \in stops}
           deleted == dsched[t] \ wanted
           inserted == {<<w[1], messages'>> : w \in wanted \ dsched[t]}
       IN  /\ \A w \in Workers : \A k \in Held(w) : k[2] \notin deleted
           /\ dsched' = [dsched EXCEPT ![t] = (@ \ deleted) \cup inserted]
           /\ tmvts' = {r \in tmvts : r.mvt \notin deleted}
    /\ UNCHANGED <<hand, ended, last, query_of>>

\* process_ts reads the train, with the id of its Darwin schedule, if it has one
\* by then.
BeginTs(w, t, locations) ==
    Begin(w, t, "locations", "darwin", {}, dsched[t] # {}, locations)

\* Mutant: the Darwin schedule is looked at first.
FoundDarwinFirst(w, t, s) ==
    LET own == {c \in dsched[t] : c[1] = s}
    IN  IF own # {} THEN own ELSE {c \in {<<s, 0>>} : s \in BaseStops}
\* The movement a location is about, in the train's schedule or else in Darwin's.
FoundMovement(w, t, s) ==
    IF s \in BaseStops THEN {<<s, 0>>}
    ELSE {c \in dsched[t] : hand[w].nre /\ c[1] = s}

\* Each location in a savepoint.  One with an actual time, one with an estimate, or
\* one that takes an actual time back, of any train, and has an estimate instead ...
RecordLocation(w, l) ==
    \E t \in hand[w].train : \E mvt \in FoundMovement(w, t, l.stop) :
        LET row == [train |-> t, mvt |-> mvt, source |-> "DARWIN",
                    estimated |-> l.kind # "at"]
            removed == {r \in View(w) : /\ l.kind = "removed"
                                        /\ r.mvt = mvt /\ r.source = "DARWIN"}
        IN  /\ Free(w, {Key(row)} \cup Keys(removed))
            /\ hand' = [hand EXCEPT ![w] =
                           [@ EXCEPT !.put = Upsert(w, {row}),
                                     !.gone = hand[w].gone \cup Keys(removed),
                                     !.locations = hand[w].locations \ {l}]]
\* ... or it is skipped: it has no useful time, no movement is found, or an error
\* undoes it.
SkipLocation(w, l) ==
    hand' = [hand EXCEPT ![w] = [@ EXCEPT !.locations = hand[w].locations \ {l}]]
TsLocation(w, l) ==
    /\ hand[w].step = "locations" /\ l \in hand[w].locations
    /\ RecordLocation(w, l) \/ SkipLocation(w, l)
    /\ UNCHANGED <<tmvts, dsched, messages, ended, last, query_of>>

-----------------------------------------------------------------------------
(* mvt_query, for a call of a train's schedules                              *)

AskCall(t, mvt) ==
    /\ asked = NoQuestion
    /\ asked' = [train |-> {t}, rows |-> {r \in tmvts : r.train = t /\ r.mvt = mvt}]
    /\ unread' = asked'.rows
    /\ mvt[2] = 0 \/ unread' # {}       \* a Darwin schedule's, without rows: rejected
    /\ UNCHANGED <<tmvts, dsched, messages, hand, ended, last, expected, actual>>

\* Mutant: the last estimate considered is shown.
ConsiderLast(r) ==
    /\ r \in unread /\ unread' = unread \ {r}
    /\ expected' = IF r.estimated THEN r.source ELSE expected
    /\ actual' = IF ~r.estimated /\ actual # "TRUST" THEN r.source ELSE actual
    /\ UNCHANGED <<tmvts, dsched, messages, hand, ended, last, asked>>
\* Rows come in any order.
ConsiderRow(r) ==
    /\ r \in unread /\ unread' = unread \ {r}
    /\ expected' = IF r.estimated /\ expected # "DARWIN" THEN r.source ELSE expected
    /\ actual' = IF ~r.estimated /\ actual # "TRUST" THEN r.source ELSE actual
    /\ UNCHANGED <<tmvts, dsched, messages, hand, ended, last, asked>>

Show ==
    /\ asked # NoQuestion /\ unread = {}
    /\ asked' = NoQuestion /\ expected' = "none" /\ actual' = "none"
    /\ UNCHANGED <<tmvts, dsched, messages, hand, ended, last, unread>>

-----------------------------------------------------------------------------
LocationsAt(stops) ==
    {{[stop |-> s, kind |-> kind[s]] : s \in stops} : kind \in [stops -> Kinds]}
Locations ==
    UNION {LocationsAt(D) : D \in {D \in SUBSET OsmsStops : Cardinality(D) \in 1 .. MaxLocations}}

OsmsNext ==
    \/ \E w \in Workers :
          \/ \E t \in OsmsTrains :
                \/ BeginCancellation(w, t)
                \/ \E s \in BaseStops, terminated \in BOOLEAN :
                      BeginMovement(w, t, s, terminated)
                \/ \E ls \in Locations : BeginTs(w, t, ls)
          \/ ScanEstimates(w) \/ DeleteEstimates(w) \/ RecordReport(w) \/ Estimate(w)
          \/ \E l \in hand[w].locations : TsLocation(w, l)
          \/ Commit(w) \/ Rollback(w)
    \/ \E t \in OsmsTrains :
          \/ \E stops \in (SUBSET OsmsStops) \ {{}} : ProcessSchedule(t, stops)
          \/ \E s \in BaseStops : AskCall(t, <<s, 0>>)
          \/ \E mvt \in dsched[t] : AskCall(t, mvt)
    \/ \E r \in unread : ConsiderRow(r)
    \/ Show

OsmsSpec == OsmsInit /\ [][OsmsNext]_osmsvars

-----------------------------------------------------------------------------
(* Properties                                                               *)

\* A call that TRUST reported stays reported, whatever else comes of that train or
\* of those of other dates that share the schedule's movements.
ReportsStay == [][{r \in tmvts : r.source = "TRUST"} \subseteq tmvts']_osmsvars

\* After a cancellation nothing is estimated of the train, nor after it terminated,
\* but for calls whose time of day is later than that of the last: those a train
\* made before midnight.  (Until another message comes, which estimates again.)
\* What another worker commits of the train between the DELETE and the commit stays,
\* and is on record in "slipped".
NothingAfterTheEnd ==
    \A t \in OsmsTrains : \A r \in EstimatesOf(t) : Key(r) \notin last[t].slipped =>
        /\ last[t].event # "cancelled"
        /\ last[t].event = "end" => \A s \in last[t].at : r.mvt[1] \in Remaining(s)

\* No stop of a train has rows both at the schedule's movement and at that of its
\* Darwin schedule, and none is in a Darwin schedule twice: no call is shown twice.
\* And no row is about a movement of another train's Darwin schedule.
NoCallTwice ==
    /\ \A r \in tmvts :
          r.mvt[2] # 0 => r.mvt[1] \notin BaseStops /\ r.mvt \in dsched[r.train]
    /\ \A t \in OsmsTrains : \A c, d \in dsched[t] : c[1] = d[1] => c = d

\* What is shown of a call does not depend on the order of its rows: a TRUST report
\* goes before Darwin's, a Darwin estimate before TRUST's.
BestEstimate(rows) ==
    IF \E r \in rows : r.estimated /\ r.source = "DARWIN" THEN "DARWIN"
    ELSE IF \E r \in rows : r.estimated THEN "NAIVE" ELSE "none"
BestActual(rows) ==
    IF \E r \in rows : r.source = "TRUST" THEN "TRUST"
    ELSE IF \E r \in rows : ~r.estimated THEN "DARWIN" ELSE "none"
BestSourceIsShown ==
    asked # NoQuestion /\ unread = {} =>
        expected = BestEstimate(asked.rows) /\ actual = BestActual(asked.rows)

\* Together: whatever the order of the messages, of both feeds, and of the rows, a
\* call is shown once, with its best source, and not expected of a train that is
\* beyond it.
CallsAreRight == NothingAfterTheEnd /\ NoCallTwice /\ BestSourceIsShown

\* "...do nothing to A \cap B (in both)": a movement that the new Darwin schedule
\* has as well keeps its row, and with it what was reported there.
KeptMovementsStay ==
    [][\A t \in OsmsTrains : \A c \in dsched[t] :
          (\E d \in dsched'[t] : d[1] = c[1]) => c \in dsched'[t]]_osmsvars

-----------------------------------------------------------------------------
(* What the theorems rest on                                                *)

\* Only TRUST reports of the schedule's own calls, and only its estimates are naive.
SourcesTell(rows) ==
    \A r \in rows :
        /\ r.source = "TRUST" => ~r.estimated /\ r.mvt[2] = 0
        /\ r.source = "NAIVE" => r.estimated
\* A movement that a message inserts has an id: none is like one of a new message.
VersionsAreKnown == \A t \in OsmsTrains : \A c \in dsched[t] : c[2] \in 1 .. messages
\* A query is right about the rows that it has considered.
ShownSoFar ==
    LET considered == asked.rows \ unread
    IN  expected = BestEstimate(considered) /\ actual = BestActual(considered)
\* A row is in one transaction's hands.
HandsApart == \A v, w \in Workers : v # w => Held(v) \cap Held(w) = {}
\* How far a transaction is tells what its message was.
Progress(h) ==
    /\ h.event = "nothing" <=> h.step = "idle"
    /\ h.step # "idle" => \E t \in OsmsTrains : h.train = {t}
    /\ h.step \in {"scan", "delete"} => h.event \in {"cancelled", "end"}
    /\ h.step \in {"report", "estimate"} => h.event \in {"report", "end"}
    /\ h.step = "locations" => h.event = "darwin"
    /\ h.event \in {"report", "end"} => \E s \in BaseStops : h.at = {s}
\* What it has written is of its train, and of calls that are there as long; what it
\* has deleted is no report.
WrittenRows(h) ==
    /\ h.step \in {"idle", "scan", "delete"} \/ h.event = "cancelled" => h.put = {}
    /\ \A q, r \in h.put : Key(q) = Key(r) => q = r
    /\ \A r \in h.put :
          /\ {r.train} = h.train
          /\ r.mvt[2] # 0 => r.mvt[1] \notin BaseStops /\ r.mvt \in dsched[r.train]
          /\ h.event = "end" /\ r.estimated => \A s \in h.at : r.mvt[1] \in Remaining(s)
    /\ SourcesTell(h.put)
    /\ \A k \in h.gone : k[3] # "TRUST"
\* One that ends a train has found all of its estimates, but those that others have
\* committed since.
EstimatesFound(h) ==
    h.event \in {"cancelled", "end"} /\ h.step # "scan" =>
        \A t \in h.train : \A r \in EstimatesOf(t) :
            Key(r) \in (IF h.step = "delete" THEN h.doomed ELSE h.gone) \cup h.missed
RowsInv ==
    /\ SourcesTell(tmvts) /\ SourcesTell(asked.rows)
    /\ VersionsAreKnown /\ ShownSoFar
    /\ HandsApart
    /\ \A w \in Workers :
          Progress(hand[w]) /\ WrittenRows(hand[w]) /\ EstimatesFound(hand[w])
    /\ NothingAfterTheEnd /\ NoCallTwice
==============================================================================
