------------------------------ MODULE OsmsLinking ------------------------------
(***************************************************************************)
(* How osms-nrod makes one train of what TRUST and Darwin say: its workers    *)
(* take activations, which name a TRUST ID and a schedule, and Darwin messages, *)
(* which name a RID, of one uid on one date.  The statements of a transaction  *)
(* see what others have committed in between.  Schedules come and go meanwhile: *)
(* an overlay supersedes the permanent one until it is deleted again.         *)
(***************************************************************************)
EXTENDS Integers, FiniteSets

CONSTANTS
    LinkWorkers,
    TrustIds,   \* TRUST IDs the run is activated with
    Rids,       \* Darwin's RID of it: one for a uid and a date
    NoId,
    MaxImports  \* bound on the imports that change the schedules

Permanent == 1
Overlay == 2

ASSUME LinkAssumption ==
    /\ NoId \notin TrustIds \cup Rids /\ TrustIds \cap Rids = {}
    /\ \A q, r \in Rids : q = r
    /\ MaxImports \in Nat

VARIABLES
    overlaid,   \* the overlay is in the database
    imports,    \* times that it came or went
    trains,     \* the rows of the table: schedule, TRUST ID, RID
    hands,      \* the message in a worker's hand, and how far it is
    succeeded   \* ids whose message was processed without an error (history)

linkvars == <<overlaid, imports, trains, hands, succeeded>>

TrainRow == [sched : {Permanent, Overlay}, trust : TrustIds \cup {NoId}, nre : Rids \cup {NoId}]
Idle == [at |-> "idle", trust |-> NoId, rid |-> NoId, sched |-> 0, unchecked |-> {}]

LinkTypeOK ==
    /\ overlaid \in BOOLEAN /\ imports \in 0 .. MaxImports
    /\ trains \subseteq TrainRow
    /\ \A q, r \in trains : q.sched = r.sched => q = r
    /\ hands \in [LinkWorkers ->
          [at : {"idle", "by_rid", "unlinked", "link", "schedules", "check", "insert"},
           trust : TrustIds \cup {NoId}, rid : Rids \cup {NoId}, sched : 0 .. 2,
           unchecked : SUBSET {Permanent, Overlay}]]
    /\ succeeded \subseteq TrustIds \cup Rids

LinkInit ==
    /\ overlaid = FALSE /\ imports = 0
    /\ trains = {}
    /\ hands = [w \in LinkWorkers |-> Idle]
    /\ succeeded = {}

InDatabase == IF overlaid THEN {Permanent, Overlay} ELSE {Permanent}
\* is_authoritative
Authoritative == IF overlaid THEN Overlay ELSE Permanent

\* An import brings the overlay, or takes it away and its trains with it.
ChangeSchedules ==
    /\ imports < MaxImports /\ imports' = imports + 1
    /\ overlaid' = ~overlaid
    /\ trains' = IF overlaid THEN {r \in trains : r.sched # Overlay} ELSE trains
    /\ UNCHANGED <<hands, succeeded>>

-----------------------------------------------------------------------------
(* Messages                                                                 *)

GoTo(w, at, sched) ==
    hands' = [hands EXCEPT ![w] = [at |-> at, trust |-> @.trust, rid |-> @.rid,
                                   sched |-> sched, unchecked |-> {}]]
Discard(w) == hands' = [hands EXCEPT ![w] = Idle]
Succeed(w) ==
    /\ Discard(w)
    /\ succeeded' = succeeded \cup ({hands[w].trust, hands[w].rid} \ {NoId})

\* A message about the run, of either feed; it may be one that came before.
TakeActivation(w, id, sched) ==
    /\ hands[w] = Idle
    /\ hands' = [hands EXCEPT ![w] = [at |-> "schedules", trust |-> id, rid |-> NoId,
                                      sched |-> sched, unchecked |-> {}]]
    /\ UNCHANGED <<overlaid, imports, trains, succeeded>>
TakePport(w, rid) ==
    /\ hands[w] = Idle
    /\ hands' = [hands EXCEPT ![w] = [at |-> "by_rid", trust |-> NoId, rid |-> rid,
                                      sched |-> 0, unchecked |-> {}]]
    /\ UNCHANGED <<overlaid, imports, trains, succeeded>>

\* Mutant: trains are not looked for by their RID.
SkipByRid(w) ==
    /\ hands[w].at = "by_rid"
    /\ GoTo(w, "unlinked", 0) /\ UNCHANGED succeeded
    /\ UNCHANGED <<overlaid, imports, trains>>
\* get_train_for_rid_uid_ssd: "Found pre-linked train", or go on.
FindByRid(w) ==
    /\ hands[w].at = "by_rid"
    /\ IF \E r \in trains : r.nre = hands[w].rid
       THEN Succeed(w)
       ELSE GoTo(w, "unlinked", 0) /\ UNCHANGED succeeded
    /\ UNCHANGED <<overlaid, imports, trains>>

\* The only train of the uid and the date that has no RID, if there is one.
FindUnlinked(w) ==
    /\ hands[w].at = "unlinked"
    /\ LET unlinked == {r \in trains : r.nre = NoId}
       IN  IF Cardinality(unlinked) = 1
           THEN \E r \in unlinked : GoTo(w, "link", r.sched)
           ELSE GoTo(w, "schedules", 0)
    /\ UNCHANGED <<overlaid, imports, trains, succeeded>>

\* UPDATE by id, whatever became of the row since.
LinkUnlinked(w) ==
    /\ hands[w].at = "link"
    /\ trains' = {IF r.sched = hands[w].sched THEN [r EXCEPT !.nre = hands[w].rid] ELSE r :
                      r \in trains}
    /\ Succeed(w)
    /\ UNCHANGED <<overlaid, imports>>

\* The run's schedules, which TRUST names one of, and then whether each is the
\* authoritative one: that takes a SELECT each.  None or two are an error.
Check(w, sched, unchecked) ==
    hands' = [hands EXCEPT ![w] = [at |-> "check", trust |-> @.trust, rid |-> @.rid,
                                   sched |-> sched, unchecked |-> unchecked]]
FindSchedules(w) ==
    /\ hands[w].at = "schedules"
    /\ Check(w, 0, {s \in InDatabase : hands[w].sched \in {0, s}})
    /\ UNCHANGED <<overlaid, imports, trains, succeeded>>
CheckSchedule(w) ==
    /\ hands[w].at = "check"
    /\ \/ \E s \in hands[w].unchecked :
             LET rest == hands[w].unchecked \ {s}
             IN  \/ s # Authoritative /\ Check(w, hands[w].sched, rest)
                 \/ s = Authoritative /\ hands[w].sched = 0 /\ Check(w, s, rest)
                 \/ s = Authoritative /\ hands[w].sched # 0 /\ Discard(w)
       \/ hands[w].unchecked = {} /\ hands[w].sched = 0 /\ Discard(w)
       \/ hands[w].unchecked = {} /\ hands[w].sched # 0 /\ GoTo(w, "insert", hands[w].sched)
    /\ UNCHANGED <<overlaid, imports, trains, succeeded>>

\* Mutant of the upsert: the row is replaced.
Coalesce(old, new) == IF old = NoId THEN new ELSE old
ReplaceRow(r, h) == [r EXCEPT !.trust = h.trust, !.nre = h.rid]
\* ON CONFLICT (parent_sched, date) DO UPDATE SET ... COALESCE
UpdateRow(r, h) ==
    [r EXCEPT !.trust = Coalesce(r.trust, h.trust), !.nre = Coalesce(r.nre, h.rid)]
Fills(r, h) == (r.trust = NoId /\ h.trust # NoId) \/ (r.nre = NoId /\ h.rid # NoId)

\* Mutant: no unique constraint.
NeverTaken(h, others) == FALSE
\* UNIQUE (trust_id, date)
Taken(h, others) == \E r \in others : h.trust # NoId /\ r.trust = h.trust

\* Train::insert_self.  A schedule that has gone or a TRUST ID that another row has
\* is an error; a row that there is nothing to add to is a double activation, an
\* error for TRUST, and for Darwin a reason to start again.
InsertTrain(w) ==
    /\ hands[w].at = "insert"
    /\ LET h == hands[w]
           there == {r \in trains : r.sched = h.sched}
           gone == h.sched = Overlay /\ ~overlaid
           taken == Taken(h, trains \ there)
       IN  \/ /\ gone \/ (taken /\ \A r \in there : Fills(r, h))
              /\ Discard(w)
              /\ UNCHANGED <<trains, succeeded>>
           \/ /\ ~gone /\ ~taken /\ there = {}
              /\ trains' = trains \cup {[sched |-> h.sched, trust |-> h.trust, nre |-> h.rid]}
              /\ Succeed(w)
           \/ /\ ~gone /\ ~taken
              /\ \E r \in there :
                    Fills(r, h) /\ trains' = (trains \ {r}) \cup {UpdateRow(r, h)}
              /\ Succeed(w)
           \/ /\ ~gone
              /\ \E r \in there : ~Fills(r, h)
              /\ IF h.rid # NoId THEN GoTo(w, "by_rid", 0) ELSE Discard(w)
              /\ UNCHANGED <<trains, succeeded>>
    /\ UNCHANGED <<overlaid, imports>>

LinkStep(w) ==
    \/ FindByRid(w) \/ FindUnlinked(w) \/ LinkUnlinked(w)
    \/ FindSchedules(w) \/ CheckSchedule(w) \/ InsertTrain(w)

LinkNext ==
    \/ ChangeSchedules
    \/ \E w \in LinkWorkers :
          \/ \E id \in TrustIds, s \in {Permanent, Overlay} : TakeActivation(w, id, s)
          \/ \E rid \in Rids : TakePport(w, rid)
          \/ LinkStep(w)

LinkSpec == LinkInit /\ [][LinkNext]_linkvars

\* Workers run.
LinkFairness == \A w \in LinkWorkers : WF_linkvars(LinkStep(w))
LinkFairSpec == LinkSpec /\ LinkFairness

-----------------------------------------------------------------------------
(* Properties                                                               *)

\* While the schedules do not change, whatever the workers' steps come in between
\* each other's: there is one train, and the RID is on it if Darwin was heard, and
\* a TRUST ID is if an activation was.
OneTrainOfBothFeeds ==
    imports = 0 =>
        /\ \A q, r \in trains : q = r
        /\ succeeded \cap Rids # {} => \E r \in trains : r.nre \in Rids
        /\ succeeded \cap TrustIds # {} => \E r \in trains : r.trust \in TrustIds

\* A TRUST ID is of one train, also when they do change.
TrustIdIsOfOneTrain ==
    \A q, r \in trains : q.trust = r.trust /\ q.trust # NoId => q = r

\* An id that a train has it keeps.
LinksStay ==
    [][\A r \in trains : \A q \in trains' :
          q.sched = r.sched => /\ r.trust # NoId => q.trust = r.trust
                               /\ r.nre # NoId => q.nre = r.nre]_linkvars

\* No message keeps a worker for ever: a double activation makes it start again,
\* and then it finds the train by its RID.
EveryMessageEnds == \A w \in LinkWorkers : hands[w].at # "idle" ~> hands[w].at = "idle"

-----------------------------------------------------------------------------
(* The inductive invariant                                                  *)

\* What a worker goes by: an id of one feed; Darwin's RID until a schedule is looked
\* for; the schedule of a row that is there, or the permanent one, while the schedules
\* do not change.
HandsHold ==
    \A w \in LinkWorkers :
        /\ hands[w].rid # NoId => hands[w].trust = NoId
        /\ hands[w].at \in {"by_rid", "unlinked", "link"} => hands[w].rid \in Rids
        /\ hands[w].at \in {"link", "insert"} => hands[w].sched \in {Permanent, Overlay}
        /\ imports = 0 /\ hands[w].at = "link" =>
              \E r \in trains : r.sched = hands[w].sched
        /\ imports = 0 /\ hands[w].at = "insert" => hands[w].sched = Permanent
        /\ hands[w].at = "check" /\ imports = 0 =>
              hands[w].sched \in {0, Permanent} /\ hands[w].unchecked \subseteq {Permanent}

LinkInv ==
    /\ LinkTypeOK
    /\ OneTrainOfBothFeeds
    /\ TrustIdIsOfOneTrain
    /\ HandsHold
    /\ imports = 0 => ~overlaid /\ \A r \in trains : r.sched = Permanent
==============================================================================
