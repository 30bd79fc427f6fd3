------------------------------ MODULE OsmsProofs -------------------------------
(***************************************************************************)
(* Proofs about OsmsLinking and OsmsSchedules, for any workers, messages,    *)
(* schedules, files and threads.                                            *)
(***************************************************************************)
EXTENDS MCTimetables, FahrplanUpdaterProofs, TLAPS

(***************************************************************************)
(* OsmsLinking                                                              *)
(***************************************************************************)

HandRow == [at : {"idle", "by_rid", "unlinked", "link", "schedules", "check", "insert"},
            trust : TrustIds \cup {NoId}, rid : Rids \cup {NoId}, sched : 0 .. 2,
            unchecked : SUBSET {Permanent, Overlay}]

LEMMA LinkInitInv == LinkInit => LinkInv
<1> SUFFICES ASSUME LinkInit PROVE LinkInv
  OBVIOUS
<1>1. LinkTypeOK
  <2>1. Idle \in HandRow
    BY DEF Idle, HandRow
  <2>2. hands \in [LinkWorkers -> HandRow]
    BY <2>1 DEF LinkInit
  <2>3. imports \in 0 .. MaxImports
    BY LinkAssumption DEF LinkInit
  <2>4. overlaid \in BOOLEAN
    BY DEF LinkInit
  <2> QED
    BY <2>2, <2>3, <2>4 DEF LinkInit, LinkTypeOK, HandRow
<1>2. HandsHold
  BY DEF LinkInit, HandsHold, Idle
<1> QED
  BY <1>1, <1>2 DEF LinkInit, LinkInv, OneTrainOfBothFeeds, TrustIdIsOfOneTrain

(* An import only takes rows away, and after it nothing is promised of the RID.  *)
LEMMA ImportKeeps ==
    ASSUME LinkInv, ChangeSchedules
    PROVE  LinkInv'
<1>1. /\ imports \in 0 .. MaxImports /\ imports < MaxImports /\ imports' = imports + 1
      /\ overlaid' = ~overlaid /\ overlaid \in BOOLEAN /\ trains' \subseteq trains
      /\ UNCHANGED <<hands, succeeded>>
  BY DEF ChangeSchedules, LinkInv, LinkTypeOK
<1>2. imports' \in 0 .. MaxImports /\ imports' # 0
  BY <1>1, LinkAssumption
<1>3. LinkTypeOK'
  BY <1>1, <1>2 DEF LinkInv, LinkTypeOK
<1>4. HandsHold' /\ OneTrainOfBothFeeds' /\ TrustIdIsOfOneTrain'
  BY <1>1, <1>2 DEF LinkInv, HandsHold, OneTrainOfBothFeeds, TrustIdIsOfOneTrain
<1> QED
  BY <1>2, <1>3, <1>4 DEF LinkInv

(* What a worker's step may do to its hand.                                   *)
HandFits(h) ==
    /\ h \in HandRow
    /\ h.rid # NoId => h.trust = NoId
    /\ h.at \in {"by_rid", "unlinked", "link"} => h.rid \in Rids
    /\ h.at \in {"link", "insert"} => h.sched \in {Permanent, Overlay}
    /\ imports = 0 /\ h.at = "link" => \E r \in trains : r.sched = h.sched
    /\ imports = 0 /\ h.at = "insert" => h.sched = Permanent
    /\ h.at = "check" /\ imports = 0 => h.sched \in {0, Permanent} /\ h.unchecked \subseteq {Permanent}

LEMMA GoToHand ==
    ASSUME LinkTypeOK, NEW w \in LinkWorkers, NEW at, NEW sched, GoTo(w, at, sched)
    PROVE  hands' = [hands EXCEPT ![w] = [at |-> at, trust |-> hands[w].trust,
                                          rid |-> hands[w].rid, sched |-> sched,
                                          unchecked |-> {}]]
  BY DEF LinkTypeOK, GoTo
LEMMA CheckHand ==
    ASSUME LinkTypeOK, NEW w \in LinkWorkers, NEW sched, NEW unchecked, Check(w, sched, unchecked)
    PROVE  hands' = [hands EXCEPT ![w] = [at |-> "check", trust |-> hands[w].trust,
                                          rid |-> hands[w].rid, sched |-> sched,
                                          unchecked |-> unchecked]]
  BY DEF LinkTypeOK, Check

(* A step that leaves the rows alone keeps the invariant if the hand fits.       *)
LEMMA HandKeeps ==
    ASSUME LinkInv, NEW w \in LinkWorkers, NEW h, HandFits(h),
           hands' = [hands EXCEPT ![w] = h], UNCHANGED <<overlaid, imports, trains, succeeded>>
    PROVE  LinkInv'
<1>1. hands' \in [LinkWorkers -> HandRow]
  BY DEF LinkInv, LinkTypeOK, HandFits, HandRow
<1>2. LinkTypeOK'
  BY <1>1 DEF LinkInv, LinkTypeOK, HandRow
<1>3. hands'[w] = h /\ \A v \in LinkWorkers \ {w} : hands'[v] = hands[v]
  BY DEF LinkInv, LinkTypeOK
<1>4. HandsHold'
  BY <1>3 DEF LinkInv, HandsHold, HandFits
<1> QED
  BY <1>2, <1>4 DEF LinkInv, OneTrainOfBothFeeds, TrustIdIsOfOneTrain

LEMMA IdleFits == HandFits(Idle)
  BY DEF HandFits, Idle, HandRow

(* Messages are taken, looked up and dropped.                                  *)
LEMMA LookUpKeeps ==
    ASSUME LinkInv, NEW w \in LinkWorkers,
           \/ \E id \in TrustIds, s \in {Permanent, Overlay} : TakeActivation(w, id, s)
           \/ \E rid \in Rids : TakePport(w, rid)
           \/ FindUnlinked(w) \/ FindSchedules(w) \/ CheckSchedule(w)
    PROVE  LinkInv'
<1>1. LinkTypeOK /\ hands[w] \in HandRow
  BY DEF LinkInv, LinkTypeOK, HandRow
<1>2. CASE \E id \in TrustIds, s \in {Permanent, Overlay} : TakeActivation(w, id, s)
  <2>1. PICK id \in TrustIds, s \in {Permanent, Overlay} : TakeActivation(w, id, s)
    BY <1>2
  <2>2. HandFits([at |-> "schedules", trust |-> id, rid |-> NoId, sched |-> s,
                 unchecked |-> {}])
    BY DEF HandFits, HandRow, Permanent, Overlay
  <2> QED
    BY <2>1, <2>2, HandKeeps DEF TakeActivation
<1>3. CASE \E rid \in Rids : TakePport(w, rid)
  <2>1. PICK rid \in Rids : TakePport(w, rid)
    BY <1>3
  <2>2. HandFits([at |-> "by_rid", trust |-> NoId, rid |-> rid, sched |-> 0,
                 unchecked |-> {}])
    BY DEF HandFits, HandRow
  <2> QED
    BY <2>1, <2>2, HandKeeps DEF TakePport
<1>4. CASE FindUnlinked(w)
  <2>1. hands[w].at = "unlinked" /\ UNCHANGED <<overlaid, imports, trains, succeeded>>
    BY <1>4 DEF FindUnlinked
  <2>2. PICK at \in {"link", "schedules"}, s \in {0, Permanent, Overlay} :
            /\ GoTo(w, at, s)
            /\ at = "link" => s # 0 /\ \E r \in trains : r.sched = s
    <3>1. \A r \in trains : r.sched \in {Permanent, Overlay}
      BY <1>1 DEF LinkTypeOK, TrainRow
    <3> QED
      BY <1>4, <3>1 DEF FindUnlinked, Permanent, Overlay
  <2> DEFINE h == [at |-> at, trust |-> hands[w].trust, rid |-> hands[w].rid, sched |-> s,
                 unchecked |-> {}]
  <2>3. hands[w].rid \in Rids /\ hands[w].trust = NoId
    BY <2>1, LinkAssumption DEF LinkInv, HandsHold
  <2>4. HandFits(h)
    BY <1>1, <2>2, <2>3 DEF HandFits, HandRow, Permanent, Overlay
  <2>5. hands' = [hands EXCEPT ![w] = h]
    BY <1>1, <2>2, GoToHand
  <2> HIDE DEF h
  <2> QED
    BY <2>1, <2>4, <2>5, HandKeeps
<1>5. CASE FindSchedules(w)
  <2>1. UNCHANGED <<overlaid, imports, trains, succeeded>>
    BY <1>5 DEF FindSchedules
  <2> DEFINE found == {t \in InDatabase : hands[w].sched \in {0, t}}
             h == [at |-> "check", trust |-> hands[w].trust, rid |-> hands[w].rid,
                   sched |-> 0, unchecked |-> found]
  <2>2. found \subseteq {Permanent, Overlay} /\ (imports = 0 => found \subseteq {Permanent})
    BY DEF LinkInv, InDatabase
  <2>3. hands' = [hands EXCEPT ![w] = h]
    BY <1>1, <1>5, CheckHand DEF FindSchedules
  <2>4. HandFits(h)
    <3>1. hands[w].rid # NoId => hands[w].trust = NoId
      BY DEF LinkInv, HandsHold
    <3> HIDE DEF found
    <3> QED
      BY <1>1, <2>2, <3>1 DEF HandFits, HandRow
  <2> HIDE DEF h
  <2> QED
    BY <2>1, <2>3, <2>4, HandKeeps
<1>6. CASE CheckSchedule(w)
  <2>1. /\ UNCHANGED <<overlaid, imports, trains, succeeded>> /\ hands[w].at = "check"
        /\ hands[w].unchecked \subseteq {Permanent, Overlay}
        /\ hands[w].rid # NoId => hands[w].trust = NoId
        /\ imports = 0 => /\ hands[w].sched \in {0, Permanent}
                          /\ hands[w].unchecked \subseteq {Permanent}
    BY <1>1, <1>6 DEF CheckSchedule, LinkInv, HandsHold, HandRow
  <2>2. CASE Discard(w)
    BY <2>1, <2>2, HandKeeps, IdleFits DEF Discard
  <2>3. ASSUME NEW t \in hands[w].unchecked, NEW sched \in {hands[w].sched, t},
               Check(w, sched, hands[w].unchecked \ {t})
        PROVE  LinkInv'
    <3> DEFINE rest == hands[w].unchecked \ {t}
               h == [at |-> "check", trust |-> hands[w].trust, rid |-> hands[w].rid,
                     sched |-> sched, unchecked |-> rest]
    <3>1. hands' = [hands EXCEPT ![w] = h]
      BY <1>1, <2>3, CheckHand
    <3>2. /\ rest \subseteq {Permanent, Overlay}
          /\ imports = 0 => rest \subseteq {Permanent} /\ sched \in {0, Permanent}
      BY <2>1
    <3>3. sched \in 0 .. 2
      BY <1>1, <2>1 DEF HandRow, Permanent, Overlay
    <3> HIDE DEF rest
    <3>4. HandFits(h)
      BY <1>1, <2>1, <3>2, <3>3 DEF HandFits, HandRow
    <3> HIDE DEF h
    <3> QED
      BY <2>1, <3>1, <3>4, HandKeeps
  <2>4. CASE hands[w].sched # 0 /\ GoTo(w, "insert", hands[w].sched)
    <3> DEFINE h == [at |-> "insert", trust |-> hands[w].trust, rid |-> hands[w].rid,
                     sched |-> hands[w].sched, unchecked |-> {}]
    <3>1. hands' = [hands EXCEPT ![w] = h]
      BY <1>1, <2>4, GoToHand
    <3>2. hands[w].sched \in {Permanent, Overlay}
      BY <1>1, <2>4 DEF HandRow, Permanent, Overlay
    <3>3. HandFits(h)
      BY <1>1, <2>1, <2>4, <3>2 DEF HandFits, HandRow
    <3> HIDE DEF h
    <3> QED
      BY <2>1, <3>1, <3>3, HandKeeps
  <2> QED
    BY <1>6, <2>2, <2>3, <2>4 DEF CheckSchedule
<1> QED
  BY <1>2, <1>3, <1>4, <1>5, <1>6

(* A message succeeds: the rows may have changed, but none is gone, and what it   *)
(* was about is on one.                                                      *)
LEMMA SuccessKeeps ==
    ASSUME LinkInv, NEW w \in LinkWorkers, Succeed(w), UNCHANGED <<overlaid, imports>>,
           trains' \subseteq TrainRow,
           \A q, r \in trains' : q.sched = r.sched => q = r,
           \A q, r \in trains' : q.trust = r.trust /\ q.trust # NoId => q = r,
           \A r \in trains : \E q \in trains' :
              /\ q.sched = r.sched
              /\ r.trust # NoId => q.trust = r.trust
              /\ r.nre # NoId => q.nre = r.nre,
           imports = 0 => /\ \A q \in trains' : q.sched = Permanent
                          /\ hands[w].rid \in Rids => \E q \in trains' : q.nre \in Rids
                          /\ hands[w].trust \in TrustIds => \E q \in trains' : q.trust \in TrustIds
    PROVE  LinkInv'
<1>1. /\ LinkTypeOK /\ hands[w] \in HandRow /\ hands' = [hands EXCEPT ![w] = Idle]
      /\ succeeded' = succeeded \cup ({hands[w].trust, hands[w].rid} \ {NoId})
  BY DEF LinkInv, LinkTypeOK, HandRow, Succeed, Discard
<1>2. /\ hands'[w] = Idle /\ \A v \in LinkWorkers \ {w} : hands'[v] = hands[v]
      /\ hands' \in [LinkWorkers -> HandRow]
  <2>1. Idle \in HandRow
    BY DEF Idle, HandRow
  <2> QED
    BY <1>1, <2>1 DEF LinkTypeOK, HandRow
<1>3. LinkTypeOK'
  <2>1. succeeded' \subseteq TrustIds \cup Rids
    BY <1>1 DEF LinkTypeOK, HandRow
  <2> QED
    BY <1>1, <1>2, <2>1 DEF LinkTypeOK, HandRow
<1>4. HandsHold'
  BY <1>2 DEF LinkInv, HandsHold, Idle
<1>5. TrustIdIsOfOneTrain'
  BY DEF TrustIdIsOfOneTrain
<1>6. OneTrainOfBothFeeds'
  <2> SUFFICES ASSUME imports = 0
               PROVE  /\ \A q, r \in trains' : q = r
                      /\ succeeded' \cap Rids # {} => \E r \in trains' : r.nre \in Rids
                      /\ succeeded' \cap TrustIds # {} => \E r \in trains' : r.trust \in TrustIds
    BY DEF OneTrainOfBothFeeds
  <2>1. \A q, r \in trains' : q = r
    OBVIOUS
  <2>2. ASSUME succeeded' \cap Rids # {}
        PROVE  \E r \in trains' : r.nre \in Rids
    <3>1. CASE hands[w].rid \in Rids
      BY <3>1
    <3>2. CASE hands[w].rid \notin Rids
      <4>1. succeeded \cap Rids # {}
        BY <1>1, <2>2, <3>2, LinkAssumption DEF HandRow
      <4>2. PICK r \in trains : r.nre \in Rids
        BY <4>1 DEF LinkInv, OneTrainOfBothFeeds
      <4> QED
        BY <4>2, LinkAssumption
    <3> QED
      BY <3>1, <3>2
  <2>3. ASSUME succeeded' \cap TrustIds # {}
        PROVE  \E r \in trains' : r.trust \in TrustIds
    <3>1. CASE hands[w].trust \in TrustIds
      BY <3>1
    <3>2. CASE hands[w].trust \notin TrustIds
      <4>1. succeeded \cap TrustIds # {}
        BY <1>1, <2>3, <3>2, LinkAssumption DEF HandRow
      <4>2. PICK r \in trains : r.trust \in TrustIds
        BY <4>1 DEF LinkInv, OneTrainOfBothFeeds
      <4> QED
        BY <4>2, LinkAssumption
    <3> QED
      BY <3>1, <3>2
  <2> QED
    BY <2>1, <2>2, <2>3
<1> QED
  BY <1>3, <1>4, <1>5, <1>6 DEF LinkInv

(* A RID that is found is on a train already.                                  *)
LEMMA FindByRidKeeps ==
    ASSUME LinkInv, NEW w \in LinkWorkers, FindByRid(w)
    PROVE  LinkInv'
<1>1. /\ LinkTypeOK /\ hands[w] \in HandRow /\ hands[w].rid \in Rids
      /\ hands[w].rid # NoId => hands[w].trust = NoId
      /\ UNCHANGED <<overlaid, imports, trains>>
  BY DEF FindByRid, LinkInv, LinkTypeOK, HandRow, HandsHold
<1>2. CASE Succeed(w) /\ \E r \in trains : r.nre = hands[w].rid
  <2>1. hands[w].trust \notin TrustIds
    BY <1>1, LinkAssumption DEF LinkInv, HandsHold
  <2> QED
    BY <1>1, <1>2, <2>1, SuccessKeeps DEF LinkInv, LinkTypeOK, TrustIdIsOfOneTrain
<1>3. CASE GoTo(w, "unlinked", 0) /\ UNCHANGED succeeded
  <2> DEFINE h == [at |-> "unlinked", trust |-> hands[w].trust, rid |-> hands[w].rid, sched |-> 0,
                 unchecked |-> {}]
  <2>1. HandFits(h)
    BY <1>1 DEF HandFits, HandRow
  <2>2. hands' = [hands EXCEPT ![w] = h]
    BY <1>1, <1>3, GoToHand
  <2> HIDE DEF h
  <2> QED
    BY <1>1, <1>3, <2>1, <2>2, HandKeeps
<1> QED
  BY <1>2, <1>3 DEF FindByRid

(* A RID is put on the row that had none: one row, for the schedules differ, or    *)
(* none if an import took it.                                                *)
LEMMA LinkUnlinkedKeeps ==
    ASSUME LinkInv, NEW w \in LinkWorkers, LinkUnlinked(w)
    PROVE  LinkInv'
<1> DEFINE Linked(r) == IF r.sched = hands[w].sched THEN [r EXCEPT !.nre = hands[w].rid] ELSE r
<1>1. /\ LinkTypeOK /\ hands[w] \in HandRow /\ hands[w].rid \in Rids /\ hands[w].trust = NoId
      /\ imports = 0 => \E r \in trains : r.sched = hands[w].sched
      /\ trains' = {Linked(r) : r \in trains} /\ Succeed(w) /\ UNCHANGED <<overlaid, imports>>
  BY LinkAssumption DEF LinkUnlinked, LinkInv, LinkTypeOK, HandRow, HandsHold
<1>2. \A r \in trains : /\ Linked(r) \in TrainRow /\ Linked(r).sched = r.sched
                        /\ Linked(r).trust = r.trust
                        /\ r.nre # NoId => Linked(r).nre = r.nre
                        /\ r.sched = hands[w].sched => Linked(r).nre \in Rids
  BY <1>1, LinkAssumption DEF LinkTypeOK, TrainRow
<1> HIDE DEF Linked
<1>3. \A q, r \in trains' : q.sched = r.sched => q = r
  BY <1>1, <1>2 DEF LinkTypeOK
<1>4. \A q, r \in trains' : q.trust = r.trust /\ q.trust # NoId => q = r
  BY <1>1, <1>2 DEF LinkInv, TrustIdIsOfOneTrain
<1>5. \A r \in trains : Linked(r) \in trains'
  BY <1>1
<1>6. \A q \in trains' : \E r \in trains : q = Linked(r)
  BY <1>1
<1>7. trains' \subseteq TrainRow
  BY <1>2, <1>6
<1>8. \A r \in trains : \E q \in trains' :
          /\ q.sched = r.sched /\ (r.trust # NoId => q.trust = r.trust)
          /\ r.nre # NoId => q.nre = r.nre
  BY <1>2, <1>5
<1>9. imports = 0 => /\ \A q \in trains' : q.sched = Permanent
                     /\ hands[w].rid \in Rids => \E q \in trains' : q.nre \in Rids
                     /\ hands[w].trust \in TrustIds => \E q \in trains' : q.trust \in TrustIds
  <2>1. NoId \notin TrustIds
    BY LinkAssumption
  <2>2. imports = 0 => \A q \in trains' : q.sched = Permanent
    BY <1>2, <1>6 DEF LinkInv
  <2>3. imports = 0 => \E q \in trains' : q.nre \in Rids
    BY <1>1, <1>2, <1>5
  <2> QED
    BY <1>1, <2>1, <2>2, <2>3
<1> QED
  BY <1>1, <1>3, <1>4, <1>7, <1>8, <1>9, SuccessKeeps

(* What a row becomes: it keeps its schedule and its ids.                        *)
LEMMA UpdatedRow ==
    ASSUME NEW r \in TrainRow, NEW h \in HandRow
    PROVE  /\ UpdateRow(r, h) \in TrainRow
           /\ UpdateRow(r, h).sched = r.sched
           /\ UpdateRow(r, h).trust = IF r.trust = NoId THEN h.trust ELSE r.trust
           /\ UpdateRow(r, h).nre = IF r.nre = NoId THEN h.rid ELSE r.nre
  BY DEF UpdateRow, Coalesce, TrainRow, HandRow

(* An activation, or Darwin's message, makes a row or adds to one.                *)
LEMMA InsertKeeps ==
    ASSUME LinkInv, NEW w \in LinkWorkers, InsertTrain(w)
    PROVE  LinkInv'
<1> DEFINE h == hands[w]
           there == {r \in trains : r.sched = h.sched}
<1>1. /\ LinkTypeOK /\ h \in HandRow /\ h.sched \in {Permanent, Overlay}
      /\ h.rid # NoId => h.trust = NoId
      /\ imports = 0 => h.sched = Permanent
      /\ UNCHANGED <<overlaid, imports>>
  BY DEF InsertTrain, LinkInv, LinkTypeOK, HandRow, HandsHold
<1>2. trains \subseteq TrainRow /\ \A q, r \in trains : q.sched = r.sched => q = r
  BY <1>1 DEF LinkTypeOK
<1>3. CASE Discard(w) /\ UNCHANGED <<trains, succeeded>>
  BY <1>1, <1>3, HandKeeps, IdleFits DEF Discard
<1>4. CASE /\ ~Taken(h, trains \ there) /\ there = {} /\ Succeed(w)
           /\ trains' = trains \cup {[sched |-> h.sched, trust |-> h.trust, nre |-> h.rid]}
  <2> DEFINE new == [sched |-> h.sched, trust |-> h.trust, nre |-> h.rid]
  <2>1. new \in TrainRow /\ new.sched = h.sched /\ new.trust = h.trust /\ new.nre = h.rid
    BY <1>1 DEF TrainRow, HandRow
  <2>2. \A r \in trains : r.sched # h.sched /\ (h.trust # NoId => r.trust # h.trust)
    BY <1>4 DEF Taken
  <2>3. trains' = trains \cup {new}
    BY <1>4
  <2> HIDE DEF new, h
  <2>4. \A q, r \in trains' : q.sched = r.sched => q = r
    BY <1>2, <2>1, <2>2, <2>3
  <2>5. \A q, r \in trains' : q.trust = r.trust /\ q.trust # NoId => q = r
    BY <2>1, <2>2, <2>3 DEF LinkInv, TrustIdIsOfOneTrain
  <2>6. imports = 0 => /\ \A q \in trains' : q.sched = Permanent
                       /\ h.rid \in Rids => \E q \in trains' : q.nre \in Rids
                       /\ h.trust \in TrustIds => \E q \in trains' : q.trust \in TrustIds
    BY <1>1, <2>1, <2>3 DEF LinkInv
  <2> QED
    BY <1>1, <1>2, <1>4, <2>1, <2>3, <2>4, <2>5, <2>6, SuccessKeeps DEF h
<1>5. CASE /\ ~Taken(h, trains \ there) /\ Succeed(w)
           /\ \E r \in there : trains' = (trains \ {r}) \cup {UpdateRow(r, h)}
  <2>1. PICK r \in there : trains' = (trains \ {r}) \cup {UpdateRow(r, h)}
    BY <1>5
  <2> DEFINE new == UpdateRow(r, h)
  <2>2. /\ new \in TrainRow /\ new.sched = r.sched
        /\ new.trust = IF r.trust = NoId THEN h.trust ELSE r.trust
        /\ new.nre = IF r.nre = NoId THEN h.rid ELSE r.nre
    BY <1>1, <1>2, UpdatedRow
  <2>3. \A q \in trains \ {r} : q.sched # r.sched /\ (h.trust # NoId => q.trust # h.trust)
    BY <1>2, <1>5 DEF Taken
  <2>4. r \in trains /\ r.sched = h.sched /\ trains' = (trains \ {r}) \cup {new}
    BY <2>1
  <2> HIDE DEF new, h, there
  <2>5. \A q, s \in trains' : q.sched = s.sched => q = s
    BY <1>2, <2>2, <2>3, <2>4
  <2>6. \A q, s \in trains' : q.trust = s.trust /\ q.trust # NoId => q = s
    BY <2>2, <2>3, <2>4 DEF LinkInv, TrustIdIsOfOneTrain
  <2>7. \A s \in trains : \E q \in trains' :
            /\ q.sched = s.sched /\ (s.trust # NoId => q.trust = s.trust)
            /\ s.nre # NoId => q.nre = s.nre
    BY <2>2, <2>4
  <2>8. r \in TrainRow
    BY <1>2, <2>4
  <2>9. imports = 0 => /\ \A q \in trains' : q.sched = Permanent
                       /\ h.rid \in Rids => \E q \in trains' : q.nre \in Rids
                       /\ h.trust \in TrustIds => \E q \in trains' : q.trust \in TrustIds
    <3>1. imports = 0 => \A q \in trains' : q.sched = Permanent
      BY <2>2, <2>4 DEF LinkInv
    <3>2. h.rid \in Rids => new.nre \in Rids
      BY <2>2, <2>8 DEF TrainRow
    <3>3. h.trust \in TrustIds => new.trust \in TrustIds
      BY <2>2, <2>8 DEF TrainRow
    <3> QED
      BY <2>4, <3>1, <3>2, <3>3
  <2>10. trains' \subseteq TrainRow
    BY <1>2, <2>2, <2>4
  <2> QED
    BY <1>1, <1>5, <2>5, <2>6, <2>7, <2>9, <2>10, SuccessKeeps DEF h
<1>6. CASE h.rid # NoId /\ GoTo(w, "by_rid", 0) /\ UNCHANGED <<trains, succeeded>>
  <2> DEFINE g == [at |-> "by_rid", trust |-> h.trust, rid |-> h.rid, sched |-> 0, unchecked |-> {}]
  <2>1. HandFits(g)
    BY <1>1, <1>6 DEF HandFits, HandRow
  <2>2. hands' = [hands EXCEPT ![w] = g]
    BY <1>1, <1>6, GoToHand
  <2> HIDE DEF g
  <2> QED
    BY <1>1, <1>6, <2>1, <2>2, HandKeeps
<1> QED
  BY <1>3, <1>4, <1>5, <1>6 DEF InsertTrain

LEMMA LinkNextKeeps == LinkInv /\ [LinkNext]_linkvars => LinkInv'
<1> SUFFICES ASSUME LinkInv, [LinkNext]_linkvars PROVE LinkInv'
  OBVIOUS
<1>1. CASE ChangeSchedules
  BY <1>1, ImportKeeps
<1>2. ASSUME NEW w \in LinkWorkers,
             \/ \E id \in TrustIds, s \in {Permanent, Overlay} : TakeActivation(w, id, s)
             \/ \E rid \in Rids : TakePport(w, rid)
             \/ LinkStep(w)
      PROVE  LinkInv'
  BY <1>2, LookUpKeeps, FindByRidKeeps, LinkUnlinkedKeeps, InsertKeeps DEF LinkStep
<1>3. CASE UNCHANGED linkvars
  BY <1>3 DEF linkvars, LinkInv, LinkTypeOK, OneTrainOfBothFeeds, TrustIdIsOfOneTrain, HandsHold
<1> QED
  BY <1>1, <1>2, <1>3 DEF LinkNext

(* Whatever the workers and the imports do, the linking has its type, and the     *)
(* workers' hands hold what they go by.                                       *)
THEOREM LinkingCorrect == LinkSpec => []LinkInv
  BY LinkInitInv, LinkNextKeeps, PTL DEF LinkSpec

(* One TRUST ID is on one train, for any number of workers and imports.           *)
THEOREM OneIdOneTrain == LinkSpec => []TrustIdIsOfOneTrain
<1>1. LinkInv => TrustIdIsOfOneTrain
  BY DEF LinkInv
<1> QED
  BY <1>1, LinkingCorrect, PTL

(* TRUST and Darwin end up on one train while the schedules do not change.        *)
THEOREM FeedsMeet == LinkSpec => []OneTrainOfBothFeeds
<1>1. LinkInv => OneTrainOfBothFeeds
  BY DEF LinkInv
<1> QED
  BY <1>1, LinkingCorrect, PTL

(* What a train has been linked to it stays linked to, whatever comes again.      *)
LEMMA LinksStayStep ==
    ASSUME LinkInv, [LinkNext]_linkvars,
           NEW r \in trains, NEW q \in trains', q.sched = r.sched
    PROVE  /\ r.trust # NoId => q.trust = r.trust
           /\ r.nre # NoId => q.nre = r.nre
<1>1. trains \subseteq TrainRow /\ \A p, s \in trains : p.sched = s.sched => p = s
  BY DEF LinkInv, LinkTypeOK
<1>2. CASE trains' \subseteq trains
  BY <1>1, <1>2
<1>3. ASSUME NEW w \in LinkWorkers, LinkUnlinked(w)
      PROVE  /\ r.trust # NoId => q.trust = r.trust
             /\ r.nre # NoId => q.nre = r.nre
  <2>1. hands[w].rid \in Rids
    BY <1>3 DEF LinkUnlinked, LinkInv, HandsHold
  <2>2. PICK p \in trains :
            q = IF p.sched = hands[w].sched THEN [p EXCEPT !.nre = hands[w].rid] ELSE p
    BY <1>3 DEF LinkUnlinked
  <2>3. p \in TrainRow /\ q.sched = p.sched /\ q.trust = p.trust
        /\ (q.nre = p.nre \/ q.nre = hands[w].rid)
    BY <1>1, <2>2 DEF TrainRow
  <2>4. p = r
    BY <1>1, <2>3
  <2> QED
    BY <2>1, <2>3, <2>4, LinkAssumption DEF TrainRow
<1>4. ASSUME NEW w \in LinkWorkers, InsertTrain(w), ~(trains' \subseteq trains)
      PROVE  /\ r.trust # NoId => q.trust = r.trust
             /\ r.nre # NoId => q.nre = r.nre
  <2> DEFINE h == hands[w]
             there == {s \in trains : s.sched = h.sched}
             new == [sched |-> h.sched, trust |-> h.trust, nre |-> h.rid]
  <2>1. h \in HandRow
    BY DEF LinkInv, LinkTypeOK, HandRow
  <2>2. \/ there = {} /\ trains' = trains \cup {new}
        \/ \E s \in there : trains' = (trains \ {s}) \cup {UpdateRow(s, h)}
    BY <1>4 DEF InsertTrain
  <2>3. CASE there = {} /\ trains' = trains \cup {new}
    <3>1. new.sched = h.sched /\ r.sched # h.sched
      BY <2>3
    <3>2. q \in trains
      BY <2>3, <3>1
    <3> QED
      BY <1>1, <3>2
  <2>4. ASSUME NEW s \in there, trains' = (trains \ {s}) \cup {UpdateRow(s, h)}
        PROVE  /\ r.trust # NoId => q.trust = r.trust
               /\ r.nre # NoId => q.nre = r.nre
    <3>1. s \in TrainRow
      BY <1>1
    <3>2. CASE q \in trains
      BY <1>1, <3>2
    <3>3. CASE q = UpdateRow(s, h)
      <4>1. /\ q.sched = s.sched
            /\ q.trust = IF s.trust = NoId THEN h.trust ELSE s.trust
            /\ q.nre = IF s.nre = NoId THEN h.rid ELSE s.nre
        BY <2>1, <3>1, <3>3, UpdatedRow
      <4>2. s = r
        BY <1>1, <4>1
      <4> QED
        BY <4>1, <4>2
    <3> QED
      BY <2>4, <3>2, <3>3
  <2> QED
    BY <2>2, <2>3, <2>4
<1>5. trains' \subseteq trains \/ \E w \in LinkWorkers : LinkUnlinked(w) \/ InsertTrain(w)
  <2>1. CASE ChangeSchedules
    BY <2>1 DEF ChangeSchedules
  <2>2. CASE UNCHANGED linkvars
    BY <2>2 DEF linkvars
  <2>3. ASSUME NEW w \in LinkWorkers,
               \/ \E id \in TrustIds, s \in {Permanent, Overlay} : TakeActivation(w, id, s)
               \/ \E rid \in Rids : TakePport(w, rid)
               \/ FindByRid(w) \/ FindUnlinked(w) \/ FindSchedules(w) \/ CheckSchedule(w)
        PROVE  trains' = trains
    BY <2>3 DEF TakeActivation, TakePport, FindByRid, FindUnlinked, FindSchedules, CheckSchedule
  <2> QED
    BY <2>1, <2>2, <2>3 DEF LinkNext, LinkStep
<1> QED
  BY <1>2, <1>3, <1>4, <1>5

(* Linking is final, for any number of workers, messages and imports.             *)
THEOREM LinkingIsFinal == LinkSpec => LinksStay
<1>1. LinkInv /\ [LinkNext]_linkvars =>
        [\A r \in trains : \A q \in trains' :
            q.sched = r.sched => /\ r.trust # NoId => q.trust = r.trust
                                 /\ r.nre # NoId => q.nre = r.nre]_linkvars
  BY LinksStayStep
<1> QED
  BY <1>1, LinkingCorrect, PTL DEF LinkSpec, LinksStay

(***************************************************************************)
(* OsmsSchedules                                                            *)
(***************************************************************************)

GeoRow == [at : {"off", "take", "process", "mark", "done", "failed"},
           key : ScheduleKeys \cup {NoKey}]
RecoverRow == [at : {"idle", "fetch", "import", "last", "delete", "done"},
               day : 0 .. Days, last : 0 .. Days, alone : BOOLEAN]

WritesRow(w) == /\ Written(w) \subseteq (IF w = "vstp" THEN VstpKeys ELSE ItpsKeys)
                /\ \A k \in Written(w) : writes[w][k] \in Movements \cup {Gone}

(* The invariant falls into what the rows, the threads and the open transactions are, *)
(* what recovery has seen, and the counters.                                   *)
RowFits(k, row) ==
    /\ row \in SchedRow
    /\ row.metaseq = 0 <=> k \in VstpKeys
    /\ row.generation = 1 => row.ways \/ row.replaced
RowsFit == DOMAIN scheds \subseteq ScheduleKeys /\ \A k \in DOMAIN scheds : RowFits(k, scheds[k])
ThreadsFit == geo \in [GeoThreads -> GeoRow] /\ OneThreadEach /\ ThreadsHold
FilesFit ==
    /\ today \in 1 .. Days /\ sfiles \subseteq (1 .. Days) \X BOOLEAN
    /\ recover \in RecoverRow /\ RecoveryHolds
WritesFit ==
    /\ DOMAIN writes = Writers /\ \A w \in Writers : WritesRow(w)
    /\ update \in 0 .. Days
    /\ WritersHold
CountersFit ==
    /\ missed \subseteq ScheduleKeys
    /\ listener \in {"down", "first", "listen", "wait", "run"}
    /\ notified \in BOOLEAN
    /\ changes \in 0 .. MaxChanges /\ geo_failures \in 0 .. MaxGeoFailures

LEMMA SchedParts ==
    SchedInv <=> RowsFit /\ ThreadsFit /\ FilesFit /\ WritesFit /\ CountersFit
  BY DEF SchedInv, SchedTypeOK, DoneHasWays, RowsFit, RowFits, ThreadsFit, FilesFit,
         WritesFit, WritesRow, Written, CountersFit, GeoRow, RecoverRow

LEMMA NextParts ==
    RowsFit' /\ ThreadsFit' /\ FilesFit' /\ WritesFit' /\ CountersFit' => SchedInv'
  BY DEF SchedInv, SchedTypeOK, DoneHasWays, RowsFit, RowFits, ThreadsFit, FilesFit,
         WritesFit, WritesRow, Written, CountersFit, GeoRow, RecoverRow

LEMMA OffIsARow == Off \in GeoRow /\ Off.key = NoKey /\ Off.at = "off"
  BY DEF Off, GeoRow

LEMMA SchedInitInv == SchedInit => SchedInv
<1> SUFFICES ASSUME SchedInit PROVE SchedInv
  OBVIOUS
<1>1. DOMAIN scheds = {}
  BY DEF SchedInit, Nothing
<1>2. RowsFit
  BY <1>1 DEF RowsFit
<1>3. \A g \in GeoThreads : geo[g] = Off
  BY DEF SchedInit
<1>4. ThreadsFit
  BY <1>3, OffIsARow DEF SchedInit, ThreadsFit, OneThreadEach, ThreadsHold
<1>5. FilesFit
  <2>1. recover \in RecoverRow /\ recover.at = "idle"
    <3>1. 0 \in 0 .. Days
      BY SchedulesAssumption
    <3> QED
      BY <3>1 DEF SchedInit, NotRecovering, RecoverRow
  <2>2. today \in 1 .. Days
    BY SchedulesAssumption DEF SchedInit
  <2> QED
    BY <2>1, <2>2 DEF SchedInit, FilesFit, RecoveryHolds
<1>6. CountersFit
  <2>1. changes \in 0 .. MaxChanges /\ geo_failures \in 0 .. MaxGeoFailures
    BY SchedulesAssumption DEF SchedInit
  <2>2. notified \in BOOLEAN /\ listener \in {"down", "first", "listen", "wait", "run"}
        /\ missed = {}
    BY DEF SchedInit
  <2> QED
    BY <2>1, <2>2 DEF CountersFit
<1>7. WritesFit
  <2>1. DOMAIN Nothing = {}
    BY DEF Nothing
  <2>2. /\ DOMAIN writes = Writers /\ \A w \in Writers : writes[w] = Nothing
        /\ update = 0
    BY DEF SchedInit
  <2>3. update \in 0 .. Days
    BY <2>2, SchedulesAssumption
  <2>4. \A w \in Writers : Written(w) = {}
    BY <2>1, <2>2 DEF Written
  <2>5. WritersHold
    BY <2>4 DEF WritersHold, Writers
  <2> QED
    BY <2>2, <2>3, <2>4, <2>5 DEF WritesFit, WritesRow
<1> QED
  BY <1>2, <1>4, <1>5, <1>6, <1>7, SchedParts

(* A transaction writes one more row, which nobody had.                          *)
LEMMA WriteKeeps ==
    ASSUME WritesFit, UNCHANGED <<update, recover, geo>>,
           NEW w \in Writers, NEW k \in (IF w = "vstp" THEN VstpKeys ELSE ItpsKeys),
           NEW row \in Movements \cup {Gone}, WriteRow(w, k, row),
           w = "update" => update # 0, w = "recover" => recover.at = "import"
    PROVE  WritesFit'
<1> DEFINE f == [j \in Written(w) \cup {k} |-> IF j = k THEN row ELSE writes[w][j]]
<1>1. /\ writes' = [writes EXCEPT ![w] = f] /\ k \notin Locked
      /\ \A v \in Writers : k \notin Written(v)
  BY DEF WriteRow
<1>2. DOMAIN f = Written(w) \cup {k}
  OBVIOUS
<1>3. \A j \in DOMAIN f : f[j] \in Movements \cup {Gone}
  BY DEF WritesFit, WritesRow
<1> HIDE DEF f
<1>4. DOMAIN writes' = Writers /\ writes'[w] = f /\ \A v \in Writers \ {w} : writes'[v] = writes[v]
  BY <1>1 DEF WritesFit
<1>5. Written(w)' = Written(w) \cup {k} /\ \A v \in Writers \ {w} : Written(v)' = Written(v)
  BY <1>2, <1>4 DEF Written
<1>6. \A v \in Writers : WritesRow(v)'
  <2>1. WritesRow(w)'
    BY <1>3, <1>4, <1>5, <1>2 DEF WritesFit, WritesRow
  <2>2. \A v \in Writers \ {w} : WritesRow(v)'
    BY <1>4, <1>5 DEF WritesFit, WritesRow
  <2> QED
    BY <2>1, <2>2
<1>7. Locked' = Locked
  BY DEF Locked
<1>8. WritersHold'
  <2>1. \A u, v \in Writers : u # v => Written(u)' \cap Written(v)' = {}
    BY <1>1, <1>5 DEF WritesFit, WritersHold
  <2>2. \A v \in Writers : Written(v)' \cap Locked' = {}
    BY <1>1, <1>5, <1>7 DEF WritesFit, WritersHold
  <2>3. Written("update")' # {} => update # 0
    BY <1>5 DEF WritesFit, WritersHold, Writers
  <2>4. Written("recover")' # {} => recover.at = "import"
    BY <1>5 DEF WritesFit, WritersHold, Writers
  <2> QED
    BY <2>1, <2>2, <2>3, <2>4 DEF WritersHold
<1> QED
  BY <1>4, <1>6, <1>8 DEF WritesFit

(* A transaction ends, whole or, of VSTP's, one of them, and its command goes on.   *)
LEMMA WritesShrink ==
    ASSUME WritesFit, UNCHANGED geo, update' \in 0 .. Days,
           NEW w \in Writers, NEW f, writes' = [writes EXCEPT ![w] = f],
           DOMAIN f \subseteq Written(w), \A k \in DOMAIN f : f[k] = writes[w][k],
           (w = "update" /\ f = Nothing) \/ update' = update,
           (w = "recover" /\ f = Nothing) \/ (recover.at = "import" => recover'.at = "import")
    PROVE  WritesFit'
<1>1. DOMAIN writes' = Writers /\ writes'[w] = f /\ \A v \in Writers \ {w} : writes'[v] = writes[v]
  BY DEF WritesFit
<1>2. \A v \in Writers : Written(v)' \subseteq Written(v)
  BY <1>1 DEF Written
<1>3. \A v \in Writers : WritesRow(v)'
  <2>1. WritesRow(w)'
    <3>1. Written(w)' = DOMAIN f
      BY <1>1 DEF Written
    <3> QED
      BY <1>1, <3>1 DEF WritesFit, WritesRow
  <2>2. ASSUME NEW v \in Writers \ {w} PROVE WritesRow(v)'
    <3>1. Written(v)' = Written(v)
      BY <1>1 DEF Written
    <3> QED
      BY <1>1, <3>1 DEF WritesFit, WritesRow
  <2> QED
    BY <2>1, <2>2
<1>4. WritersHold'
  <2>1. Locked' = Locked
    BY DEF Locked
  <2>2. f = Nothing => Written(w)' = {}
    BY <1>1 DEF Written, Nothing
  <2>3. Written("update")' # {} => update' # 0
    BY <1>2, <2>2 DEF WritesFit, WritersHold, Writers
  <2>4. Written("recover")' # {} => recover'.at = "import"
    BY <1>2, <2>2 DEF WritesFit, WritersHold, Writers
  <2> QED
    BY <1>2, <2>1, <2>3, <2>4 DEF WritesFit, WritersHold
<1> QED
  BY <1>1, <1>3, <1>4 DEF WritesFit

LEMMA NothingFits == \A w \in Writers : DOMAIN Nothing \subseteq Written(w) /\ DOMAIN Nothing = {}
  BY DEF Nothing

(* Neither the transactions nor the threads move.                               *)
LEMMA WritesUnmoved ==
    ASSUME WritesFit, UNCHANGED <<update, writes, geo>>,
           recover.at = "import" => recover'.at = "import"
    PROVE  WritesFit'
  BY DEF WritesFit, WritesRow, Written, WritersHold, Locked

(* A created row fits, and if the row was done and has lost its ways it says so.   *)
LEMMA CreateFits ==
    ASSUME NEW rows, NEW k \in ScheduleKeys, NEW metaseq \in 0 .. Days, NEW mvts \in Movements,
           metaseq = 0 <=> k \in VstpKeys,
           k \in DOMAIN rows => RowFits(k, rows[k])
    PROVE  RowFits(k, CreateSched(rows, k, metaseq, mvts))
<1> DEFINE row == CreateSched(rows, k, metaseq, mvts)
<1>1. CASE k \notin DOMAIN rows
  <2>1. row = [metaseq |-> metaseq, generation |-> 0, mvts |-> mvts, ways |-> FALSE,
               replaced |-> FALSE]
    BY <1>1 DEF CreateSched
  <2> HIDE DEF row
  <2>2. row \in SchedRow
    BY <2>1 DEF SchedRow
  <2>3. row.metaseq = metaseq /\ row.generation = 0
    BY <2>1
  <2>4. (row.metaseq = 0 <=> k \in VstpKeys) /\ row.generation # 1
    BY <2>3
  <2>5. RowFits(k, row)
    BY <2>2, <2>4, Zenon DEF RowFits
  <2> QED
    BY <2>5 DEF row
<1>2. CASE k \in DOMAIN rows
  <2> DEFINE old == rows[k]
             ways == old.ways /\ old.mvts = mvts
             replaced == old.replaced \/ (old.mvts # mvts /\ old.generation = 1)
  <2>1. row = [metaseq |-> metaseq, generation |-> old.generation, mvts |-> mvts,
               ways |-> ways, replaced |-> replaced]
    BY <1>2 DEF CreateSched
  <2>2. old.generation \in {0, 1} /\ (old.generation = 1 => old.ways \/ old.replaced)
    BY <1>2 DEF RowFits, SchedRow
  <2>3. ways \in BOOLEAN /\ replaced \in BOOLEAN
    OBVIOUS
  <2>4. old.generation = 1 => ways \/ replaced
    BY <2>2
  <2> HIDE DEF row, old, ways, replaced
  <2>5. row \in SchedRow
    BY <2>1, <2>2, <2>3 DEF SchedRow
  <2>6. row.metaseq = metaseq /\ row.generation = old.generation
        /\ row.ways = ways /\ row.replaced = replaced
    BY <2>1
  <2>7. row.generation = 1 => row.ways \/ row.replaced
    BY <2>4, <2>6
  <2>8. row.metaseq = 0 <=> k \in VstpKeys
    BY <2>6
  <2>9. RowFits(k, row)
    BY <2>5, <2>7, <2>8, Zenon DEF RowFits
  <2> QED
    BY <2>9 DEF row
<1> QED
  BY <1>1, <1>2

(* Whoever changes rows that no thread holds leaves the threads in order.          *)
LEMMA ThreadsUnmoved ==
    ASSUME ThreadsFit, UNCHANGED geo,
           \A k \in Locked : k \in DOMAIN scheds => k \in DOMAIN scheds' /\ scheds'[k] = scheds[k]
    PROVE  ThreadsFit'
<1>1. \A g \in GeoThreads : geo[g].key # NoKey =>
          geo[g].key \in DOMAIN scheds /\ geo[g].key \in DOMAIN scheds'
          /\ scheds'[geo[g].key] = scheds[geo[g].key]
  BY DEF ThreadsFit, OneThreadEach, Locked
<1>2. OneThreadEach'
  BY <1>1 DEF ThreadsFit, OneThreadEach
<1>3. ThreadsHold'
  BY <1>1 DEF ThreadsFit, ThreadsHold
<1> QED
  BY <1>2, <1>3 DEF ThreadsFit

(* What is written becomes the rows: no thread holds one of those.                *)
LEMMA RowsAfterKeeps ==
    ASSUME RowsFit, ThreadsFit, WritesFit, UNCHANGED geo, NEW w \in Writers,
           NEW keys \in SUBSET Written(w), NEW metaseq \in 0 .. Days,
           metaseq = 0 <=> w = "vstp", scheds' = RowsAfter(w, keys, metaseq)
    PROVE  RowsFit' /\ ThreadsFit'
<1>1. /\ DOMAIN scheds' = {k \in DOMAIN scheds \cup keys : k \in keys => writes[w][k] # Gone}
      /\ \A k \in DOMAIN scheds' :
            scheds'[k] = IF k \in keys THEN CreateSched(scheds, k, metaseq, writes[w][k])
                         ELSE scheds[k]
  BY DEF RowsAfter
<1>2. /\ keys \subseteq (IF w = "vstp" THEN VstpKeys ELSE ItpsKeys)
      /\ \A k \in keys : writes[w][k] \in Movements \cup {Gone}
      /\ keys \cap Locked = {}
  BY DEF WritesFit, WritesRow, WritersHold
<1>3. RowsFit'
  <2>1. DOMAIN scheds' \subseteq ScheduleKeys
    BY <1>1, <1>2 DEF RowsFit, ScheduleKeys
  <2>2. ASSUME NEW k \in DOMAIN scheds' PROVE RowFits(k, scheds'[k])
    <3>1. CASE k \in keys
      <4>1. k \in ScheduleKeys /\ (metaseq = 0 <=> k \in VstpKeys) /\ writes[w][k] \in Movements
        BY <1>1, <1>2, <3>1, SchedulesAssumption DEF ScheduleKeys
      <4>2. k \in DOMAIN scheds => RowFits(k, scheds[k])
        BY DEF RowsFit
      <4>3. RowFits(k, CreateSched(scheds, k, metaseq, writes[w][k]))
        BY <4>1, <4>2, CreateFits
      <4> QED
        BY <1>1, <3>1, <4>3
    <3>2. CASE k \notin keys
      BY <1>1, <3>2 DEF RowsFit
    <3> QED
      BY <3>1, <3>2
  <2> QED
    BY <2>1, <2>2 DEF RowsFit, RowFits
<1>4. ThreadsFit'
  BY <1>1, <1>2, ThreadsUnmoved
<1> QED
  BY <1>3, <1>4

LEMMA NotifyKeeps ==
    ASSUME CountersFit, Notify, UNCHANGED <<listener, changes, geo_failures>>
    PROVE  CountersFit'
  BY DEF CountersFit, Notify

(* An import's commit: a file's, an update's or recovery's.                       *)
LEMMA ApplyKeeps ==
    ASSUME SchedInv, NEW w \in {"update", "recover"}, NEW file \in (1 .. Days) \X BOOLEAN,
           ApplyFile(w, file), UNCHANGED <<listener, geo, changes, geo_failures>>,
           update' = IF w = "update" THEN 0 ELSE update,
           w = "recover" \/ recover'.at = recover.at
    PROVE  RowsFit' /\ ThreadsFit' /\ WritesFit' /\ CountersFit'
<1>1. RowsFit /\ ThreadsFit /\ WritesFit /\ CountersFit
  BY SchedParts
<1>2. w \in Writers /\ w # "vstp" /\ Written(w) \in SUBSET Written(w)
  BY DEF Writers
<1>3. file[1] \in 0 .. Days /\ (file[1] = 0 <=> w = "vstp")
  BY <1>2
<1>4. scheds' = RowsAfter(w, Written(w), file[1]) /\ writes' = [writes EXCEPT ![w] = Nothing] /\ Notify
  BY DEF ApplyFile
<1>5. RowsFit' /\ ThreadsFit'
  BY <1>1, <1>2, <1>3, <1>4, RowsAfterKeeps
<1>6. CountersFit'
  BY <1>1, <1>4, NotifyKeeps
<1>7. update' \in 0 .. Days
  BY <1>1, SchedulesAssumption DEF WritesFit
<1>8. DOMAIN Nothing \subseteq Written(w) /\ \A k \in DOMAIN Nothing : Nothing[k] = writes[w][k]
  BY <1>2, NothingFits
<1>9. WritesFit'
  BY <1>1, <1>2, <1>4, <1>7, <1>8, WritesShrink
<1> QED
  BY <1>5, <1>6, <1>9

(* A record is written in an import's transaction.                              *)
LEMMA FileRecordKeeps ==
    ASSUME SchedInv, NEW k \in ItpsKeys, NEW w \in {"update", "recover"},
           NEW row \in Movements \cup {Gone}, ImportRecord(w, k, row)
    PROVE  SchedInv'
<1>1. RowsFit /\ ThreadsFit /\ FilesFit /\ WritesFit /\ CountersFit
  BY SchedParts
<1>2. /\ WriteRow(w, k, row) /\ w \in Writers /\ w # "vstp"
      /\ UNCHANGED <<today, sfiles, scheds, update, recover, listening, changes>>
  BY DEF ImportRecord, Writers
<1>3. (w = "update" => update # 0) /\ (w = "recover" => recover.at = "import")
  BY DEF ImportRecord, Imports
<1>4. WritesFit'
  BY <1>1, <1>2, <1>3, WriteKeeps DEF listening
<1>5. RowsFit' /\ ThreadsFit' /\ FilesFit' /\ CountersFit'
  BY <1>1, <1>2 DEF RowsFit, RowFits, ThreadsFit, OneThreadEach, ThreadsHold, FilesFit,
                    RecoveryHolds, CountersFit, listening
<1> QED
  BY <1>4, <1>5, NextParts

(* VSTP's schedules: a row is written, which becomes a row or is taken away, or is not. *)
LEMMA VstpKeeps ==
    ASSUME SchedInv, NEW k \in VstpKeys,
           \/ VstpCommits(k) \/ VstpFails(k) \/ VstpDeletesNothing(k)
           \/ \E row \in Movements \cup {Gone} : VstpRecord(k, row)
    PROVE  SchedInv'
<1>1. RowsFit /\ ThreadsFit /\ FilesFit /\ WritesFit /\ CountersFit /\ "vstp" \in Writers
  BY SchedParts DEF Writers
<1>2. UNCHANGED <<today, sfiles, update, recover, listener, geo, geo_failures>>
  BY DEF VstpCommits, VstpFails, VstpDeletesNothing, VstpRecord, listening, commands
<1>3. FilesFit'
  BY <1>1, <1>2 DEF FilesFit, RecoveryHolds
<1>4. ASSUME VstpEnds(k) PROVE WritesFit'
  <2> DEFINE f == [j \in Written("vstp") \ {k} |-> writes["vstp"][j]]
  <2>1. writes' = [writes EXCEPT !["vstp"] = f]
    BY <1>4 DEF VstpEnds
  <2>2. DOMAIN f \subseteq Written("vstp") /\ \A j \in DOMAIN f : f[j] = writes["vstp"][j]
    OBVIOUS
  <2>3. update' \in 0 .. Days /\ update' = update /\ recover' = recover
    BY <1>1, <1>2 DEF WritesFit
  <2> HIDE DEF f
  <2> QED
    BY <1>1, <1>2, <2>1, <2>2, <2>3, WritesShrink
<1>5. CASE VstpCommits(k)
  <2>1. /\ VstpEnds(k) /\ Notify /\ scheds' = RowsAfter("vstp", {k}, 0)
        /\ {k} \in SUBSET Written("vstp") /\ changes' = changes
    BY <1>5 DEF VstpCommits
  <2>2. RowsFit' /\ ThreadsFit'
    <3>1. 0 \in 0 .. Days
      BY SchedulesAssumption
    <3> QED
      BY <1>1, <1>2, <2>1, <3>1, RowsAfterKeeps
  <2>3. CountersFit'
    BY <1>1, <1>2, <2>1, NotifyKeeps
  <2> QED
    BY <1>3, <1>4, <2>1, <2>2, <2>3, NextParts
<1>6. CASE VstpFails(k)
  <2>1. VstpEnds(k) /\ UNCHANGED <<scheds, geo, listening, changes>>
    BY <1>2, <1>6 DEF VstpFails
  <2>2. RowsFit' /\ ThreadsFit' /\ CountersFit'
    BY <1>1, <2>1 DEF RowsFit, RowFits, ThreadsFit, OneThreadEach, ThreadsHold, CountersFit,
                      listening
  <2> QED
    BY <1>3, <1>4, <2>1, <2>2, NextParts
<1>7. CASE VstpDeletesNothing(k)
  <2>1. Notify /\ UNCHANGED <<scheds, writes, changes>>
    BY <1>7 DEF VstpDeletesNothing, commands
  <2>2. RowsFit' /\ ThreadsFit'
    BY <1>1, <1>2, <2>1 DEF RowsFit, RowFits, ThreadsFit, OneThreadEach, ThreadsHold
  <2>3. CountersFit' /\ WritesFit'
    BY <1>1, <1>2, <2>1, NotifyKeeps, WritesUnmoved
  <2> QED
    BY <1>3, <2>2, <2>3, NextParts
<1>8. ASSUME NEW row \in Movements \cup {Gone}, VstpRecord(k, row)
      PROVE  SchedInv'
  <2>1. WriteRow("vstp", k, row) /\ UNCHANGED <<scheds, listening>>
    BY <1>8 DEF VstpRecord
  <2>2. WritesFit'
    BY <1>1, <1>2, <2>1, WriteKeeps
  <2>3. RowsFit' /\ ThreadsFit'
    BY <1>1, <1>2, <2>1 DEF RowsFit, RowFits, ThreadsFit, OneThreadEach, ThreadsHold
  <2>4. changes' \in 0 .. MaxChanges
    BY <1>1, <1>8, SchedulesAssumption DEF VstpRecord, CountersFit
  <2>5. CountersFit'
    BY <1>1, <2>1, <2>4 DEF CountersFit, listening
  <2> QED
    BY <1>3, <2>2, <2>3, <2>5, NextParts
<1> QED
  BY <1>5, <1>6, <1>7, <1>8

(* A step of recovery keeps what it knows of the files.                          *)
LEMMA RecoverTyped ==
    ASSUME FilesFit
    PROVE  /\ recover.at \in {"idle", "fetch", "import", "last", "delete", "done"}
           /\ recover.day \in 0 .. Days /\ recover.last \in 0 .. Days
           /\ recover.alone \in BOOLEAN
           /\ recover = [at |-> recover.at, day |-> recover.day, last |-> recover.last,
                         alone |-> recover.alone]
  BY DEF FilesFit, RecoverRow

LEMMA RecoverStepKeeps ==
    ASSUME SchedInv, StartRecover \/ LookAtFiles \/ ReadLastFile \/ RecoverFails
    PROVE  SchedInv'
<1>1. RowsFit /\ ThreadsFit /\ FilesFit /\ WritesFit /\ CountersFit
  BY SchedParts
<1>2. UNCHANGED <<today, sfiles, scheds, update, listening>>
  BY DEF StartRecover, LookAtFiles, ReadLastFile, RecoverFails
<1>3. RowsFit' /\ ThreadsFit' /\ CountersFit'
  <2>1. changes' = changes \/ (changes < MaxChanges /\ changes' = changes + 1)
    BY DEF StartRecover, LookAtFiles, ReadLastFile, RecoverFails
  <2>2. changes' \in 0 .. MaxChanges
    BY <1>1, <2>1, SchedulesAssumption DEF CountersFit
  <2> QED
    BY <1>1, <1>2, <2>2 DEF RowsFit, RowFits, ThreadsFit, OneThreadEach, ThreadsHold,
                            CountersFit, listening
<1>6. WritesFit'
  <2>1. CASE RecoverFails
    <3>1. /\ writes' = [writes EXCEPT !["recover"] = Nothing] /\ "recover" \in Writers
          /\ update' = update /\ geo' = geo /\ update' \in 0 .. Days
      BY <1>1, <2>1 DEF RecoverFails, Writers, listening, WritesFit
    <3>2. \A k \in DOMAIN Nothing : Nothing[k] = writes["recover"][k]
      BY NothingFits DEF Writers
    <3> QED
      BY <1>1, <3>1, <3>2, NothingFits, WritesShrink
  <2>2. CASE StartRecover \/ LookAtFiles \/ ReadLastFile
    <3>1. UNCHANGED <<update, writes, geo>> /\ recover.at # "import"
      BY <2>2 DEF StartRecover, LookAtFiles, ReadLastFile, listening
    <3> QED
      BY <1>1, <3>1, WritesUnmoved
  <2> QED
    BY <2>1, <2>2
<1>4. 0 \in 0 .. Days /\ today \in 0 .. Days
  BY <1>1, SchedulesAssumption DEF FilesFit
<1>5. FilesFit'
  <2>1. CASE StartRecover
    <3>1. recover' = [at |-> "fetch", day |-> today, last |-> 0, alone |-> TRUE]
      BY <2>1 DEF StartRecover, NotRecovering
    <3>2. recover' \in RecoverRow
      BY <1>4, <3>1 DEF RecoverRow
    <3>3. recover'.at = "fetch" /\ recover'.day >= 1
      BY <1>1, <3>1 DEF FilesFit
    <3> QED
      BY <1>1, <1>2, <3>2, <3>3 DEF FilesFit, RecoveryHolds
  <2>2. CASE LookAtFiles
    <3>1. recover' = [at |-> "import", day |-> recover.day, last |-> recover.last,
                      alone |-> TRUE]
      BY <1>1, <2>2, RecoverTyped DEF LookAtFiles
    <3>2. recover' \in RecoverRow
      BY <1>1, <3>1, RecoverTyped DEF RecoverRow
    <3>3. recover'.at = "import" /\ recover'.day = recover.day /\ recover.day >= 1
      BY <1>1, <2>2, <3>1 DEF LookAtFiles, FilesFit, RecoveryHolds
    <3>4. \A f \in sfiles : f[1] <= recover.day
      BY <2>2 DEF LookAtFiles, IsNewFile
    <3> QED
      BY <1>1, <1>2, <3>2, <3>3, <3>4 DEF FilesFit, RecoveryHolds
  <2>3. CASE ReadLastFile
    <3>1. PICK f \in sfiles : /\ \A g \in sfiles : g[1] <= f[1]
                              /\ recover' = [recover EXCEPT !.at = "delete", !.last = f[1]]
      BY <2>3 DEF ReadLastFile
    <3>2. f[1] \in 0 .. Days
      BY <1>1, <3>1 DEF FilesFit
    <3>3. recover' = [at |-> "delete", day |-> recover.day, last |-> f[1],
                      alone |-> recover.alone]
      BY <1>1, <3>1, RecoverTyped
    <3>4. recover' \in RecoverRow
      BY <1>1, <3>2, <3>3, RecoverTyped DEF RecoverRow
    <3>5. recover'.at = "delete" /\ recover'.day = recover.day /\ recover'.last = f[1]
          /\ recover'.alone = recover.alone
      BY <3>3
    <3>6. recover.day >= 1 /\ <<recover.day, TRUE>> \in sfiles
      BY <1>1, <2>3 DEF ReadLastFile, FilesFit, RecoveryHolds
    <3>7. recover.alone => \A g \in sfiles : g[1] <= recover.day
      BY <1>1, <2>3 DEF ReadLastFile, FilesFit, RecoveryHolds
    <3>8. recover.alone => f[1] = recover.day
      <4>1. <<recover.day, TRUE>>[1] <= f[1]
        BY <3>1, <3>6
      <4> QED
        BY <1>1, <3>1, <3>2, <3>7, <4>1, RecoverTyped
    <3> QED
      BY <1>1, <1>2, <3>4, <3>5, <3>6, <3>7, <3>8 DEF FilesFit, RecoveryHolds
  <2>4. CASE RecoverFails
    <3>1. recover' \in RecoverRow /\ recover'.at = "idle"
      BY <1>4, <2>4 DEF RecoverFails, NotRecovering, RecoverRow
    <3> QED
      BY <1>1, <1>2, <3>1 DEF FilesFit, RecoveryHolds
  <2> QED
    BY <2>1, <2>2, <2>3, <2>4
<1> QED
  BY <1>3, <1>5, <1>6, NextParts

(* Recovery imports its own file, the newest if it is alone.                      *)
LEMMA RecoverAppliesKeeps ==
    ASSUME SchedInv, RecoverApplies
    PROVE  SchedInv'
<1>1. RowsFit /\ ThreadsFit /\ FilesFit /\ WritesFit /\ CountersFit
  BY SchedParts
<1> DEFINE file == <<recover.day, TRUE>>
<1>2. /\ recover.at = "import" /\ recover.day \in 1 .. Days
      /\ recover' = [at |-> "last", day |-> recover.day, last |-> recover.last,
                     alone |-> recover.alone]
      /\ ApplyFile("recover", file)
      /\ UNCHANGED <<today, update, listener, geo, changes, geo_failures>>
  BY <1>1, RecoverTyped DEF RecoverApplies, ApplyFile, Imports, FilesFit, RecoveryHolds
<1>3. file \in (1 .. Days) \X BOOLEAN /\ file[1] = recover.day
  BY <1>2
<1>4. sfiles' = sfiles \cup {file}
  BY <1>2 DEF ApplyFile
<1> HIDE DEF file
<1>5. RowsFit' /\ ThreadsFit' /\ WritesFit' /\ CountersFit'
  BY <1>2, <1>3, ApplyKeeps
<1>7. recover' \in RecoverRow
  BY <1>1, <1>2, RecoverTyped DEF RecoverRow
<1>8. recover'.at = "last" /\ recover'.day = recover.day /\ recover'.alone = recover.alone
  BY <1>2
<1>9. recover.alone => \A f \in sfiles' : f[1] <= recover.day
  BY <1>1, <1>2, <1>3, <1>4 DEF FilesFit, RecoveryHolds
<1>10. <<recover.day, TRUE>> \in sfiles'
  BY <1>4 DEF file
<1>11. RecoveryHolds'
  BY <1>2, <1>8, <1>9, <1>10 DEF RecoveryHolds
<1>12. FilesFit'
  BY <1>1, <1>2, <1>3, <1>4, <1>7, <1>11 DEF FilesFit
<1> QED
  BY <1>5, <1>12, NextParts

(* After an update a recovery that has begun is not alone.                        *)
LEMMA UpdateAppliesKeeps ==
    ASSUME SchedInv, UpdateApplies
    PROVE  SchedInv'
<1>1. RowsFit /\ ThreadsFit /\ FilesFit /\ WritesFit /\ CountersFit
  BY SchedParts
<1> DEFINE file == <<update, FALSE>>
           alone == recover.at \in {"idle", "fetch", "done"}
<1>2. update \in 1 .. Days
  BY <1>1 DEF UpdateApplies, WritesFit
<1>3. /\ file \in (1 .. Days) \X BOOLEAN
      /\ ApplyFile("update", file) /\ sfiles' = sfiles \cup {file}
      /\ recover' = [at |-> recover.at, day |-> recover.day, last |-> recover.last,
                     alone |-> alone]
      /\ update' = 0 /\ UNCHANGED <<today, listener, geo, changes, geo_failures>>
  BY <1>1, <1>2, RecoverTyped DEF UpdateApplies, ApplyFile
<1>4. alone \in BOOLEAN /\ (alone => recover.at \notin {"import", "last", "delete"})
  OBVIOUS
<1> HIDE DEF file, alone
<1>7. recover' \in RecoverRow
  BY <1>1, <1>3, <1>4, RecoverTyped DEF RecoverRow
<1>8. recover'.at = recover.at /\ recover'.day = recover.day /\ recover'.alone = alone
  BY <1>3
<1>5. RowsFit' /\ ThreadsFit' /\ WritesFit' /\ CountersFit'
  BY <1>3, <1>8, ApplyKeeps
<1>9. RecoveryHolds'
  BY <1>1, <1>3, <1>4, <1>8 DEF FilesFit, RecoveryHolds
<1>10. FilesFit'
  BY <1>1, <1>3, <1>7, <1>9 DEF FilesFit
<1> QED
  BY <1>5, <1>10, NextParts

(* Stale rows go when no thread holds one.                                      *)
LEMMA DeleteStaleKeeps ==
    ASSUME SchedInv, DeleteStale
    PROVE  SchedInv'
<1>1. RowsFit /\ ThreadsFit /\ FilesFit /\ WritesFit /\ CountersFit
  BY SchedParts
<1>2. /\ DOMAIN scheds' \subseteq DOMAIN scheds
      /\ \A k \in DOMAIN scheds' : scheds'[k] = scheds[k]
      /\ \A k \in DOMAIN scheds : k \in Locked => k \in DOMAIN scheds'
      /\ UNCHANGED <<today, sfiles, update, writes, listener, notified, geo, missed,
                     geo_failures, changes>>
      /\ recover' = [NotRecovering EXCEPT !.at = "done"] /\ recover.at = "delete"
  BY DEF DeleteStale, listening
<1>3. RowsFit'
  BY <1>1, <1>2 DEF RowsFit, RowFits
<1>4. ThreadsFit'
  BY <1>1, <1>2, ThreadsUnmoved
<1>5. WritesFit'
  BY <1>1, <1>2, WritesUnmoved
<1>6. recover' \in RecoverRow /\ recover'.at = "done"
  <2>1. recover' = [at |-> "done", day |-> 0, last |-> 0, alone |-> TRUE]
    BY <1>2 DEF NotRecovering
  <2>2. 0 \in 0 .. Days
    BY SchedulesAssumption
  <2> QED
    BY <2>1, <2>2 DEF RecoverRow
<1>8. FilesFit' /\ CountersFit'
  BY <1>1, <1>2, <1>6 DEF FilesFit, RecoveryHolds, CountersFit
<1> QED
  BY <1>3, <1>4, <1>5, <1>8, NextParts

(* The day moves, an update begins or ends without a commit, the listener listens.   *)
LEMMA CounterKeeps ==
    ASSUME SchedInv, NextDay \/ UpdateFails \/ Listen
                     \/ \E d \in {today, today - FileWeek} : UpdateLooks(d)
    PROVE  SchedInv'
<1>1. RowsFit /\ ThreadsFit /\ FilesFit /\ WritesFit /\ CountersFit
  BY SchedParts
<1>2. UNCHANGED <<sfiles, scheds, recover, notified, geo, missed, geo_failures>>
  BY DEF NextDay, UpdateLooks, UpdateFails, Listen, commands, listening
<1>3. RowsFit' /\ ThreadsFit'
  BY <1>1, <1>2 DEF RowsFit, RowFits, ThreadsFit, OneThreadEach, ThreadsHold
<1>4. today' \in 1 .. Days
  BY <1>1, SchedulesAssumption DEF NextDay, UpdateLooks, UpdateFails, Listen, FilesFit
<1>5. WritesFit'
  <2>1. CASE UpdateFails
    <3>1. /\ writes' = [writes EXCEPT !["update"] = Nothing] /\ "update" \in Writers
          /\ update' = 0 /\ 0 \in 0 .. Days
      BY <2>1, SchedulesAssumption DEF UpdateFails, Writers
    <3>2. \A k \in DOMAIN Nothing : Nothing[k] = writes["update"][k]
      BY NothingFits DEF Writers
    <3> QED
      BY <1>1, <1>2, <3>1, <3>2, NothingFits, WritesShrink
  <2>2. CASE NextDay \/ Listen
    <3>1. UNCHANGED <<update, writes, geo>>
      BY <1>2, <2>2 DEF NextDay, Listen, commands
    <3> QED
      BY <1>1, <1>2, <3>1, WritesUnmoved
  <2>3. ASSUME NEW d \in {today, today - FileWeek}, UpdateLooks(d) PROVE WritesFit'
    <3>1. update' = d /\ d \in 1 .. Days /\ UNCHANGED <<writes, recover, geo>>
      BY <1>1, <1>2, <2>3, SchedulesAssumption DEF UpdateLooks, FilesFit
    <3> QED
      BY <1>1, <3>1 DEF WritesFit, WritesRow, Written, WritersHold, Locked
  <2> QED
    BY <2>1, <2>2, <2>3
<1>6. listener' \in {"down", "first", "listen", "wait", "run"}
  BY <1>1 DEF NextDay, UpdateLooks, UpdateFails, Listen, listening, CountersFit
<1>7. FilesFit'
  BY <1>1, <1>2, <1>4 DEF FilesFit, RecoveryHolds
<1>8. changes' \in 0 .. MaxChanges
  BY <1>1, SchedulesAssumption DEF NextDay, UpdateLooks, UpdateFails, Listen, CountersFit
<1>9. CountersFit'
  BY <1>1, <1>2, <1>6, <1>8 DEF CountersFit
<1> QED
  BY <1>3, <1>5, <1>7, <1>9, NextParts

(* A run begins or ends: no thread holds a row.                                  *)
LEMMA RunKeeps ==
    ASSUME SchedInv, StartListener \/ RunEnds \/ ListenerDies \/ TakeNotification
    PROVE  SchedInv'
<1>1. RowsFit /\ ThreadsFit /\ FilesFit /\ WritesFit /\ CountersFit
  BY SchedParts
<1>2. UNCHANGED <<today, sfiles, scheds, commands, changes, geo_failures>>
  BY DEF StartListener, RunEnds, ListenerDies, TakeNotification
<1>3. PICK at \in {"off", "take"} : geo' = [g \in GeoThreads |-> [at |-> at, key |-> NoKey]]
  BY DEF StartListener, RunEnds, ListenerDies, TakeNotification, StartThreads, Off
<1>4. [at |-> at, key |-> NoKey] \in GeoRow
  BY DEF GeoRow
<1>5. geo' \in [GeoThreads -> GeoRow]
  BY <1>3, <1>4
<1>6. \A g \in GeoThreads : geo'[g].at = at /\ geo'[g].key = NoKey
  BY <1>3
<1>7. RowsFit'
  BY <1>1, <1>2 DEF RowsFit, RowFits
<1>8. ThreadsFit'
  BY <1>5, <1>6 DEF ThreadsFit, OneThreadEach, ThreadsHold
<1>9. listener' \in {"down", "first", "listen", "wait", "run"}
  BY DEF StartListener, RunEnds, ListenerDies, TakeNotification
<1>10. notified' \in BOOLEAN /\ missed' \subseteq ScheduleKeys
  BY <1>1 DEF StartListener, RunEnds, ListenerDies, TakeNotification, StartThreads, CountersFit
<1>11. FilesFit' /\ CountersFit'
  BY <1>1, <1>2, <1>9, <1>10 DEF FilesFit, RecoveryHolds, CountersFit, commands
<1>12. WritesFit'
  <2>1. Locked' = {}
    BY <1>6 DEF Locked
  <2> QED
    BY <1>1, <1>2, <2>1 DEF WritesFit, WritesRow, Written, WritersHold, commands
<1> QED
  BY <1>7, <1>8, <1>11, <1>12, NextParts

(* A thread moves, with a row that no other has, or without one.                  *)
LEMMA MovedThread ==
    ASSUME ThreadsFit, NEW g \in GeoThreads,
           NEW at \in {"take", "process", "mark", "done", "failed"},
           NEW key \in ScheduleKeys \cup {NoKey}, Geo(g, at, key),
           key # NoKey <=> at \in {"process", "mark"},
           key # NoKey => key \in DOMAIN scheds' /\ scheds'[key].generation = 0,
           at = "mark" => scheds'[key].ways,
           \A h \in GeoThreads \ {g} : geo[h].key # NoKey =>
              /\ geo[h].key # key /\ geo[h].key \in DOMAIN scheds'
              /\ scheds'[geo[h].key] = scheds[geo[h].key]
    PROVE  ThreadsFit'
<1>1. geo' = [geo EXCEPT ![g] = [at |-> at, key |-> key]] /\ geo \in [GeoThreads -> GeoRow]
  BY DEF Geo, ThreadsFit
<1>2. [at |-> at, key |-> key] \in GeoRow
  BY DEF GeoRow
<1>3. geo' \in [GeoThreads -> GeoRow]
  BY <1>1, <1>2
<1>4. geo'[g].at = at /\ geo'[g].key = key
  BY <1>1
<1>5. \A h \in GeoThreads \ {g} : geo'[h] = geo[h]
  BY <1>1
<1>6. OneThreadEach'
  BY <1>4, <1>5 DEF ThreadsFit, OneThreadEach
<1>7. ThreadsHold'
  <2>1. (geo'[g].key # NoKey <=> geo'[g].at \in {"process", "mark"})
        /\ (geo'[g].at = "mark" => scheds'[geo'[g].key].ways)
    BY <1>4
  <2>2. ASSUME NEW h \in GeoThreads \ {g}
        PROVE  /\ geo'[h].key # NoKey <=> geo'[h].at \in {"process", "mark"}
               /\ geo'[h].at = "mark" => scheds'[geo'[h].key].ways
    BY <1>5 DEF ThreadsFit, ThreadsHold
  <2> QED
    BY <2>1, <2>2 DEF ThreadsHold
<1> QED
  BY <1>3, <1>6, <1>7 DEF ThreadsFit

LEMMA ThreadKeeps ==
    ASSUME SchedInv, NEW g \in GeoThreads, GeoStep(g) \/ GeoFails(g)
    PROVE  SchedInv'
<1>1. RowsFit /\ ThreadsFit /\ FilesFit /\ WritesFit /\ CountersFit /\ geo[g] \in GeoRow
  BY SchedParts DEF ThreadsFit
<1>2. UNCHANGED <<today, sfiles, commands, listener, notified, changes>>
  BY DEF GeoStep, TakeSched, ProcessSched, MarkSched, GeoFails
<1>3. geo_failures' \in 0 .. MaxGeoFailures
  BY <1>1, SchedulesAssumption
     DEF GeoStep, TakeSched, ProcessSched, MarkSched, GeoFails, CountersFit
<1>14. \A j \in ToDo : j \in ScheduleKeys
  BY <1>1 DEF ToDo, RowsFit
<1>15. missed' \subseteq ScheduleKeys
  BY <1>1, <1>14 DEF CountersFit, GeoStep, TakeSched, ProcessSched, MarkSched, GeoFails
<1>4. FilesFit' /\ CountersFit'
  BY <1>1, <1>2, <1>3, <1>15 DEF FilesFit, RecoveryHolds, CountersFit, commands
<1>16. ASSUME Locked' \cap UNION {Written(w) : w \in Writers} = {} PROVE WritesFit'
  BY <1>1, <1>2, <1>16 DEF WritesFit, WritesRow, Written, WritersHold, commands
<1>17. Locked \cap UNION {Written(w) : w \in Writers} = {}
  BY <1>1 DEF WritesFit, WritersHold
<1>18. ASSUME NEW at, NEW key, Geo(g, at, key),
              key \in {NoKey, geo[g].key} \/ key \notin UNION {Written(w) : w \in Writers}
       PROVE  WritesFit'
  <2>1. \A h \in GeoThreads : geo'[h].key = IF h = g THEN key ELSE geo[h].key
    BY <1>1, <1>18 DEF Geo, ThreadsFit
  <2>2. Locked' \subseteq Locked \cup ({key} \ {NoKey})
    BY <2>1 DEF Locked
  <2>3. key \in {NoKey, geo[g].key} => Locked' \subseteq Locked
    BY <2>2 DEF Locked
  <2> QED
    BY <1>16, <1>17, <1>18, <2>2, <2>3
<1>5. NoKey \in ScheduleKeys \cup {NoKey}
  OBVIOUS
<1>6. \A h \in GeoThreads : geo[h].key # NoKey =>
          geo[h].key \in DOMAIN scheds /\ geo[h].key \in ScheduleKeys
  BY <1>1 DEF ThreadsFit, OneThreadEach, RowsFit
<1>7. CASE TakeSched(g)
  <2>1. UNCHANGED scheds /\ RowsFit'
    BY <1>1, <1>7 DEF TakeSched, RowsFit, RowFits
  <2>2. CASE Geo(g, "done", NoKey)
    <3>1. ThreadsFit'
      BY <1>1, <1>5, <1>6, <2>1, <2>2, MovedThread
    <3>2. WritesFit'
      BY <1>18, <2>2
    <3> QED
      BY <1>4, <2>1, <3>1, <3>2, NextParts
  <2>3. ASSUME NEW k \in ToDo \ (Locked \cup UNION {Written(w) : w \in Writers}),
               Geo(g, "process", k)
        PROVE  SchedInv'
    <3>1. k \in ScheduleKeys /\ k # NoKey /\ k \in DOMAIN scheds /\ scheds[k].generation = 0
      BY <1>14, SchedulesAssumption DEF ToDo
    <3>2. \A h \in GeoThreads : geo[h].key # k
      BY <3>1 DEF Locked
    <3>3. ThreadsFit'
      BY <1>1, <1>6, <2>1, <2>3, <3>1, <3>2, MovedThread
    <3>4. WritesFit'
      BY <1>18, <2>3
    <3> QED
      BY <1>4, <2>1, <3>3, <3>4, NextParts
  <2> QED
    BY <1>7, <2>2, <2>3 DEF TakeSched
<1>8. CASE GeoFails(g)
  <2>1. UNCHANGED scheds /\ RowsFit' /\ Geo(g, "failed", NoKey)
    BY <1>1, <1>8 DEF GeoFails, RowsFit, RowFits
  <2>2. ThreadsFit'
    BY <1>1, <1>5, <1>6, <2>1, MovedThread
  <2>3. WritesFit'
    BY <1>18, <2>1
  <2> QED
    BY <1>4, <2>1, <2>2, <2>3, NextParts
<1> DEFINE k == geo[g].key
<1>9. ASSUME geo[g].at \in {"process", "mark"}
      PROVE  /\ k \in DOMAIN scheds /\ k \in ScheduleKeys /\ k # NoKey
             /\ scheds[k].generation = 0 /\ RowFits(k, scheds[k])
             /\ \A h \in GeoThreads \ {g} : geo[h].key # k
             /\ geo[g].at = "mark" => scheds[k].ways
  BY <1>1, <1>6, <1>9 DEF ThreadsFit, OneThreadEach, ThreadsHold, RowsFit
<1> HIDE DEF k
<1>10. CASE ProcessSched(g)
  <2>1. /\ geo[g].at = "process" /\ scheds' = [scheds EXCEPT ![k].ways = TRUE]
        /\ Geo(g, "mark", k)
    BY <1>10 DEF ProcessSched, k
  <2>2. /\ DOMAIN scheds' = DOMAIN scheds
        /\ \A j \in DOMAIN scheds \ {k} : scheds'[j] = scheds[j]
        /\ scheds'[k] = [scheds[k] EXCEPT !.ways = TRUE]
    BY <1>9, <2>1
  <2>3. /\ scheds'[k] \in SchedRow /\ scheds'[k].generation = 0 /\ scheds'[k].ways
        /\ scheds'[k].metaseq = scheds[k].metaseq
    <3>1. scheds[k] \in SchedRow /\ scheds[k].generation = 0
      BY <1>9, <2>1 DEF RowFits
    <3> QED
      BY <2>2, <3>1 DEF SchedRow
  <2>4. RowFits(k, scheds'[k])
    <3>1. scheds'[k].metaseq = 0 <=> k \in VstpKeys
      BY <1>9, <2>1, <2>3 DEF RowFits
    <3> QED
      BY <2>3, <3>1, Zenon DEF RowFits
  <2>5. RowsFit'
    BY <1>1, <2>2, <2>4 DEF RowsFit, RowFits
  <2>6. ThreadsFit'
    BY <1>1, <1>6, <1>9, <2>1, <2>2, <2>3, MovedThread
  <2>7. WritesFit'
    BY <1>18, <2>1 DEF k
  <2> QED
    BY <1>4, <2>5, <2>6, <2>7, NextParts
<1>11. CASE MarkSched(g)
  <2>1. /\ geo[g].at = "mark" /\ scheds' = [scheds EXCEPT ![k].generation = 1]
        /\ Geo(g, "take", NoKey)
    BY <1>11 DEF MarkSched, k
  <2>2. /\ DOMAIN scheds' = DOMAIN scheds
        /\ \A j \in DOMAIN scheds \ {k} : scheds'[j] = scheds[j]
        /\ scheds'[k] = [scheds[k] EXCEPT !.generation = 1]
    BY <1>9, <2>1
  <2>3. /\ scheds'[k] \in SchedRow /\ scheds'[k].ways
        /\ scheds'[k].metaseq = scheds[k].metaseq
    <3>1. scheds[k] \in SchedRow /\ scheds[k].ways
      BY <1>9, <2>1 DEF RowFits
    <3> QED
      BY <2>2, <3>1 DEF SchedRow
  <2>4. RowFits(k, scheds'[k])
    <3>1. scheds'[k].metaseq = 0 <=> k \in VstpKeys
      BY <1>9, <2>1, <2>3 DEF RowFits
    <3> QED
      BY <2>3, <3>1, Zenon DEF RowFits
  <2>5. RowsFit'
    BY <1>1, <2>2, <2>4 DEF RowsFit, RowFits
  <2>6. \A h \in GeoThreads \ {g} : geo[h].key # NoKey =>
            /\ geo[h].key \in DOMAIN scheds'
            /\ scheds'[geo[h].key] = scheds[geo[h].key]
    BY <1>6, <1>9, <2>1, <2>2
  <2>7. ThreadsFit'
    BY <1>1, <1>5, <2>1, <2>6, MovedThread
  <2>8. WritesFit'
    BY <1>18, <2>1
  <2> QED
    BY <1>4, <2>5, <2>7, <2>8, NextParts
<1> QED
  BY <1>7, <1>8, <1>10, <1>11 DEF GeoStep

LEMMA SchedNextKeeps == SchedInv /\ [SchedNext]_schedvars => SchedInv'
<1> SUFFICES ASSUME SchedInv, [SchedNext]_schedvars PROVE SchedInv'
  OBVIOUS
<1>1. ASSUME NextDay \/ UpdateFails \/ Listen
             \/ \E d \in {today, today - FileWeek} : UpdateLooks(d)
      PROVE  SchedInv'
  BY <1>1, CounterKeeps
<1>2. CASE StartRecover \/ LookAtFiles \/ ReadLastFile \/ RecoverFails
  BY <1>2, RecoverStepKeeps
<1>3. CASE DeleteStale
  BY <1>3, DeleteStaleKeeps
<1>4. CASE RecoverApplies
  BY <1>4, RecoverAppliesKeeps
<1>5. CASE UpdateApplies
  BY <1>5, UpdateAppliesKeeps
<1>6. ASSUME NEW k \in ItpsKeys, NEW w \in {"update", "recover"},
             NEW row \in Movements \cup {Gone}, ImportRecord(w, k, row)
      PROVE  SchedInv'
  BY <1>6, FileRecordKeeps
<1>7. ASSUME NEW k \in VstpKeys,
             \/ VstpCommits(k) \/ VstpFails(k) \/ VstpDeletesNothing(k)
             \/ \E row \in Movements \cup {Gone} : VstpRecord(k, row)
      PROVE  SchedInv'
  BY <1>7, VstpKeeps
<1>8. CASE StartListener \/ ListenerStep
  BY <1>1, <1>8, RunKeeps DEF ListenerStep
<1>9. ASSUME NEW g \in GeoThreads, GeoStep(g) \/ GeoFails(g)
      PROVE  SchedInv'
  BY <1>9, ThreadKeeps
<1>10. CASE UNCHANGED schedvars
  <2>1. RowsFit /\ ThreadsFit /\ FilesFit /\ WritesFit /\ CountersFit
    BY SchedParts
  <2>2. UNCHANGED <<today, sfiles, scheds, update, recover, writes, listener, notified, geo,
                   missed, changes, geo_failures>>
    BY <1>10 DEF schedvars
  <2>3. WritesFit'
    BY <2>1, <2>2, WritesUnmoved
  <2>4. RowsFit' /\ ThreadsFit' /\ FilesFit' /\ CountersFit'
    BY <2>1, <2>2 DEF RowsFit, RowFits, ThreadsFit, OneThreadEach, ThreadsHold, FilesFit,
                      RecoveryHolds, CountersFit
  <2> QED
    BY <2>3, <2>4, NextParts
<1> QED
  BY <1>1, <1>2, <1>3, <1>4, <1>5, <1>6, <1>7, <1>8, <1>9, <1>10 DEF SchedNext

(* For any files, messages, threads and failures, the schedules, the threads and   *)
(* recovery hold what they go by.                                              *)
THEOREM SchedulesCorrect == SchedSpec => []SchedInv
  BY SchedInitInv, SchedNextKeeps, PTL DEF SchedSpec

(* A row's mark tells that it has ways, or had them before an import.              *)
THEOREM MarkedHasWays == SchedSpec => []DoneHasWays
<1>1. SchedInv => DoneHasWays
  BY DEF SchedInv
<1> QED
  BY <1>1, SchedulesCorrect, PTL

(* Threads do not share rows, and no import takes one from under a thread.         *)
THEOREM ThreadsApart == SchedSpec => []OneThreadEach
<1>1. SchedInv => OneThreadEach
  BY DEF SchedInv
<1> QED
  BY <1>1, SchedulesCorrect, PTL

(* A recovery that nobody comes in between of is exact, for any files and schedules.  *)
THEOREM RecoveryLeavesItsOwn == SchedSpec => RecoveryIsExact
<1>1. SchedInv /\ [SchedNext]_schedvars =>
        [recover.at = "delete" /\ recover'.at = "done" /\ recover.alone =>
          DOMAIN scheds' = {k \in DOMAIN scheds :
                               scheds[k].metaseq \in {0, recover.day}}]_schedvars
  <2> SUFFICES ASSUME SchedInv, SchedNext, recover.at = "delete", recover'.at = "done",
                      recover.alone
               PROVE  DOMAIN scheds' = {k \in DOMAIN scheds :
                                           scheds[k].metaseq \in {0, recover.day}}
    OBVIOUS
  <2>1. recover.last = recover.day
    BY DEF SchedInv, RecoveryHolds
  <2>2. DeleteStale
    <3>1. ASSUME UNCHANGED recover PROVE FALSE
      BY <3>1
    <3>2. ~(NextDay \/ UpdateFails \/ StartListener \/ ListenerStep)
          /\ \A d : ~UpdateLooks(d)
      BY <3>1 DEF NextDay, UpdateLooks, UpdateFails, StartListener, ListenerStep, RunEnds,
                  ListenerDies, Listen, TakeNotification, commands
    <3>3. \A g \in GeoThreads : ~(GeoStep(g) \/ GeoFails(g))
      BY <3>1 DEF GeoStep, TakeSched, ProcessSched, MarkSched, GeoFails, commands
    <3>4. \A k \in VstpKeys : /\ ~VstpCommits(k) /\ ~VstpFails(k) /\ ~VstpDeletesNothing(k)
                            /\ \A row \in Movements \cup {Gone} : ~VstpRecord(k, row)
      BY <3>1 DEF VstpCommits, VstpFails, VstpDeletesNothing, VstpRecord, commands
    <3>5. ~(StartRecover \/ LookAtFiles \/ ReadLastFile \/ RecoverFails)
      BY DEF StartRecover, LookAtFiles, ReadLastFile, RecoverFails, NotRecovering
    <3>6. ~RecoverApplies /\ \A k, w, row : ~ImportRecord(w, k, row)
      BY <3>1 DEF RecoverApplies, ApplyFile, Imports, ImportRecord
    <3>7. ASSUME UpdateApplies PROVE FALSE
      BY <3>7, SchedParts, RecoverTyped DEF UpdateApplies
    <3> QED
      BY <3>2, <3>3, <3>4, <3>5, <3>6, <3>7 DEF SchedNext
  <2> QED
    BY <2>1, <2>2 DEF DeleteStale, IsStale
<1> QED
  BY <1>1, SchedulesCorrect, PTL DEF SchedSpec, RecoveryIsExact

-----------------------------------------------------------------------------
(* MCTimetables                                                             *)

(* Side by side: whichever part moves, its invariant is kept, and those of the *)
(* parts that do not move are of variables that stay.  So what the run checks  *)
(* of small instances holds for all, the invariants on which the theorems      *)
(* about FahrplanUpdater, OsmsLinking and OsmsSchedules rest.                *)
THEOREM TimetablesCorrect == MCSpec => []TimetablesHold
<1>1. MCInit => TimetablesHold
  BY InitIInv, LinkInitInv, SchedInitInv DEF MCInit, TimetablesHold, IInv
<1>2. TimetablesHold /\ [MCNext]_all => TimetablesHold'
  <2> SUFFICES ASSUME TimetablesHold, [MCNext]_all PROVE TimetablesHold'
    OBVIOUS
  <2>1. [Next]_vars /\ [LinkNext]_linkvars /\ [SchedNext]_schedvars
    BY DEF MCNext, JobMoves, LinkingMoves, SchedulesMove, all
  <2> QED
    BY <2>1, NextKeeps, LinkNextKeeps, SchedNextKeeps DEF TimetablesHold, IInv
<1> QED
  BY <1>1, <1>2, PTL DEF MCSpec
===============================================================================
