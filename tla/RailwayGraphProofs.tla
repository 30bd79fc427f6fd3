-------------------------- MODULE RailwayGraphProofs -------------------------
(***************************************************************************)
(* Proofs about RailwayGraph, for any map, any stations and any bounds.       *)
(***************************************************************************)
EXTENDS RailwayGraph, FiniteSetTheorems, SequenceTheorems, WellFoundedInduction, TLAPS

-----------------------------------------------------------------------------
(* Functions over the naturals, by induction over sets of them               *)

LEMMA LeastIsThere ==
    ASSUME NEW T, T \subseteq Nat, T # {}
    PROVE  \E x \in T : \A y \in T : x <= y
<1> DEFINE less == OpToRel(<, Nat)
<1>1. ASSUME NEW j \in Nat, NEW k \in Nat, j < k PROVE <<j, k>> \in less
  BY <1>1 DEF OpToRel
<1>2. IsWellFoundedOn(less, Nat)
  BY NatLessThanWellFounded
<1> HIDE DEF less
<1>3. PICK x \in T : \A y \in T : ~(<<y, x>> \in less)
  BY <1>2, WFMin
<1>4. ASSUME NEW y \in T PROVE x <= y
  <2>1. x \in Nat /\ y \in Nat /\ ~(y < x)
    BY <1>1, <1>3
  <2> QED
    BY <2>1
<1> QED
  BY <1>4

(* Induction over the naturals, by a set.                                    *)
LEMMA CountsUp ==
    ASSUME NEW S, 0 \in S, \A k \in Nat : k \in S => k + 1 \in S
    PROVE  Nat \subseteq S
<1> SUFFICES ASSUME Nat \ S # {} PROVE FALSE
  OBVIOUS
<1>1. \E k \in Nat \ S : \A j \in Nat \ S : k <= j
  <2> DEFINE T == Nat \ S
  <2>1. T \subseteq Nat /\ T # {}
    OBVIOUS
  <2> HIDE DEF T
  <2>2. \E x \in T : \A y \in T : x <= y
    BY <2>1, LeastIsThere
  <2> QED
    BY <2>2 DEF T
<1>2. PICK k \in Nat \ S : \A j \in Nat \ S : k <= j
  BY <1>1
<1>3. k # 0 /\ k - 1 \in Nat
  BY <1>2
<1>4. k - 1 \in S
  BY <1>2, <1>3
<1> QED
  BY <1>2, <1>3, <1>4

(* The values of a function up to n, if it is a at 0 and goes on by F.         *)
Upto(X, a, F, n, g) ==
    g \in [0 .. n -> X] /\ g[0] = a /\ \A k \in 1 .. n : g[k] = F[g[k - 1]]

LEMMA UptoEach ==
    ASSUME NEW X, NEW a \in X, NEW F \in [X -> X]
    PROVE  \A n \in Nat : \E g : Upto(X, a, F, n, g)
<1> DEFINE Defined == {n \in Nat : \E g : Upto(X, a, F, n, g)}
<1>1. 0 \in Defined
  <2>1. Upto(X, a, F, 0, [k \in 0 .. 0 |-> a])
    BY DEF Upto
  <2> QED
    BY <2>1
<1>2. ASSUME NEW n \in Nat, n \in Defined PROVE n + 1 \in Defined
  <2>1. PICK g : Upto(X, a, F, n, g)
    BY <1>2
  <2> DEFINE h == [k \in 0 .. n + 1 |-> IF k = n + 1 THEN F[g[n]] ELSE g[k]]
  <2>2. g[n] \in X /\ F[g[n]] \in X /\ h \in [0 .. n + 1 -> X]
    BY <2>1 DEF Upto
  <2>3. h[0] = a
    BY <2>1 DEF Upto
  <2>4. ASSUME NEW k \in 1 .. n + 1 PROVE h[k] = F[h[k - 1]]
    <3>1. CASE k = n + 1
      BY <3>1
    <3>2. CASE k # n + 1
      <4>1. k \in 1 .. n /\ k - 1 \in 0 .. n /\ k - 1 # n + 1
        BY <3>2
      <4> QED
        BY <4>1, <2>1 DEF Upto
    <3> QED
      BY <3>1, <3>2
  <2>5. Upto(X, a, F, n + 1, h)
    BY <2>2, <2>3, <2>4 DEF Upto
  <2> QED
    BY <2>5
<1> HIDE DEF Defined
<1>3. Nat \subseteq Defined
  BY <1>1, <1>2, CountsUp
<1> QED
  BY <1>3 DEF Defined

LEMMA UptoAgree ==
    ASSUME NEW X, NEW a \in X, NEW F \in [X -> X]
    PROVE  \A k \in Nat : \A m, n \in Nat : \A g, h :
               k <= m /\ k <= n /\ Upto(X, a, F, m, g) /\ Upto(X, a, F, n, h) => g[k] = h[k]
<1> DEFINE Agree(k) == \A m, n \in Nat : \A g, h :
               k <= m /\ k <= n /\ Upto(X, a, F, m, g) /\ Upto(X, a, F, n, h) => g[k] = h[k]
           Agreeing == {k \in Nat : Agree(k)}
<1>1. 0 \in Agreeing
  BY DEF Upto
<1>2. ASSUME NEW k \in Nat, k \in Agreeing PROVE k + 1 \in Agreeing
  <2> SUFFICES ASSUME NEW m \in Nat, NEW n \in Nat, NEW g, NEW h, k + 1 <= m, k + 1 <= n,
                      Upto(X, a, F, m, g), Upto(X, a, F, n, h)
               PROVE  g[k + 1] = h[k + 1]
    BY DEF Agreeing
  <2>1. k <= m /\ k <= n /\ k + 1 \in 1 .. m /\ k + 1 \in 1 .. n /\ (k + 1) - 1 = k
    OBVIOUS
  <2>2. g[k] = h[k]
    BY <1>2, <2>1
  <2>3. g[k + 1] = F[g[k]]
    BY <2>1 DEF Upto
  <2>4. h[k + 1] = F[h[k]]
    BY <2>1 DEF Upto
  <2> QED
    BY <2>2, <2>3, <2>4
<1> HIDE DEF Agreeing
<1>3. Nat \subseteq Agreeing
  BY <1>1, <1>2, CountsUp
<1> QED
  BY <1>3 DEF Agreeing

(* A function that is defined by what it is at 0 and how it goes on is there.  *)
LEMMA RecursionWorks ==
    ASSUME NEW X, NEW a \in X, NEW F \in [X -> X]
    PROVE  \E f \in [Nat -> X] : f = [k \in Nat |-> IF k = 0 THEN a ELSE F[f[k - 1]]]
<1> DEFINE G(n) == CHOOSE g : Upto(X, a, F, n, g)
           f == [n \in Nat |-> G(n)[n]]
<1>1. ASSUME NEW n \in Nat PROVE Upto(X, a, F, n, G(n))
  BY UptoEach
<1> HIDE DEF G
<1>2. ASSUME NEW k \in Nat PROVE f[k] \in X
  BY <1>1 DEF Upto
<1>3. ASSUME NEW k \in Nat, k # 0 PROVE f[k] = F[f[k - 1]]
  <2>1. k - 1 \in Nat /\ k \in 1 .. k /\ k - 1 <= k /\ k - 1 <= k - 1
    BY <1>3
  <2>2. G(k)[k] = F[G(k)[k - 1]]
    BY <2>1, <1>1 DEF Upto
  <2>3. G(k)[k - 1] = G(k - 1)[k - 1]
    BY <2>1, <1>1, UptoAgree
  <2> QED
    BY <2>1, <2>2, <2>3
<1>4. f[0] = a
  BY <1>1 DEF Upto
<1>5. f \in [Nat -> X]
  BY <1>2
<1>6. f = [k \in Nat |-> f[k]]
  OBVIOUS
<1> HIDE DEF f
<1>7. f = [k \in Nat |-> IF k = 0 THEN a ELSE F[f[k - 1]]]
  BY <1>3, <1>4, <1>6
<1> QED
  BY <1>5, <1>7

-----------------------------------------------------------------------------
(* Parts of the graph                                                       *)

LEMMA NeighboursAre ==
    ASSUME NEW roots
    PROVE  \A m : m \in Neighbours(roots)
                  <=> \E l \in DOMAIN links : Ends(l) \cap roots # {} /\ m \in Ends(l)
  BY DEF Neighbours, LinksOf, Ends

(* Roots, their neighbours and so on are the nodes that separate_nodes looks at. *)
LEMMA PartOfIs ==
    ASSUME GraphTypeOK, NEW n \in GraphNodes
    PROVE  \E reached \in [Nat -> SUBSET GraphNodes] :
              /\ PartOf(n) = reached[Cardinality(GraphNodes)]
              /\ reached[0] = {n}
              /\ \A k \in Nat : reached[k + 1] = reached[k] \cup Neighbours(reached[k])
<1> DEFINE a == {n}
           F == [roots \in SUBSET GraphNodes |-> roots \cup Neighbours(roots)]
           R == CHOOSE f : f = [k \in Nat |-> IF k = 0 THEN {n}
                                             ELSE f[k - 1] \cup Neighbours(f[k - 1])]
<1>1. PartOf(n) = R[Cardinality(GraphNodes)]
  BY DEF PartOf
<1>2. F \in [SUBSET GraphNodes -> SUBSET GraphNodes] /\ a \in SUBSET GraphNodes
  BY NeighboursAre DEF GraphTypeOK
<1>3. \E f \in [Nat -> SUBSET GraphNodes] :
         f = [k \in Nat |-> IF k = 0 THEN a ELSE F[f[k - 1]]]
  <2> DEFINE X == SUBSET GraphNodes
  <2>1. F \in [X -> X] /\ a \in X
    BY <1>2
  <2> HIDE DEF a, F, X
  <2>2. \E f \in [Nat -> X] : f = [k \in Nat |-> IF k = 0 THEN a ELSE F[f[k - 1]]]
    BY <2>1, RecursionWorks
  <2> QED
    BY <2>2 DEF X
<1>4. ASSUME NEW f \in [Nat -> SUBSET GraphNodes]
      PROVE  [k \in Nat |-> IF k = 0 THEN a ELSE F[f[k - 1]]]
               = [k \in Nat |-> IF k = 0 THEN {n} ELSE f[k - 1] \cup Neighbours(f[k - 1])]
  <2>1. ASSUME NEW k \in Nat, k # 0 PROVE F[f[k - 1]] = f[k - 1] \cup Neighbours(f[k - 1])
    <3>1. k - 1 \in Nat
      BY <2>1
    <3> QED
      BY <3>1
  <2> HIDE DEF F
  <2> QED
    BY <2>1
<1>5. R = [k \in Nat |-> IF k = 0 THEN {n} ELSE R[k - 1] \cup Neighbours(R[k - 1])]
  <2>1. \E f : f = [k \in Nat |-> IF k = 0 THEN {n} ELSE f[k - 1] \cup Neighbours(f[k - 1])]
    BY <1>3, <1>4
  <2> QED
    BY <2>1
<1> HIDE DEF R
<1>6. R[0] = {n} /\ \A k \in Nat : R[k + 1] = R[k] \cup Neighbours(R[k])
  <2>1. R[0] = {n}
    BY <1>5
  <2>2. ASSUME NEW k \in Nat PROVE R[k + 1] = R[k] \cup Neighbours(R[k])
    <3>1. k + 1 \in Nat /\ k + 1 # 0 /\ (k + 1) - 1 = k
      OBVIOUS
    <3>2. R[k + 1] = R[(k + 1) - 1] \cup Neighbours(R[(k + 1) - 1])
      BY <1>5, <3>1
    <3> QED
      BY <3>1, <3>2
  <2> QED
    BY <2>1, <2>2
<1>7. R \in [Nat -> SUBSET GraphNodes]
  <2> DEFINE Within == {k \in Nat : R[k] \in SUBSET GraphNodes}
  <2>1. 0 \in Within
    BY <1>6
  <2>2. ASSUME NEW k \in Nat, k \in Within PROVE k + 1 \in Within
    BY <2>2, <1>6, NeighboursAre DEF GraphTypeOK
  <2>3. Nat \subseteq Within
    <3> HIDE DEF Within
    <3> QED
      BY <2>1, <2>2, CountsUp
  <2>4. R = [k \in Nat |-> R[k]]
    BY <1>5
  <2> QED
    BY <2>3, <2>4
<1> QED
  BY <1>1, <1>6, <1>7

LEMMA PointsAreFinite ==
    ASSUME GraphTypeOK
    PROVE  /\ IsFiniteSet(DOMAIN point) /\ Cardinality(DOMAIN point) \in Nat
           /\ IsFiniteSet(OsmNodes) /\ Cardinality(OsmNodes) \in Nat
<1>1. DOMAIN point \in SUBSET Stations /\ IsFiniteSet(Stations) /\ IsFiniteSet(OsmNodes)
  BY GraphAssumption DEF GraphTypeOK
<1>2. IsFiniteSet(DOMAIN point)
  BY <1>1, FS_Subset
<1> QED
  BY <1>1, <1>2, FS_CardinalityType

(* The number of the next node is not in use, and the graph is finite.         *)
LEMMA NewNodeIsNew ==
    ASSUME GraphTypeOK, NodesStand
    PROVE  /\ NewNode \in Nat /\ NewNode > Cardinality(OsmNodes)
           /\ \A n \in GraphNodes : n \in 1 .. NewNode - 1
           /\ IsFiniteSet(GraphNodes) /\ Cardinality(GraphNodes) \in Nat
<1>1. corrections \in Nat
  BY GraphAssumption DEF GraphTypeOK
<1>2. NewNode \in Nat /\ NewNode > Cardinality(OsmNodes)
  BY <1>1, PointsAreFinite DEF NewNode
<1>3. ASSUME NEW n \in GraphNodes PROVE n \in 1 .. NewNode - 1
  <2>1. CASE n \in OsmNodes
    <3>1. n \in 1 .. Cardinality(OsmNodes)
      BY <2>1, GraphAssumption
    <3> QED
      BY <3>1, <1>2, PointsAreFinite
  <2>2. CASE n \notin OsmNodes
    <3>1. PICK s \in DOMAIN point : point[s] = n
      BY <2>2 DEF NodesStand
    <3>2. point[s] \in Cardinality(OsmNodes) + 1 .. NewNode - 1
      BY DEF NodesStand
    <3> QED
      BY <3>1, <3>2, <1>2, PointsAreFinite
  <2> QED
    BY <2>1, <2>2
<1>4. IsFiniteSet(1 .. NewNode - 1) /\ GraphNodes \in SUBSET (1 .. NewNode - 1)
  BY <1>2, <1>3, FS_Interval
<1>5. IsFiniteSet(GraphNodes)
  BY <1>4, FS_Subset
<1> QED
  BY <1>2, <1>3, <1>5, FS_CardinalityType

(* The part of a node is the smallest set with it that no link leads out of:    *)
(* Cardinality(GraphNodes) rounds are enough, as each but the last adds a node. *)
LEMMA PartOfIsSmallest ==
    ASSUME GraphTypeOK, NodesStand, NEW n \in GraphNodes
    PROVE  /\ n \in PartOf(n) /\ PartOf(n) \subseteq GraphNodes /\ Closed(PartOf(n))
           /\ \A nodes : n \in nodes /\ Closed(nodes) => PartOf(n) \subseteq nodes
<1>1. PICK reached \in [Nat -> SUBSET GraphNodes] :
         /\ PartOf(n) = reached[Cardinality(GraphNodes)]
         /\ reached[0] = {n}
         /\ \A k \in Nat : reached[k + 1] = reached[k] \cup Neighbours(reached[k])
  BY PartOfIs
<1> DEFINE N == Cardinality(GraphNodes)
<1>2. IsFiniteSet(GraphNodes) /\ N \in Nat
  BY NewNodeIsNew
<1> HIDE DEF N
<1>3. n \in PartOf(n)
  <2> DEFINE There == {k \in Nat : n \in reached[k]}
  <2>1. 0 \in There /\ \A k \in Nat : k \in There => k + 1 \in There
    BY <1>1
  <2> HIDE DEF There
  <2>2. Nat \subseteq There
    BY <2>1, CountsUp
  <2> QED
    BY <2>2, <1>1, <1>2 DEF There, N
<1>4. Neighbours(PartOf(n)) \subseteq PartOf(n)
  <2> DEFINE Full(k) == Neighbours(reached[k]) \subseteq reached[k]
             Grows == {k \in Nat : Cardinality(reached[k]) >= k + 1 \/ Full(k)}
  <2>1. 0 \in Grows
    <3>1. Cardinality({n}) = 1
      BY FS_Singleton
    <3>2. Cardinality(reached[0]) = 1
      BY <1>1, <3>1
    <3>3. Cardinality(reached[0]) >= 0 + 1
      BY <3>2
    <3> HIDE DEF Full
    <3> QED
      BY <3>3
  <2>2. ASSUME NEW k \in Nat, k \in Grows PROVE k + 1 \in Grows
    <3>1. reached[k + 1] = reached[k] \cup Neighbours(reached[k])
      BY <1>1
    <3>2. CASE Full(k)
      <4>1. reached[k + 1] = reached[k]
        BY <3>1, <3>2
      <4> QED
        BY <4>1, <3>2
    <3>3. CASE ~Full(k)
      <4>1. reached[k] # reached[k + 1] /\ reached[k] \in SUBSET reached[k + 1]
        BY <3>1, <3>3
      <4>2. IsFiniteSet(reached[k + 1])
        BY <1>2, FS_Subset
      <4>3. /\ Cardinality(reached[k]) # Cardinality(reached[k + 1])
            /\ Cardinality(reached[k]) <= Cardinality(reached[k + 1])
            /\ IsFiniteSet(reached[k])
        BY <4>1, <4>2, FS_Subset
      <4>4. Cardinality(reached[k]) \in Nat /\ Cardinality(reached[k + 1]) \in Nat
        BY <4>2, <4>3, FS_CardinalityType
      <4>5. Cardinality(reached[k]) >= k + 1
        BY <2>2, <3>3
      <4> QED
        BY <4>3, <4>4, <4>5
    <3> QED
      BY <3>2, <3>3
  <2>3. Nat \subseteq Grows
    <3> HIDE DEF Grows
    <3> QED
      BY <2>1, <2>2, CountsUp
  <2>4. Cardinality(reached[N]) <= N /\ Cardinality(reached[N]) \in Nat
    BY <1>2, FS_Subset, FS_CardinalityType DEF N
  <2>5. Full(N)
    BY <2>3, <2>4, <1>2
  <2> QED
    BY <2>5, <1>1 DEF N
<1>5. Closed(PartOf(n))
  <2> SUFFICES ASSUME NEW l \in DOMAIN links, NEW m \in Ends(l), m \in PartOf(n)
               PROVE  Ends(l) \subseteq PartOf(n)
    BY DEF Closed, Ends
  <2> QED
    BY <1>4, NeighboursAre
<1>6. ASSUME NEW nodes, n \in nodes, Closed(nodes) PROVE PartOf(n) \subseteq nodes
  <2> DEFINE Inside == {k \in Nat : reached[k] \subseteq nodes}
  <2>1. 0 \in Inside
    BY <1>1, <1>6
  <2>2. ASSUME NEW k \in Nat, k \in Inside PROVE k + 1 \in Inside
    <3>1. Neighbours(reached[k]) \subseteq nodes
      BY <2>2, <1>6, NeighboursAre DEF Closed, Ends
    <3> QED
      BY <3>1, <2>2, <1>1
  <2>3. Nat \subseteq Inside
    <3> HIDE DEF Inside
    <3> QED
      BY <2>1, <2>2, CountsUp
  <2> QED
    BY <2>3, <1>1, <1>2 DEF N
<1> QED
  BY <1>1, <1>2, <1>3, <1>5, <1>6 DEF N

(* No set of some of its nodes is left by no link: or, as what is left of the    *)
(* graph is not either, the part would be the one or in the other.            *)
LEMMA PartOfIsOnePiece ==
    ASSUME GraphTypeOK, NodesStand, NEW n \in GraphNodes
    PROVE  OnePiece(PartOf(n))
<1> SUFFICES ASSUME NEW some \in SUBSET PartOf(n), Closed(some)
             PROVE  some = {} \/ some = PartOf(n)
  BY DEF OnePiece
<1>1. /\ n \in PartOf(n) /\ PartOf(n) \subseteq GraphNodes
      /\ \A nodes : n \in nodes /\ Closed(nodes) => PartOf(n) \subseteq nodes
  BY PartOfIsSmallest
<1>2. Closed(GraphNodes \ some)
  BY DEF Closed, GraphTypeOK, Ends
<1>3. CASE n \in some
  BY <1>1, <1>3
<1>4. CASE n \notin some
  <2>1. PartOf(n) \subseteq GraphNodes \ some
    BY <1>1, <1>2, <1>4
  <2> QED
    BY <2>1
<1> QED
  BY <1>3, <1>4

-----------------------------------------------------------------------------
(* The inductive invariant                                                  *)

GraphIInv == GraphTypeOK /\ GraphInv

LEMMA GraphInitIInv == GraphInit => GraphIInv
<1> SUFFICES ASSUME GraphInit PROVE GraphIInv
  OBVIOUS
<1>1. GraphTypeOK
  BY GraphAssumption DEF GraphInit, GraphTypeOK, GraphNodes, EmptyMap, NoSearch, Ends
<1>2. NodesStand /\ StationsStand
  BY DEF GraphInit, NodesStand, StationsStand, GraphNodes, EmptyMap
<1>3. LinksStand
  BY DEF GraphInit, LinksStand, GraphNodes, EmptyMap
<1>4. PartsStand
  BY DEF GraphInit, PartsStand, GraphNodes, EmptyMap
<1>5. SearchStands /\ NoPanic
  BY DEF GraphInit, SearchStands, NoPanic, Searching, NoSearch
<1> QED
  BY <1>1, <1>2, <1>3, <1>4, <1>5 DEF GraphIInv, GraphInv

(* What setup does between searches, and what it does during one, does not     *)
(* change the graph that is searched.                                        *)
LEMMA SearchIsLeft ==
    ASSUME GraphIInv, UNCHANGED <<nav, corrections>>,
           Searching /\ corrections = 0 =>
               /\ UNCHANGED <<links, point>> /\ GraphNodes \subseteq GraphNodes'
               /\ phase' # "stations"
               /\ nav.separated => UNCHANGED <<phase, graph_part>>
    PROVE  SearchStands' /\ NoPanic'
<1>1. NoPanic'
  BY DEF GraphIInv, GraphInv, NoPanic
<1> SUFFICES ASSUME Searching, corrections = 0
             PROVE  (SearchedGraphStands /\ FoundFits /\ DoneNodesStand /\ ParentsStand)'
  BY <1>1 DEF SearchStands, Searching
<1>2. SearchedGraphStands /\ FoundFits /\ DoneNodesStand /\ ParentsStand
  BY DEF GraphIInv, GraphInv, SearchStands
<1>3. SearchedGraphStands'
  BY <1>2 DEF GraphIInv, GraphTypeOK, SearchedGraphStands, Separated, GraphNodes
<1>4. FoundFits'
  BY <1>2 DEF FoundFits
<1>5. DoneNodesStand'
  BY <1>2 DEF DoneNodesStand, DoneWith, LinksOf
<1>6. ParentsStand'
  BY <1>2 DEF ParentsStand, DoneWith, LinksOf
<1> QED
  BY <1>3, <1>4, <1>5, <1>6

(* A search that goes on has all stations, and does not let setup start over if  *)
(* the graph was separated.                                                  *)
LEMMA SearchNeedsStations ==
    ASSUME GraphIInv, Searching, corrections = 0
    PROVE  /\ DOMAIN point = Stations /\ DOMAIN point # {} /\ phase # "stations"
           /\ nav.separated => Separated
  BY DEF GraphIInv, GraphInv, GraphTypeOK, Searching, SearchStands, SearchedGraphStands,
         StationsStand

(* The phases of setup, where they only begin and end.                        *)
LEMMA PhasesKeep ==
    ASSUME GraphIInv,
           StartSetup \/ LinksDone \/ StationsDone \/ SeparateDone \/ StopSetup
    PROVE  GraphIInv'
<1> USE DEF graph, setting_up
<1>1. GraphTypeOK'
  BY GraphAssumption
  DEF StartSetup, LinksDone, StationsDone, SeparateDone, StopSetup, GraphIInv,
      GraphTypeOK, GraphNodes
<1>2. UNCHANGED <<graph, nav, corrections, paths>>
  BY DEF StartSetup, LinksDone, StationsDone, SeparateDone, StopSetup
<1>3. NodesStand'
  BY <1>2 DEF StartSetup, LinksDone, StationsDone, SeparateDone, StopSetup, GraphIInv,
     GraphInv, NodesStand, NewNode, GraphNodes
<1>4. StationsStand'
  BY <1>2 DEF StartSetup, LinksDone, StationsDone, SeparateDone, StopSetup, GraphIInv,
     GraphInv, StationsStand, EmptyMap
<1>5. LinksStand'
  BY <1>2 DEF StartSetup, LinksDone, StationsDone, SeparateDone, StopSetup, GraphIInv,
     GraphInv, LinksStand, MapIsLinked, OnTheMap, GraphNodes, EmptyMap
<1>6. PartsStand'
  <2>1. cur_part' > 0 /\ (phase' # "separate" => cur_part' = 1)
    BY DEF StartSetup, LinksDone, StationsDone, SeparateDone, StopSetup, GraphIInv,
       GraphInv, PartsStand
  <2>2. \A nodes : OnePiece(nodes) => OnePiece(nodes)'
    BY <1>2 DEF OnePiece, Closed
  <2>3. ASSUME corrections = 0, phase' # "idle"
        PROVE  \A n \in GraphNodes : graph_part[n] < cur_part'
    BY <2>3, <1>2 DEF StartSetup, LinksDone, StationsDone, SeparateDone, StopSetup, GraphIInv,
       GraphInv, PartsStand, StationsStand, Separated
  <2>4. ASSUME corrections = 0
        PROVE  \/ \A n \in GraphNodes : graph_part[n] = 0
               \/ phase' = "separate"
               \/ DOMAIN point = Stations /\ phase' = "idle"
                  /\ \A n \in GraphNodes : graph_part[n] # 0
    BY <2>4, <1>2 DEF StartSetup, LinksDone, StationsDone, SeparateDone, StopSetup, GraphIInv,
       GraphInv, PartsStand, StationsStand, Separated, GraphTypeOK
  <2>5. UNCHANGED <<graph_part, links, point, corrections>>
    BY <1>2
  <2>6. PartsStand
    BY DEF GraphIInv, GraphInv
  <2> QED
    BY <2>1, <2>2, <2>3, <2>4, <2>5, <2>6 DEF PartsStand, GraphNodes, Separated
<1>7. SearchStands' /\ NoPanic'
  <2>1. ASSUME Searching, corrections = 0
        PROVE  phase' # "stations" /\ (nav.separated => UNCHANGED <<phase, graph_part>>)
    BY <2>1, SearchNeedsStations
    DEF StartSetup, LinksDone, StationsDone, SeparateDone, StopSetup, Separated, EmptyMap
  <2> QED
    BY <2>1, <1>2, SearchIsLeft DEF GraphNodes
<1> QED
  BY <1>1, <1>3, <1>4, <1>5, <1>6, <1>7 DEF GraphIInv, GraphInv

LEMMA MakeNodesKeeps ==
    ASSUME GraphIInv, MakeNodes
    PROVE  GraphIInv'
<1>1. /\ phase = "nodes" /\ phase' = "links"
      /\ UNCHANGED <<links, point, cur_part, paths, nav, stops, corrections>>
      /\ ways_left' = IF links = EmptyMap THEN Ways ELSE {}
  BY DEF MakeNodes
<1>2. CASE GraphNodes # {}
  <2>1. UNCHANGED graph_part
    BY <1>2 DEF MakeNodes
  <2>2. GraphTypeOK'
    BY <1>1, <2>1 DEF GraphIInv, GraphTypeOK, GraphNodes
  <2>3. NodesStand' /\ StationsStand'
    BY <1>1, <1>2, <2>1 DEF GraphIInv, GraphInv, NodesStand, StationsStand, NewNode, GraphNodes
  <2>4. LinksStand'
    <3>1. DOMAIN links = {} => links = EmptyMap
      BY DEF GraphIInv, GraphTypeOK, EmptyMap
    <3>2. CASE DOMAIN point # {} \/ \E n \in GraphNodes : graph_part[n] # 0
      <4>1. MapIsLinked
        BY <3>2 DEF GraphIInv, GraphInv, LinksStand
      <4>2. links = EmptyMap => \A way \in Ways : WayLinks(way) = {}
        BY <4>1 DEF MapIsLinked, EmptyMap
      <4>3. \A way \in ways_left' : WayLinks(way) = {}
        BY <1>1, <4>2
      <4>4. MapIsLinked'
        BY <4>1, <1>1 DEF MapIsLinked
      <4> QED
        BY <4>3, <4>4, <1>1 DEF LinksStand
    <3>3. CASE DOMAIN point = {} /\ \A n \in GraphNodes : graph_part[n] = 0
      <4>1. \A l \in DOMAIN links : OnTheMap(l)
        BY <3>3 DEF GraphIInv, GraphInv, GraphTypeOK, NodesStand, OnTheMap
      <4>2. CASE links = EmptyMap
        BY <4>2, <1>1, <2>1, <3>3 DEF LinksStand, GraphNodes
      <4>3. CASE links # EmptyMap
        <5>1. MapIsLinked
          BY <4>1, <4>3, <3>1 DEF MapIsLinked
        <5> QED
          BY <5>1, <1>1, <2>1, <3>3 DEF LinksStand, GraphNodes, MapIsLinked
      <4> QED
        BY <4>2, <4>3
    <3> QED
      BY <3>2, <3>3
  <2>5. PartsStand'
    <3>1. PartsStand
      BY DEF GraphIInv, GraphInv
    <3>2. \A nodes : OnePiece(nodes) => OnePiece(nodes)'
      BY <1>1 DEF OnePiece, Closed
    <3> QED
      BY <1>1, <2>1, <3>1, <3>2 DEF PartsStand, GraphNodes, Separated
  <2>6. SearchStands' /\ NoPanic'
    <3>1. Searching /\ corrections = 0 => ~nav.separated
      BY <1>1, SearchNeedsStations DEF Separated
    <3> QED
      BY <1>1, <2>1, <3>1, SearchIsLeft DEF GraphNodes
  <2> QED
    BY <2>2, <2>3, <2>4, <2>5, <2>6 DEF GraphIInv, GraphInv
<1>3. CASE GraphNodes = {}
  <2>1. graph_part' = [n \in OsmNodes |-> 0] /\ GraphNodes' = OsmNodes
    BY <1>3 DEF MakeNodes, GraphNodes
  <2>2. DOMAIN point = {}
    BY <1>3 DEF GraphIInv, GraphTypeOK
  <2>3. DOMAIN links = {}
    BY <1>3 DEF GraphIInv, GraphTypeOK, Ends
  <2>4. GraphTypeOK'
    <3>1. point' \in [DOMAIN point' -> GraphNodes' \ OsmNodes] /\ DOMAIN point' \subseteq Stations
      BY <1>1, <2>2 DEF GraphIInv, GraphTypeOK
    <3>2. graph_part' \in [GraphNodes' -> Nat]
      BY <2>1
    <3> QED
      BY <1>1, <2>3, <3>1, <3>2 DEF GraphIInv, GraphTypeOK
  <2>5. NodesStand' /\ StationsStand'
    BY <1>1, <2>1, <2>2 DEF GraphIInv, GraphInv, NodesStand, StationsStand
  <2>6. LinksStand'
    <3>1. links = EmptyMap
      BY <2>3 DEF GraphIInv, GraphTypeOK, EmptyMap
    <3> QED
      BY <1>1, <2>1, <2>2, <3>1 DEF LinksStand
  <2>7. PartsStand'
    BY <1>1, <2>1, <2>3 DEF GraphIInv, GraphInv, PartsStand
  <2>8. SearchStands' /\ NoPanic'
    BY <1>1, <2>2, SearchNeedsStations, SearchIsLeft
  <2> QED
    BY <2>4, <2>5, <2>6, <2>7, <2>8 DEF GraphIInv, GraphInv
<1> QED
  BY <1>2, <1>3

LEMMA ImportWayKeeps ==
    ASSUME GraphIInv, NEW way \in Ways, ImportWay(way)
    PROVE  GraphIInv'
<1>1. /\ phase = "links" /\ way \in ways_left /\ ways_left' = ways_left \ {way}
      /\ UNCHANGED <<graph_part, point, phase, cur_part, paths, nav, stops, corrections>>
  BY DEF ImportWay
<1>2. \A l \in WayLinks(way) : OnTheMap(l) /\ Length(l[1], l[2]) \in Nat
  <2>1. TAKE l \in WayLinks(way)
  <2>2. way \in Seq(OsmNodes)
    BY GraphAssumption
  <2>3. PICK i \in 1 .. Len(way) - 1 : l = <<way[i], way[i + 1]>>
    BY DEF WayLinks
  <2>4. l[1] \in OsmNodes /\ l[2] \in OsmNodes
    BY <2>2, <2>3
  <2> QED
    BY <2>4, GraphAssumption DEF OnTheMap, Ends
<1>3. /\ DOMAIN links' = DOMAIN links \cup WayLinks(way)
      /\ links' = [l \in DOMAIN links \cup WayLinks(way) |->
                      IF l \in DOMAIN links THEN links[l] ELSE Length(l[1], l[2])]
  BY DEF ImportWay, InsertLinks, Over
<1>4. GraphTypeOK'
  <2>1. OsmNodes \subseteq GraphNodes
    BY <1>1 DEF GraphIInv, GraphInv, NodesStand
  <2>2. \A l \in DOMAIN links' : Ends(l) \subseteq GraphNodes /\ links'[l] \in Nat
    BY <1>2, <1>3, <2>1 DEF GraphIInv, GraphTypeOK, OnTheMap
  <2>3. links' \in [DOMAIN links' -> Nat]
    BY <1>3, <2>2
  <2> QED
    BY <1>1, <2>2, <2>3 DEF GraphIInv, GraphTypeOK, GraphNodes
<1>5. NodesStand' /\ StationsStand'
  BY <1>1 DEF GraphIInv, GraphInv, NodesStand, StationsStand, NewNode, GraphNodes
<1>6. MapIsLinked => MapIsLinked'
  BY <1>3 DEF MapIsLinked
<1>7. LinksStand'
  <2>1. CASE WayLinks(way) = {}
    <3>1. MapIsLinked \/ \A w \in Ways \ ways_left' : WayLinks(w) = {}
      BY <1>1, <2>1 DEF GraphIInv, GraphInv, LinksStand
    <3> QED
      BY <1>1, <1>6, <3>1 DEF GraphIInv, GraphInv, LinksStand, GraphNodes
  <2>2. CASE WayLinks(way) # {}
    <3>1. MapIsLinked'
      BY <1>2, <1>3, <2>2 DEF MapIsLinked
    <3> QED
      BY <1>1, <3>1 DEF GraphIInv, GraphInv, LinksStand, GraphNodes
  <2> QED
    BY <2>1, <2>2
<1>8. CASE WayLinks(way) = {}
  <2>1. UNCHANGED links
    BY <1>3, <1>8 DEF GraphIInv, GraphTypeOK
  <2>2. PartsStand'
    <3>1. PartsStand
      BY DEF GraphIInv, GraphInv
    <3>2. \A nodes : OnePiece(nodes) => OnePiece(nodes)'
      BY <2>1 DEF OnePiece, Closed
    <3> QED
      BY <1>1, <2>1, <3>1, <3>2 DEF PartsStand, GraphNodes, Separated
  <2>3. SearchStands' /\ NoPanic'
    BY <1>1, <2>1, SearchIsLeft, SearchNeedsStations DEF GraphNodes
  <2> QED
    BY <1>4, <1>5, <1>7, <2>2, <2>3 DEF GraphIInv, GraphInv
<1>9. CASE WayLinks(way) # {}
  <2>1. DOMAIN point = {} /\ \A n \in GraphNodes : graph_part[n] = 0
    BY <1>1, <1>9 DEF GraphIInv, GraphInv, LinksStand
  <2>2. PartsStand'
    <3>1. \A l \in DOMAIN links' : graph_part[l[1]] = graph_part[l[2]]
      BY <1>4, <1>1, <2>1 DEF GraphTypeOK, Ends, GraphNodes
    <3> QED
      BY <1>1, <2>1, <3>1 DEF GraphIInv, GraphInv, PartsStand, GraphNodes
  <2>3. SearchStands' /\ NoPanic'
    BY <1>1, <2>1, SearchNeedsStations, SearchIsLeft
  <2> QED
    BY <1>4, <1>5, <1>7, <2>2, <2>3 DEF GraphIInv, GraphInv
<1> QED
  BY <1>8, <1>9

(* No link leads out of what is given a number, so links keep to a part if they  *)
(* did; and what is given one is in one piece.                                *)
LEMMA SeparateNodesKeeps ==
    ASSUME GraphIInv, NEW n \in GraphNodes, SeparateNodes(n)
    PROVE  GraphIInv'
<1>1. /\ phase = "separate" /\ graph_part[n] = 0 /\ cur_part' = cur_part + 1
      /\ graph_part' = [m \in GraphNodes |->
                           IF m \in PartOf(n) THEN cur_part ELSE graph_part[m]]
      /\ GraphNodes' = GraphNodes
      /\ UNCHANGED <<links, point, phase, ways_left, paths, nav, stops, corrections>>
  BY DEF SeparateNodes, GraphNodes
<1>2. GraphTypeOK /\ NodesStand /\ PartsStand
  BY DEF GraphIInv, GraphInv
<1>3. /\ n \in PartOf(n) /\ PartOf(n) \subseteq GraphNodes /\ Closed(PartOf(n))
      /\ \A nodes : n \in nodes /\ Closed(nodes) => PartOf(n) \subseteq nodes
      /\ OnePiece(PartOf(n))
  BY <1>2, PartOfIsSmallest, PartOfIsOnePiece
<1>4. cur_part \in Nat /\ cur_part > 0
  BY <1>2 DEF GraphTypeOK, PartsStand
<1>5. GraphTypeOK'
  <2>1. graph_part' \in [GraphNodes' -> Nat]
    BY <1>1, <1>2, <1>4 DEF GraphTypeOK
  <2> QED
    BY <1>1, <1>2, <1>4, <2>1 DEF GraphTypeOK
<1>6. NodesStand' /\ StationsStand'
  BY <1>1 DEF GraphIInv, GraphInv, NodesStand, StationsStand, NewNode
<1>7. LinksStand'
  BY <1>1 DEF GraphIInv, GraphInv, LinksStand, MapIsLinked
<1>8. PartsStand'
  <2>2. \A l \in DOMAIN links : /\ l[1] \in GraphNodes /\ l[2] \in GraphNodes
                                /\ l[1] \in PartOf(n) <=> l[2] \in PartOf(n)
    BY <1>2, <1>3 DEF GraphTypeOK, Ends, Closed
  <2>3. \A l \in DOMAIN links' :
           graph_part'[l[1]] # graph_part'[l[2]]
               => 0 \in {graph_part'[l[1]], graph_part'[l[2]]}
    BY <1>1, <1>2, <2>2 DEF PartsStand
  <2>4. ASSUME corrections = 0
        PROVE  /\ \A l \in DOMAIN links' : graph_part'[l[1]] = graph_part'[l[2]]
               /\ (\A m \in GraphNodes : graph_part[m] # 0 =>
                      OnePiece({x \in GraphNodes : graph_part[x] = graph_part[m]}))'
               /\ \A m \in GraphNodes' : graph_part'[m] < cur_part'
    <3>1. /\ \A l \in DOMAIN links : graph_part[l[1]] = graph_part[l[2]]
          /\ \A m \in GraphNodes : graph_part[m] \in Nat /\ graph_part[m] < cur_part
          /\ \A m \in GraphNodes : graph_part[m] # 0 =>
                OnePiece({x \in GraphNodes : graph_part[x] = graph_part[m]})
      BY <1>1, <1>2, <2>4 DEF PartsStand, GraphTypeOK
    <3>2. \A m \in PartOf(n) : graph_part[m] = 0
      <4> DEFINE zero == {m \in GraphNodes : graph_part[m] = 0}
      <4>1. n \in zero /\ Closed(zero)
        BY <1>1, <2>2, <3>1 DEF Closed
      <4> HIDE DEF zero
      <4>2. PartOf(n) \subseteq zero
        BY <1>3, <4>1
      <4> QED
        BY <4>2 DEF zero
    <3>3. \A l \in DOMAIN links' : graph_part'[l[1]] = graph_part'[l[2]]
      BY <1>1, <2>2, <3>1
    <3>4. \A m \in GraphNodes' : graph_part'[m] < cur_part'
      BY <1>1, <1>4, <3>1
    <3>5. ASSUME NEW m \in GraphNodes, graph_part'[m] # 0
          PROVE  OnePiece({x \in GraphNodes : graph_part'[x] = graph_part'[m]})
      <4>1. CASE m \in PartOf(n)
        <5>1. \A x \in GraphNodes : graph_part'[x] = graph_part'[m] <=> x \in PartOf(n)
          BY <4>1, <1>1, <1>4, <3>1
        <5>2. {x \in GraphNodes : graph_part'[x] = graph_part'[m]} = PartOf(n)
          BY <5>1, <1>3
        <5> QED
          BY <5>2, <1>3
      <4>2. CASE m \notin PartOf(n)
        <5>1. graph_part'[m] = graph_part[m] /\ graph_part[m] # 0
          BY <4>2, <1>1, <3>5
        <5>2. \A x \in GraphNodes : graph_part'[x] = graph_part'[m]
                                    <=> graph_part[x] = graph_part[m]
          BY <5>1, <1>1, <1>4, <3>1, <3>2
        <5>3. {x \in GraphNodes : graph_part'[x] = graph_part'[m]}
                = {x \in GraphNodes : graph_part[x] = graph_part[m]}
          BY <5>2
        <5> QED
          BY <5>1, <5>3, <3>1
      <4> QED
        BY <4>1, <4>2
    <3>6. (\A m \in GraphNodes : graph_part[m] # 0 =>
              OnePiece({x \in GraphNodes : graph_part[x] = graph_part[m]}))'
      BY <3>5, <1>1 DEF OnePiece, Closed
    <3> QED
      BY <3>3, <3>4, <3>6
  <2>5. cur_part' > 0
    BY <1>1, <1>4
  <2> QED
    BY <1>1, <2>3, <2>4, <2>5 DEF PartsStand
<1>9. SearchStands' /\ NoPanic'
  <2>1. Searching /\ corrections = 0 => phase' # "stations" /\ ~nav.separated
    BY <1>1, SearchNeedsStations DEF Separated
  <2> QED
    BY <1>1, <2>1, SearchIsLeft
<1> QED
  BY <1>5, <1>6, <1>7, <1>8, <1>9 DEF GraphIInv, GraphInv

(* A new node is linked with the ends of links there were, and with nothing else. *)
LEMMA StationIsPlaced ==
    ASSUME GraphIInv, NEW s \in Stations, NEW old, old \in [DOMAIN old -> Nat],
           DOMAIN old \subseteq DOMAIN links, PlaceStation(s, old),
           \A l \in DOMAIN old : NewNode \notin Ends(l)
    PROVE  /\ links' \in [DOMAIN links' -> Nat] /\ DOMAIN old \subseteq DOMAIN links'
           /\ \A l \in DOMAIN links' \ DOMAIN old :
                 /\ NewNode \in Ends(l)
                 /\ \E e \in DOMAIN old : Ends(l) \subseteq Ends(e) \cup {NewNode}
           /\ point' = [z \in DOMAIN point \cup {s} |-> IF z = s THEN NewNode ELSE point[z]]
<1>1. point' = [z \in DOMAIN point \cup {s} |-> IF z = s THEN NewNode ELSE point[z]]
  BY DEF PlaceStation, PutAt, Over
<1>2. PICK joined \in SUBSET DOMAIN old : \E hop \in [joined -> Hops] :
          links' = Over(HopsTo(NewNode, hop), old)
  BY DEF PlaceStation
<1>3. PICK hop \in [joined -> Hops] : links' = Over(HopsTo(NewNode, hop), old)
  BY <1>2
<1> DEFINE new == HopsTo(NewNode, hop)
           ends == UNION {{<<l[1], NewNode>>, <<NewNode, l[2]>>} : l \in joined}
<1>4. /\ DOMAIN new = ends
      /\ \A e \in ends : \E l \in joined :
            /\ e \in {<<l[1], NewNode>>, <<NewNode, l[2]>>}
            /\ new[e] = IF e[2] = NewNode THEN hop[l][1] ELSE hop[l][2]
  <2>1. DOMAIN hop = joined
    OBVIOUS
  <2>2. ASSUME NEW e \in ends
        PROVE  \E l \in joined : /\ e \in {<<l[1], NewNode>>, <<NewNode, l[2]>>}
                                 /\ new[e] = IF e[2] = NewNode THEN hop[l][1] ELSE hop[l][2]
    <3> DEFINE l0 == CHOOSE l \in joined : e \in {<<l[1], NewNode>>, <<NewNode, l[2]>>}
    <3>1. \E l \in joined : e \in {<<l[1], NewNode>>, <<NewNode, l[2]>>}
      OBVIOUS
    <3>2. l0 \in joined /\ e \in {<<l0[1], NewNode>>, <<NewNode, l0[2]>>}
      BY <3>1
    <3>3. new[e] = IF e[2] = NewNode THEN hop[l0][1] ELSE hop[l0][2]
      BY <2>1 DEF HopsTo
    <3> QED
      BY <3>2, <3>3
  <2> QED
    BY <2>1, <2>2 DEF HopsTo
<1>5. \A e \in ends : /\ new[e] \in Nat /\ NewNode \in Ends(e)
                      /\ \E l \in DOMAIN old : Ends(e) \subseteq Ends(l) \cup {NewNode}
  <2> SUFFICES ASSUME NEW e \in ends
               PROVE  /\ new[e] \in Nat /\ NewNode \in Ends(e)
                      /\ \E l \in DOMAIN old : Ends(e) \subseteq Ends(l) \cup {NewNode}
    OBVIOUS
  <2>1. PICK l \in joined : /\ e \in {<<l[1], NewNode>>, <<NewNode, l[2]>>}
                            /\ new[e] = IF e[2] = NewNode THEN hop[l][1] ELSE hop[l][2]
    BY <1>4
  <2>2. hop[l][1] \in Nat /\ hop[l][2] \in Nat
    BY GraphAssumption
  <2> HIDE DEF new, ends
  <2> QED
    BY <2>1, <2>2 DEF Ends
<1> HIDE DEF new, ends
<1>6. links' = [k \in ends \cup DOMAIN old |-> IF k \in ends THEN new[k] ELSE old[k]]
  BY <1>3, <1>4 DEF Over, new
<1>7. links' \in [DOMAIN links' -> Nat]
  BY <1>5, <1>6
<1>8. \A l \in DOMAIN old : l \notin ends
  BY <1>5
<1> QED
  BY <1>1, <1>5, <1>6, <1>7, <1>8

(* Stations are made while no node has a part.                                *)
LEMMA MakeStationKeeps ==
    ASSUME GraphIInv, NEW s \in Stations, MakeStation(s)
    PROVE  GraphIInv'
<1>1. /\ phase = "stations" /\ s \notin DOMAIN point /\ PlaceStation(s, links)
      /\ UNCHANGED <<phase, ways_left, cur_part, paths, nav, stops, corrections>>
      /\ graph_part' = [n \in GraphNodes \cup {NewNode} |->
                           IF n = NewNode THEN 0 ELSE graph_part[n]]
      /\ GraphNodes' = GraphNodes \cup {NewNode}
  BY DEF MakeStation, setting_up, PutAt, Over, GraphNodes
<1>2. GraphTypeOK /\ NodesStand /\ StationsStand /\ LinksStand /\ PartsStand
  BY DEF GraphIInv, GraphInv
<1>3. /\ NewNode \in Nat /\ NewNode > Cardinality(OsmNodes) /\ Cardinality(OsmNodes) \in Nat
      /\ \A n \in GraphNodes : n \in 1 .. NewNode - 1
  BY <1>2, NewNodeIsNew, PointsAreFinite
<1>4. NewNode \notin GraphNodes /\ NewNode \notin OsmNodes
  <2>1. OsmNodes = 1 .. Cardinality(OsmNodes)
    BY GraphAssumption
  <2> QED
    BY <1>3, <2>1
<1>5. links \in [DOMAIN links -> Nat] /\ \A l \in DOMAIN links : NewNode \notin Ends(l)
  BY <1>2, <1>4 DEF GraphTypeOK
<1>6. /\ links' \in [DOMAIN links' -> Nat] /\ DOMAIN links \subseteq DOMAIN links'
      /\ \A l \in DOMAIN links' \ DOMAIN links :
            \E e \in DOMAIN links : Ends(l) \subseteq Ends(e) \cup {NewNode}
      /\ point' = [z \in DOMAIN point \cup {s} |-> IF z = s THEN NewNode ELSE point[z]]
  BY <1>1, <1>5, StationIsPlaced
<1>7. corrections = 0 /\ \A n \in GraphNodes : graph_part[n] = 0
  <2>1. corrections = 0 /\ cur_part = 1
    BY <1>1, <1>2 DEF StationsStand, PartsStand
  <2>2. \A n \in GraphNodes : graph_part[n] \in Nat /\ graph_part[n] < 1
    BY <1>1, <1>2, <2>1 DEF PartsStand, GraphTypeOK
  <2> QED
    BY <2>1, <2>2
<1>8. GraphTypeOK'
  <2>1. graph_part' \in [GraphNodes' -> Nat]
    BY <1>1, <1>2 DEF GraphTypeOK
  <2>2. \A l \in DOMAIN links' : Ends(l) \subseteq GraphNodes'
    BY <1>1, <1>2, <1>6 DEF GraphTypeOK
  <2>3. point' \in [DOMAIN point' -> GraphNodes' \ OsmNodes] /\ DOMAIN point' \subseteq Stations
    BY <1>1, <1>2, <1>4, <1>6 DEF GraphTypeOK
  <2>4. paths' \subseteq (DOMAIN point') \X (DOMAIN point')
    BY <1>1, <1>2, <1>6 DEF GraphTypeOK
  <2> QED
    BY <1>1, <1>2, <1>6, <2>1, <2>2, <2>3, <2>4 DEF GraphTypeOK
<1>9. NewNode' = NewNode + 1
  <2>1. Cardinality(DOMAIN point') = Cardinality(DOMAIN point) + 1
    <3>1. DOMAIN point' = DOMAIN point \cup {s}
      BY <1>6
    <3>2. IsFiniteSet(DOMAIN point)
      BY <1>2, PointsAreFinite
    <3>3. Cardinality(DOMAIN point \cup {s}) = Cardinality(DOMAIN point) + 1
      BY <1>1, <3>2, FS_AddElement
    <3> QED
      BY <3>1, <3>3
  <2>2. Cardinality(DOMAIN point) \in Nat /\ corrections \in Nat
    BY <1>2, <1>7, PointsAreFinite
  <2> QED
    BY <1>1, <1>3, <2>1, <2>2 DEF NewNode
<1>10. NodesStand'
  <2>1. \A z \in DOMAIN point' : point'[z] \in Cardinality(OsmNodes) + 1 .. NewNode' - 1
    BY <1>2, <1>3, <1>6, <1>9 DEF NodesStand
  <2>2. \A y, z \in DOMAIN point' : point'[y] = point'[z] => y = z
    BY <1>2, <1>3, <1>6 DEF NodesStand
  <2>3. \A n \in GraphNodes' \ OsmNodes : \E z \in DOMAIN point' : point'[z] = n
    <3> SUFFICES ASSUME NEW n \in GraphNodes' \ OsmNodes
                 PROVE  \E z \in DOMAIN point' : point'[z] = n
      OBVIOUS
    <3>1. CASE n = NewNode
      BY <3>1, <1>6
    <3>2. CASE n # NewNode
      <4>1. PICK z \in DOMAIN point : point[z] = n
        BY <3>2, <1>1, <1>2 DEF NodesStand
      <4> QED
        BY <4>1, <1>1, <1>6
    <3> QED
      BY <3>1, <3>2
  <2>4. OsmNodes \subseteq GraphNodes'
    BY <1>1, <1>2 DEF NodesStand
  <2> QED
    BY <2>1, <2>2, <2>3, <2>4 DEF NodesStand
<1>11. StationsStand' /\ LinksStand'
  BY <1>1, <1>2, <1>6, <1>7 DEF StationsStand, LinksStand, MapIsLinked
<1>12. PartsStand'
  <2>1. \A n \in GraphNodes' : graph_part'[n] = 0
    BY <1>1, <1>7
  <2>2. \A l \in DOMAIN links' : graph_part'[l[1]] = graph_part'[l[2]]
    BY <1>8, <2>1 DEF GraphTypeOK, Ends
  <2> QED
    BY <1>1, <1>2, <2>1, <2>2 DEF PartsStand
<1>13. SearchStands' /\ NoPanic'
  BY <1>1, SearchIsLeft, SearchNeedsStations
<1> QED
  BY <1>8, <1>10, <1>11, <1>12, <1>13 DEF GraphIInv, GraphInv

(* A node that a station had goes with its links, and there is a new one.       *)
LEMMA CorrectStationKeeps ==
    ASSUME GraphIInv, NEW s \in Stations, CorrectStation(s)
    PROVE  GraphIInv'
<1> DEFINE old == LinksWithout(point[s])
<1>1. /\ phase = "idle" /\ s \in DOMAIN point /\ PlaceStation(s, old)
      /\ corrections < MaxCorrections /\ corrections' = corrections + 1
      /\ UNCHANGED <<phase, ways_left, cur_part, paths, nav, stops>>
      /\ GraphNodes' = (GraphNodes \ {point[s]}) \cup {NewNode}
      /\ graph_part' = [n \in GraphNodes' |-> IF n = NewNode THEN 0 ELSE graph_part[n]]
  BY DEF CorrectStation, setting_up, GraphNodes
<1>2. GraphTypeOK /\ NodesStand /\ StationsStand /\ LinksStand /\ PartsStand
  BY DEF GraphIInv, GraphInv
<1>3. /\ NewNode \in Nat /\ NewNode > Cardinality(OsmNodes) /\ Cardinality(OsmNodes) \in Nat
      /\ \A n \in GraphNodes : n \in 1 .. NewNode - 1
  BY <1>2, NewNodeIsNew, PointsAreFinite
<1>4. NewNode \notin GraphNodes /\ NewNode \notin OsmNodes
  <2>1. OsmNodes = 1 .. Cardinality(OsmNodes)
    BY GraphAssumption
  <2> QED
    BY <1>3, <2>1
<1>5. /\ old \in [DOMAIN old -> Nat] /\ DOMAIN old \subseteq DOMAIN links
      /\ \A l \in DOMAIN links : l \in DOMAIN old <=> point[s] \notin Ends(l)
      /\ \A l \in DOMAIN old : NewNode \notin Ends(l)
  BY <1>2, <1>4 DEF LinksWithout, LinksOf, GraphTypeOK
<1> HIDE DEF old
<1>6. /\ links' \in [DOMAIN links' -> Nat] /\ DOMAIN old \subseteq DOMAIN links'
      /\ \A l \in DOMAIN links' \ DOMAIN old :
            /\ NewNode \in Ends(l)
            /\ \E e \in DOMAIN old : Ends(l) \subseteq Ends(e) \cup {NewNode}
      /\ point' = [z \in DOMAIN point \cup {s} |-> IF z = s THEN NewNode ELSE point[z]]
  BY <1>1, <1>5, StationIsPlaced
<1>7. DOMAIN point' = DOMAIN point /\ point[s] \in GraphNodes \ OsmNodes
  BY <1>1, <1>2, <1>6 DEF GraphTypeOK
<1>8. corrections \in Nat /\ corrections' \in Nat /\ corrections' > 0
  BY <1>1, <1>2, GraphAssumption DEF GraphTypeOK
<1>9. \A l \in DOMAIN links' : Ends(l) \subseteq GraphNodes'
  BY <1>1, <1>2, <1>5, <1>6 DEF GraphTypeOK
<1>10. GraphTypeOK'
  <2>1. graph_part' \in [GraphNodes' -> Nat]
    BY <1>1, <1>2 DEF GraphTypeOK
  <2>2. \A z \in DOMAIN point' : point'[z] \in GraphNodes' \ OsmNodes
    <3> SUFFICES ASSUME NEW z \in DOMAIN point PROVE point'[z] \in GraphNodes' \ OsmNodes
      BY <1>7
    <3>1. z # s => point[z] # point[s]
      BY <1>1, <1>2 DEF NodesStand
    <3> QED
      BY <3>1, <1>1, <1>2, <1>4, <1>6 DEF GraphTypeOK
  <2>3. point' \in [DOMAIN point' -> GraphNodes' \ OsmNodes] /\ DOMAIN point' \subseteq Stations
    BY <1>2, <1>6, <1>7, <2>2 DEF GraphTypeOK
  <2>4. corrections' \in 0 .. MaxCorrections
    BY <1>1, <1>8, GraphAssumption
  <2> QED
    BY <1>1, <1>2, <1>6, <1>7, <1>9, <2>1, <2>3, <2>4 DEF GraphTypeOK
<1>11. NewNode' = NewNode + 1
  <2>1. Cardinality(DOMAIN point) \in Nat
    BY <1>2, PointsAreFinite
  <2> QED
    BY <1>1, <1>3, <1>7, <1>8, <2>1 DEF NewNode
<1>12. NodesStand'
  <2>1. \A z \in DOMAIN point' : point'[z] \in Cardinality(OsmNodes) + 1 .. NewNode' - 1
    BY <1>2, <1>3, <1>6, <1>7, <1>11 DEF NodesStand
  <2>2. \A y, z \in DOMAIN point' : point'[y] = point'[z] => y = z
    BY <1>2, <1>3, <1>6, <1>7 DEF NodesStand
  <2>3. \A n \in GraphNodes' \ OsmNodes : \E z \in DOMAIN point' : point'[z] = n
    <3> SUFFICES ASSUME NEW n \in GraphNodes' \ OsmNodes
                 PROVE  \E z \in DOMAIN point' : point'[z] = n
      OBVIOUS
    <3>1. CASE n = NewNode
      BY <3>1, <1>1, <1>6
    <3>2. CASE n # NewNode
      <4>1. PICK z \in DOMAIN point : point[z] = n
        BY <3>2, <1>1, <1>2 DEF NodesStand
      <4>2. z # s
        BY <3>2, <4>1, <1>1
      <4> QED
        BY <4>1, <4>2, <1>6
    <3> QED
      BY <3>1, <3>2
  <2>4. OsmNodes \subseteq GraphNodes'
    BY <1>1, <1>2, <1>7 DEF NodesStand
  <2> QED
    BY <1>1, <2>1, <2>2, <2>3, <2>4 DEF NodesStand
<1>13. StationsStand'
  BY <1>1, <1>2, <1>7 DEF StationsStand
<1>14. LinksStand'
  <2>1. MapIsLinked /\ \A way \in ways_left : WayLinks(way) = {}
    BY <1>1, <1>2 DEF LinksStand
  <2>2. MapIsLinked'
    BY <2>1, <1>5, <1>6, <1>7 DEF MapIsLinked, OnTheMap
  <2> QED
    BY <1>1, <2>1, <2>2 DEF LinksStand
<1>15. PartsStand'
  <2>1. ASSUME NEW l \in DOMAIN links', graph_part'[l[1]] # graph_part'[l[2]]
        PROVE  0 \in {graph_part'[l[1]], graph_part'[l[2]]}
    <3>1. l[1] \in GraphNodes' /\ l[2] \in GraphNodes'
      BY <1>9 DEF Ends
    <3>2. CASE l \in DOMAIN old
      <4>1. l[1] # NewNode /\ l[2] # NewNode
        BY <3>2, <1>2, <1>4, <1>5 DEF GraphTypeOK, Ends
      <4> QED
        BY <2>1, <3>1, <3>2, <4>1, <1>1, <1>2, <1>5 DEF PartsStand
    <3>3. CASE l \notin DOMAIN old
      BY <3>1, <3>3, <1>1, <1>6 DEF Ends
    <3> QED
      BY <3>2, <3>3
  <2> QED
    BY <1>1, <1>2, <1>8, <2>1 DEF PartsStand
<1>16. SearchStands' /\ NoPanic'
  BY <1>8 DEF SearchStands, NoPanic
<1> QED
  BY <1>10, <1>12, <1>13, <1>14, <1>15, <1>16 DEF GraphIInv, GraphInv

-----------------------------------------------------------------------------
(* The steps of a search                                                    *)

(* A search only reads the graph.                                            *)
LEMMA GraphIsRead ==
    ASSUME GraphIInv, UNCHANGED <<graph, setting_up, corrections>>
    PROVE  NodesStand' /\ StationsStand' /\ LinksStand' /\ PartsStand'
<1> USE DEF graph, setting_up
<1>1. NodesStand' /\ StationsStand'
  BY DEF GraphIInv, GraphInv, NodesStand, StationsStand, NewNode, GraphNodes
<1>2. LinksStand'
  BY DEF GraphIInv, GraphInv, LinksStand, MapIsLinked, GraphNodes
<1>3. PartsStand'
  <2>1. PartsStand
    BY DEF GraphIInv, GraphInv
  <2>2. \A nodes : OnePiece(nodes) => OnePiece(nodes)'
    BY DEF OnePiece, Closed
  <2> QED
    BY <2>1, <2>2 DEF PartsStand, GraphNodes, Separated
<1> QED
  BY <1>1, <1>2, <1>3

(* And keeps the types if its own state has them.                            *)
NavTypeOK ==
    /\ nav \in [at : {"idle", "search", "trace", "panicked"},
                from : Stations \cup {NoStation}, to : Stations \cup {NoStation},
                start : Nat, dest : Nat, separated : BOOLEAN,
                heap : SUBSET (Nat \X Nat), found : {nav.found}]
    /\ nav.found \in [DOMAIN nav.found -> [dist : Nat, parent : Nat]]
    /\ DOMAIN nav.found \subseteq Nat
    /\ nav.at \in {"search", "trace"} => {nav.from, nav.to} \subseteq DOMAIN point

LEMMA TypesAreKept ==
    ASSUME GraphIInv, UNCHANGED <<graph, setting_up, stops, corrections>>, NavTypeOK',
           paths' \subseteq (DOMAIN point) \X (DOMAIN point)
    PROVE  GraphTypeOK'
  BY DEF graph, setting_up, GraphIInv, GraphTypeOK, NavTypeOK, GraphNodes

LEMMA StartSearchKeeps ==
    ASSUME GraphIInv, NEW from \in Stations, NEW to \in Stations, StartSearch(from, to)
    PROVE  GraphIInv'
<1> DEFINE start == point[from]
           dest == point[to]
           found == [m \in {start} |-> [dist |-> 0, parent |-> 0]]
<1>1. /\ phase = "idle" /\ {from, to} \subseteq DOMAIN point /\ from # to /\ SamePart(from, to)
      /\ UNCHANGED <<graph, setting_up, paths, stops, corrections>>
  BY DEF StartSearch
<1>2. nav' = [at |-> "search", from |-> from, to |-> to, start |-> start, dest |-> dest,
              separated |-> Separated, heap |-> {<<0, start>>}, found |-> found]
  BY DEF StartSearch, PutAt, Over, EmptyMap
<1>3. GraphTypeOK /\ NodesStand
  BY DEF GraphIInv, GraphInv
<1>4. start \in GraphNodes /\ dest \in GraphNodes /\ start # dest
  BY <1>1, <1>3 DEF GraphTypeOK, NodesStand
<1>5. start \in Nat /\ dest \in Nat
  BY <1>3, <1>4, NewNodeIsNew
<1> HIDE DEF start, dest
<1>6. NavTypeOK'
  <2>1. Separated \in BOOLEAN
    BY DEF Separated
  <2> HIDE DEF found
  <2>2. nav'.found = found /\ nav'.heap = {<<0, start>>} /\ nav'.from = from /\ nav'.to = to
    BY <1>2
  <2>3. found \in [DOMAIN found -> [dist : Nat, parent : Nat]] /\ DOMAIN found \subseteq Nat
    BY <1>5 DEF found
  <2>4. nav' \in [at : {"idle", "search", "trace", "panicked"},
                  from : Stations \cup {NoStation}, to : Stations \cup {NoStation},
                  start : Nat, dest : Nat, separated : BOOLEAN,
                  heap : SUBSET (Nat \X Nat), found : {found}]
    BY <1>2, <1>5, <2>1
  <2>5. {from, to} \subseteq DOMAIN point'
    BY <1>1 DEF graph
  <2> QED
    BY <2>2, <2>3, <2>4, <2>5 DEF NavTypeOK
<1>7. GraphTypeOK'
  BY <1>1, <1>3, <1>6, TypesAreKept DEF GraphTypeOK
<1>8. nav'.found = found /\ nav'.heap = {<<0, start>>} /\ nav'.start = start
      /\ nav'.dest = dest /\ nav'.at = "search" /\ nav'.from = from /\ nav'.to = to
      /\ nav'.separated = Separated
  BY <1>2
<1>9. SearchedGraphStands'
  BY <1>1, <1>4, <1>8
  DEF SearchedGraphStands, Separated, SamePart, graph, setting_up, start, dest, GraphNodes
<1>10. FoundFits'
  BY <1>1, <1>4, <1>8 DEF FoundFits, graph, GraphNodes
<1>11. DoneNodesStand'
  BY <1>8 DEF DoneNodesStand, DoneWith
<1>12. ParentsStand'
  BY <1>8 DEF ParentsStand
<1>13. NoPanic'
  BY <1>8 DEF NoPanic
<1> QED
  BY <1>1, <1>7, <1>9, <1>10, <1>11, <1>12, <1>13, GraphIsRead
  DEF GraphIInv, GraphInv, SearchStands

LEMMA SkipEntryKeeps ==
    ASSUME GraphIInv, SkipEntry
    PROVE  GraphIInv'
<1>1. /\ nav.at = "search" /\ UNCHANGED <<graph, setting_up, paths, stops, corrections>>
  BY DEF SkipEntry
<1>2. PICK entry \in nav.heap :
         /\ entry[1] > nav.found[entry[2]].dist
         /\ nav' = [nav EXCEPT !.heap = @ \ {entry}]
  BY DEF SkipEntry
<1>3. GraphTypeOK /\ NavTypeOK
  BY DEF GraphIInv, GraphTypeOK, NavTypeOK
<1>4. /\ nav'.found = nav.found /\ nav'.heap = nav.heap \ {entry} /\ nav'.start = nav.start
      /\ nav'.dest = nav.dest /\ nav'.at = "search" /\ nav'.from = nav.from
      /\ nav'.to = nav.to /\ nav'.separated = nav.separated
  BY <1>1, <1>2, <1>3 DEF NavTypeOK
<1>5. NavTypeOK'
  BY <1>1, <1>2, <1>3, <1>4 DEF NavTypeOK, graph
<1>6. GraphTypeOK'
  BY <1>1, <1>3, <1>5, TypesAreKept DEF GraphTypeOK
<1>7. NoPanic'
  BY <1>4 DEF NoPanic
<1>8. ASSUME corrections = 0
      PROVE  (SearchedGraphStands /\ FoundFits /\ DoneNodesStand /\ ParentsStand)'
  <2>1. SearchedGraphStands /\ FoundFits /\ DoneNodesStand /\ ParentsStand
    BY <1>1, <1>8 DEF GraphIInv, GraphInv, SearchStands, Searching
  <2>2. SearchedGraphStands'
    BY <1>1, <1>4, <2>1 DEF SearchedGraphStands, Separated, graph, setting_up, GraphNodes
  <2>3. FoundFits'
    BY <1>1, <1>4, <2>1 DEF FoundFits, graph, GraphNodes
  <2>4. \A n \in DOMAIN nav.found : <<nav.found[n].dist, n>> # entry
    BY <1>2, <1>3 DEF NavTypeOK
  <2>5. \A n : DoneWith(n)' <=> DoneWith(n)
    BY <1>4, <2>4 DEF DoneWith
  <2>6. DoneNodesStand'
    BY <1>1, <1>4, <2>1, <2>5 DEF DoneNodesStand, graph, LinksOf
  <2>7. ParentsStand'
    BY <1>1, <1>4, <2>1, <2>5 DEF ParentsStand, graph, LinksOf
  <2> QED
    BY <2>2, <2>3, <2>6, <2>7
<1> QED
  BY <1>1, <1>6, <1>7, <1>8, GraphIsRead DEF GraphIInv, GraphInv, SearchStands

(* What links say of the nodes they lead to, and the nearest that they say.     *)
LEMMA ByLinksAre ==
    ASSUME GraphIInv, NEW n, NEW dist \in Nat
    PROVE  /\ ByLinks(n, dist) \subseteq GraphNodes \X Nat
           /\ ByLinks(n, dist) \subseteq Nat \X Nat
           /\ \A r \in ByLinks(n, dist) :
                 r[2] >= dist /\ \E l \in LinksOf(n) :
                                    r[1] = OtherEnd(l, n) /\ r[2] = dist + links[l]
           /\ \A l \in LinksOf(n) : <<OtherEnd(l, n), dist + links[l]>> \in ByLinks(n, dist)
<1>1. \A l \in LinksOf(n) : OtherEnd(l, n) \in GraphNodes /\ links[l] \in Nat
  BY DEF GraphIInv, GraphTypeOK, LinksOf, OtherEnd, Ends
<1>2. GraphNodes \subseteq Nat
  BY NewNodeIsNew DEF GraphIInv, GraphInv
<1>3. ASSUME NEW r \in ByLinks(n, dist)
      PROVE  /\ r \in GraphNodes \X Nat /\ r[2] >= dist
             /\ \E l \in LinksOf(n) : r[1] = OtherEnd(l, n) /\ r[2] = dist + links[l]
  <2>1. PICK l \in LinksOf(n) : r = <<OtherEnd(l, n), dist + links[l]>>
    BY DEF ByLinks
  <2>2. r[1] = OtherEnd(l, n) /\ r[2] = dist + links[l]
    BY <2>1
  <2> QED
    BY <1>1, <2>1, <2>2
<1>4. \A l \in LinksOf(n) : <<OtherEnd(l, n), dist + links[l]>> \in ByLinks(n, dist)
  BY DEF ByLinks
<1> QED
  BY <1>2, <1>3, <1>4

LEMMA NearestIsNearer ==
    ASSUME GraphIInv, NEW by, by \subseteq Nat \X Nat, NEW r \in by, IsNearer(r[1], r[2])
    PROVE  \E q \in Nearer(by) : q[1] = r[1] /\ q[2] <= r[2]
<1> DEFINE T == {p[2] : p \in {p \in by : p[1] = r[1]}}
<1>1. T \subseteq Nat /\ r[2] \in T
  OBVIOUS
<1>2. PICK x \in T : \A y \in T : x <= y
  <2> HIDE DEF T
  <2>1. T # {}
    BY <1>1
  <2> QED
    BY <1>1, <2>1, LeastIsThere
<1>3. PICK q \in by : q[1] = r[1] /\ q[2] = x
  BY <1>2
<1>4. \A p \in by : p[1] = q[1] => q[2] <= p[2]
  BY <1>2, <1>3
<1>5. q[2] <= r[2] /\ q[2] \in Nat /\ r[2] \in Nat
  BY <1>3, <1>4
<1>6. IsNearer(q[1], q[2])
  <2>1. nav.found[r[1]].dist \in Nat \/ r[1] \notin DOMAIN nav.found
    BY DEF GraphIInv, GraphTypeOK
  <2> QED
    BY <1>3, <1>5, <2>1 DEF IsNearer
<1> QED
  BY <1>3, <1>4, <1>5, <1>6 DEF Nearer

LEMMA FoundFromIs ==
    ASSUME NEW n, NEW some, NEW r \in some, \A q \in some : q[1] = r[1] => q[2] = r[2]
    PROVE  /\ DOMAIN FoundFrom(n, some) = {q[1] : q \in some}
           /\ FoundFrom(n, some)[r[1]] = [dist |-> r[2], parent |-> n]
<1>1. r[1] \in {q[1] : q \in some}
  OBVIOUS
<1>2. (CHOOSE q \in some : q[1] = r[1])[2] = r[2]
  OBVIOUS
<1> QED
  BY <1>1, <1>2 DEF FoundFrom

(* What is known after a node was considered: better than before, by its links.  *)
LEMMA FoundMore ==
    ASSUME GraphIInv, NEW n \in Nat, NEW dist \in Nat,
           NEW some \in SUBSET ByLinks(n, dist),
           \A r, q \in some : q[1] = r[1] => q[2] = r[2],
           NEW found, found = Over(FoundFrom(n, some), nav.found)
    PROVE  /\ \A m : m \in DOMAIN found <=> m \in DOMAIN nav.found \/ \E r \in some : r[1] = m
           /\ \A r \in some : found[r[1]] = [dist |-> r[2], parent |-> n]
           /\ \A m \in DOMAIN nav.found :
                 (\A r \in some : r[1] # m) => found[m] = nav.found[m]
           /\ found \in [DOMAIN found -> [dist : Nat, parent : Nat]]
           /\ DOMAIN found \subseteq Nat
<1> DEFINE new == FoundFrom(n, some)
<1>1. DOMAIN new = {r[1] : r \in some}
  BY DEF FoundFrom
<1>2. \A r \in some : new[r[1]] = [dist |-> r[2], parent |-> n]
  BY FoundFromIs
<1> HIDE DEF new
<1>3. /\ DOMAIN found = DOMAIN nav.found \cup {r[1] : r \in some}
      /\ \A m \in DOMAIN new : found[m] = new[m]
      /\ \A m \in DOMAIN nav.found \ DOMAIN new : found[m] = nav.found[m]
      /\ found = [m \in DOMAIN found |-> found[m]]
  BY <1>1 DEF Over, new
<1>4. \A r \in some : r[1] \in Nat /\ r[2] \in Nat
  BY ByLinksAre
<1>5. /\ nav.found \in [DOMAIN nav.found -> [dist : Nat, parent : Nat]]
      /\ DOMAIN nav.found \subseteq Nat
  BY DEF GraphIInv, GraphTypeOK
<1>6. ASSUME NEW m \in DOMAIN found
      PROVE  found[m] \in [dist : Nat, parent : Nat] /\ m \in Nat
  <2>1. CASE m \in DOMAIN new
    <3>1. PICK r \in some : m = r[1]
      BY <1>1, <2>1
    <3>2. found[m] = [dist |-> r[2], parent |-> n]
      BY <2>1, <3>1, <1>2, <1>3
    <3>3. r[1] \in Nat /\ r[2] \in Nat
      BY <1>4
    <3> QED
      BY <3>1, <3>2, <3>3
  <2>2. CASE m \notin DOMAIN new
    BY <2>2, <1>1, <1>3, <1>5
  <2> QED
    BY <2>1, <2>2
<1>7. found \in [DOMAIN found -> [dist : Nat, parent : Nat]] /\ DOMAIN found \subseteq Nat
  BY <1>3, <1>6
<1>8. \A r \in some : found[r[1]] = [dist |-> r[2], parent |-> n]
  BY <1>1, <1>2, <1>3
<1>9. \A m \in DOMAIN nav.found :
         (\A r \in some : r[1] # m) => found[m] = nav.found[m]
  BY <1>1, <1>3
<1> QED
  BY <1>1, <1>3, <1>7, <1>8, <1>9

LEMMA NearestAgree ==
    ASSUME NEW by, by \subseteq Nat \X Nat
    PROVE  \A r, q \in Nearer(by) : q[1] = r[1] => q[2] = r[2]
<1> SUFFICES ASSUME NEW r \in Nearer(by), NEW q \in Nearer(by), q[1] = r[1]
             PROVE  q[2] = r[2]
  OBVIOUS
<1>1. r \in by /\ q \in by /\ r[2] <= q[2] /\ q[2] <= r[2]
  BY DEF Nearer
<1>2. r[2] \in Nat /\ q[2] \in Nat
  BY <1>1
<1> QED
  BY <1>1, <1>2

(* The node is linked with the destination: that is found, and all is left.     *)
LEMMA EndSearchKeeps ==
    ASSUME GraphIInv, nav.at = "search",
           UNCHANGED <<graph, setting_up, paths, stops, corrections>>,
           NEW entry \in nav.heap, entry[1] = nav.found[entry[2]].dist,
           NEW r \in ByLinks(entry[2], entry[1]), r[1] = nav.dest,
           nav' = [nav EXCEPT !.at = "trace", !.found = Over(FoundFrom(entry[2], {r}), @)]
    PROVE  GraphIInv'
<1> DEFINE n == entry[2]
           found == Over(FoundFrom(n, {r}), nav.found)
<1>1. GraphTypeOK /\ NavTypeOK /\ n \in Nat /\ entry[1] \in Nat
  BY DEF GraphIInv, GraphTypeOK, NavTypeOK
<1> HIDE DEF n
<1>2. /\ DOMAIN found = DOMAIN nav.found \cup {nav.dest}
      /\ found[nav.dest] = [dist |-> r[2], parent |-> n]
      /\ \A m \in DOMAIN nav.found : m # nav.dest => found[m] = nav.found[m]
      /\ found \in [DOMAIN found -> [dist : Nat, parent : Nat]]
      /\ DOMAIN found \subseteq Nat
  <2> DEFINE some == {r}
  <2>1. some \in SUBSET ByLinks(n, entry[1]) /\ \A p, q \in some : q[1] = p[1] => q[2] = p[2]
    BY DEF n
  <2>3. found = Over(FoundFrom(n, some), nav.found) /\ r \in some
    OBVIOUS
  <2>4. \A p \in some : p[1] = nav.dest
    OBVIOUS
  <2> HIDE DEF some, found
  <2>5. /\ \A m : m \in DOMAIN found <=> m \in DOMAIN nav.found \/ \E p \in some : p[1] = m
        /\ \A p \in some : found[p[1]] = [dist |-> p[2], parent |-> n]
        /\ \A m \in DOMAIN nav.found :
              (\A p \in some : p[1] # m) => found[m] = nav.found[m]
        /\ found \in [DOMAIN found -> [dist : Nat, parent : Nat]]
        /\ DOMAIN found \subseteq Nat
    BY <1>1, <2>1, <2>3, FoundMore
  <2>6. found[nav.dest] = [dist |-> r[2], parent |-> n]
    BY <2>3, <2>5
  <2> QED
    BY <2>3, <2>4, <2>5, <2>6
<1>3. nav' = [nav EXCEPT !.at = "trace", !.found = found]
  BY DEF n
<1> HIDE DEF found
<1>4. /\ nav'.found = found /\ nav'.heap = nav.heap /\ nav'.start = nav.start
      /\ nav'.dest = nav.dest /\ nav'.at = "trace" /\ nav'.from = nav.from
      /\ nav'.to = nav.to /\ nav'.separated = nav.separated
  BY <1>1, <1>3 DEF NavTypeOK
<1>5. NavTypeOK'
  <2>1. nav' \in [at : {"idle", "search", "trace", "panicked"},
                  from : Stations \cup {NoStation}, to : Stations \cup {NoStation},
                  start : Nat, dest : Nat, separated : BOOLEAN,
                  heap : SUBSET (Nat \X Nat), found : {found}]
    BY <1>1, <1>3 DEF NavTypeOK
  <2>2. {nav'.from, nav'.to} \subseteq DOMAIN point'
    BY <1>1, <1>4 DEF NavTypeOK, graph
  <2> QED
    BY <1>2, <1>4, <2>1, <2>2 DEF NavTypeOK
<1>6. GraphTypeOK'
  BY <1>1, <1>5, TypesAreKept DEF GraphTypeOK
<1>7. NoPanic'
  BY <1>4 DEF NoPanic
<1>8. ASSUME corrections = 0
      PROVE  (SearchedGraphStands /\ FoundFits /\ DoneNodesStand /\ ParentsStand)'
  <2>1. SearchedGraphStands /\ FoundFits /\ DoneNodesStand /\ ParentsStand
    BY <1>8 DEF GraphIInv, GraphInv, SearchStands, Searching
  <2>2. SearchedGraphStands'
    BY <1>4, <2>1 DEF SearchedGraphStands, Separated, graph, setting_up, GraphNodes
  <2>3. nav.dest \in GraphNodes /\ nav.dest \notin DOMAIN nav.found
    BY <2>1, <1>1 DEF SearchedGraphStands, FoundFits, GraphTypeOK
  <2>4. n \in DOMAIN nav.found \ {nav.dest}
    BY <2>1 DEF FoundFits, n
  <2>5. FoundFits'
    BY <1>2, <1>4, <2>1, <2>3 DEF FoundFits, SearchedGraphStands, graph, GraphNodes
  <2>6. \A m : DoneWith(m)' <=> DoneWith(m)
    BY <1>2, <1>4, <2>3 DEF DoneWith
  <2>7. DoneNodesStand'
    <3> SUFFICES ASSUME NEW m \in DOMAIN found, DoneWith(m)
                 PROVE  /\ \A e \in nav.heap : found[m].dist <= e[1]
                        /\ \A l \in LinksOf(m) :
                              /\ OtherEnd(l, m) \in DOMAIN found \ {nav.dest}
                              /\ found[OtherEnd(l, m)].dist <= found[m].dist + links[l]
      BY <1>4, <2>6 DEF DoneNodesStand, graph, LinksOf
    <3>1. m \in DOMAIN nav.found \ {nav.dest} /\ found[m] = nav.found[m]
      BY <1>2 DEF DoneWith
    <3> QED
      BY <1>2, <2>1, <3>1 DEF DoneNodesStand
  <2>8. ParentsStand'
    <3> SUFFICES ASSUME NEW m \in DOMAIN found \ {nav.start}
                 PROVE  /\ found[m].parent \in DOMAIN found \ {nav.dest}
                        /\ m = nav.dest \/ DoneWith(found[m].parent)
                        /\ \E l \in LinksOf(found[m].parent) :
                              /\ OtherEnd(l, found[m].parent) = m
                              /\ found[m].dist = found[found[m].parent].dist + links[l]
      <4>1. \A x : LinksOf(x)' = LinksOf(x)
        BY DEF LinksOf, graph
      <4>2. links' = links
        BY DEF graph
      <4> QED
        BY <1>4, <2>6, <4>1, <4>2 DEF ParentsStand
    <3>1. CASE m = nav.dest
      <4>1. found[m].parent = n /\ found[m].dist = r[2]
        BY <1>2, <3>1
      <4>2. PICK l \in LinksOf(n) : r[1] = OtherEnd(l, n) /\ r[2] = entry[1] + links[l]
        BY <1>1, ByLinksAre DEF n
      <4>3. found[n].dist = entry[1]
        BY <1>2, <2>4 DEF n
      <4> QED
        BY <1>2, <2>4, <3>1, <4>1, <4>2, <4>3
    <3>2. CASE m # nav.dest
      <4>1. m \in DOMAIN nav.found \ {nav.start} /\ found[m] = nav.found[m]
        BY <1>2, <3>2
      <4>2. nav.found[m].parent \in DOMAIN nav.found \ {nav.dest}
        BY <2>1, <4>1 DEF ParentsStand
      <4>3. found[nav.found[m].parent] = nav.found[nav.found[m].parent]
        BY <1>2, <4>2
      <4> QED
        BY <1>2, <2>1, <3>2, <4>1, <4>2, <4>3 DEF ParentsStand
    <3> QED
      BY <3>1, <3>2
  <2> QED
    BY <2>2, <2>5, <2>7, <2>8
<1> QED
  BY <1>6, <1>7, <1>8, GraphIsRead DEF GraphIInv, GraphInv, SearchStands

(* What the step does to the search, as it stands before: the node is done with,  *)
(* those done with before stay so, and no other comes to be.                   *)
Nearest(entry) == Nearer(ByLinks(entry[2], entry[1]))
NextFound(entry) == Over(FoundFrom(entry[2], Nearest(entry)), nav.found)
NextHeap(entry) == (nav.heap \ {entry}) \cup {<<r[2], r[1]>> : r \in Nearest(entry)}
NextDone(entry) ==
    {m \in DOMAIN NextFound(entry) \ {nav.dest} :
        <<NextFound(entry)[m].dist, m>> \notin NextHeap(entry)}

LEMMA NextFoundIs ==
    ASSUME GraphIInv, NEW entry \in Nat \X Nat
    PROVE  /\ \A m : m \in DOMAIN NextFound(entry)
                     <=> m \in DOMAIN nav.found \/ \E r \in Nearest(entry) : r[1] = m
           /\ \A r \in Nearest(entry) :
                 NextFound(entry)[r[1]] = [dist |-> r[2], parent |-> entry[2]]
           /\ \A m \in DOMAIN nav.found :
                 (\A r \in Nearest(entry) : r[1] # m) => NextFound(entry)[m] = nav.found[m]
           /\ NextFound(entry) \in [DOMAIN NextFound(entry) -> [dist : Nat, parent : Nat]]
           /\ DOMAIN NextFound(entry) \subseteq Nat
<1> DEFINE n == entry[2]
           dist == entry[1]
           some == Nearest(entry)
           found == NextFound(entry)
<1>1. some \in SUBSET ByLinks(n, dist)
  BY DEF Nearest, Nearer
<1>2. \A r, q \in some : q[1] = r[1] => q[2] = r[2]
  <2>1. ByLinks(n, dist) \subseteq Nat \X Nat
    BY ByLinksAre
  <2> QED
    BY <2>1, NearestAgree DEF Nearest
<1>3. found = Over(FoundFrom(n, some), nav.found)
  BY DEF NextFound
<1>4. n \in Nat /\ dist \in Nat
  OBVIOUS
<1> HIDE DEF n, dist, some, found
<1>5. /\ \A m : m \in DOMAIN found <=> m \in DOMAIN nav.found \/ \E r \in some : r[1] = m
      /\ \A r \in some : found[r[1]] = [dist |-> r[2], parent |-> n]
      /\ \A m \in DOMAIN nav.found :
            (\A r \in some : r[1] # m) => found[m] = nav.found[m]
      /\ found \in [DOMAIN found -> [dist : Nat, parent : Nat]]
      /\ DOMAIN found \subseteq Nat
  BY <1>1, <1>2, <1>3, <1>4, FoundMore
<1> QED
  BY <1>5 DEF n, some, found

LEMMA OneMoreIsDone ==
    ASSUME GraphIInv, nav.at = "search", corrections = 0,
           NEW entry \in nav.heap, IsNext(entry), entry[1] = nav.found[entry[2]].dist
    PROVE  /\ entry \in Nat \X Nat /\ entry[2] \in DOMAIN nav.found \ {nav.dest}
           /\ \A r \in Nearest(entry) :
                 /\ r[1] \notin {entry[2], nav.start} /\ r[2] \in Nat /\ r[2] >= entry[1]
                 /\ ~DoneWith(r[1])
           /\ NextFound(entry)[entry[2]] = nav.found[entry[2]]
           /\ NextFound(entry)[nav.start] = nav.found[nav.start]
           /\ \A m : DoneWith(m) => /\ nav.found[m].dist <= entry[1]
                                    /\ NextFound(entry)[m] = nav.found[m]
           /\ \A m \in DOMAIN nav.found :
                 /\ m \in DOMAIN NextFound(entry)
                 /\ NextFound(entry)[m].dist <= nav.found[m].dist
           /\ \A m \in DOMAIN NextFound(entry) \ {nav.dest} :
                 m \in NextDone(entry) <=> m = entry[2] \/ DoneWith(m)
<1>1. FoundFits /\ DoneNodesStand
  BY DEF GraphIInv, GraphInv, SearchStands, Searching
<1>2. /\ nav.found \in [DOMAIN nav.found -> [dist : Nat, parent : Nat]]
      /\ DOMAIN nav.found \subseteq Nat
  BY DEF GraphIInv, GraphTypeOK
<1>3. /\ entry[2] \in DOMAIN nav.found \ {nav.dest} /\ entry[2] \in Nat /\ entry[1] \in Nat
      /\ nav.found[entry[2]].dist = entry[1] /\ entry = <<entry[1], entry[2]>>
      /\ entry \in Nat \X Nat
  BY <1>1, <1>2 DEF FoundFits
<1>4. ASSUME NEW r \in Nearest(entry)
      PROVE  /\ r[2] \in Nat /\ r[2] >= entry[1]
             /\ r[1] \in DOMAIN nav.found => nav.found[r[1]].dist > r[2]
  <2>1. r \in ByLinks(entry[2], entry[1]) /\ IsNearer(r[1], r[2])
    BY DEF Nearest, Nearer
  <2>2. r[2] \in Nat /\ r[2] >= entry[1]
    BY <1>3, <2>1, ByLinksAre
  <2> QED
    BY <2>1, <2>2 DEF IsNearer
<1>5. /\ \A m : m \in DOMAIN NextFound(entry)
                <=> m \in DOMAIN nav.found \/ \E r \in Nearest(entry) : r[1] = m
      /\ \A r \in Nearest(entry) :
            NextFound(entry)[r[1]] = [dist |-> r[2], parent |-> entry[2]]
      /\ \A m \in DOMAIN nav.found :
            (\A r \in Nearest(entry) : r[1] # m) => NextFound(entry)[m] = nav.found[m]
  BY <1>3, NextFoundIs
<1>6. \A m : DoneWith(m) => m \in DOMAIN nav.found /\ nav.found[m].dist <= entry[1]
  BY <1>1 DEF DoneNodesStand, DoneWith
<1>7. \A r \in Nearest(entry) :
         /\ r[1] \notin {entry[2], nav.start} /\ r[2] \in Nat /\ r[2] >= entry[1]
         /\ ~DoneWith(r[1])
  <2> SUFFICES ASSUME NEW r \in Nearest(entry)
               PROVE  r[1] # entry[2] /\ r[1] # nav.start /\ ~DoneWith(r[1])
    BY <1>4
  <2>1. r[1] # entry[2]
    BY <1>3, <1>4
  <2>2. r[1] # nav.start
    BY <1>1, <1>3, <1>4 DEF FoundFits
  <2>3. ~DoneWith(r[1])
    <3>1. r[1] \in DOMAIN nav.found => nav.found[r[1]].dist \in Nat
      BY <1>2
    <3> QED
      BY <3>1, <1>3, <1>4, <1>6
  <2> QED
    BY <2>1, <2>2, <2>3
<1>8. /\ NextFound(entry)[entry[2]] = nav.found[entry[2]]
      /\ NextFound(entry)[nav.start] = nav.found[nav.start]
  BY <1>1, <1>3, <1>5, <1>7 DEF FoundFits
<1>9. \A m : DoneWith(m) => /\ nav.found[m].dist <= entry[1]
                            /\ NextFound(entry)[m] = nav.found[m]
  BY <1>5, <1>6, <1>7
<1>10. \A m \in DOMAIN nav.found :
          /\ m \in DOMAIN NextFound(entry)
          /\ NextFound(entry)[m].dist <= nav.found[m].dist
  <2> SUFFICES ASSUME NEW m \in DOMAIN nav.found
               PROVE  NextFound(entry)[m].dist <= nav.found[m].dist
    BY <1>5
  <2>1. nav.found[m].dist \in Nat
    BY <1>2
  <2>2. CASE \E r \in Nearest(entry) : r[1] = m
    <3>1. PICK r \in Nearest(entry) : r[1] = m
      BY <2>2
    <3>2. NextFound(entry)[m].dist = r[2]
      <4>1. NextFound(entry)[r[1]] = [dist |-> r[2], parent |-> entry[2]]
        BY <1>5
      <4> QED
        BY <3>1, <4>1
    <3> QED
      BY <2>1, <3>1, <3>2, <1>4
  <2>3. CASE \A r \in Nearest(entry) : r[1] # m
    BY <2>1, <2>3, <1>5
  <2> QED
    BY <2>2, <2>3
<1>11. ASSUME NEW m, m \in DOMAIN NextFound(entry) \ {nav.dest}
       PROVE  m \in NextDone(entry) <=> m = entry[2] \/ DoneWith(m)
  <2>1. CASE \E r \in Nearest(entry) : r[1] = m
    <3>1. PICK r \in Nearest(entry) : r[1] = m
      BY <2>1
    <3>2. NextFound(entry)[m].dist = r[2]
      <4>1. NextFound(entry)[r[1]] = [dist |-> r[2], parent |-> entry[2]]
        BY <1>5
      <4> QED
        BY <3>1, <4>1
    <3>3. <<NextFound(entry)[m].dist, m>> \in NextHeap(entry)
      BY <3>1, <3>2 DEF NextHeap
    <3> QED
      BY <1>11, <3>1, <3>3, <1>7 DEF NextDone
  <2>2. CASE \A r \in Nearest(entry) : r[1] # m
    <3>1. m \in DOMAIN nav.found /\ NextFound(entry)[m] = nav.found[m]
      <4>1. m \in DOMAIN nav.found
        BY <1>11, <2>2, <1>5
      <4> QED
        BY <2>2, <4>1, <1>5
    <3>2. <<NextFound(entry)[m].dist, m>> \in NextHeap(entry)
            <=> <<nav.found[m].dist, m>> \in nav.heap /\ m # entry[2]
      <4>1. <<NextFound(entry)[m].dist, m>> \notin {<<r[2], r[1]>> : r \in Nearest(entry)}
        BY <2>2
      <4>2. <<nav.found[m].dist, m>> = entry <=> m = entry[2]
        BY <1>3
      <4> QED
        BY <3>1, <4>1, <4>2 DEF NextHeap
    <3> QED
      BY <1>11, <3>1, <3>2 DEF DoneWith, NextDone
  <2> QED
    BY <2>1, <2>2
<1> QED
  BY <1>3, <1>7, <1>8, <1>9, <1>10, <1>11

(* The node is done with, and no link of it leads to the destination.           *)
LEMMA GoOnKeeps ==
    ASSUME GraphIInv, nav.at = "search",
           UNCHANGED <<graph, setting_up, paths, stops, corrections>>,
           NEW entry \in nav.heap, IsNext(entry), entry[1] = nav.found[entry[2]].dist,
           \A r \in ByLinks(entry[2], entry[1]) : r[1] # nav.dest,
           nav' = [nav EXCEPT !.heap = NextHeap(entry), !.found = NextFound(entry)]
    PROVE  GraphIInv'
<1> DEFINE n == entry[2]
           found == NextFound(entry)
           heap == NextHeap(entry)
           near == Nearest(entry)
<1>1. GraphTypeOK /\ NavTypeOK /\ entry \in Nat \X Nat
  BY DEF GraphIInv, GraphTypeOK, NavTypeOK
<1>2. /\ near \subseteq ByLinks(n, entry[1]) /\ near \subseteq GraphNodes \X Nat
      /\ near \subseteq Nat \X Nat
  <2>1. near \subseteq ByLinks(n, entry[1])
    BY DEF Nearest, Nearer
  <2> QED
    BY <1>1, <2>1, ByLinksAre
<1>3. /\ \A m : m \in DOMAIN found <=> m \in DOMAIN nav.found \/ \E r \in near : r[1] = m
      /\ \A r \in near : found[r[1]] = [dist |-> r[2], parent |-> n]
      /\ \A m \in DOMAIN nav.found : (\A r \in near : r[1] # m) => found[m] = nav.found[m]
      /\ found \in [DOMAIN found -> [dist : Nat, parent : Nat]] /\ DOMAIN found \subseteq Nat
  BY <1>1, NextFoundIs
<1>4. heap = (nav.heap \ {entry}) \cup {<<r[2], r[1]>> : r \in near}
  BY DEF NextHeap
<1>5. heap \subseteq Nat \X Nat
  BY <1>1, <1>2, <1>4 DEF NavTypeOK
<1> HIDE DEF n, found, heap, near
<1>6. /\ nav'.found = found /\ nav'.heap = heap /\ nav'.start = nav.start
      /\ nav'.dest = nav.dest /\ nav'.at = "search" /\ nav'.from = nav.from
      /\ nav'.to = nav.to /\ nav'.separated = nav.separated
  BY <1>1 DEF NavTypeOK, found, heap
<1>7. NavTypeOK'
  <2>1. nav' = [nav EXCEPT !.heap = heap, !.found = found]
    BY DEF found, heap
  <2>2. nav' \in [at : {"idle", "search", "trace", "panicked"},
                  from : Stations \cup {NoStation}, to : Stations \cup {NoStation},
                  start : Nat, dest : Nat, separated : BOOLEAN,
                  heap : SUBSET (Nat \X Nat), found : {found}]
    BY <1>1, <1>5, <2>1 DEF NavTypeOK
  <2>3. {nav'.from, nav'.to} \subseteq DOMAIN point'
    BY <1>1, <1>6 DEF NavTypeOK, graph
  <2> QED
    BY <1>3, <1>6, <2>2, <2>3 DEF NavTypeOK
<1>8. GraphTypeOK'
  BY <1>1, <1>7, TypesAreKept DEF GraphTypeOK
<1>9. NoPanic'
  BY <1>6 DEF NoPanic
<1>10. ASSUME corrections = 0
       PROVE  (SearchedGraphStands /\ FoundFits /\ DoneNodesStand /\ ParentsStand)'
  <2>1. SearchedGraphStands /\ FoundFits /\ DoneNodesStand /\ ParentsStand
    BY <1>10 DEF GraphIInv, GraphInv, SearchStands, Searching
  <2>2. /\ n \in DOMAIN nav.found \ {nav.dest}
        /\ \A r \in near : /\ r[1] \notin {n, nav.start} /\ r[2] \in Nat /\ r[2] >= entry[1]
                           /\ ~DoneWith(r[1])
        /\ found[n] = nav.found[n] /\ found[nav.start] = nav.found[nav.start]
        /\ \A m : DoneWith(m) => nav.found[m].dist <= entry[1] /\ found[m] = nav.found[m]
        /\ \A m \in DOMAIN nav.found : m \in DOMAIN found /\ found[m].dist <= nav.found[m].dist
        /\ \A m \in DOMAIN found \ {nav.dest} :
              m \in NextDone(entry) <=> m = n \/ DoneWith(m)
    BY <1>10, OneMoreIsDone DEF n, near, found
  <2>3. \A m : DoneWith(m)' <=> m = n \/ DoneWith(m)
    <3>1. \A m : DoneWith(m)' <=> m \in NextDone(entry)
      BY <1>6 DEF DoneWith, NextDone, found, heap
    <3>2. NextDone(entry) \subseteq DOMAIN found \ {nav.dest}
      BY DEF NextDone, found
    <3>3. \A m : m = n \/ DoneWith(m) => m \in DOMAIN found \ {nav.dest}
      BY <1>3, <2>2 DEF DoneWith
    <3> QED
      BY <3>1, <3>2, <3>3, <2>2
  <2>4. SearchedGraphStands'
    BY <1>6, <2>1 DEF SearchedGraphStands, Separated, graph, setting_up, GraphNodes
  <2>5. \A r \in near : r[1] # nav.dest
    BY <1>2 DEF n
  <2>6. nav.dest \notin DOMAIN found
    BY <1>3, <2>1, <2>5 DEF FoundFits
  <2>7. FoundFits'
    <3>1. DOMAIN found \subseteq GraphNodes
      BY <1>2, <1>3, <2>1 DEF FoundFits
    <3>2. heap \subseteq Nat \X (DOMAIN found \ {nav.dest})
      <4>1. \A r \in near : <<r[2], r[1]>> \in Nat \X (DOMAIN found \ {nav.dest})
        BY <1>3, <2>2, <2>5
      <4>2. nav.heap \subseteq Nat \X (DOMAIN found \ {nav.dest})
        BY <1>3, <2>1 DEF FoundFits
      <4> QED
        BY <1>4, <4>1, <4>2
    <3>3. nav.start \in DOMAIN found /\ found[nav.start] = [dist |-> 0, parent |-> 0]
      BY <1>3, <2>1, <2>2 DEF FoundFits
    <3> QED
      BY <1>6, <2>6, <3>1, <3>2, <3>3 DEF FoundFits, graph, GraphNodes
  <2>8. DoneNodesStand'
    <3> SUFFICES ASSUME NEW m, m = n \/ DoneWith(m)
                 PROVE  /\ \A e \in heap : found[m].dist <= e[1]
                        /\ \A l \in LinksOf(m) :
                              /\ OtherEnd(l, m) \in DOMAIN found \ {nav.dest}
                              /\ found[OtherEnd(l, m)].dist <= found[m].dist + links[l]
      <4>1. \A x : LinksOf(x)' = LinksOf(x)
        BY DEF LinksOf, graph
      <4>2. links' = links
        BY DEF graph
      <4> QED
        BY <1>6, <2>3, <4>1, <4>2 DEF DoneNodesStand
    <3>1. m \in DOMAIN nav.found /\ found[m] = nav.found[m] /\ found[m].dist <= entry[1]
          /\ found[m].dist \in Nat
      <4>1. m \in DOMAIN nav.found /\ found[m] = nav.found[m]
        BY <2>2 DEF DoneWith
      <4>2. nav.found[m].dist \in Nat
        BY <1>1, <4>1 DEF NavTypeOK
      <4>3. nav.found[n].dist = entry[1]
        BY DEF n
      <4> QED
        BY <1>1, <2>2, <4>1, <4>2, <4>3
    <3>2. \A e \in heap : found[m].dist <= e[1]
      <4>1. \A e \in nav.heap : entry[1] <= e[1] /\ e[1] \in Nat
        BY <1>1 DEF IsNext, NavTypeOK
      <4>2. \A e \in heap : entry[1] <= e[1] /\ e[1] \in Nat
        BY <1>4, <2>2, <4>1
      <4> QED
        BY <1>1, <3>1, <4>2
    <3>3. ASSUME NEW l \in LinksOf(m)
          PROVE  /\ OtherEnd(l, m) \in DOMAIN found \ {nav.dest}
                 /\ found[OtherEnd(l, m)].dist <= found[m].dist + links[l]
      <4> DEFINE o == OtherEnd(l, m)
      <4>1. links[l] \in Nat
        BY <1>1 DEF GraphTypeOK, LinksOf
      <4>2. CASE m = n
        <5> DEFINE r == <<o, entry[1] + links[l]>>
        <5>1. r \in ByLinks(n, entry[1]) /\ ByLinks(n, entry[1]) \subseteq Nat \X Nat
          BY <1>1, <4>2, ByLinksAre
        <5>2. r[1] = o /\ r[2] = entry[1] + links[l]
          OBVIOUS
        <5> HIDE DEF o, r
        <5>3. o # nav.dest
          BY <5>1, <5>2 DEF n
        <5>4. found[m].dist = entry[1]
          BY <4>2, <2>2 DEF n
        <5>5. CASE IsNearer(r[1], r[2])
          <6>1. PICK q \in near : q[1] = r[1] /\ q[2] <= r[2]
            <7>1. \E q \in Nearer(ByLinks(n, entry[1])) : q[1] = r[1] /\ q[2] <= r[2]
              BY <5>1, <5>5, NearestIsNearer
            <7> QED
              BY <7>1 DEF near, Nearest, n
          <6>2. o \in DOMAIN found /\ found[o] = [dist |-> q[2], parent |-> n]
            <7>1. q[1] = o
              BY <5>2, <6>1
            <7> QED
              BY <1>3, <7>1
          <6> QED
            BY <5>2, <5>3, <5>4, <6>1, <6>2 DEF o
        <5>6. CASE ~IsNearer(r[1], r[2])
          <6>1. o \in DOMAIN nav.found /\ ~(nav.found[o].dist > r[2])
            BY <5>2, <5>6 DEF IsNearer
          <6>2. nav.found[o].dist \in Nat /\ o \in DOMAIN found
            BY <1>1, <1>3, <6>1 DEF NavTypeOK
          <6>3. found[o].dist <= nav.found[o].dist /\ found[o].dist \in Nat
            BY <1>3, <2>2, <6>1
          <6> QED
            BY <1>1, <4>1, <5>2, <5>3, <5>4, <6>1, <6>2, <6>3 DEF o
        <5> QED
          BY <5>5, <5>6
      <4>3. CASE DoneWith(m)
        <5>1. o \in DOMAIN nav.found \ {nav.dest}
              /\ nav.found[o].dist <= nav.found[m].dist + links[l]
          BY <2>1, <3>1, <4>3 DEF DoneNodesStand
        <5> HIDE DEF o
        <5>2. nav.found[o].dist \in Nat /\ o \in DOMAIN found
          BY <1>1, <1>3, <5>1 DEF NavTypeOK
        <5>3. found[o].dist <= nav.found[o].dist /\ found[o].dist \in Nat
          BY <1>3, <2>2, <5>1
        <5> QED
          BY <3>1, <4>1, <5>1, <5>2, <5>3 DEF o
      <4> QED
        BY <4>2, <4>3
    <3> QED
      BY <3>2, <3>3
  <2>9. ParentsStand'
    <3> SUFFICES ASSUME NEW m \in DOMAIN found \ {nav.start}
                 PROVE  /\ found[m].parent \in DOMAIN found \ {nav.dest}
                        /\ found[m].parent = n \/ DoneWith(found[m].parent)
                        /\ \E l \in LinksOf(found[m].parent) :
                              /\ OtherEnd(l, found[m].parent) = m
                              /\ found[m].dist = found[found[m].parent].dist + links[l]
      <4>1. \A x : LinksOf(x)' = LinksOf(x)
        BY DEF LinksOf, graph
      <4>2. links' = links
        BY DEF graph
      <4> QED
        BY <1>6, <2>3, <4>1, <4>2 DEF ParentsStand
    <3>1. CASE \E r \in near : r[1] = m
      <4>1. PICK r \in near : r[1] = m
        BY <3>1
      <4>2. found[r[1]] = [dist |-> r[2], parent |-> n]
        BY <1>3
      <4>3. found[m].parent = n /\ found[m].dist = r[2]
        BY <4>1, <4>2
      <4>4. PICK l \in LinksOf(n) : r[1] = OtherEnd(l, n) /\ r[2] = entry[1] + links[l]
        <5>1. r \in ByLinks(n, entry[1])
          BY <1>2
        <5> QED
          BY <1>1, <5>1, ByLinksAre
      <4>5. found[n].dist = entry[1] /\ n \in DOMAIN found
        BY <1>3, <2>2 DEF n
      <4> QED
        BY <2>2, <4>1, <4>3, <4>4, <4>5
    <3>2. CASE \A r \in near : r[1] # m
      <4>1. m \in DOMAIN nav.found \ {nav.start} /\ m # nav.dest
        BY <1>3, <2>6, <3>2
      <4>2. found[m] = nav.found[m]
        BY <1>3, <3>2, <4>1
      <4> DEFINE p == nav.found[m].parent
      <4>3. /\ p \in DOMAIN nav.found \ {nav.dest} /\ DoneWith(p)
            /\ \E l \in LinksOf(p) :
                  OtherEnd(l, p) = m /\ nav.found[m].dist = nav.found[p].dist + links[l]
        BY <2>1, <4>1 DEF ParentsStand
      <4> HIDE DEF p
      <4>4. found[p] = nav.found[p] /\ p \in DOMAIN found
        BY <2>2, <4>3
      <4>5. found[m].parent = p /\ found[m].dist = nav.found[m].dist
        BY <4>2 DEF p
      <4> QED
        BY <4>3, <4>4, <4>5
    <3> QED
      BY <3>1, <3>2
  <2> QED
    BY <2>4, <2>7, <2>8, <2>9
<1> QED
  BY <1>6, <1>8, <1>9, <1>10, GraphIsRead DEF GraphIInv, GraphInv, SearchStands

LEMMA ConsiderNodeKeeps ==
    ASSUME GraphIInv, ConsiderNode
    PROVE  GraphIInv'
<1>1. nav.at = "search" /\ UNCHANGED <<graph, setting_up, paths, stops, corrections>>
  BY DEF ConsiderNode
<1>2. PICK entry \in nav.heap :
         LET n == entry[2]
             by == ByLinks(n, entry[1])
             nearer == Nearer(by)
             ends == {r \in by : r[1] = nav.dest}
         IN  /\ IsNext(entry) /\ entry[1] = nav.found[n].dist
             /\ \/ \E r \in ends :
                      nav' = [nav EXCEPT !.at = "trace",
                                         !.found = Over(FoundFrom(n, {r}), @)]
                \/ /\ ends = {}
                   /\ nav' = [nav EXCEPT
                                 !.heap = (@ \ {entry}) \cup {<<r[2], r[1]>> : r \in nearer},
                                 !.found = Over(FoundFrom(n, nearer), @)]
  BY DEF ConsiderNode
<1>3. IsNext(entry) /\ entry[1] = nav.found[entry[2]].dist
  BY <1>2
<1>4. CASE \E r \in ByLinks(entry[2], entry[1]) :
              /\ r[1] = nav.dest
              /\ nav' = [nav EXCEPT !.at = "trace", !.found = Over(FoundFrom(entry[2], {r}), @)]
  BY <1>1, <1>3, <1>4, EndSearchKeeps
<1>5. CASE /\ \A r \in ByLinks(entry[2], entry[1]) : r[1] # nav.dest
           /\ nav' = [nav EXCEPT !.heap = NextHeap(entry), !.found = NextFound(entry)]
  BY <1>1, <1>3, <1>5, GoOnKeeps
<1> QED
  BY <1>2, <1>4, <1>5 DEF NextHeap, NextFound, Nearest

(* When nothing is left in the heap no link leads out of what was found: with the  *)
(* start and without the destination, though they are of one piece.            *)
LEMMA ExhaustedKeeps ==
    ASSUME GraphIInv, Exhausted
    PROVE  GraphIInv'
<1>1. /\ nav.at = "search" /\ nav.heap = {} /\ nav' = [nav EXCEPT !.at = "panicked"]
      /\ UNCHANGED <<graph, setting_up, paths, stops, corrections>>
  BY DEF Exhausted
<1>2. GraphTypeOK /\ NavTypeOK
  BY DEF GraphIInv, GraphTypeOK, NavTypeOK
<1>3. /\ nav'.found = nav.found /\ nav'.at = "panicked" /\ nav'.separated = nav.separated
  BY <1>1, <1>2 DEF NavTypeOK
<1>4. NavTypeOK'
  BY <1>1, <1>2, <1>3 DEF NavTypeOK
<1>5. GraphTypeOK'
  BY <1>1, <1>2, <1>4, TypesAreKept DEF GraphTypeOK
<1>6. NoPanic'
  <2> SUFFICES ASSUME nav.separated, corrections = 0 PROVE FALSE
    <3>1. corrections \in Nat /\ corrections' = corrections
      BY <1>1, <1>2, GraphAssumption DEF GraphTypeOK
    <3> QED
      BY <1>3, <3>1 DEF NoPanic
  <2>1. SearchedGraphStands /\ FoundFits /\ DoneNodesStand /\ PartsStand
    BY <1>1 DEF GraphIInv, GraphInv, SearchStands, Searching
  <2> DEFINE found == DOMAIN nav.found
             part == {m \in GraphNodes : graph_part[m] = graph_part[nav.start]}
  <2>2. nav.start \in found /\ nav.dest \notin found /\ found \subseteq GraphNodes
    BY <1>1, <2>1 DEF FoundFits
  <2>3. nav.start \in part /\ nav.dest \in part
    <3>1. nav.dest \in GraphNodes
      BY <1>1, <1>2, <2>1 DEF SearchedGraphStands, GraphTypeOK
    <3> QED
      BY <2>1, <2>2, <3>1 DEF SearchedGraphStands
  <2>4. \A m \in found : DoneWith(m)
    BY <1>1, <2>2 DEF DoneWith
  <2>5. Closed(found)
    <3> SUFFICES ASSUME NEW l \in DOMAIN links, NEW m \in Ends(l), m \in found
                 PROVE  Ends(l) \subseteq found
      BY DEF Closed, Ends
    <3>1. l \in LinksOf(m)
      BY DEF LinksOf
    <3>2. OtherEnd(l, m) \in found
      BY <2>1, <2>4, <3>1 DEF DoneNodesStand
    <3> QED
      BY <3>2 DEF OtherEnd, Ends
  <2>6. Closed(part) /\ OnePiece(part)
    <3>1. /\ \A l \in DOMAIN links : graph_part[l[1]] = graph_part[l[2]]
          /\ graph_part[nav.start] # 0 => OnePiece(part)
      BY <2>1, <2>2 DEF PartsStand
    <3>2. \A l \in DOMAIN links : l[1] \in GraphNodes /\ l[2] \in GraphNodes
      BY <1>2 DEF GraphTypeOK, Ends
    <3>3. graph_part[nav.start] # 0
      BY <2>1, <2>2 DEF SearchedGraphStands, Separated
    <3> QED
      BY <3>1, <3>2, <3>3 DEF Closed
  <2> HIDE DEF found, part
  <2>7. Closed(found \cap part)
    BY <2>5, <2>6 DEF Closed
  <2>8. found \cap part = {} \/ found \cap part = part
    BY <2>6, <2>7 DEF OnePiece
  <2> QED
    BY <2>2, <2>3, <2>8
<1>7. SearchStands'
  BY <1>3 DEF SearchStands, Searching
<1> QED
  BY <1>1, <1>5, <1>6, <1>7, GraphIsRead DEF GraphIInv, GraphInv

LEMMA OneElement ==
    ASSUME NEW S, NEW e \in S
    PROVE  <<e>> \in Seq(S) /\ Len(<<e>>) = 1 /\ <<e>>[1] = e /\ <<e>> # <<>>
<1>1. <<e>> \in Seq(S)
  OBVIOUS
<1>2. Len(<<e>>) = 1
  OBVIOUS
<1>3. <<e>>[1] = e
  OBVIOUS
<1>4. <<e>> # <<>>
  BY <1>2
<1> QED
  BY <1>1, <1>2, <1>3, <1>4

(* A way that goes back by the parents, from the destination.                  *)
ByParents(way) ==
    /\ way \in Seq(DOMAIN nav.found) /\ way # <<>> /\ way[Len(way)] = nav.dest
    /\ \A i \in 1 .. Len(way) - 1 :
          way[i + 1] # nav.start /\ way[i] = nav.found[way[i + 1]].parent

LEMMA GoingBack ==
    ASSUME GraphIInv, nav.at = "trace", corrections = 0, NEW way, ByParents(way),
           nav.found[way[1]].parent # 0
    PROVE  /\ ByParents(<<nav.found[way[1]].parent>> \o way)
           /\ Len(<<nav.found[way[1]].parent>> \o way) = Len(way) + 1
<1>1. FoundFits /\ ParentsStand
  BY DEF GraphIInv, GraphInv, SearchStands, Searching
<1> DEFINE p == nav.found[way[1]].parent
           long == <<p>> \o way
<1>2. way \in Seq(DOMAIN nav.found) /\ Len(way) \in Nat /\ Len(way) > 0
      /\ way[1] \in DOMAIN nav.found
  BY DEF ByParents
<1>3. way[1] # nav.start
  BY <1>1 DEF FoundFits
<1>4. p \in DOMAIN nav.found
  BY <1>1, <1>2, <1>3 DEF ParentsStand
<1> HIDE DEF p
<1>5. /\ long \in Seq(DOMAIN nav.found) /\ Len(long) = Len(way) + 1 /\ long[1] = p
      /\ \A i \in 1 .. Len(way) : long[i + 1] = way[i]
  <2> DEFINE one == <<p>>
  <2>1. one \in Seq(DOMAIN nav.found) /\ Len(one) = 1 /\ one[1] = p
    BY <1>4, OneElement
  <2> HIDE DEF one
  <2>2. long = one \o way
    BY DEF one
  <2>3. /\ long \in Seq(DOMAIN nav.found) /\ Len(long) = Len(one) + Len(way)
        /\ \A i \in 1 .. Len(one) + Len(way) :
              long[i] = IF i <= Len(one) THEN one[i] ELSE way[i - Len(one)]
    BY <1>2, <2>1, <2>2, ConcatProperties
  <2> HIDE DEF long
  <2> QED
    BY <1>2, <2>1, <2>3
<1> HIDE DEF long
<1>6. long # <<>>
  BY <1>2, <1>5
<1>7. long[Len(long)] = nav.dest
  BY <1>2, <1>5 DEF ByParents
<1>8. ASSUME NEW i \in 1 .. Len(long) - 1
      PROVE  long[i + 1] # nav.start /\ long[i] = nav.found[long[i + 1]].parent
  <2>1. CASE i = 1
    BY <2>1, <1>2, <1>3, <1>5 DEF p
  <2>2. CASE i # 1
    <3>1. i - 1 \in 1 .. Len(way) - 1 /\ i \in 1 .. Len(way) /\ i - 1 \in 1 .. Len(way)
      BY <2>2, <1>2, <1>5
    <3>2. long[i + 1] = way[i] /\ long[(i - 1) + 1] = way[i - 1] /\ (i - 1) + 1 = i
      BY <3>1, <1>5
    <3>3. way[(i - 1) + 1] # nav.start /\ way[i - 1] = nav.found[way[(i - 1) + 1]].parent
      BY <3>1 DEF ByParents
    <3> QED
      BY <3>2, <3>3
  <2> QED
    BY <2>1, <2>2
<1>9. ByParents(long)
  BY <1>5, <1>6, <1>7, <1>8 DEF ByParents
<1> QED
  BY <1>5, <1>9 DEF long, p

(* The way of a search goes back by them, to the start or by as many steps as it  *)
(* takes.                                                                    *)
LEMMA WayIs ==
    ASSUME GraphIInv, nav.at = "trace", corrections = 0,
           IsFiniteSet(DOMAIN nav.found)
    PROVE  /\ ByParents(Way)
           /\ Way[1] = nav.start \/ Len(Way) > Cardinality(DOMAIN nav.found)
<1> DEFINE Back(way) == IF nav.found[way[1]].parent = 0 THEN way
                        ELSE <<nav.found[way[1]].parent>> \o way
           X == {way \in Seq(DOMAIN nav.found) : ByParents(way)}
           a == <<nav.dest>>
           F == [way \in X |-> Back(way)]
           R == CHOOSE f : f = [k \in Nat |-> IF k = 0 THEN <<nav.dest>> ELSE Back(f[k - 1])]
           N == Cardinality(DOMAIN nav.found)
<1>1. FoundFits /\ ParentsStand
  BY DEF GraphIInv, GraphInv, SearchStands, Searching
<1>2. Way = R[N]
  BY DEF Way
<1>3. a \in X /\ Len(a) = 1
  <2>1. nav.dest \in DOMAIN nav.found
    BY <1>1 DEF FoundFits
  <2>2. a \in Seq(DOMAIN nav.found) /\ Len(a) = 1 /\ a[1] = nav.dest /\ a # <<>>
    BY <2>1, OneElement
  <2> HIDE DEF a
  <2>3. a[Len(a)] = nav.dest /\ \A i \in 1 .. Len(a) - 1 : FALSE
    BY <2>2
  <2>4. ByParents(a)
    BY <2>2, <2>3 DEF ByParents
  <2> QED
    BY <2>2, <2>4
<1>4. ASSUME NEW way \in X
      PROVE  /\ Back(way) \in X
             /\ way[1] = nav.start \/ Len(Back(way)) = Len(way) + 1
             /\ way[1] = nav.start => Back(way) = way
  <2>1. CASE nav.found[way[1]].parent = 0
    <3>1. way[1] \in DOMAIN nav.found
      BY DEF ByParents
    <3>2. 0 \notin DOMAIN nav.found
      <4>1. \A n \in GraphNodes : n \in 1 .. NewNode - 1
        BY NewNodeIsNew DEF GraphIInv, GraphInv
      <4>2. NewNode \in Nat /\ 0 \notin GraphNodes
        BY <4>1, NewNodeIsNew DEF GraphIInv, GraphInv
      <4> QED
        BY <1>1, <4>2 DEF FoundFits
    <3>3. way[1] = nav.start
      BY <1>1, <2>1, <3>1, <3>2 DEF ParentsStand
    <3> QED
      BY <2>1, <3>3
  <2>2. CASE nav.found[way[1]].parent # 0
    <3>1. Back(way) = <<nav.found[way[1]].parent>> \o way
      BY <2>2
    <3>2. ByParents(Back(way)) /\ Len(Back(way)) = Len(way) + 1
      BY <2>2, <3>1, GoingBack
    <3>3. way[1] # nav.start
      BY <1>1, <2>2 DEF FoundFits
    <3> QED
      BY <3>2, <3>3 DEF ByParents
  <2> QED
    BY <2>1, <2>2
<1> HIDE DEF X, Back
<1>5. F \in [X -> X]
  BY <1>4
<1>6. \E f \in [Nat -> X] : f = [k \in Nat |-> IF k = 0 THEN a ELSE F[f[k - 1]]]
  <2> HIDE DEF a, F
  <2> QED
    BY <1>3, <1>5, RecursionWorks
<1>7. ASSUME NEW f \in [Nat -> X]
      PROVE  [k \in Nat |-> IF k = 0 THEN a ELSE F[f[k - 1]]]
               = [k \in Nat |-> IF k = 0 THEN <<nav.dest>> ELSE Back(f[k - 1])]
  <2>1. ASSUME NEW k \in Nat, k # 0 PROVE F[f[k - 1]] = Back(f[k - 1])
    <3>1. k - 1 \in Nat
      BY <2>1
    <3> QED
      BY <3>1
  <2> HIDE DEF F
  <2> QED
    BY <2>1
<1>8. R = [k \in Nat |-> IF k = 0 THEN <<nav.dest>> ELSE Back(R[k - 1])]
  <2>1. \E f : f = [k \in Nat |-> IF k = 0 THEN <<nav.dest>> ELSE Back(f[k - 1])]
    BY <1>6, <1>7
  <2> QED
    BY <2>1
<1> HIDE DEF R
<1>9. R[0] = a /\ \A k \in Nat : R[k + 1] = Back(R[k])
  <2>1. R[0] = a
    BY <1>8
  <2>2. ASSUME NEW k \in Nat PROVE R[k + 1] = Back(R[k])
    <3>1. k + 1 \in Nat /\ k + 1 # 0 /\ (k + 1) - 1 = k
      OBVIOUS
    <3>2. R[k + 1] = Back(R[(k + 1) - 1])
      BY <1>8, <3>1
    <3> QED
      BY <3>1, <3>2
  <2> QED
    BY <2>1, <2>2
<1> DEFINE Far == {k \in Nat : R[k] \in X /\ (R[k][1] = nav.start \/ Len(R[k]) > k)}
<1>10. 0 \in Far
  <2> HIDE DEF a
  <2> QED
    BY <1>3, <1>9
<1>11. ASSUME NEW k \in Nat, k \in Far PROVE k + 1 \in Far
  <2>1. R[k] \in X /\ R[k + 1] = Back(R[k])
    BY <1>9, <1>11
  <2>2. R[k + 1] \in X
    BY <2>1, <1>4
  <2>3. CASE R[k][1] = nav.start
    BY <2>1, <2>2, <2>3, <1>4
  <2>4. CASE R[k][1] # nav.start
    <3>1. Len(R[k + 1]) = Len(R[k]) + 1 /\ Len(R[k]) > k
      BY <2>1, <2>4, <1>4, <1>11
    <3>2. Len(R[k]) \in Nat
      BY <2>1 DEF X
    <3> QED
      BY <2>2, <3>1, <3>2
  <2> QED
    BY <2>3, <2>4
<1> HIDE DEF Far
<1>12. Nat \subseteq Far /\ N \in Nat
  BY <1>10, <1>11, CountsUp, FS_CardinalityType
<1> QED
  BY <1>2, <1>12 DEF Far, X

LEMMA SearchEndsTyped ==
    ASSUME GraphIInv, UNCHANGED <<graph, setting_up, stops, corrections>>, nav' = NoSearch,
           paths' \subseteq (DOMAIN point) \X (DOMAIN point)
    PROVE  GraphIInv'
<1>1. EmptyMap \in [DOMAIN EmptyMap -> [dist : Nat, parent : Nat]] /\ DOMAIN EmptyMap = {}
  BY DEF EmptyMap
<1>2. NoSearch.at = "idle" /\ NoSearch.found = EmptyMap
  BY DEF NoSearch
<1>3. NoSearch \in [at : {"idle", "search", "trace", "panicked"},
                    from : Stations \cup {NoStation}, to : Stations \cup {NoStation},
                    start : Nat, dest : Nat, separated : BOOLEAN,
                    heap : SUBSET (Nat \X Nat), found : {EmptyMap}]
  BY DEF NoSearch
<1>4. NavTypeOK'
  BY <1>1, <1>2, <1>3 DEF NavTypeOK
<1>5. GraphTypeOK'
  BY <1>4, TypesAreKept
<1>6. NoPanic' /\ SearchStands'
  BY <1>2 DEF NoPanic, SearchStands, Searching
<1> QED
  BY <1>5, <1>6, GraphIsRead DEF GraphIInv, GraphInv

LEMMA TraceKeeps ==
    ASSUME GraphIInv, Trace
    PROVE  GraphIInv'
<1>1. nav.at = "trace" /\ UNCHANGED <<graph, setting_up, stops, corrections>>
  BY DEF Trace
<1>2. GraphTypeOK /\ NavTypeOK
  BY DEF GraphIInv, GraphTypeOK, NavTypeOK
<1>3. CASE \E i \in 2 .. Len(Way) : Way[i] \notin GraphNodes
  <2>1. nav' = [nav EXCEPT !.at = "panicked"] /\ UNCHANGED paths
    BY <1>3 DEF Trace
  <2>2. /\ nav'.found = nav.found /\ nav'.at = "panicked" /\ nav'.separated = nav.separated
    BY <1>2, <2>1 DEF NavTypeOK
  <2>3. NavTypeOK'
    BY <1>2, <2>1, <2>2 DEF NavTypeOK
  <2>4. GraphTypeOK'
    BY <1>1, <1>2, <2>1, <2>3, TypesAreKept DEF GraphTypeOK
  <2>5. corrections # 0
    <3> SUFFICES ASSUME corrections = 0 PROVE FALSE
      OBVIOUS
    <3>1. DOMAIN nav.found \subseteq GraphNodes
      BY <1>1 DEF GraphIInv, GraphInv, SearchStands, Searching, FoundFits
    <3>2. IsFiniteSet(DOMAIN nav.found)
      BY <3>1, NewNodeIsNew, FS_Subset DEF GraphIInv, GraphInv
    <3>3. Way \in Seq(DOMAIN nav.found)
      BY <1>1, <3>2, WayIs DEF ByParents
    <3>4. \A i \in 2 .. Len(Way) : Way[i] \in GraphNodes
      BY <3>1, <3>3
    <3> QED
      BY <1>3, <3>4
  <2>6. corrections \in Nat /\ corrections' = corrections
    BY <1>1, <1>2, GraphAssumption DEF GraphTypeOK
  <2>7. NoPanic' /\ SearchStands'
    BY <2>2, <2>5, <2>6 DEF NoPanic, SearchStands, Searching
  <2> QED
    BY <1>1, <2>4, <2>7, GraphIsRead DEF GraphIInv, GraphInv
<1>4. CASE ~\E i \in 2 .. Len(Way) : Way[i] \notin GraphNodes
  <2>1. /\ nav' = NoSearch
        /\ paths' = paths \/ paths' = paths \cup {<<nav.from, nav.to>>}
    BY <1>4 DEF Trace
  <2>2. nav.from \in DOMAIN point /\ nav.to \in DOMAIN point
    BY <1>1, <1>2 DEF NavTypeOK
  <2>3. paths' \subseteq (DOMAIN point) \X (DOMAIN point)
    BY <1>2, <2>1, <2>2 DEF GraphTypeOK
  <2> QED
    BY <1>1, <2>1, <2>3, SearchEndsTyped
<1> QED
  BY <1>3, <1>4

LEMMA StartOverKeeps ==
    ASSUME GraphIInv, StartOver
    PROVE  GraphIInv'
  BY SearchEndsTyped DEF StartOver, GraphIInv, GraphTypeOK

-----------------------------------------------------------------------------
(* Theorems                                                                 *)

LEMMA GraphNextKeeps ==
    ASSUME GraphIInv, [GraphNext]_graphvars
    PROVE  GraphIInv'
<1>1. CASE StartSetup \/ LinksDone \/ StationsDone \/ SeparateDone \/ StopSetup
  BY <1>1, PhasesKeep
<1>2. CASE MakeNodes
  BY <1>2, MakeNodesKeeps
<1>3. CASE \E way \in Ways : ImportWay(way)
  BY <1>3, ImportWayKeeps
<1>4. CASE \E s \in Stations : MakeStation(s) \/ CorrectStation(s)
  BY <1>4, MakeStationKeeps, CorrectStationKeeps
<1>5. CASE \E n \in GraphNodes : SeparateNodes(n)
  BY <1>5, SeparateNodesKeeps
<1>6. CASE \E from, to \in Stations : StartSearch(from, to)
  BY <1>6, StartSearchKeeps
<1>7. CASE SkipEntry
  BY <1>7, SkipEntryKeeps
<1>8. CASE ConsiderNode
  BY <1>8, ConsiderNodeKeeps
<1>9. CASE Exhausted
  BY <1>9, ExhaustedKeeps
<1>10. CASE Trace
  BY <1>10, TraceKeeps
<1>11. CASE StartOver
  BY <1>11, StartOverKeeps
<1>12. CASE UNCHANGED graphvars
  <2>1. UNCHANGED <<graph, setting_up, paths, nav, stops, corrections>>
    BY <1>12 DEF graphvars
  <2>2. NavTypeOK'
    BY <2>1 DEF GraphIInv, GraphTypeOK, NavTypeOK, graph
  <2>3. GraphTypeOK'
    BY <2>1, <2>2, TypesAreKept DEF GraphIInv, GraphTypeOK
  <2>4. SearchStands' /\ NoPanic'
    BY <2>1, SearchIsLeft, SearchNeedsStations DEF graph, setting_up, GraphNodes
  <2> QED
    BY <2>1, <2>3, <2>4, GraphIsRead DEF GraphIInv, GraphInv
<1> QED
  BY <1>1, <1>2, <1>3, <1>4, <1>5, <1>6, <1>7, <1>8, <1>9, <1>10, <1>11, <1>12 DEF GraphNext

(* However setup is stopped and run again, stations are corrected and ways are       *)
(* searched for, the graph, the numbers of its parts and the state of a search fit    *)
(* together.                                                                 *)
THEOREM GraphCorrect == GraphSpec => []GraphIInv
<1>1. GraphIInv /\ [GraphNext]_graphvars => GraphIInv'
  BY GraphNextKeeps
<1> QED
  BY <1>1, GraphInitIInv, PTL DEF GraphSpec

(* When every node has a part, a link keeps to one, and as long as no station was     *)
(* corrected nodes have the same number only if links connect them.              *)
THEOREM GraphParts == GraphSpec => []PartsAreComponents
<1>1. GraphIInv => PartsAreComponents
  <2> SUFFICES ASSUME GraphIInv, Separated PROVE PartsAreComponents
    BY DEF PartsAreComponents
  <2>1. GraphTypeOK /\ PartsStand
    BY DEF GraphIInv, GraphInv
  <2>2. \A l \in DOMAIN links : graph_part[l[1]] = graph_part[l[2]]
    BY <2>1 DEF GraphTypeOK, PartsStand, Separated, Ends
  <2>3. corrections = 0 =>
           \A n \in GraphNodes : OnePiece({m \in GraphNodes : graph_part[m] = graph_part[n]})
    BY <2>1 DEF PartsStand, Separated
  <2>4. ASSUME corrections = 0, NEW n \in GraphNodes, NEW same,
               same = {m \in GraphNodes : graph_part[m] = graph_part[n]}
        PROVE  \A some \in (SUBSET same) \ {{}, same} : ~Closed(some)
    <3>1. OnePiece(same)
      BY <2>3, <2>4
    <3> QED
      BY <3>1 DEF OnePiece
  <2> QED
    BY <2>2, <2>4 DEF PartsAreComponents
<1> QED
  BY <1>1, GraphCorrect, PTL

(* A search in a graph that every node had a part in does not run out of nodes, nor   *)
(* come to one that has gone, unless a station was corrected.                   *)
THEOREM GraphNoPanic == GraphSpec => []NoPanic
<1>1. GraphIInv => NoPanic
  BY DEF GraphIInv, GraphInv
<1> QED
  BY <1>1, GraphCorrect, PTL

-----------------------------------------------------------------------------
(* What a search finds is right                                              *)

(* The ways that are by a link longer than some.                              *)
Longer(ways) ==
    ways \cup {<<OtherEnd(w[1], w[2][1]), w[2][2] + links[w[1]]>> :
               w \in {w \in (DOMAIN links) \X ways : w[2][1] \in Ends(w[1])}}

LEMMA LongerIs ==
    ASSUME NEW ways
    PROVE  \A e \in Longer(ways) :
              \/ e \in ways
              \/ \E l \in DOMAIN links, d \in ways :
                    d[1] \in Ends(l) /\ e = <<OtherEnd(l, d[1]), d[2] + links[l]>>
<1> SUFFICES ASSUME NEW e \in Longer(ways), e \notin ways
             PROVE  \E l \in DOMAIN links, d \in ways :
                       d[1] \in Ends(l) /\ e = <<OtherEnd(l, d[1]), d[2] + links[l]>>
  OBVIOUS
<1>1. PICK w \in (DOMAIN links) \X ways :
         /\ w[2][1] \in Ends(w[1])
         /\ e = <<OtherEnd(w[1], w[2][1]), w[2][2] + links[w[1]]>>
  BY DEF Longer
<1>2. w[1] \in DOMAIN links /\ w[2] \in ways
  BY <1>1
<1> QED
  BY <1>1, <1>2

LEMMA ShortestIs ==
    ASSUME GraphTypeOK, nav.start \in GraphNodes
    PROVE  \E near \in [Nat -> SUBSET (GraphNodes \X Nat)] :
              /\ Shortest = near[Cardinality(GraphNodes)]
              /\ near[0] = {<<nav.start, 0>>}
              /\ \A k \in Nat : near[k + 1] = Longer(near[k])
<1> DEFINE X == SUBSET (GraphNodes \X Nat)
           a == {<<nav.start, 0>>}
           F == [ways \in X |-> Longer(ways)]
           R == CHOOSE f : f = [k \in Nat |-> IF k = 0 THEN {<<nav.start, 0>>}
                                             ELSE Longer(f[k - 1])]
<1>1. Shortest = R[Cardinality(GraphNodes)]
  BY DEF Shortest, Longer
<1>2. a \in X
  OBVIOUS
<1>3. \A l \in DOMAIN links : links[l] \in Nat /\ \A n : OtherEnd(l, n) \in GraphNodes
  BY DEF GraphTypeOK, OtherEnd, Ends
<1>4. F \in [X -> X]
  <2> SUFFICES ASSUME NEW ways \in X PROVE Longer(ways) \in X
    OBVIOUS
  <2> SUFFICES ASSUME NEW e \in Longer(ways) PROVE e \in GraphNodes \X Nat
    OBVIOUS
  <2>1. CASE e \in ways
    BY <2>1
  <2>2. CASE \E l \in DOMAIN links, d \in ways :
                d[1] \in Ends(l) /\ e = <<OtherEnd(l, d[1]), d[2] + links[l]>>
    <3>1. PICK l \in DOMAIN links, d \in ways : e = <<OtherEnd(l, d[1]), d[2] + links[l]>>
      BY <2>2
    <3>2. d[2] \in Nat
      OBVIOUS
    <3> QED
      BY <1>3, <3>1, <3>2
  <2> QED
    BY <2>1, <2>2, LongerIs
<1>5. \E f \in [Nat -> X] : f = [k \in Nat |-> IF k = 0 THEN a ELSE F[f[k - 1]]]
  <2> HIDE DEF a, F, X
  <2> QED
    BY <1>2, <1>4, RecursionWorks
<1>6. ASSUME NEW f \in [Nat -> X]
      PROVE  [k \in Nat |-> IF k = 0 THEN a ELSE F[f[k - 1]]]
               = [k \in Nat |-> IF k = 0 THEN {<<nav.start, 0>>} ELSE Longer(f[k - 1])]
  <2>1. ASSUME NEW k \in Nat, k # 0 PROVE F[f[k - 1]] = Longer(f[k - 1])
    <3>1. k - 1 \in Nat
      BY <2>1
    <3> HIDE DEF X
    <3> QED
      BY <3>1
  <2> HIDE DEF F
  <2> QED
    BY <2>1
<1>7. R = [k \in Nat |-> IF k = 0 THEN {<<nav.start, 0>>} ELSE Longer(R[k - 1])]
  <2>1. \E f : f = [k \in Nat |-> IF k = 0 THEN {<<nav.start, 0>>} ELSE Longer(f[k - 1])]
    BY <1>5, <1>6
  <2> QED
    BY <2>1
<1> HIDE DEF R, F
<1>8. R[0] = a /\ \A k \in Nat : R[k + 1] = Longer(R[k])
  <2>1. R[0] = a
    BY <1>7
  <2>2. ASSUME NEW k \in Nat PROVE R[k + 1] = Longer(R[k])
    <3>1. k + 1 \in Nat /\ k + 1 # 0 /\ (k + 1) - 1 = k
      OBVIOUS
    <3>2. R[k + 1] = Longer(R[(k + 1) - 1])
      BY <1>7, <3>1
    <3> QED
      BY <3>1, <3>2
  <2> QED
    BY <2>1, <2>2
<1>9. R \in [Nat -> X]
  <2> DEFINE Within == {k \in Nat : R[k] \in X}
  <2>1. 0 \in Within
    BY <1>2, <1>8
  <2>2. ASSUME NEW k \in Nat, k \in Within PROVE k + 1 \in Within
    <3>1. F[R[k]] = Longer(R[k]) /\ F[R[k]] \in X
      <4> HIDE DEF X
      <4> QED
        BY <1>4, <2>2 DEF F
    <3> QED
      BY <3>1, <1>8
  <2>3. Nat \subseteq Within
    <3> HIDE DEF Within
    <3> QED
      BY <2>1, <2>2, CountsUp
  <2>4. R = [k \in Nat |-> R[k]]
    BY <1>7
  <2> QED
    BY <2>3, <2>4
<1> QED
  BY <1>1, <1>8, <1>9

(* Each way, however many links it takes, is either to a node that is done with and  *)
(* no shorter than what was found, or no shorter than the next entry of the heap.   *)
LEMMA WaysAreNotShorter ==
    ASSUME GraphIInv, Searching, corrections = 0
    PROVE  \A e \in Shortest : DoneWith(e[1]) => nav.found[e[1]].dist <= e[2]
<1> DEFINE Right(e) == \/ DoneWith(e[1]) /\ nav.found[e[1]].dist <= e[2]
                       \/ \E h \in nav.heap : h[1] <= e[2]
           N == Cardinality(GraphNodes)
<1>1. GraphTypeOK /\ FoundFits /\ DoneNodesStand
  BY DEF GraphIInv, GraphInv, SearchStands
<1>2. /\ nav.found \in [DOMAIN nav.found -> [dist : Nat, parent : Nat]]
      /\ nav.heap \subseteq Nat \X Nat /\ nav.start \in DOMAIN nav.found
      /\ DOMAIN nav.found \subseteq GraphNodes /\ nav.start \in GraphNodes
  BY <1>1 DEF GraphTypeOK, FoundFits
<1>3. \A l \in DOMAIN links : links[l] \in Nat /\ \A n : OtherEnd(l, n) \in GraphNodes
  BY <1>1 DEF GraphTypeOK, OtherEnd, Ends
<1>4. PICK R \in [Nat -> SUBSET (GraphNodes \X Nat)] :
         /\ Shortest = R[N] /\ R[0] = {<<nav.start, 0>>}
         /\ \A k \in Nat : R[k + 1] = Longer(R[k])
  BY <1>1, <1>2, ShortestIs
<1> DEFINE Righter == {k \in Nat : \A e \in R[k] : e \in GraphNodes \X Nat /\ Right(e)}
<1>5. \A n \in DOMAIN nav.found \ {nav.dest} :
          DoneWith(n) \/ \E h \in nav.heap : h[1] = nav.found[n].dist
  <2> SUFFICES ASSUME NEW n \in DOMAIN nav.found \ {nav.dest}, ~DoneWith(n)
               PROVE  \E h \in nav.heap : h[1] = nav.found[n].dist
    OBVIOUS
  <2>1. <<nav.found[n].dist, n>> \in nav.heap
    BY DEF DoneWith
  <2> QED
    BY <2>1
<1>6. 0 \in Righter
  <2>1. nav.start \in DOMAIN nav.found \ {nav.dest} /\ nav.found[nav.start].dist = 0
    BY <1>1 DEF FoundFits, GraphIInv, GraphInv, SearchStands, SearchedGraphStands
  <2>2. Right(<<nav.start, 0>>)
    BY <1>5, <2>1
  <2> HIDE DEF Right
  <2> QED
    BY <1>2, <1>4, <2>2
<1>7. ASSUME NEW k \in Nat, k \in Righter PROVE k + 1 \in Righter
  <2> SUFFICES ASSUME NEW e \in R[k + 1], e \notin R[k]
               PROVE  e \in GraphNodes \X Nat /\ Right(e)
    BY <1>7
  <2>1. PICK l \in DOMAIN links, d \in R[k] :
           d[1] \in Ends(l) /\ e = <<OtherEnd(l, d[1]), d[2] + links[l]>>
    BY <1>4, LongerIs
  <2> DEFINE o == OtherEnd(l, d[1])
  <2>2. /\ d[1] \in GraphNodes /\ d[2] \in Nat /\ Right(d) /\ links[l] \in Nat
        /\ o \in GraphNodes /\ l \in LinksOf(d[1])
    BY <1>3, <1>7, <2>1 DEF LinksOf
  <2>3. e[1] = o /\ e[2] = d[2] + links[l] /\ e \in GraphNodes \X Nat
    BY <2>1, <2>2
  <2>4. CASE \E h \in nav.heap : h[1] <= d[2]
    BY <1>2, <2>2, <2>3, <2>4
  <2>5. CASE DoneWith(d[1]) /\ nav.found[d[1]].dist <= d[2]
    <3>1. d[1] \in DOMAIN nav.found
      BY <2>5 DEF DoneWith
    <3>2. /\ o \in DOMAIN nav.found \ {nav.dest}
          /\ nav.found[o].dist <= nav.found[d[1]].dist + links[l]
      BY <1>1, <2>2, <2>5, <3>1 DEF DoneNodesStand
    <3> HIDE DEF o
    <3>3. nav.found[o].dist \in Nat /\ nav.found[d[1]].dist \in Nat
      BY <1>2, <3>1, <3>2
    <3>4. nav.found[o].dist <= e[2]
      BY <2>2, <2>3, <2>5, <3>2, <3>3
    <3>5. DoneWith(o) \/ \E h \in nav.heap : h[1] = nav.found[o].dist
      BY <1>5, <3>2
    <3> QED
      BY <2>3, <3>4, <3>5
  <2> QED
    BY <2>2, <2>4, <2>5
<1>8. Nat \subseteq Righter
  <2> HIDE DEF Righter
  <2> QED
    BY <1>6, <1>7, CountsUp
<1>9. N \in Nat
  BY NewNodeIsNew DEF GraphIInv, GraphInv
<1> SUFFICES ASSUME NEW e \in R[N], DoneWith(e[1])
             PROVE  nav.found[e[1]].dist <= e[2]
  BY <1>4
<1>10. e \in GraphNodes \X Nat /\ Right(e)
  BY <1>8, <1>9
<1>11. e[1] \in DOMAIN nav.found
  BY DEF DoneWith
<1>12. nav.found[e[1]].dist \in Nat /\ e[2] \in Nat
  BY <1>2, <1>10, <1>11
<1>13. \A h \in nav.heap : nav.found[e[1]].dist <= h[1] /\ h[1] \in Nat
  BY <1>1, <1>2, <1>11 DEF DoneNodesStand
<1> QED
  BY <1>10, <1>12, <1>13

(* The parents can be put into an order: nobody is before themselves.           *)
Ranked ==
    \E rank \in [DOMAIN nav.found -> Nat] :
        \A m \in DOMAIN nav.found \ {nav.start} : rank[nav.found[m].parent] < rank[m]
ParentsAreRanked == Searching /\ corrections = 0 => Ranked

(* Who is found from a node comes after it, and nobody was found from them.       *)
LEMMA FoundIsRanked ==
    ASSUME GraphIInv, Searching, corrections = 0, Ranked,
           NEW n \in DOMAIN nav.found, NEW new, n \notin new, nav.start \notin new,
           \A m \in DOMAIN nav.found \ {nav.start} :
              m \in new \/ nav.found[m].parent \notin new,
           nav'.start = nav.start,
           \A m : m \in DOMAIN nav'.found <=> m \in DOMAIN nav.found \/ m \in new,
           \A m \in new : nav'.found[m].parent = n,
           \A m \in DOMAIN nav.found \ new : nav'.found[m] = nav.found[m]
    PROVE  Ranked'
<1>1. PICK rank \in [DOMAIN nav.found -> Nat] :
         \A m \in DOMAIN nav.found \ {nav.start} : rank[nav.found[m].parent] < rank[m]
  BY DEF Ranked
<1>2. ParentsStand
  BY DEF GraphIInv, GraphInv, SearchStands
<1> DEFINE next == [m \in DOMAIN nav'.found |-> IF m \in new THEN rank[n] + 1 ELSE rank[m]]
<1>3. next \in [DOMAIN nav'.found -> Nat]
  OBVIOUS
<1>4. ASSUME NEW m \in DOMAIN nav'.found \ {nav.start}
      PROVE  next[nav'.found[m].parent] < next[m]
  <2>1. CASE m \in new
    <3>1. next[m] = rank[n] + 1 /\ next[n] = rank[n] /\ nav'.found[m].parent = n
      BY <2>1
    <3> QED
      BY <3>1
  <2>2. CASE m \notin new
    <3> DEFINE p == nav.found[m].parent
    <3>1. m \in DOMAIN nav.found /\ p \notin new /\ nav'.found[m].parent = p
      BY <2>2
    <3>2. p \in DOMAIN nav.found
      BY <1>2, <3>1 DEF ParentsStand
    <3>3. rank[p] < rank[m]
      BY <1>1, <3>1
    <3> HIDE DEF p
    <3> QED
      BY <2>2, <3>1, <3>2, <3>3
  <2> QED
    BY <2>1, <2>2
<1> HIDE DEF next
<1> QED
  BY <1>3, <1>4 DEF Ranked

LEMMA EndSearchRanks ==
    ASSUME GraphIInv, nav.at = "search", corrections = 0, Ranked,
           NEW entry \in nav.heap, NEW r \in ByLinks(entry[2], entry[1]), r[1] = nav.dest,
           nav' = [nav EXCEPT !.at = "trace", !.found = Over(FoundFrom(entry[2], {r}), @)]
    PROVE  Ranked'
<1> DEFINE n == entry[2]
           some == {r}
           found == Over(FoundFrom(n, some), nav.found)
           new == {nav.dest}
<1>1. GraphTypeOK /\ FoundFits /\ ParentsStand
  BY DEF GraphIInv, GraphInv, SearchStands, Searching
<1>2. n \in DOMAIN nav.found /\ n # nav.dest /\ n \in Nat /\ entry[1] \in Nat
  BY <1>1 DEF FoundFits, GraphTypeOK
<1>3. nav.dest \notin DOMAIN nav.found /\ nav.start # nav.dest
  BY <1>1 DEF FoundFits
<1>4. /\ some \in SUBSET ByLinks(n, entry[1]) /\ \A p, q \in some : q[1] = p[1] => q[2] = p[2]
      /\ \A p \in some : p[1] = nav.dest /\ r \in some
  OBVIOUS
<1>5. nav'.found = found /\ nav'.start = nav.start
  BY <1>1 DEF GraphTypeOK
<1> HIDE DEF n, some, found
<1>6. /\ \A m : m \in DOMAIN found <=> m \in DOMAIN nav.found \/ \E p \in some : p[1] = m
      /\ \A p \in some : found[p[1]] = [dist |-> p[2], parent |-> n]
      /\ \A m \in DOMAIN nav.found : (\A p \in some : p[1] # m) => found[m] = nav.found[m]
  BY <1>2, <1>4, FoundMore DEF found
<1>7. /\ \A m : m \in DOMAIN found <=> m \in DOMAIN nav.found \/ m \in new
      /\ \A m \in new : found[m].parent = n
      /\ \A m \in DOMAIN nav.found \ new : found[m] = nav.found[m]
  <2>1. \A p \in some : p[1] = nav.dest
    BY <1>4
  <2>2. r \in some /\ r[1] = nav.dest
    BY DEF some
  <2>3. found[nav.dest].parent = n
    <3>1. found[r[1]] = [dist |-> r[2], parent |-> n]
      BY <1>6, <2>2
    <3> QED
      BY <2>2, <3>1
  <2> QED
    BY <1>6, <2>1, <2>2, <2>3
<1>8. \A m \in DOMAIN nav.found \ {nav.start} : nav.found[m].parent \notin new
  BY <1>1 DEF ParentsStand
<1>9. n \notin new /\ nav.start \notin new
  BY <1>2, <1>3
<1> HIDE DEF new
<1> QED
  BY <1>2, <1>5, <1>7, <1>8, <1>9, FoundIsRanked DEF Searching

LEMMA GoOnRanks ==
    ASSUME GraphIInv, nav.at = "search", corrections = 0, Ranked,
           NEW entry \in nav.heap, IsNext(entry), entry[1] = nav.found[entry[2]].dist,
           nav' = [nav EXCEPT !.heap = NextHeap(entry), !.found = NextFound(entry)]
    PROVE  Ranked'
<1> DEFINE n == entry[2]
           near == Nearest(entry)
           found == NextFound(entry)
           new == {r[1] : r \in near}
<1>1. GraphTypeOK /\ FoundFits /\ ParentsStand
  BY DEF GraphIInv, GraphInv, SearchStands, Searching
<1>2. entry \in Nat \X Nat
  BY <1>1 DEF GraphTypeOK
<1>3. /\ \A m : m \in DOMAIN found <=> m \in DOMAIN nav.found \/ \E r \in near : r[1] = m
      /\ \A r \in near : found[r[1]] = [dist |-> r[2], parent |-> n]
      /\ \A m \in DOMAIN nav.found : (\A r \in near : r[1] # m) => found[m] = nav.found[m]
  BY <1>2, NextFoundIs
<1>4. /\ n \in DOMAIN nav.found \ {nav.dest}
      /\ \A r \in near : r[1] \notin {n, nav.start} /\ ~DoneWith(r[1])
  BY OneMoreIsDone
<1>5. nav'.found = found /\ nav'.start = nav.start
  BY <1>1 DEF GraphTypeOK
<1> HIDE DEF n, near, found
<1>6. \A m : m \in new <=> \E r \in near : r[1] = m
  OBVIOUS
<1> HIDE DEF new
<1>7. /\ \A m : m \in DOMAIN found <=> m \in DOMAIN nav.found \/ m \in new
      /\ \A m \in DOMAIN nav.found \ new : found[m] = nav.found[m]
  BY <1>3, <1>6
<1>8. ASSUME NEW m \in new PROVE found[m].parent = n
  <2>1. PICK r \in near : r[1] = m
    BY <1>6
  <2>2. found[r[1]] = [dist |-> r[2], parent |-> n]
    BY <1>3
  <2> QED
    BY <2>1, <2>2
<1>9. n \notin new /\ nav.start \notin new /\ \A m \in new : ~DoneWith(m)
  BY <1>4, <1>6
<1>10. \A m \in DOMAIN nav.found \ {nav.start} : nav.found[m].parent \notin new
  BY <1>1, <1>9 DEF ParentsStand, FoundFits
<1> QED
  BY <1>4, <1>5, <1>7, <1>8, <1>9, <1>10, FoundIsRanked DEF Searching

LEMMA RanksAreKept ==
    ASSUME GraphIInv, ParentsAreRanked, [GraphNext]_graphvars
    PROVE  ParentsAreRanked'
<1> SUFFICES ASSUME Searching', corrections' = 0 PROVE Ranked'
  BY DEF ParentsAreRanked
<1> USE DEF graph, setting_up
<1>1. GraphTypeOK /\ corrections \in Nat
  BY GraphAssumption DEF GraphIInv, GraphTypeOK
<1>2. CASE UNCHANGED <<nav, corrections>>
  BY <1>2 DEF ParentsAreRanked, Ranked, Searching
<1>3. CASE \E s \in Stations : CorrectStation(s)
  BY <1>1, <1>3 DEF CorrectStation
<1>4. CASE \E from, to \in Stations : StartSearch(from, to)
  <2>1. PICK from \in Stations, to \in Stations : StartSearch(from, to)
    BY <1>4
  <2>2. DOMAIN nav'.found = {nav'.start}
    BY <2>1 DEF StartSearch, PutAt, Over, EmptyMap
  <2>3. [m \in DOMAIN nav'.found |-> 0] \in [DOMAIN nav'.found -> Nat]
    OBVIOUS
  <2> QED
    BY <2>2, <2>3 DEF Ranked
<1>5. CASE SkipEntry
  <2>1. nav.at = "search" /\ corrections = 0 /\ nav'.found = nav.found /\ nav'.start = nav.start
    BY <1>1, <1>5 DEF SkipEntry, GraphTypeOK
  <2> QED
    BY <2>1 DEF ParentsAreRanked, Ranked, Searching
<1>6. CASE ConsiderNode
  <2>1. nav.at = "search" /\ corrections = 0
    BY <1>6 DEF ConsiderNode
  <2>2. Ranked
    BY <2>1 DEF ParentsAreRanked, Searching
  <2>3. PICK entry \in nav.heap :
           LET n == entry[2]
               by == ByLinks(n, entry[1])
               nearer == Nearer(by)
               ends == {r \in by : r[1] = nav.dest}
           IN  /\ IsNext(entry) /\ entry[1] = nav.found[n].dist
               /\ \/ \E r \in ends :
                        nav' = [nav EXCEPT !.at = "trace",
                                           !.found = Over(FoundFrom(n, {r}), @)]
                  \/ /\ ends = {}
                     /\ nav' = [nav EXCEPT
                                   !.heap = (@ \ {entry}) \cup {<<r[2], r[1]>> : r \in nearer},
                                   !.found = Over(FoundFrom(n, nearer), @)]
    BY <1>6 DEF ConsiderNode
  <2>4. IsNext(entry) /\ entry[1] = nav.found[entry[2]].dist
    BY <2>3
  <2>5. CASE \E r \in ByLinks(entry[2], entry[1]) :
                /\ r[1] = nav.dest
                /\ nav' = [nav EXCEPT !.at = "trace",
                                      !.found = Over(FoundFrom(entry[2], {r}), @)]
    BY <2>1, <2>2, <2>5, EndSearchRanks
  <2>6. CASE nav' = [nav EXCEPT !.heap = NextHeap(entry), !.found = NextFound(entry)]
    BY <2>1, <2>2, <2>4, <2>6, GoOnRanks
  <2> QED
    BY <2>3, <2>5, <2>6 DEF NextHeap, NextFound, Nearest
<1>7. CASE Exhausted \/ Trace \/ StartOver
  BY <1>1, <1>7 DEF Exhausted, Trace, StartOver, NoSearch, Searching, GraphTypeOK
<1>8. CASE StartSetup \/ MakeNodes \/ LinksDone \/ StationsDone \/ SeparateDone \/ StopSetup
  BY <1>2, <1>8 DEF StartSetup, MakeNodes, LinksDone, StationsDone, SeparateDone, StopSetup
<1>9. CASE \/ \E way \in Ways : ImportWay(way)
           \/ \E s \in Stations : MakeStation(s)
           \/ \E n \in GraphNodes : SeparateNodes(n)
  BY <1>2, <1>9 DEF ImportWay, MakeStation, SeparateNodes
<1>10. CASE UNCHANGED graphvars
  BY <1>2, <1>10 DEF graphvars
<1> QED
  BY <1>3, <1>4, <1>5, <1>6, <1>7, <1>8, <1>9, <1>10 DEF GraphNext

(* Going back by the parents goes down the ranks, so comes past no node twice, and   *)
(* is not longer than there are nodes.                                        *)
LEMMA NoNodeTwice ==
    ASSUME IsFiniteSet(DOMAIN nav.found), Ranked, NEW way, ByParents(way)
    PROVE  /\ \A i, j \in DOMAIN way : way[i] = way[j] => i = j
           /\ Len(way) <= Cardinality(DOMAIN nav.found)
<1>1. PICK rank \in [DOMAIN nav.found -> Nat] :
         \A m \in DOMAIN nav.found \ {nav.start} : rank[nav.found[m].parent] < rank[m]
  BY DEF Ranked
<1>2. /\ way \in Seq(DOMAIN nav.found) /\ Len(way) \in Nat /\ DOMAIN way = 1 .. Len(way)
      /\ \A i \in 1 .. Len(way) : way[i] \in DOMAIN nav.found /\ rank[way[i]] \in Nat
  BY DEF ByParents
<1>3. \A i \in 1 .. Len(way) - 1 : rank[way[i]] < rank[way[i + 1]]
  <2> SUFFICES ASSUME NEW i \in 1 .. Len(way) - 1 PROVE rank[way[i]] < rank[way[i + 1]]
    OBVIOUS
  <2>1. i + 1 \in 1 .. Len(way)
    BY <1>2
  <2> QED
    BY <1>1, <1>2, <2>1 DEF ByParents
<1> DEFINE Up == {d \in Nat : \A i \in 1 .. Len(way) :
                     i + d + 1 <= Len(way) => rank[way[i]] < rank[way[i + d + 1]]}
<1>4. 0 \in Up
  BY <1>2, <1>3
<1>5. ASSUME NEW d \in Nat, d \in Up PROVE d + 1 \in Up
  <2> SUFFICES ASSUME NEW i \in 1 .. Len(way), i + (d + 1) + 1 <= Len(way)
               PROVE  rank[way[i]] < rank[way[i + (d + 1) + 1]]
    OBVIOUS
  <2> DEFINE k == i + d + 1
  <2>1. k \in 1 .. Len(way) - 1 /\ k \in 1 .. Len(way) /\ k + 1 \in 1 .. Len(way)
        /\ i + (d + 1) + 1 = k + 1 /\ k <= Len(way)
    BY <1>2
  <2>2. rank[way[i]] < rank[way[k]]
    BY <1>5, <2>1
  <2>3. rank[way[k]] < rank[way[k + 1]]
    BY <1>3, <2>1
  <2>4. /\ rank[way[i]] \in Nat /\ rank[way[k]] \in Nat /\ rank[way[k + 1]] \in Nat
    BY <1>2, <2>1
  <2>5. rank[way[i]] < rank[way[k + 1]]
    <3> HIDE DEF k
    <3> QED
      BY <2>2, <2>3, <2>4
  <2> QED
    BY <2>1, <2>5
<1> HIDE DEF Up
<1>6. Nat \subseteq Up
  BY <1>4, <1>5, CountsUp
<1>7. ASSUME NEW i \in 1 .. Len(way), NEW j \in 1 .. Len(way), i < j
      PROVE  rank[way[i]] < rank[way[j]]
  <2> DEFINE d == j - i - 1
  <2>1. d \in Nat /\ i + d + 1 = j /\ j <= Len(way)
    BY <1>2, <1>7
  <2> HIDE DEF d
  <2>2. d \in Up
    BY <1>6, <2>1
  <2>3. rank[way[i]] < rank[way[i + d + 1]]
    BY <2>1, <2>2 DEF Up
  <2> QED
    BY <2>1, <2>3
<1>8. \A i, j \in 1 .. Len(way) : way[i] = way[j] => i = j
  <2> SUFFICES ASSUME NEW i \in 1 .. Len(way), NEW j \in 1 .. Len(way), way[i] = way[j]
               PROVE  ~(i < j) /\ ~(j < i)
    OBVIOUS
  <2> QED
    BY <1>2, <1>7
<1>9. way \in Injection(1 .. Len(way), DOMAIN nav.found)
  <2>1. way \in [1 .. Len(way) -> DOMAIN nav.found]
    BY <1>2
  <2> QED
    BY <1>8, <2>1 DEF Injection, IsInjective
<1>10. Cardinality(1 .. Len(way)) <= Cardinality(DOMAIN nav.found)
  BY <1>9, FS_Injection
<1>11. Cardinality(1 .. Len(way)) = Len(way)
  <2> DEFINE n == Len(way)
  <2>1. n \in Nat
    BY <1>2
  <2> HIDE DEF n
  <2>2. 1 \in Int /\ n \in Int
    BY <2>1
  <2>3. Cardinality(1 .. n) = IF 1 > n THEN 0 ELSE n - 1 + 1
    BY ONLY <2>2, FS_Interval
  <2>4. (IF 1 > n THEN 0 ELSE n - 1 + 1) = n
    BY ONLY <2>1
  <2> QED
    BY <2>3, <2>4 DEF n
<1> QED
  BY <1>2, <1>8, <1>10, <1>11

LEMMA WaysLeadThere ==
    ASSUME GraphIInv, ParentsAreRanked
    PROVE  WayLeadsThere
<1> SUFFICES ASSUME nav.at = "trace", corrections = 0
             PROVE  /\ Way[1] = nav.start /\ Way[Len(Way)] = nav.dest
                    /\ \A i, j \in DOMAIN Way : Way[i] = Way[j] => i = j
                    /\ \A i \in 1 .. Len(Way) - 1 :
                          \E l \in LinksOf(Way[i]) :
                             /\ OtherEnd(l, Way[i]) = Way[i + 1]
                             /\ nav.found[Way[i + 1]].dist = nav.found[Way[i]].dist + links[l]
  BY DEF WayLeadsThere
<1>1. FoundFits /\ ParentsStand /\ Ranked
  BY DEF GraphIInv, GraphInv, SearchStands, Searching, ParentsAreRanked
<1>2. IsFiniteSet(DOMAIN nav.found)
  BY <1>1, NewNodeIsNew, FS_Subset DEF FoundFits, GraphIInv, GraphInv
<1>3. ByParents(Way) /\ (Way[1] = nav.start \/ Len(Way) > Cardinality(DOMAIN nav.found))
  BY <1>2, WayIs
<1> DEFINE way == Way
<1>4. way = Way
  OBVIOUS
<1> HIDE DEF way
<1>5. /\ \A i, j \in DOMAIN way : way[i] = way[j] => i = j
      /\ Len(way) <= Cardinality(DOMAIN nav.found)
  BY <1>1, <1>2, <1>3, <1>4, NoNodeTwice
<1>6. way[1] = nav.start
  <2>1. Len(way) \in Nat /\ Cardinality(DOMAIN nav.found) \in Nat
    BY <1>2, <1>3, <1>4, FS_CardinalityType DEF ByParents
  <2> QED
    BY <1>3, <1>4, <1>5, <2>1
<1>7. ASSUME NEW i \in 1 .. Len(way) - 1
      PROVE  \E l \in LinksOf(way[i]) :
                /\ OtherEnd(l, way[i]) = way[i + 1]
                /\ nav.found[way[i + 1]].dist = nav.found[way[i]].dist + links[l]
  <2>1. way \in Seq(DOMAIN nav.found) /\ Len(way) \in Nat /\ i + 1 \in 1 .. Len(way)
    BY <1>3, <1>4 DEF ByParents
  <2>2. way[i + 1] \in DOMAIN nav.found \ {nav.start}
        /\ way[i] = nav.found[way[i + 1]].parent
    BY <1>3, <1>4, <2>1 DEF ByParents
  <2> QED
    BY <1>1, <2>2 DEF ParentsStand
<1> QED
  BY <1>3, <1>4, <1>5, <1>6, <1>7 DEF ByParents

(* In a graph that no station was corrected in, what a search has found is the        *)
(* shortest way to each node that it is done with, whatever links setup adds, and    *)
(* the way it returns leads from one station to the other by links that there are,    *)
(* past no node twice.                                                       *)
THEOREM GraphSearch == GraphSpec => []SearchIsRight
<1>1. GraphInit => GraphIInv /\ ParentsAreRanked
  BY GraphInitIInv DEF GraphInit, NoSearch, ParentsAreRanked, Searching
<1>2. GraphIInv /\ ParentsAreRanked /\ [GraphNext]_graphvars
          => GraphIInv' /\ ParentsAreRanked'
  BY GraphNextKeeps, RanksAreKept
<1>3. GraphIInv /\ ParentsAreRanked => SearchIsRight
  BY WaysAreNotShorter, WaysLeadThere DEF SearchIsRight, SearchIsShortest
<1> QED
  BY <1>1, <1>2, <1>3, PTL DEF GraphSpec
===============================================================================
