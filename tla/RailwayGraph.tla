----------------------------- MODULE RailwayGraph -----------------------------
(***************************************************************************)
(* The railway of osms: osms-db-setup makes nodes, links, stations and parts  *)
(* of the graph from a map, phase by phase, and may be stopped and run again;  *)
(* osms-web corrects a station; and the ways between stations are searched for *)
(* in it, each query of the search seeing what was committed by then.         *)
(***************************************************************************)
EXTENDS Integers, Sequences, FiniteSets

CONSTANTS
    OsmNodes,       \* nodes of the map, numbers
    Ways,           \* its railways, sequences of nodes
    Length(_, _),   \* how far it is from one of them to another
    Hops,           \* lengths of the two links that join a station to the ends of one
    Stations,
    NoStation,
    MaxStops,       \* bound on setups that are stopped
    MaxCorrections  \* bound on stations that are corrected

ASSUME GraphAssumption ==
    /\ IsFiniteSet(OsmNodes) /\ IsFiniteSet(Stations)
    /\ OsmNodes = 1 .. Cardinality(OsmNodes)
    /\ Ways \subseteq Seq(OsmNodes)
    /\ \A m, n \in OsmNodes : Length(m, n) \in Nat
    /\ Hops \subseteq Nat \X Nat
    /\ NoStation \notin Stations /\ MaxStops \in Nat /\ MaxCorrections \in Nat

VARIABLES
    graph_part, \* of the nodes there are
    links,      \* the distance of each, by p1 and p2
    point,      \* the nodes of the stations that were made
    phase,      \* what setup is doing
    ways_left,  \* ways that its threads have not imported
    cur_part,   \* its cur_graph_part
    paths,      \* station_paths, by s1 and s2
    nav,        \* the search
    stops,
    corrections

graph == <<graph_part, links, point>>
setting_up == <<phase, ways_left, cur_part>>
graphvars == <<graph, setting_up, paths, nav, stops, corrections>>

EmptyMap == [n \in {} |-> 0]
NoSearch == [at |-> "idle", from |-> NoStation, to |-> NoStation,
             start |-> 0, dest |-> 0, separated |-> FALSE, heap |-> {}, found |-> EmptyMap]

GraphNodes == DOMAIN graph_part
Ends(l) == {l[1], l[2]}
LinksOf(n) == {l \in DOMAIN links : n \in Ends(l)}
OtherEnd(l, n) == IF l[1] = n THEN l[2] ELSE l[1]

GraphTypeOK ==
    /\ graph_part \in [GraphNodes -> Nat]
    /\ links \in [DOMAIN links -> Nat]
    /\ \A l \in DOMAIN links : Ends(l) \subseteq GraphNodes
    /\ point \in [DOMAIN point -> GraphNodes \ OsmNodes] /\ DOMAIN point \subseteq Stations
    /\ phase \in {"idle", "nodes", "links", "stations", "separate"}
    /\ ways_left \subseteq Ways /\ cur_part \in Nat
    /\ paths \subseteq (DOMAIN point) \X (DOMAIN point)
    /\ nav \in [at : {"idle", "search", "trace", "panicked"},
                from : Stations \cup {NoStation}, to : Stations \cup {NoStation},
                start : Nat, dest : Nat, separated : BOOLEAN,
                heap : SUBSET (Nat \X Nat), found : {nav.found}]
    /\ nav.found \in [DOMAIN nav.found -> [dist : Nat, parent : Nat]]
    /\ DOMAIN nav.found \subseteq Nat
    /\ nav.at \in {"search", "trace"} => {nav.from, nav.to} \subseteq DOMAIN point
    /\ stops \in 0 .. MaxStops /\ corrections \in 0 .. MaxCorrections

GraphInit ==
    /\ graph_part = EmptyMap /\ links = EmptyMap /\ point = EmptyMap
    /\ phase = "idle" /\ ways_left = {} /\ cur_part = 1
    /\ paths = {} /\ nav = NoSearch
    /\ stops = 0 /\ corrections = 0

-----------------------------------------------------------------------------
(* osms-db-setup setup osm                                                  *)

\* (One that would find everything done is left out.)
StartSetup ==
    /\ phase = "idle" /\ phase' = "nodes"
    /\ \/ DOMAIN point # Stations
       \/ \E n \in GraphNodes : graph_part[n] = 0
    /\ UNCHANGED <<graph, ways_left, cur_part, paths, nav, stops, corrections>>

\* Each phase but the last looks whether its table is empty; then the threads of the
\* next take the ways.
MakeNodes ==
    /\ phase = "nodes" /\ phase' = "links"
    /\ graph_part' = IF GraphNodes = {} THEN [n \in OsmNodes |-> 0] ELSE graph_part
    /\ ways_left' = IF links = EmptyMap THEN Ways ELSE {}
    /\ UNCHANGED <<links, point, cur_part, paths, nav, stops, corrections>>

\* f, and g where there is no f.
Over(f, g) ==
    [x \in DOMAIN f \cup DOMAIN g |-> IF x \in DOMAIN f THEN f[x] ELSE g[x]]
PutAt(f, k, v) == Over([x \in {k} |-> v], f)
\* ON CONFLICT DO NOTHING
InsertLinks(new) == links' = Over(links, new)
WayLinks(way) == {<<way[i], way[i + 1]>> : i \in 1 .. Len(way) - 1}
\* A transaction for each way.
ImportWay(way) ==
    /\ phase = "links" /\ way \in ways_left
    /\ InsertLinks([l \in WayLinks(way) |-> Length(l[1], l[2])])
    /\ ways_left' = ways_left \ {way}
    /\ UNCHANGED <<graph_part, point, phase, cur_part, paths, nav, stops, corrections>>
LinksDone ==
    /\ phase = "links" /\ ways_left = {}
    /\ phase' = IF point = EmptyMap THEN "stations" ELSE "separate"
    /\ cur_part' = 1
    /\ UNCHANGED <<graph, ways_left, paths, nav, stops, corrections>>

NewNode == Cardinality(OsmNodes) + Cardinality(DOMAIN point) + corrections + 1
\* The links to a new node from the ends of others, with their lengths.
HopsTo(nd, hop) ==
    [e \in UNION {{<<l[1], nd>>, <<nd, l[2]>>} : l \in DOMAIN hop} |->
        LET l == CHOOSE l \in DOMAIN hop : e \in {<<l[1], nd>>, <<nd, l[2]>>}
        IN  IF e[2] = nd THEN hop[l][1] ELSE hop[l][2]]
\* process_railway_location: a node in the middle of the area, joined to the ends of
\* each link that crosses it, but for links of a node with itself and links with an end
\* that was met before; so whatever crosses it, of links that share no end; or of none,
\* a defect.
Joinable(ls) ==
    /\ \A l \in ls : l[1] # l[2]
    /\ \A k, l \in ls : k # l => Ends(k) \cap Ends(l) = {}
PlaceStation(s, old_links) ==
    /\ \E joined \in SUBSET DOMAIN old_links :
          /\ Joinable(joined)
          /\ \E hop \in [joined -> Hops] : links' = Over(HopsTo(NewNode, hop), old_links)
    /\ point' = PutAt(point, s, NewNode)

\* All in one transaction.
MakeStation(s) ==
    /\ phase = "stations" /\ s \notin DOMAIN point
    /\ PlaceStation(s, links)
    /\ graph_part' = PutAt(graph_part, NewNode, 0)
    /\ UNCHANGED <<setting_up, paths, nav, stops, corrections>>
StationsDone ==
    /\ phase = "stations" /\ DOMAIN point = Stations
    /\ phase' = "separate"
    /\ UNCHANGED <<graph, ways_left, cur_part, paths, nav, stops, corrections>>

\* Mutant: links are followed from their first end.
ForwardsFrom(roots) == {l[2] : l \in {k \in DOMAIN links : k[1] \in roots}}
Neighbours(roots) == UNION {Ends(l) : l \in UNION {LinksOf(n) : n \in roots}}
\* Roots, their neighbours, and so on.
PartOf(n) ==
    LET reached[k \in Nat] ==
            IF k = 0 THEN {n}
            ELSE LET roots == reached[k - 1] IN roots \cup Neighbours(roots)
    IN  reached[Cardinality(GraphNodes)]
\* separate_nodes: the part of a node that has none gets the next number.
SeparateNodes(n) ==
    /\ phase = "separate" /\ graph_part[n] = 0
    /\ graph_part' = [m \in GraphNodes |-> IF m \in PartOf(n) THEN cur_part ELSE graph_part[m]]
    /\ cur_part' = cur_part + 1
    /\ UNCHANGED <<links, point, phase, ways_left, paths, nav, stops, corrections>>
SeparateDone ==
    /\ phase = "separate" /\ \A n \in GraphNodes : graph_part[n] # 0
    /\ phase' = "idle" /\ cur_part' = 1
    /\ UNCHANGED <<graph, ways_left, paths, nav, stops, corrections>>

\* Between transactions; one that was not committed is undone.
StopSetup ==
    /\ phase \in {"nodes", "links", "stations", "separate"} /\ cur_part = 1
    /\ phase = "stations" => point = EmptyMap
    /\ stops < MaxStops /\ stops' = stops + 1
    /\ phase' = "idle" /\ ways_left' = {}
    /\ UNCHANGED <<graph, cur_part, paths, nav, corrections>>

-----------------------------------------------------------------------------
(* osms-web                                                                 *)

\* ON DELETE CASCADE
LinksWithout(n) == [l \in DOMAIN links \ LinksOf(n) |-> links[l]]
\* update_railway_location: the station's node goes, with its links, and the station
\* with it, unless a path refers to it; and there is a new one.
CorrectStation(s) ==
    /\ phase = "idle" /\ s \in DOMAIN point /\ corrections < MaxCorrections
    /\ \A p \in paths : s \notin Ends(p)
    /\ corrections' = corrections + 1
    /\ PlaceStation(s, LinksWithout(point[s]))
    /\ graph_part' = [n \in (GraphNodes \ {point[s]}) \cup {NewNode} |->
                         IF n = NewNode THEN 0 ELSE graph_part[n]]
    /\ UNCHANGED <<setting_up, paths, nav, stops>>

-----------------------------------------------------------------------------
(* navigate_cached                                                          *)

Searching == nav.at \in {"search", "trace"}
\* Every node has a part.
Separated == phase = "idle" /\ \A n \in GraphNodes : graph_part[n] # 0
\* Mutant: the parts are not compared.
AnyPart(from, to) == TRUE
SamePart(from, to) == graph_part[point[from]] = graph_part[point[to]]
\* "returning memoized path", or look whether both are in the same part: if not, that
\* is an error, and the caller goes on with another station.
StartSearch(from, to) ==
    /\ phase = "idle" /\ nav.at = "idle"
    /\ {from, to} \subseteq DOMAIN point /\ from # to
    /\ <<from, to>> \notin paths
    /\ SamePart(from, to)
    /\ nav' = [at |-> "search", from |-> from, to |-> to,
               start |-> point[from], dest |-> point[to], separated |-> Separated,
               heap |-> {<<0, point[from]>>},
               found |-> PutAt(EmptyMap, point[from], [dist |-> 0, parent |-> 0])]
    /\ UNCHANGED <<graph, setting_up, paths, stops, corrections>>

IsNext(entry) == \A other \in nav.heap : entry[1] <= other[1]
\* An entry whose node was found nearer since is left out.
SkipEntry ==
    /\ nav.at = "search"
    /\ \E entry \in nav.heap :
          /\ IsNext(entry) /\ entry[1] > nav.found[entry[2]].dist
          /\ nav' = [nav EXCEPT !.heap = @ \ {entry}]
    /\ UNCHANGED <<graph, setting_up, paths, stops, corrections>>

\* Mutant: a node that was found is left as it is.
IsNew(n, dist) == n \notin DOMAIN nav.found
IsNearer(n, dist) == n \in DOMAIN nav.found => nav.found[n].dist > dist
\* Mutant: how far the node itself is is forgotten.
ByLinksOnly(n, dist) == {<<OtherEnd(l, n), links[l]>> : l \in LinksOf(n)}
\* Where the links of a node lead, and how far: to the nodes that are new, or nearer by
\* it; one to the destination ends the search.
ByLinks(n, dist) == {<<OtherEnd(l, n), dist + links[l]>> : l \in LinksOf(n)}
Nearer(by) ==
    {r \in by : IsNearer(r[1], r[2]) /\ \A q \in by : q[1] = r[1] => r[2] <= q[2]}
\* What is found by them from a node.
FoundFrom(n, some) ==
    [m \in {r[1] : r \in some} |->
        [dist |-> (CHOOSE r \in some : r[1] = m)[2], parent |-> n]]
ConsiderNode ==
    /\ nav.at = "search"
    /\ \E entry \in nav.heap :
          LET n == entry[2]
              by == ByLinks(n, entry[1])
              nearer == Nearer(by)
              ends == {r \in by : r[1] = nav.dest}
          IN  /\ IsNext(entry) /\ entry[1] = nav.found[n].dist
              /\ \/ \E r \in ends :
                       nav' = [nav EXCEPT !.at = "trace",
                                          !.found = Over(FoundFrom(n, {r}), @)]
                 \/ /\ ends = {}
                    /\ nav' = [nav EXCEPT
                                  !.heap = (@ \ {entry}) \cup {<<r[2], r[1]>> : r \in nearer},
                                  !.found = Over(FoundFrom(n, nearer), @)]
    /\ UNCHANGED <<graph, setting_up, paths, stops, corrections>>
\* No way: nodes.get(&dest.id).unwrap()
Exhausted ==
    /\ nav.at = "search" /\ nav.heap = {}
    /\ nav' = [nav EXCEPT !.at = "panicked"]
    /\ UNCHANGED <<graph, setting_up, paths, stops, corrections>>

\* The way back by the parents.
Way ==
    LET back[k \in Nat] ==
            IF k = 0 THEN <<nav.dest>>
            ELSE LET way == back[k - 1]
                     last == nav.found[way[1]].parent
                 IN  IF last = 0 THEN way ELSE <<last>> \o way
    IN  back[Cardinality(DOMAIN nav.found)]
\* A node that has gone: unwrap; a station that has: the path cannot be inserted.
Trace ==
    /\ nav.at = "trace"
    /\ IF \E i \in 2 .. Len(Way) : Way[i] \notin GraphNodes
       THEN nav' = [nav EXCEPT !.at = "panicked"] /\ UNCHANGED paths
       ELSE nav' = NoSearch
            /\ paths' = IF point[nav.from] = nav.start /\ point[nav.to] = nav.dest
                        THEN paths \cup {<<nav.from, nav.to>>} ELSE paths
    /\ UNCHANGED <<graph, setting_up, stops, corrections>>
\* The listener is started again.
StartOver ==
    /\ nav.at = "panicked" /\ nav' = NoSearch
    /\ UNCHANGED <<graph, setting_up, paths, stops, corrections>>

GraphNext ==
    \/ StartSetup \/ MakeNodes \/ LinksDone \/ StationsDone \/ SeparateDone \/ StopSetup
    \/ \E way \in Ways : ImportWay(way)
    \/ \E s \in Stations : MakeStation(s) \/ CorrectStation(s)
    \/ \E n \in GraphNodes : SeparateNodes(n)
    \/ \E from, to \in Stations : StartSearch(from, to)
    \/ SkipEntry \/ ConsiderNode \/ Exhausted \/ Trace \/ StartOver

GraphSpec == GraphInit /\ [][GraphNext]_graphvars

-----------------------------------------------------------------------------
(* Properties                                                               *)

Closed(nodes) == \A l \in DOMAIN links : l[1] \in nodes <=> l[2] \in nodes

\* However setup was stopped and run again, and stations corrected in between: when
\* every node has a part, no link leads from one part to another; and as long as no
\* station was corrected a part is in one piece, or what is a part of it would be a
\* part by itself.  (After a correction numbers are given again from 1, to nodes that
\* other nodes of that number are not linked with.)
PartsAreComponents ==
    Separated =>
        /\ \A l \in DOMAIN links : graph_part[l[1]] = graph_part[l[2]]
        /\ corrections = 0 =>
              \A n \in GraphNodes :
                  LET same == {m \in GraphNodes : graph_part[m] = graph_part[n]}
                  IN  \A some \in (SUBSET same) \ {{}, same} : ~Closed(some)

\* A search in a graph that was separated only panics if a station was corrected:
\* before, so that there is no way though the part is the same, or meanwhile.
NoPanic == nav.at = "panicked" /\ nav.separated => corrections > 0

\* What a search has found is the shortest way to each node that it is done with,
\* and so is the way it returns up to the last node but one.
Shortest ==
    LET near[k \in Nat] ==     \* ways of at most k links, as <<node, length>>
            IF k = 0 THEN {<<nav.start, 0>>}
            ELSE LET ways == near[k - 1]
                 IN  ways \cup {<<OtherEnd(w[1], w[2][1]), w[2][2] + links[w[1]]>> :
                         w \in {w \in (DOMAIN links) \X ways : w[2][1] \in Ends(w[1])}}
    IN  near[Cardinality(GraphNodes)]
DoneWith(n) ==
    /\ n \in DOMAIN nav.found \ {nav.dest}
    /\ <<nav.found[n].dist, n>> \notin nav.heap
SearchIsShortest ==
    Searching /\ corrections = 0 =>
        \A e \in Shortest : DoneWith(e[1]) => nav.found[e[1]].dist <= e[2]

\* The way that is returned leads from the one station to the other, by links that
\* there are, past no node twice, and is as long as the search says.
WayLeadsThere ==
    nav.at = "trace" /\ corrections = 0 =>
        /\ Way[1] = nav.start /\ Way[Len(Way)] = nav.dest
        /\ \A i, j \in DOMAIN Way : Way[i] = Way[j] => i = j
        /\ \A i \in 1 .. Len(Way) - 1 :
              \E l \in LinksOf(Way[i]) :
                  /\ OtherEnd(l, Way[i]) = Way[i + 1]
                  /\ nav.found[Way[i + 1]].dist = nav.found[Way[i]].dist + links[l]

\* Together: a search in a graph that nobody changes is right.
SearchIsRight == SearchIsShortest /\ WayLeadsThere

-----------------------------------------------------------------------------
(* What the theorems rest on                                                *)

\* Each station has a node of its own, and the next is new; all others are the map's,
\* which come and stay together.
NodesStand ==
    /\ \A s \in DOMAIN point : point[s] \in Cardinality(OsmNodes) + 1 .. NewNode - 1
    /\ \A s, z \in DOMAIN point : point[s] = point[z] => s = z
    /\ \A n \in GraphNodes \ OsmNodes : \E s \in DOMAIN point : point[s] = n
    /\ GraphNodes # {} => OsmNodes \subseteq GraphNodes
    /\ phase \in {"links", "stations", "separate"} => OsmNodes \subseteq GraphNodes

\* Stations are made once, all of them, before any can be corrected.
StationsStand ==
    /\ phase # "stations" => DOMAIN point \in {{}, Stations}
    /\ phase = "separate" => DOMAIN point = Stations
    /\ phase = "stations" \/ DOMAIN point = {} => corrections = 0

\* Once there is more than the map's nodes and links, the map's links are complete: a
\* way that is imported again adds nothing.
OnTheMap(l) == Ends(l) \subseteq OsmNodes
MapIsLinked ==
    (\E l \in DOMAIN links : OnTheMap(l)) \/ \A way \in Ways : WayLinks(way) = {}
LinksStand ==
    /\ phase = "links" => MapIsLinked \/ \A way \in Ways \ ways_left : WayLinks(way) = {}
    /\ \/ phase \in {"stations", "separate"} \/ DOMAIN point # {}
       \/ \E n \in GraphNodes : graph_part[n] # 0
       => MapIsLinked /\ \A way \in ways_left : WayLinks(way) = {}

\* A link joins two parts only where one end has none yet.  As long as no station was
\* corrected, links keep to a part, each part is in one piece, and its number is new.
OnePiece(nodes) == \A some \in SUBSET nodes : Closed(some) => some = {} \/ some = nodes
PartsStand ==
    /\ cur_part > 0 /\ (phase # "separate" => cur_part = 1)
    /\ \A l \in DOMAIN links :
          graph_part[l[1]] # graph_part[l[2]] => 0 \in {graph_part[l[1]], graph_part[l[2]]}
    /\ corrections = 0 =>
          /\ \A l \in DOMAIN links : graph_part[l[1]] = graph_part[l[2]]
          /\ \A n \in GraphNodes :
                graph_part[n] # 0 => OnePiece({m \in GraphNodes : graph_part[m] = graph_part[n]})
          /\ phase # "idle" => \A n \in GraphNodes : graph_part[n] < cur_part
          /\ \/ \A n \in GraphNodes : graph_part[n] = 0
             \/ phase = "separate"
             \/ DOMAIN point = Stations /\ Separated

\* A search is between the nodes of two stations, when all stations have been made; and
\* if it began in a separated graph, that is as it was.
SearchedGraphStands ==
    /\ phase # "stations"
    /\ nav.start = point[nav.from] /\ nav.dest = point[nav.to] /\ nav.start # nav.dest
    /\ nav.separated => Separated /\ graph_part[nav.start] = graph_part[nav.dest]

\* What is in the heap, and what was found; the destination is the last that is.
FoundFits ==
    /\ DOMAIN nav.found \subseteq GraphNodes
    /\ nav.heap \subseteq Nat \X (DOMAIN nav.found \ {nav.dest})
    /\ nav.dest \in DOMAIN nav.found <=> nav.at = "trace"
    /\ nav.start \in DOMAIN nav.found /\ nav.found[nav.start] = [dist |-> 0, parent |-> 0]
\* No node is farther than the next in the heap once it is done with, nor are those it
\* is linked with farther than by it.
DoneNodesStand ==
    \A n \in DOMAIN nav.found : DoneWith(n) =>
        /\ \A entry \in nav.heap : nav.found[n].dist <= entry[1]
        /\ \A l \in LinksOf(n) :
              /\ OtherEnd(l, n) \in DOMAIN nav.found \ {nav.dest}
              /\ nav.found[OtherEnd(l, n)].dist <= nav.found[n].dist + links[l]
\* Each but the first was found by a link from one that is done with, or, the last, from
\* the one that is being considered.
ParentsStand ==
    \A m \in DOMAIN nav.found \ {nav.start} :
        LET n == nav.found[m].parent
        IN  /\ n \in DOMAIN nav.found \ {nav.dest}
            /\ m = nav.dest \/ DoneWith(n)
            /\ \E l \in LinksOf(n) :
                  OtherEnd(l, n) = m /\ nav.found[m].dist = nav.found[n].dist + links[l]
SearchStands ==
    Searching /\ corrections = 0 =>
        SearchedGraphStands /\ FoundFits /\ DoneNodesStand /\ ParentsStand

GraphInv ==
    /\ NodesStand /\ StationsStand /\ LinksStand /\ PartsStand /\ SearchStands /\ NoPanic
===============================================================================
