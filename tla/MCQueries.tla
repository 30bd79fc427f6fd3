------------------------------ MODULE MCQueries -------------------------------
(***************************************************************************)
(* Messages, tables and queries, checked side by side: in a behaviour one of *)
(* the modules moves, the part chosen at the start, and the others stay in one *)
(* of their initial states.                                                  *)
(***************************************************************************)
EXTENDS MCMovementQuery, DayOffsets, ConnectingQuery, MCOsmsMovements, RailwayGraph,
        TLC

VARIABLE part

all == <<part, vars, dayvars, connvars, osmsvars, graphvars>>

\* A permanent schedule that goes to both stations, two overlays of it, 2 to one only
\* and 4 to both, and another uid's.
MCJourneyUid == [j \in Journeys |-> IF j = 3 THEN "C10001" ELSE "C10000"]
MCRank == [j \in Journeys |-> IF j \in {2, 4} THEN 3 ELSE 4]
MCJourneyOf == [m \in Here \cup There |-> m \div 10]
MCReports ==
    {[id |-> 1, updates |-> 10], [id |-> 2, updates |-> 10], [id |-> 3, updates |-> 11],
     [id |-> 4, updates |-> 12], [id |-> 5, updates |-> 32]}

\* Two pieces of track, which a station may be in the middle of; it is farther from the
\* second ends of the links that it is put at.
MCWays == {<<1, 2>>, <<3, 4>>}
MCLength(m, n) == IF m = 2 THEN 3 ELSE 1
MCHops == {<<1, 3>>}

MCInit ==
    /\ part \in {"movements", "offsets", "connections", "osms", "graph"}
    /\ Init /\ (part # "movements" => present = {})
    /\ DayInit
    /\ ConnInit /\ (part # "connections" => query = "train" /\ on_date = {} /\ reported = {})
    /\ OsmsInit
    /\ GraphInit

MovementsMove ==
    part = "movements" /\ Next /\ UNCHANGED <<part, dayvars, connvars, osmsvars, graphvars>>
OffsetsMove ==
    part = "offsets" /\ DayNext /\ UNCHANGED <<part, vars, connvars, osmsvars, graphvars>>
ConnectionsMove ==
    part = "connections" /\ ConnNext /\ UNCHANGED <<part, vars, dayvars, osmsvars, graphvars>>
\* A question goes by the rows it has read, and those are committed: it is asked when
\* no message is being processed, and those that come meanwhile come after it.
OsmsMove ==
    /\ part = "osms" /\ OsmsNext
    /\ asked # NoQuestion => UNCHANGED <<tmvts, dsched, ended, last, hand, messages>>
    /\ asked' # NoQuestion => \A w \in Workers : hand[w].step = "idle"
    /\ \A t \in OsmsTrains : \A c \in dsched'[t] : c[1] \in {1} \cup ExtraStops
    /\ UNCHANGED <<part, vars, dayvars, connvars, graphvars>>
GraphMoves ==
    part = "graph" /\ GraphNext /\ UNCHANGED <<part, vars, dayvars, connvars, osmsvars>>

MCNext == MovementsMove \/ OffsetsMove \/ ConnectionsMove \/ OsmsMove \/ GraphMoves

MCSpec == MCInit /\ [][MCNext]_all

\* Nothing tells one train, station or worker from the other.
MCSymmetry ==
    Permutations(OsmsTrains) \cup Permutations(Stations) \cup Permutations(Workers)

-----------------------------------------------------------------------------

\* Types, and the invariants that the theorems rest on, of the part that moves: each fold
\* is right about the rows it has processed, and the offsets are those of the days the
\* calls are made on.
QueriesHold ==
    /\ part = "movements" => TypeOK /\ Inv
    /\ part = "offsets" => DayTypeOK /\ DayInv /\ EstimatesFit
    /\ part = "connections" => ConnTypeOK /\ ConnInv
    /\ part = "osms" => OsmsTypeOK /\ RowsInv
    /\ part = "graph" => GraphTypeOK /\ GraphInv
===============================================================================
