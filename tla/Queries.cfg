SPECIFICATION MCSpec
CONSTANTS
    None = None
    Equal = Equal
    Schedules = {1, 2, 3, 4}
    Mvts = {2, 3}
    Uid <- MCUid
    Stp <- MCStp
    Parent <- MCParent
    Updates <- MCUpdates
    Times = {2, 9, 17, 23}
    Stops = {p, q}
    MaxCalls = 3
    Journeys = {1, 2, 3, 4}
    JourneyUid <- MCJourneyUid
    Rank <- MCRank
    Here = {10, 20, 30, 31, 40}
    There = {11, 12, 32, 42}
    JourneyOf <- MCJourneyOf
    Reports <- MCReports
    Nobody = Nobody
    Workers = {w1, w2}
    OsmsTrains = {a, b}
    BaseStops = {1, 2, 3}
    ExtraStops = {4}
    TimeOf <- MCTimeOf
    MaxMessages = 3
    MaxLocations = 1
    OsmNodes = {1, 2, 3, 4}
    Ways <- MCWays
    Length <- MCLength
    Hops <- MCHops
    Stations = {s1, s2}
    NoStation = NoStation
    MaxStops = 1
    MaxCorrections = 1
SYMMETRY MCSymmetry
CHECK_DEADLOCK FALSE
INVARIANTS
    QueriesHold
    FoldsAreRight
    RecordedForItsCall
    SameDayEstimatesMatch
    ConnectionsAreRight
    CallsAreRight
    PartsAreComponents
    NoPanic
    SearchIsRight
PROPERTIES
    ReportsStay
