SPECIFICATION MCSpec
CONSTANTS
    Keys = {k1, k2}
    Validities = {weekdays}
    Timetables = {m1, m2}
    MaxDay = 4
    MaxVersion = 4
    MaxRecords = 1
    MaxRetries = 1
    MaxFailures = 1
    MaxKills = 1
    Week = 2
    LinkWorkers = {w1, w2}
    TrustIds = {x, y}
    Rids = {r}
    NoId = NoId
    MaxImports = 2
    ItpsKeys = {k1}
    VstpKeys = {v}
    Movements = {m1, m2}
    GeoThreads = {g1, g2}
    Days = 2
    FileWeek = 1
    MaxChanges = 2
    MaxGeoFailures = 1
    NoKey = NoKey
    Gone = Gone
CHECK_DEADLOCK FALSE
INVARIANTS
    TimetablesHold
    VersionNamesTimetable
    OneTrainOfBothFeeds
    DoneHasWays
PROPERTIES
    ObjectImproves
    LinksStay
    RecoveryIsExact
    JobCatchesUp
    EveryMessageEnds
    ImportsAreProcessed
