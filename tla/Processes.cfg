SPECIFICATION MCSpec
CONSTANTS
    Requests = {r1, r2}
    MaxVersion = 3
    MaxRestarts = 1
    MaxFailures = 1
    Messages = {m1, m2}
    Garbled = {m2}
    FeedWorkers = {w1}
    Records = 2
    MaxDelay = 1
    MaxBacklog = 2
    Trains = {train}
    Clients = {c1, c2}
    PoolThreads = {t1, t2, t3}
    Size = 2
    p1 = p1
    p2 = p2
    p3 = p3
    Processes = {p1, p2, p3}
    Knows <- MCKnows
    MaxDeaths = 1
CHECK_DEADLOCK FALSE
INVARIANTS
    ProcessesHold
    EmptyOnlyAfterFailure
    AckedIsInHand
    NoTrainIsMissed
    SomeoneIsAtWork
PROPERTIES
    ReplicaServes
    RequestsMoveForward
    FeedGoesOn
    ClientsAreServed
    NeverStartsOnNewer
    NobodyWaitsForEver
