SPECIFICATION Spec
CONSTANTS
    Permanent = Permanent
    Overlay = Overlay
    d1 = d1
    d2 = d2
    v1 = v1
    v2 = v2
    v3 = v3
    rid1 = rid1
    rid2 = rid2
    None = None
    Keys = {Permanent, Overlay}
    RunsOn <- MCRunsOn
    Rank <- MCRank
    RidDate <- MCRidDate
    Dates = {d1}
    Versions = {v1, v2}
    Bare = {}
    TrustIds = {t1}
    Rids = {rid1}
    Threads = {w1, w2}
    Replicas = {r1}
SYMMETRY MCSymmetry
INVARIANTS
    OneTrainPerRun
    LinkedIsAnnounced
PROPERTIES
    RidIsStable
    ImplementsRegistry
