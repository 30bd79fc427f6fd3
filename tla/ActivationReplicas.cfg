SPECIFICATION Spec
CONSTANTS
    Permanent = Permanent
    Overlay = Overlay
    d1 = d1
    d2 = d2
    v1 = v1
    v2 = v2
    v3 = v3
    rid1 = rid1
    rid2 = rid2
    None = None
    Keys = {Permanent}
    RunsOn <- MCRunsOn
    Rank <- MCRank
    RidDate <- MCRidDate
    Dates = {d1, d2}
    Versions = {v1, v2, v3}
    Bare = {v3}
    TrustIds = {t1}
    Rids = {rid1, rid2}
    Threads = {w1}
    Replicas = {r1, r2}
SYMMETRY MCSymmetry
INVARIANTS
    CopiedOnceFromOwnSchedule
