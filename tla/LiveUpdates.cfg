SPECIFICATION MCSpec
CONSTANTS
    Trains = {a}
    Stubs = {}
    Calls = {c1, c2}
    LastCall = c2
    Times = {t1, t2}
    Nrod = {n1, n2}
    Darwin = {d1, d2}
    None = None
SYMMETRY MCSymmetry
INVARIANTS
    TerminatedAfterReport
    LiveIsOnRecord
    OneEstimate
PROPERTIES
    ReportsAreKept
