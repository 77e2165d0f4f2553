SPECIFICATION Spec
CONSTANTS
    q1 = q1
    q2 = q2
    m = m
    Queries = {q1, q2}
    Models = {m}
    NoModel = NoModel
    NoSeq = NoSeq
    Traffics <- MCTraffics
    Windows <- MCWindows
    PENDING_CAP = 1
    Hours = 2
    MaxLosses = 1
SYMMETRY Symmetric
INVARIANTS
    HealthyNeverFlagged
    ReportTrue
CHECK_DEADLOCK FALSE
