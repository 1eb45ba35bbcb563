CONSTANTS
    s1 = s1
    s2 = s2
    s3 = s3
    p1 = p1
    p2 = p2
    Auths = {a1, a2}
    Actions = {x1}
    Paths = {h1}
    Outcomes = {deleted}
    Stores = {s1}
    Procs = {p1}
    ProcOf <- OneProcess
    NoStore = NoStore
    NoOutcome = NoOutcome
    MaxEvents = 10
    SoftEvents = 10
    MaxFence = 2
    MaxOrdinal = 2
SPECIFICATION Spec
CHECK_DEADLOCK FALSE
INVARIANTS ArmedClaimIsFlagged
