CONSTANTS
    s1 = s1
    s2 = s2
    s3 = s3
    p1 = p1
    p2 = p2
    Auths = {a1, a2}
    Actions = {x1, x2}
    Paths = {h1}
    Outcomes = {deleted, failed}
    Stores = {s1, s2, s3}
    Procs = {p1, p2}
    ProcOf <- ThreeStores
    NoStore = NoStore
    NoOutcome = NoOutcome
    MaxEvents = 12
    SoftEvents = 10
    MaxFence = 3
    MaxOrdinal = 3
SPECIFICATION Spec
SYMMETRY Symmetry
CHECK_DEADLOCK FALSE
INVARIANTS TablesMatchJournal ClaimsAreCurrent HotPathExclusive ArmedIsReserved
PROPERTIES OnlyCurrentClaimWrites ImplementsLedger
