CONSTANTS
    w1 = w1
    w2 = w2
    r1 = r1
    Writers = {w1, w2}
    Readers = {r1}
    Streams = {s1, s2}
    Own = s1
    None = None
    MAX_EVENTS = 3
    MAX_REPLAY = 4
    SNAPSHOT_COST = 2
    MAX_PAGE = 2
    MaxTime = 1
    MaxNonce = 1

SPECIFICATION Spec
SYMMETRY Symmetry

INVARIANTS
    AcceptedIsReadable
    StatusIsTrue
    PositionFits
    ReplayIsExact

PROPERTIES
    ImplementsStream
