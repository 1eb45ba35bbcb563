CONSTANTS
    root = root
    a = a
    s = s
    g = g
    b = b
    p1 = p1
    p2 = p2
    Root = root
    Entries = {a, s, g, b}
    Dirs = {a, s}
    Parent <- TestParent
    Above <- TestAbove
    Processes = {p1, p2}
    Absent = Absent
    Torn = Torn
    MaxRuns = 2
    MaxChanges = 2

SPECIFICATION Spec

SYMMETRY Interchangeable

\* The bounds end every behaviour.
CHECK_DEADLOCK FALSE

CONSTRAINT RetriesOfOne

INVARIANTS
    GoneIsDurable
    LossNeedsRace
    OnlyMeasuredRemoved
    RecordsAreTrue
