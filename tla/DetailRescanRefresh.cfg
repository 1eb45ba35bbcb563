CONSTANTS
    root = root
    sub = sub
    leaf = leaf
    Dirs = {root, sub}
    Way <- TestWay
    None = None
    MaxMoves = 3
    MaxRefreshes = 1
    MaxFaults = 0

SPECIFICATION Spec

\* The bounds end every behaviour.
CHECK_DEADLOCK FALSE

INVARIANTS
    TotalsAreCurrent
