CONSTANTS
    root = root
    sub = sub
    leaf = leaf
    Dirs = {root, sub, leaf}
    Way <- TestWay
    None = None
    MaxMoves = 3
    MaxRefreshes = 1
    MaxFaults = 1

SPECIFICATION FairSpec

\* The bounds end every behaviour.
CHECK_DEADLOCK FALSE

INVARIANTS
    PendingHasOwner
    LiveNotCancelled

PROPERTIES
    LevelsAreKept
    FailureStays
    PendingEnds
    CurrentSettles
