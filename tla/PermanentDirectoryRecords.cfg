CONSTANTS
    Size <- TestSize
    Directories <- TestDirectories
    Ancestors <- TestAncestors
    Plan = plan
    NoOutcome = NoOutcome
    MaxChanges = 0

SPECIFICATION Spec

INVARIANT
    EveryActionHasOutcome

\* submit returns, and a crashed process does nothing.
CHECK_DEADLOCK FALSE
