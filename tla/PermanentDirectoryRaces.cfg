CONSTANTS
    Size <- TestSize
    Directories <- TestDirectories
    Ancestors <- TestAncestors
    Plan = plan
    NoOutcome = NoOutcome
    MaxChanges = 2

SPECIFICATION FairSpec

INVARIANTS
    RemovalsOnRecord
    ResultMatchesAudit

PROPERTIES
    OnlyApprovedOrRaced
    MarkerStopsRemoval
    EveryIntentIsAnswered

\* submit returns, and a crashed process does nothing.
CHECK_DEADLOCK FALSE
