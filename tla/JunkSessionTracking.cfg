CONSTANTS
    d1 = d1
    d2 = d2
    Known = {d1}
    Extras = {d2}
    Watch = FALSE
    MAX_EVENTS = 1
    MAX_EVENT_BYTES = 2
    MAX_PAUSES = 0
    MAX_DIRECTORIES = 1
    MaxRevision = 2
    MaxChanges = 1
    None = None

SPECIFICATION Spec

\* A closed session stops.
CHECK_DEADLOCK FALSE

INVARIANTS
    CompleteViewIsTrue
    RefreshIsFresh
