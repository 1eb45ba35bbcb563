CONSTANTS
    d1 = d1
    d2 = d2
    Known = {d1}
    Extras = {}
    Watch = TRUE
    MAX_EVENTS = 2
    MAX_EVENT_BYTES = 3
    MAX_PAUSES = 1
    MAX_DIRECTORIES = 1
    MaxRevision = 2
    MaxChanges = 1
    None = None

SPECIFICATION FairSpec

\* A closed session stops.
CHECK_DEADLOCK FALSE

INVARIANTS
    BytesAccounted
    PausedIsQuiet
    EventsInOrder

PROPERTIES
    EveryRevisionEnds
    CloseReleasesWorker
