CONSTANTS
    Procs = {p1, p2}
    Ids = {g1, g2, g3, g4}
    Empty = Empty
    Malformed = Malformed
    Nobody = Nobody
    GENERATION_CAP = 2
    ENTRY_CAP = 9
    BYTE_CAP = 6
    MaxForeign = 1
    MaxDamage = 1

SPECIFICATION RegisterSpec
SYMMETRY Symmetry

INVARIANTS
    EvictionRepairsQuota

PROPERTIES
    GrowthWithinQuota
    ImplementsRegister
