CONSTANTS
    Key = {k1, k2, k3}
    Body = {b1, b2}
    NoBody = NoBody
    maxSize = 2
    defaultTTL = 1
    TTL <- MCTTL
    MaxTime = 4
SPECIFICATION Spec
INVARIANTS
    ListMatchesMap
    SizeBound
    TtlHonoured
PROPERTIES
    EvictsLeastRecent
    ImplementsContract
