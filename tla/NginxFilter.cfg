CONSTANTS
    MaxBytes = 4
    MaxPage = 2
    Bufs = 2
    Chunk = 2
    PageSize = 1
    Limit = 3
SPECIFICATION Spec
INVARIANTS LengthHonest BufferWithinLimit LimitExact OthersUntouched
PROPERTIES ImplementsPageFilter ResponseCompletes
CHECK_DEADLOCK FALSE
