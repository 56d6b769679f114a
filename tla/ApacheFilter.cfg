CONSTANTS
    MaxBytes = 4
    MaxPage = 2
    Limit = 2
SPECIFICATION Spec
INVARIANTS LengthHonest LimitExact
PROPERTIES ImplementsPageFilter ResponseCompletes
CHECK_DEADLOCK FALSE
