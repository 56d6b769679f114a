CONSTANTS
    MaxABRatio = 3
\* An include that has its result takes no further step.
CHECK_DEADLOCK FALSE
SPECIFICATION IncludeSpec
INVARIANTS
    FailureIsTotal
    ShareMatchesRatio
PROPERTIES
    IncludeEnds
