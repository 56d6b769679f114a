CONSTANTS
    Tokens = 4
    MaxWorkers = 2
\* A returned call takes no further step.
CHECK_DEADLOCK FALSE
SPECIFICATION FairSpec
INVARIANTS
    PageInOrder
    SendsNeverBlock
PROPERTIES
    ParseReturns
