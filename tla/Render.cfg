CONSTANTS
    MaxDepth = 2
    Timeout = 4
    TimeoutAttr = {NoAttr, 2}
    DepthAttr = {NoAttr, 0, 1}
    NoAttr = NoAttr
    ParseOnHeader = FALSE
    MaxNesting = 4
    MaxTime = 5
SPECIFICATION Spec
INVARIANTS
    DepthHonoured
    BudgetNests
