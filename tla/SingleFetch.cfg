CONSTANTS
    f1 = f1
    f2 = f2
    f3 = f3
    page1 = page1
    page2 = page2
    l1 = l1
    l2 = l2
    l3 = l3
    Fetch <- MCFetch
    Parse <- MCParse
    ParseOf <- OnePage
    Key = {k1}
    NoKey = NoKey
    LockId <- MCOneLock
    NoLock = NoLock
    Body = {b1}
    NoBody = NoBody
    MaxConcurrentRequests = 2
SPECIFICATION FairSpec
INVARIANTS
    TypeOK
    AdmissionBound
PROPERTIES
    FetchReturns
