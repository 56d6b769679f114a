CONSTANTS
    IntMax = 127
    LongMax = 1023
    MaxDigits = 2
    DepthMax = 12
    TimeoutMax = 20
    CountMax = 99
    CacheSizeMax = 31
    TtlMax = 20
    DbMax = 12
    PortMax = 92
    Texts <- MCTexts
    SomeTexts <- MCSomeTexts
    Topics <- MCTopics
SPECIFICATION Spec
INVARIANTS
    
    AsWritten
    LossWarned
CHECK_DEADLOCK FALSE
