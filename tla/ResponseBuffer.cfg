SPECIFICATION BufferSpec
CONSTANTS
    MaxBytes = 4
    Limit = 2
INVARIANTS
    LimitedExactly
    AnswerFaithful
CHECK_DEADLOCK FALSE
