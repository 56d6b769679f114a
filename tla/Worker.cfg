CONSTANTS
    Libraries <- MCLibraries
SPECIFICATION Spec
INVARIANTS FailsClosed CacheAsAsked ClientAsAsked
PROPERTY CacheStable
CHECK_DEADLOCK FALSE
