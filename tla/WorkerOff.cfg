CONSTANTS
    Libraries <- MCLibraries
SPECIFICATION Spec
INVARIANT OffIsOff
CHECK_DEADLOCK FALSE
