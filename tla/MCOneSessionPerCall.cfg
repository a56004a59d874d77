SPECIFICATION CallsSpec
CONSTANTS
    MaxParks = 2
INVARIANT OneSessionPerCall
CHECK_DEADLOCK FALSE
