SPECIFICATION CallsSpec
CONSTANTS
    MaxParks = 1
INVARIANT UrlRecorded
CHECK_DEADLOCK FALSE
