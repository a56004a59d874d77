SPECIFICATION FairCallsSpec
CONSTANTS
    MaxParks = 2
INVARIANT SessionIsLive
PROPERTY UrlNeverBlanked
PROPERTY CanceledRunEnds
PROPERTY ShutdownCompletes
CHECK_DEADLOCK FALSE
