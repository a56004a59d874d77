CONSTANTS
    NumLeads = 1
    CCU = 1
SPECIFICATION FairOutSpec
PROPERTIES
    OutPoolTerminates
    CanceledSessionEnds
CHECK_DEADLOCK FALSE
