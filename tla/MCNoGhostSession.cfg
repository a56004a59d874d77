CONSTANTS
    NumLeads = 1
    CCU = 1
SPECIFICATION OutSpec
INVARIANTS
    NoGhostSession
CHECK_DEADLOCK FALSE
