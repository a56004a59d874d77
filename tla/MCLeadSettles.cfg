CONSTANTS
    NumLeads = 1
    CCU = 1
SPECIFICATION OutSpec
INVARIANTS
    LeadSettles
CHECK_DEADLOCK FALSE
