CONSTANTS
    NumLeads = 2
    CCU = 1
SPECIFICATION OutSpec
INVARIANTS
    OutInv
    StatusIsTrue
PROPERTIES
    ImplementsCampaign
CHECK_DEADLOCK FALSE
