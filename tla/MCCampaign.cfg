CONSTANTS
    NumLeads = 4
    CCU = 2
SPECIFICATION FairCampaignSpec
INVARIANTS
    PoolSafe
PROPERTIES
    FailedOriginateIsFinal
    ImplementsDialPool
    PoolTerminates
CHECK_DEADLOCK FALSE
