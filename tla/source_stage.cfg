\* Two squads on one table, what earlier runs may have left.
SPECIFICATION FairSourceSpec
CONSTANTS
    Columns = {id}
    Squads = {first, second}
    AgentKey = id
    SeedRows = 1
    MaxLeft = 1
INVARIANTS
    TypeOK
    SuccessIsCaptured
    FreshUnlessBacklog
    StoredIsUsable
PROPERTY
    AgentReturns
CHECK_DEADLOCK FALSE
