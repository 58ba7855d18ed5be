\* A daily run meanwhile, a cleared run may be executed again.
SPECIFICATION FairGoldSpec
CONSTANTS
    ClearRequeues = TRUE
    MaxScheduled = 2
INVARIANTS
    TypeOK
    TwoRunsAtMost
PROPERTIES
    SuccessIsBuilt
    AgentReturns
CHECK_DEADLOCK FALSE
