\* Two squads on one table at the same time, objects left by earlier runs, failing deletes.
SPECIFICATION FairStageSpec
CONSTANTS
    Squads = {first, second}
    MaxJobs = 3
INVARIANTS
    TypeOK
    SuccessIsFresh
    SuccessHasTables
PROPERTY
    AgentReturns
CHECK_DEADLOCK FALSE
