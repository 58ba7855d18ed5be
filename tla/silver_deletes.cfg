\* A row is inserted and deleted; nothing fails.
SPECIFICATION FairMedallionSpec
CONSTANTS
    Tables = {orders}
    Keys = {k1}
    Conformance = {TRUE}
    Nested = TRUE
    HasCli = FALSE
    OnFailureRetries = 3
    MaxLog = 3
    MaxDay = 1
    MaxCrashes = 0
    Runners = {"hourly"}
    MaxRuns = 0
    MaxFailures = 0
    LastRunMayFail = FALSE
PROPERTY
    DeletesPropagate
CHECK_DEADLOCK FALSE
