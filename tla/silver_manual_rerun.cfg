\* An earlier date is processed again by hand after a later one.
SPECIFICATION MedallionSpec
CONSTANTS
    Tables = {orders}
    Keys = {k1}
    Conformance = {TRUE}
    Nested = TRUE
    HasCli = FALSE
    OnFailureRetries = 3
    MaxLog = 2
    MaxDay = 2
    MaxCrashes = 0
    Runners = {"hourly", "manual"}
    MaxRuns = 1
    MaxFailures = 0
    LastRunMayFail = FALSE
PROPERTY
    SilverNeverRegresses
CHECK_DEADLOCK FALSE
