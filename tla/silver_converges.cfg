\* The hourly DAG alone, over a midnight, with one driver crash and one failed run.
SPECIFICATION FairMedallionSpec
CONSTANTS
    Tables = {orders}
    Keys = {k1, k2}
    Conformance = {TRUE}
    Nested = TRUE
    HasCli = FALSE
    OnFailureRetries = 3
    MaxLog = 3
    MaxDay = 2
    MaxCrashes = 1
    Runners = {"hourly"}
    MaxRuns = 0
    MaxFailures = 1
    LastRunMayFail = FALSE
INVARIANTS
    SilverFromBronze
    ClosedDatesMerged
PROPERTIES
    Converges
    HourlyNeverRegresses
CHECK_DEADLOCK FALSE
