\* An hourly run and an agent or manual run of any date overlap while the driver crashes; the CLI may quarantine.
SPECIFICATION MedallionSpec
CONSTANTS
    Tables = {orders}
    Keys = {k1, k2}
    Conformance = {TRUE}
    Nested = TRUE
    HasCli = TRUE
    OnFailureRetries = 3
    MaxLog = 2
    MaxDay = 2
    MaxCrashes = 1
    Runners = {"hourly", "agent", "manual"}
    MaxRuns = 1
    MaxFailures = 1
    LastRunMayFail = FALSE
INVARIANTS
    MedallionTypeOK
    OneRowPerKey
SYMMETRY KeySymmetry
CHECK_DEADLOCK FALSE
