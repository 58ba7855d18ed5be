\* Two topics, a driver that dies and is restarted; the CLI
\* judges a record anew in the replay.
SPECIFICATION FairBronzeSpec
CONSTANTS
    Tables = {orders, customers}
    Keys = {k1}
    Conformance = {TRUE}
    Nested = FALSE
    HasCli = TRUE
    OnFailureRetries = 1
    MaxLog = 3
    MaxDay = 2
    MaxCrashes = 1
INVARIANTS
    CommittedIsStored
    ReplayKeepsOrder
PROPERTY
    ImplementsLiveLog
CHECK_DEADLOCK FALSE
