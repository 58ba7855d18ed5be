\* The CLI installed and no crash: does a registered contract bind?
SPECIFICATION BronzeSpec
CONSTANTS
    Tables = {orders}
    Keys = {k1}
    Conformance = {TRUE, FALSE}
    Nested = TRUE
    HasCli = TRUE
    OnFailureRetries = 3
    MaxLog = 1
    MaxDay = 1
    MaxCrashes = 0
PROPERTY
    ContractEnforced
CHECK_DEADLOCK FALSE
