\* Three callers of one table; up to three requests lost, refused, failing or met by a
\* rebalance.
SPECIFICATION FairActivationSpec
CONSTANTS
    Callers = {portal, agent, second}
    MaxRetries = 3
    Faults = {"4xx", "5xx", "lost", "rebalance"}
    MaxFaults = 3
INVARIANTS
    TypeOK
    OneCreator
    ConflictMeansActive
    SomeoneSucceeds
PROPERTIES
    ImplementsPromise
    AllReturn
CHECK_DEADLOCK FALSE
