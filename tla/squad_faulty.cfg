\* Langfuse is configured and any call to it may raise; a port-forward may fail.
SPECIFICATION FairSquadSpec
CONSTANTS
    NServices = 8
    LangfuseOn = TRUE
    LangfuseRaises = TRUE
    ForwardRaises = TRUE
INVARIANTS
    TypeOK
    DelegatedInOrder
    ExitZeroMeansAllPassed
    GreenReport
PROPERTIES
    Terminates
    ImplementsFailFast
    RedReport
CHECK_DEADLOCK FALSE
