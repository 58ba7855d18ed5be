\* Two sessions on one table, whose schema changes once.
SPECIFICATION FairPortalSpec
CONSTANTS
    Columns = {id}
    Sessions = {ana, rui}
    Tables = {orders}
    DefaultProvider = "ollama"
    HasGeminiKey = FALSE
    MaxDdl = 1
INVARIANTS
    TypeOK
    CaptureHasContract
    FallbackLoads
PROPERTIES
    ErrorForcesReselect
    HandlerEnds
CHECK_DEADLOCK FALSE
