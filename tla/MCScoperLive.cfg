SPECIFICATION LiveSpec
CONSTANTS
    Requests = {q1}
    Namespaces = {"n1", "n2", "n3"}
    Callers <- OneCaller
    InitialAcls <- AllAcls
    AuditConfigured = FALSE
    SarConcurrency = 2
    PageLimit = 1
    TTL = 1
    MaxTime = 1
    MaxChanges = 2
    MaxErrors = 2
    NoEntry = NoEntry
    q1 = q1
INVARIANTS
    ScoperTypeOK
    NoStaleDenial
PROPERTIES
    EveryRequestEnds
