SPECIFICATION Spec
CONSTANTS
    Requests = {q1, q2}
    Namespaces = {"n1"}
    Callers <- TwoCallers
    InitialAcls <- SomeAcls
    AuditConfigured = TRUE
    SarConcurrency = 1
    PageLimit = 1
    TTL = 1
    MaxTime = 2
    MaxChanges = 1
    MaxErrors = 1
    NoEntry = NoEntry
    q1 = q1
    q2 = q2
SYMMETRY RequestSymmetry
INVARIANTS
    NoStaleGrant
    NoStaleDenial
