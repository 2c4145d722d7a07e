SPECIFICATION Spec
CONSTANTS
    Namespaces = {"n1", "n2", "none"}
    Compositions = {"x1"}
    Rows <- MCRows
    AuditRows <- MCAuditRows
    EventsWindows <- MCWindows
    DefaultLimit = 3
    CallerScopes <- NoneScopes
    RequestShapes <- OneStream
    StartTime = 5
    MaxTime = 6
INVARIANTS
    AnnouncedScope
