SPECIFICATION Spec
CONSTANTS
    Namespaces = {"n1", "n2"}
    Compositions = {"x1"}
    Rows <- MCRows
    AuditRows <- MCAuditRows
    EventsWindows <- MCWindows
    DefaultLimit = 3
    CallerScopes <- MCScopes
    RequestShapes <- MCRequests
    StartTime = 5
    MaxTime = 6
INVARIANTS
    RestTypeOK
    OnlyEntitledRows
    WindowedIsUnbounded
    EarlierRowsAnswered
    AnnouncedScope
