SPECIFICATION LiveSpec
CONSTANTS
    Conns = {c1}
    Namespaces = {"n1", "n2"}
    Compositions = {"x1"}
    Topics = {"krateo", "x1"}
    Rows <- WithBadLine
    Batches <- BySecond
    Payloads <- MCPayloads
    Subscriptions <- OneTenant
    ClientBuffer = 2
    PollLimit = 2
    Lookback = 1
    StartTime = 1
    MaxTime = 2
    MaxBoots = 2
    MaxPollErrors = 1
    NoMsg = NoMsg
    NoTick = NoTick
    NoRow = NoRow
    c1 = c1
PROPERTIES
    ImplementsFeed
    HandlersNotHeldUp
    VisibleRowsAreReached
    IdleCursorStaysLive
