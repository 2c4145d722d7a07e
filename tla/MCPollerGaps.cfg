SPECIFICATION Spec
CONSTANTS
    Conns = {c1}
    Namespaces = {"n1", "n2"}
    Compositions = {"x1"}
    Topics = {"krateo", "x1"}
    Rows <- OneSecond
    Batches <- SingleRows
    Payloads <- MCPayloads
    Subscriptions <- OneTenant
    ClientBuffer = 1
    PollLimit = 1
    Lookback = 1
    StartTime = 1
    MaxTime = 2
    MaxBoots = 1
    MaxPollErrors = 0
    NoMsg = NoMsg
    NoTick = NoTick
    NoRow = NoRow
    c1 = c1
INVARIANTS
    StreamHasNoGaps
