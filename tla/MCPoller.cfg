SPECIFICATION Spec
CONSTANTS
    Conns = {c1, c2}
    Namespaces = {"n1", "n2"}
    Compositions = {"x1"}
    Topics = {"krateo", "x1"}
    Rows <- Decodable
    Batches <- TwoBatches
    Payloads <- MCPayloads
    Subscriptions <- TwoTenants
    ClientBuffer = 2
    PollLimit = 2
    Lookback = 1
    StartTime = 1
    MaxTime = 2
    MaxBoots = 1
    MaxPollErrors = 1
    NoMsg = NoMsg
    NoTick = NoTick
    NoRow = NoRow
    c1 = c1
    c2 = c2
SYMMETRY ConnSymmetry
INVARIANTS
    PollerTypeOK
    AtMostOnce
    InOrder
    OnlyEntitled
    OnlyBehindDrops
    NoSilentLoss
PROPERTIES
    CursorNeverBack
    CursorPassesPublished
    ImplementsFeed
