SPECIFICATION MCLiveSpec
CONSTANTS
    Conns = {c1, c2}
    Namespaces = {"n1"}
    Topics = {"krateo", "x1"}
    Payloads = {p1}
    Subscriptions <- MCSubscriptions
    ClientBuffer = 1
    MaxSent = 2
    NoMsg = NoMsg
    c1 = c1
    c2 = c2
    p1 = p1
INVARIANTS
    HubTypeOK
    NoSendOnClosed
    FanOutAccounted
PROPERTIES
    BroadcastEnds
    DepartedIsFreed
    StreamReachesReaders
