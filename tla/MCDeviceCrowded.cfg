SPECIFICATION Spec
CONSTANTS
    a = a
    b = b
    x = x
    y = y
    NoKey = NoKey
    NoPacket = NoPacket
    NoReply = NoReply
    Source <- MCSource
    Xid <- MCXid
    Offered <- GoodCalls
    ConfiguredSize = 0
    DupCacheMax = 3
    DefaultSize = 2
    TTL = 2
    RxQueueSize = 1
    MaxTime = 5
    MaxRuns = 4
PROPERTIES NoRepeatInWindow
