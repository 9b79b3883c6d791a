SPECIFICATION Spec
CONSTANTS
    a = a
    b = b
    x = x
    y = y
    NoKey = NoKey
    NoPacket = NoPacket
    NoReply = NoReply
    Source <- MCSource
    Xid <- MCXid
    Offered <- CallsAndOthers
    ConfiguredSize = 2
    DupCacheMax = 3
    DefaultSize = 1
    TTL = 2
    RxQueueSize = 1
    MaxTime = 5
    MaxRuns = 4
INVARIANTS TypeOK UniqueLive ReplyIsLastRun
PROPERTIES NoRepeatUnlessCrowded ReplayOnlyInWindow ImplementsToolServer ImplementsMailbox
