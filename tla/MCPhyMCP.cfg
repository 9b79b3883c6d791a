SPECIFICATION NetFairSpec
CONSTANTS
    h = h
    NoKey = NoKey
    NoPacket = NoPacket
    NoReply = NoReply
    NoCall = NoCall
    Host = h
    Source <- MCSource
    Xid <- MCXid
    XidModulus = 3
    Offered <- MCOffered
    ConfiguredSize = 2
    DupCacheMax = 2
    DefaultSize = 1
    TTL = 1
    RxQueueSize = 1
    MaxTime = 2
    MaxRuns = 20
    MaxInFlight = 1
    MaxCalls = 2
    MaxTroubles = 1
PROPERTIES ResultIsOfThisCall AtMostOneRun ResultOfOneRun IdsTakeTurns CallIsAnswered
CHECK_DEADLOCK FALSE
