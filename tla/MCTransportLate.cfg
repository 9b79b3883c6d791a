SPECIFICATION Spec
CONSTANTS
    q1 = q1
    q2 = q2
    w1 = w1
    w2 = w2
    m1 = m1
    m2 = m2
    m3 = m3
    a = a
    b = b
    Broadcast = Broadcast
    App = App
    NULL = NULL
    Queue <- MCQueue
    Worker <- MCWorker
    Msg <- MCMsg
    Mac <- MCMac
    QueueSize = 1
    PeerLimit = 2
    LateFailure = TRUE
INVARIANTS OneOwner
PROPERTIES RefusedOnlyWhenFull
CHECK_DEADLOCK FALSE
