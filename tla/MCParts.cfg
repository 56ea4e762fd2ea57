SPECIFICATION PartsSpec
CONSTANTS
    p1 = p1
    p2 = p2
    Producers = {p1, p2}
    Address = {a1, a2, a3}
    null = null
    MaxProducers = 2
    ReclaimThreshold = 1
    MaxItems <- Items
    Workers = {w1, w2}
    Tasks = {t1, t2, t3}
    Names = {"ann"}
    Passwords = {"", "p"}
    HeaderSize = 2
    Base = 2
    MaxPayload = 2
    PushSizes = {2, 3}
    MaxAttempts = 2
    MaxPushes = 1
    MaxFaults = 1
INVARIANTS
    NoUseAfterFree
    StreamKeepsOrder
    IdentityAgrees
PROPERTIES
    QueueImplementsChannel
    QueueDelivers
    IdleMeansRun
    WaitIdleReturns
    JoinedMeansRun
    DestroyedPoolIsJoined
    AttemptEnds
CHECK_DEADLOCK FALSE
