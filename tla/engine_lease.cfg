SPECIFICATION Spec
CONSTANTS
    k1 = k1
    k2 = k2
    b1 = b1
    NoItem = NoItem
    MayFail = FALSE
    Keys = {k1}
    Buttons = {}
    Supported = {k1}
    Ops = {"ACTIVATE", "HEARTBEAT"}
    AckEvery = 32
    QueueLimit = 1
    MaxQueueAge = 0
    MaxMove = 1
    ChallengeInterval = 1
    TimeoutMin = 2
    TimeoutMax = 2
    Retention = 4
    MaxClock = 5
    MaxNonce = 2
    MaxEpoch = 1
    MaxSeq = 2
INVARIANTS FailureIsNoticed
PROPERTIES RenewsOnce ControlNeedsProof
CHECK_DEADLOCK FALSE
VIEW LiveState
