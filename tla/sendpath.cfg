SPECIFICATION FairSpec
CONSTANTS
    QueueLimit = 2
    MaxQueueAge = 1
    ChallengeInterval = 2
    TimeoutMin = 20
    TimeoutMax = 30
    MaxMove = 1
    OutboxLimit = 2
    InputOps = {"MOVE", "KEY"}
    Moves <- BothWays
    MaxClock = 2
    MaxOffers = 2
    MaxEpoch = 2
    MaxResets = 1
INVARIANTS TypeOK Lossless NothingAfterReset NoLostWakeup
PROPERTIES SendsFresh StopsReachTarget
VIEW LiveState
CHECK_DEADLOCK FALSE
