SPECIFICATION FairSpec
CONSTANTS
    k1 = k1
    k2 = k2
    b1 = b1
    NoItem = NoItem
    MayFail = TRUE
    Keys = {k1, k2}
    Buttons = {b1}
    Supported = {k1}
    Ops = {"ACTIVATE", "KEY", "BUTTON"}
    AckEvery = 1
    QueueLimit = 1
    MaxQueueAge = 1
    MaxMove = 1
    ChallengeInterval = 1
    TimeoutMin = 2
    TimeoutMax = 3
    Retention = 6
    MaxClock = 0
    MaxNonce = 1
    MaxEpoch = 2
    MaxSeq = 2
INVARIANTS TypeOK HoldsTracked PausedReleases ToldEpoch
PROPERTIES
    NoPressAcrossReset BlockedStaysReleased ImplementsSession
    RetryReleases OverloadPauses
CHECK_DEADLOCK FALSE
