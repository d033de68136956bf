SPECIFICATION Spec
CONSTANTS
    QueueLimit = 256
    MaxQueueAge = 5
    ChallengeInterval = 10
    TimeoutMin = 100
    TimeoutMax = 150
    Samples <- RoundTrips
INVARIANTS TypeOK DeadlineCoversSample
