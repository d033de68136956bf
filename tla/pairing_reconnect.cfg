SPECIFICATION Spec
CONSTANTS
    c1 = c1
    c2 = c2
    NoController = NoController
    Controllers = {c1, c2}
    MaxPassword = 2
    MaxPresses = 2
    MaxDrops = 1
    QueueSize = 1
INVARIANTS KeepsReconnecting
