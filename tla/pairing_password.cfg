SPECIFICATION Spec
CONSTANTS
    c1 = c1
    c2 = c2
    NoController = NoController
    Controllers = {c1}
    MaxPassword = 3
    MaxPresses = 3
    MaxDrops = 1
    QueueSize = 1
INVARIANTS ShownPasswordWorks
