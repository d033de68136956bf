SPECIFICATION FairSpec
CONSTANTS
    c1 = c1
    c2 = c2
    NoController = NoController
    Controllers = {c1, c2}
    MaxPassword = 3
    MaxPresses = 2
    MaxDrops = 2
    QueueSize = 2
INVARIANTS TypeOK AnnouncedFirst RevokedStayOut NoGhost OneID
PROPERTIES RotationCompletes
