SPECIFICATION Spec
CONSTANTS
    MaxEpoch = 2
    MaxHotkeys = 4
    MaxWire = 1
    MaxQueue = 1
INVARIANTS TypeOK SuppressesOnRequest CursorFollows NoOrphanControl NoDeadControl
