SPECIFICATION Spec
CONSTANTS
    MaxEpoch = 1
    MaxHotkeys = 2
    MaxWire = 1
    MaxQueue = 1
INVARIANTS SuppressesOnlyWhileControlling
