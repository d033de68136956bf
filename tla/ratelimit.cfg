SPECIFICATION Spec
CONSTANTS
    Keys = {k1, k2, k3}
    Attempts = 2
    Seconds = 3
    Capacity = 2
    MaxClock = 7
SYMMETRY KeySymmetry
INVARIANTS TypeOK NeverMoreThanAttempts PlacesAreRecent
PROPERTIES RefusesOnlyExcess
CHECK_DEADLOCK FALSE
