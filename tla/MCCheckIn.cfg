SPECIFICATION MCSpec
CONSTANTS
    Guests = {g1, g2}
    NoGuest = NoGuest
    Devices = {d1}
    NoDevice = NoDevice
    Slots = {s1, s2}
    Capacity = 2
    Thresholds = {50, 100}
    MaxQueue = 2
    MaxCalls = 3
    Starts <- MCStarts
    MaxFaults = 1
INVARIANTS TypeOK ScansAreKept AdmittedOnce AlertedOnce
PROPERTIES LetInOnce ScansArrive
CHECK_DEADLOCK FALSE
