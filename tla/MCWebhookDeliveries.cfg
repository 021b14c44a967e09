SPECIFICATION MCSpec
CONSTANTS
    Slots = {s1, s2}
    MaxKey = 6
    Cap = 2
    Window = 3
    MaxRetries = 1
    MaxLost = 1
    MaxFaults = 1
INVARIANTS TypeOK AcceptedOnce
PROPERTIES DeliveredIsFinal EveryDeliveryEnds
CHECK_DEADLOCK FALSE
