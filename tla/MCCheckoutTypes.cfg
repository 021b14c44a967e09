SPECIFICATION MCSpec
CONSTANTS
    t1 = t1
    t2 = t2
    Buyers = {b1, b2, b3}
    NoBuyer = NoBuyer
    Slots = {s1, s2}
    Types = {t1, t2}
    Carts <- MCCarts
    Capacity = 3
    TypeCapacity = 1
    UsageLimit = 1
    Inventory = 1
    MaxCalls = 3
    MaxFaults = 1
INVARIANT TypesWithinCapacity
CHECK_DEADLOCK FALSE
