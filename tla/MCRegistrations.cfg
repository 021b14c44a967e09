SPECIFICATION MCSpec
CONSTANTS
    first = g1
    second = g2
    third = g3
    one = s1
    other = s2
    Guests <- MCGuests
    Slots <- MCSlots
    NoGuest = NoGuest
    MaxQuantity = 2
    Capacities = {1, 2}
    Quota = 4
    OfferTicks = 1
    MaxTime = 1
INVARIANT TypeOK WalkUpsFit OffersFit
PROPERTY HoldsEnd
CHECK_DEADLOCK FALSE
