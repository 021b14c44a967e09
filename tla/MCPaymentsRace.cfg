SPECIFICATION Spec
CONSTANTS
    Orders = {o1}
    NoOrder = NoOrder
    Slots = {s1, s2}
    Capacity = 1
    Quantity = 2
    Price = 1
    Partials = {1}
    Intents = {TRUE, FALSE}
    MaxCrashes = 0
    Declines = TRUE
    Outages = TRUE
SYMMETRY Symmetry
INVARIANTS TypeOK NothingForFree
CHECK_DEADLOCK FALSE
