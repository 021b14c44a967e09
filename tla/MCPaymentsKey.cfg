SPECIFICATION Spec
CONSTANTS
    Orders = {o1}
    NoOrder = NoOrder
    Slots = {s1}
    Capacity = 1
    Quantity = 1
    Price = 3
    Partials = {1}
    Intents = {TRUE}
    MaxCrashes = 0
    Declines = FALSE
    Outages = FALSE
INVARIANT RefundsAreBacked
CHECK_DEADLOCK FALSE
