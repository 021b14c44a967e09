SPECIFICATION FairSpec
CONSTANTS
    Orders = {o1, o2}
    NoOrder = NoOrder
    Slots = {s1}
    Capacity = 1
    Quantity = 2
    Price = 1
    Partials = {1}
    Intents = {TRUE}
    MaxCrashes = 1
    Declines = FALSE
    Outages = FALSE
INVARIANTS TicketsIssuedOnce RecordedWithinTotal RowsAgree CancellationRefunds
PROPERTIES PaymentIsHonoured
CHECK_DEADLOCK FALSE
