SPECIFICATION MCSpec
CONSTANTS
    Invoices = {i1, i2}
    NoInvoice = none
    Slots = {s1, s2}
    Hosted = {TRUE, FALSE}
    Period = 2
    Grace = 1
    MaxTime = 4
    MaxCalls = 6
    MaxFaults = 1
SYMMETRY Alike
INVARIANTS TypeOK RenewedOnce
PROPERTY CancelHolds
CHECK_DEADLOCK FALSE
