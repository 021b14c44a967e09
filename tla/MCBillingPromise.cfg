SPECIFICATION MCSpec
CONSTANTS
    Invoices = {i1, i2}
    NoInvoice = none
    Slots = {s1, s2}
    Hosted = {TRUE}
    Period = 3
    Grace = 1
    MaxTime = 4
    MaxCalls = 6
    MaxFaults = 0
SYMMETRY Alike
INVARIANT ActiveUntilEnd
CHECK_DEADLOCK FALSE
