SPECIFICATION MCSpec
CONSTANTS
    member = member
    guest = guest
    People <- MCPeople
    Members <- MCMembers
    Messages <- MCMessages
    NoMessage = none
    Slots = {s1, s2}
    MaxTries = 2
    MaxCalls = 3
    MaxFaults = 2
INVARIANTS TypeOK SentOnce NobodySkipped
PROPERTY OptOutHolds
CHECK_DEADLOCK FALSE
SYMMETRY Twins
