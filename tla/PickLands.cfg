SPECIFICATION Spec
CONSTANTS
    Guests = {g1, g2}
    Songs = {x, y}
    Sessions = {s1, s2}
    MaxRequests = 2
    MaxOps = 3
    Cap = 1
    None = None
CHECK_DEADLOCK FALSE
INVARIANT RequestsReachLiveGuests
