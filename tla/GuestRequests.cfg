SPECIFICATION Spec
CONSTANTS
    Guests = {g1, g2, g3}
    Songs = {x, y}
    Sessions = {s1, s2}
    MaxRequests = 2
    MaxOps = 5
    Cap = 1
    None = None
SYMMETRY Symmetry
CHECK_DEADLOCK FALSE
INVARIANTS
    GuestRequestsTypeOK
    CountMatchesVotes
    VotesReachLiveGuests
    PicksAreCounted

