SPECIFICATION NowPlayingSpec
CONSTANTS
    Requests = {r1, r2}
    Fillers = {f1}
    Sessions = {s1}
    MaxOps = 4
    None = None
SYMMETRY Symmetry
CHECK_DEADLOCK FALSE
INVARIANT OneRowPerPlay
