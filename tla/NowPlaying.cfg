\* Two worker threads, five HTTP requests, three song requests: the DJ can have two of them
\* PLAYING and a third deleted.  A track nobody requested behaves as a request's track
\* posted again once it is PLAYING: it matches nothing.
SPECIFICATION NowPlayingSpec
CONSTANTS
    Requests = {r1, r2, r3}
    Fillers = {}
    Sessions = {s1, s2}
    MaxOps = 5
    None = None
SYMMETRY Symmetry
CHECK_DEADLOCK FALSE
INVARIANTS
    NowPlayingTypeOK
    OneDjPlaying
    PlayOrdersDense
    ClearsArchiveOnce
    SerialPlaysAreTracked
