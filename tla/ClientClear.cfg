SPECIFICATION ClientSpec
CONSTANTS
  Tracks = {t1}
  NoTrack = none
  Slots = {c1, c2}
  Replays = {r1}
  FailureThreshold = 2
  Capacity = 2
  PostAttempts = 2
  DeleteAttempts = 1

INVARIANT ClearIsAuthoritative

