SPECIFICATION ClientSpec
CONSTANTS
  Tracks = {t1, t2}
  NoTrack = none
  Slots = {c1, c2}
  Replays = {r1, r2}
  FailureThreshold = 2
  Capacity = 2
  PostAttempts = 2
  DeleteAttempts = 1
SYMMETRY SlotSymmetry
VIEW WithoutCleared
INVARIANTS ClientTypeOK BreakerConsistent
PROPERTIES NoTrackVanishes OneProbePerCooldown
