SPECIFICATION Spec
CONSTANTS
  Decks <- ThreeDecks
  Tracks = {t1}
  NoTrack = none
  MaxDecks = 2
  LiveThreshold = 2
  PauseGrace = 1
  NowPlayingPause = 2
  UseFaderDetection = TRUE
  MasterDeckPriority = TRUE
INVARIANTS TypeOK NowPlayingIsReported LiveIsNowPlaying WaitingDeckHasTimer SwitchTimerHasOwner
PROPERTIES PlayingNeverEvicted ThresholdHonoured PriorityHeld EligibleDeckReported
