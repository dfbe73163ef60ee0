SPECIFICATION Spec
CONSTANTS
  Decks <- TwoDecks
  Tracks = {t1}
  NoTrack = none
  MaxDecks = 2
  LiveThreshold = 1
  PauseGrace = 1
  NowPlayingPause = 2
  UseFaderDetection = TRUE
  MasterDeckPriority = FALSE
PROPERTIES PausedDeckReleased CuedDeckDecides
