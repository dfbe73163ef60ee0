SPECIFICATION BridgeSpec
CONSTANTS
  Decks <- OneDeck
  Tracks = {t1}
  NoTrack = none
  MaxDecks = 1
  LiveThreshold = 1
  PauseGrace = 1
  NowPlayingPause = 2
  UseFaderDetection = FALSE
  MasterDeckPriority = FALSE
  Calls = {c1}
  HasPlayState = FALSE
PROPERTY RunningBridgeDecides
