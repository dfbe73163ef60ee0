SPECIFICATION BridgeSpec
CONSTANTS
  Decks <- OneDeck
  Tracks = {t1}
  NoTrack = none
  MaxDecks = 1
  LiveThreshold = 1
  PauseGrace = 1
  NowPlayingPause = 1
  UseFaderDetection = FALSE
  MasterDeckPriority = FALSE
  Calls = {c1, c2}
  HasPlayState = TRUE
INVARIANTS BridgeTypeOK StoppedIsQuiet
PROPERTIES LostDeviceRetried
