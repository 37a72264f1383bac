SPECIFICATION Spec
CONSTANTS
  Kinds = {"Video", "Audio"}
  Lens = {1, 3}
  FirstTimestamp = 6
  MaxFrames = 3
  MaxReopened = 0
  TimeSteps = {25}
  MaxTime = 50
  MaxPacketSize = 2
  MaxFragments = 2
  MaxIncompleteFrames = 2
  RetiredHistory = 1
  MinDelay = 20
  MaxDelay = 40
  RenderDelay = 5
  LateGrace = 5
  MaxBuffered = 2
  KeyframeInterval = 40
  StallTimeout = 25
  FastStart = TRUE
  InitialJitter = 30
  AudioTarget = 40
  AudioMinDelay = 20
  AudioMaxDelay = 60
  PlayoutTick = 20
  MaxPackets = 2
  TimestampSpace = 8
CHECK_DEADLOCK FALSE
INVARIANT OldestFirst
