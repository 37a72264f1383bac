SPECIFICATION Spec
CONSTANTS
  Peer = {0, 1}
  Opener = {0}
  MaxId = 2
  CommandCap = 1
  SignalCap = 1
  SendBuffer = 12
CHECK_DEADLOCK FALSE
INVARIANTS NoConflictingOpen MediaAfterRoute NoHalfOpenTrack OpenIsAnswered
