SPECIFICATION FairSpec
CONSTANTS
  Peer = {0, 1}
  Opener = {0}
  MaxId = 1
  CommandCap = 1
  SignalCap = 1
  SendBuffer = 12
CHECK_DEADLOCK FALSE
PROPERTIES ImplementsLifecycle HandlesGoneEndsBoth
