SPECIFICATION FairSpec
CONSTANTS
  Peer = {0}
  Opener = {0}
  MaxId = 2
  CommandCap = 1
  SignalCap = 1
  SendBuffer = 1
CHECK_DEADLOCK FALSE
INVARIANTS TypeOK RoutesMatchEngine
PROPERTIES LocalIdsNotReused OpenEnds
