SPECIFICATION PartsFairSpec
CONSTANTS
  ReplayWindow = 2
  Keys = {k1}
  NoKey = none
  MaxSeals = 3
  Receiver = {r1, r2}
  Cap = 3
  Video = TRUE
  MaxFrames = 5
  Space = 10
  MaxList = 2
  MaxAge = 3
  MaxRetries = 2
  Lifetime = 9
  Delay = 0
  Interval = 1
  Rtts = {2, 3}
  MaskBits = 1
  BlockSize = 3
  FecRates = {40, 128}
  Capacity = 2
  FecSpace = 8
  Protected = {7, 0, 1}
  MaxPushes = 4
CHECK_DEADLOCK FALSE
INVARIANTS ReceiveTypeOK AgreeOnCipher NoncesUnique ReplayExact
  NoLostWakeup InOrder ListIsExact RequestsSpaced BlockProtected RepairedAtOnce
PROPERTIES EveryHandshakeEnds NewestKeyframeKept RecvReturns RequestsExact
