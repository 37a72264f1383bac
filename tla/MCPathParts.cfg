SPECIFICATION Spec
CONSTANTS
  MaskBits = 2
  Interval = 2
  Retention = 2
  SeqSpace = 8
  FirstSeq = 6
  MaxSent = 3
  LastTick = 3
  StartRate = 60
  MinRate = 30
  MaxRate = 120
  PacingFactor = 1100
  Rtts = {100}
  Samples = {1, 400}
  Losses = {0, 400}
  ProbeInterval = 200
  AlrProbeInterval = 400
  VideoTracks = {v1}
  AudioTracks = {a1, a2}
  TimeSteps = {200}
  MaxReports = 3
  MaxTime = 200
  WindowLength = 3
  Scale = 1
  Targets = {1, 2}
  Sizes = {1, 2}
SYMMETRY AudioAlike
CHECK_DEADLOCK FALSE
INVARIANTS PathTypeOK ArrivalAccounted RoundTripReal RatesOrdered AtMostTwoBudgets
