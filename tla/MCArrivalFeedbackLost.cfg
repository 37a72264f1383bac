SPECIFICATION Spec
CONSTANTS
  MaskBits = 2
  Interval = 2
  Retention = 2
  SeqSpace = 8
  FirstSeq = 6
  MaxSent = 3
  MaxTime = 4
CHECK_DEADLOCK FALSE
INVARIANT LostMeansLost
