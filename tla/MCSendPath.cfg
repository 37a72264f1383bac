SPECIFICATION Spec
CONSTANTS
  Window = 2
  Scale = 1
  MaxSeq = 3
  MaxControl = 1
  Ttl = 3
  Capacity = 2
  Rtts = {1, 2}
  Sizes = {2}
  ControlSize = 1
  Targets = {1, 2}
  PacingFactor = 1
  Burst = 1
  MaxDebt = 2
  QueueLimit = 4
  AccountForAudio = FALSE
  MaxIdle = 3
CHECK_DEADLOCK FALSE
INVARIANTS TypeOK HistoryConsistent PendingIsQueued AudioNeverWaits
PROPERTY PacedWithinBudget
