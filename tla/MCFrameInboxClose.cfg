SPECIFICATION Spec
CONSTANTS
  Receiver = {r1}
  Cap = 2
  Video = TRUE
  MaxFrames = 2
CHECK_DEADLOCK FALSE
INVARIANT FramesBeforeClosed
