SPECIFICATION FairSpec
CONSTANTS
  Images = 3
  Chunk = 5
  MaxLost = 2
INVARIANTS WholeUnlessLost MissedForCause
PROPERTIES FramesAdvance OneStream LastFrameShown
CHECK_DEADLOCK FALSE
