SPECIFICATION FairSpec
CONSTANTS
  Duration = 1
  Keys <- StickKeys
  MaxStick = 1
CHECK_DEADLOCK FALSE

PROPERTIES StopHonoured
