SPECIFICATION FairSpec
CONSTANTS
  Duration = 2
  Keys <- AllCommands
  MaxStick = 1
CHECK_DEADLOCK FALSE
INVARIANTS TypeOK NoLeftovers StopLatency TiltLatency RampRestarts StaleOnlyIfLost
PROPERTIES ComesToRest
