SPECIFICATION FairSpec
CONSTANTS
  Members <- ModeAndAngle
  Readings <- AngleAndSpeed
  MaxCmd = 2
  MaxState = 2
INVARIANT WholeState
PROPERTIES StateValue StateArrives UndisturbedCommandArrives
