SPECIFICATION Spec
CONSTANTS
  Members <- ModeAndAngle
  Readings <- AngleAndSpeed
  MaxCmd = 2
  MaxState = 2
INVARIANT WholeCommand
