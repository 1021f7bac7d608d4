SPECIFICATION FairSpec
CONSTANTS
  r1 = r1
  Members <- Velocities
  Readings <- OneReading
  MaxCmd = 3
  MaxState = 2
  Keys <- SomeKeys
  MaxTyped = 1
INVARIANT NothingOvertakes
PROPERTIES
  CommandValue StateValue MoveBaseValue
  LastTwistArrives ReleasedKeysStop MoveBaseStops
