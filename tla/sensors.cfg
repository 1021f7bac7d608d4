SPECIFICATION FairSpec
CONSTANTS
  MaxSent = 3
  MaxShort = 1
  MaxPolls = 2
INVARIANT LagBounded
PROPERTIES SensorValue SilenceShown
