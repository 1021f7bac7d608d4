SPECIFICATION FairSpec
CONSTANTS
  Duration = 1
  Period = 20
  Stance = 10
  Bias <- TrotBias
  Steps <- OneOrTwo
  Garbage <- Loose
  Commands <- AnyCommand
INVARIANTS TypeOK Supported SwingsFromFoothold
PROPERTIES LiftsOffAtStart LegsFollowState KeepsStepping
