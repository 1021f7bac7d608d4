SPECIFICATION FairSpec
CONSTANTS
  Period = 20
  Stance = 10
  Bias <- Trot20Bias
  Statuses <- Walking
  Steps <- OneMore
  Rewinds <- Never
  Garbage <- Zeroed

PROPERTIES LinearWave
