SPECIFICATION FairSpec
CONSTANTS
  Period = 20
  Stance = 15
  Bias <- Crawl20Bias
  Statuses <- AnyStatus
  Steps <- OneMore
  Rewinds <- Past
  Garbage <- Uninitialised
INVARIANTS TypeOK PhaseInRange
PROPERTIES KeepsOldPattern SwitchSettles ImplementsGaitPattern
