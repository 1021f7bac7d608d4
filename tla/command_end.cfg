SPECIFICATION FairSpec
CONSTANTS
  s1 = s1
  s2 = s2
  Shell <- Two
  Command <- AnyScript
  Interruptible <- One
  Prompt = TRUE
  Dashboard = TRUE
INVARIANT EndedIdle
PROPERTIES EndsIdle RecoversIdle
