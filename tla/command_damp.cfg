SPECIFICATION Spec
CONSTANTS
  s1 = s1
  s2 = s2
  Shell <- One
  Command <- DampOnly
  Interruptible <- Nobody
  Prompt = TRUE
  Dashboard = FALSE
INVARIANT DampHolds
