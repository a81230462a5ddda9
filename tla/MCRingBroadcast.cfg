SPECIFICATION FairSpec
CONSTANTS
  N = 9
  MaxExp = 4
  Pow <- MCPow
INVARIANT LossIsolation
PROPERTIES
  ImplementsOnce
  EventuallyReached
CHECK_DEADLOCK FALSE
