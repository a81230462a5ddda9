SPECIFICATION MCSpec
CONSTANTS
  Deployments <- MCDeployments
  Parameters <- MCParameters
  Origins <- MCOrigins
  IterOrder <- Reversed
  MaxBroadcasts = 1
  MaxDrops = 1
  MaxExp = 4
  Pow <- MCPow
INVARIANTS
  RingAgreement
  ContactsClimb
  PortsMatch
  LossContained
  CopiesExplained
PROPERTY EventuallyAll
CHECK_DEADLOCK FALSE
