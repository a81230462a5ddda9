SPECIFICATION GossipSpec
CONSTANTS
  N = 5
  TableSize = 3
  Table <- MCTable
  NumReceivers = 2
  TTL = 3
  Origins <- MCOrigins
  MaxBroadcasts = 1
  MaxDrops = 1
  PullN = 4
  PullTableSize = 2
  PullTable <- MCPullTable
  Workload <- MCWorkload
INVARIANTS
  HopsBounded
  SuccessorsCover
  RequestAnswerable
  MissExplained
PROPERTIES
  ComesToRest
  PullEnds
CHECK_DEADLOCK FALSE
