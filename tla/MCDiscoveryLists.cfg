CONSTANTS
  IdBits = 4
  Pow <- MCPow
  K = 2
  B = 2
  Idle = 2
  Timeout = 1
  PerSecond = 2
  Concurrency = 3
  This = 12
  Remotes <- MCRemotes
  MaxBoot = 2
  MaxList = 1
  MaxNow = 3
  MaxPackets = 4
  Nodes <- MCNodes
  Boot = 12
  Mobile = {4}
  Expiration = 1
  PacketNodes = 2
  MaxTime = 2
  MaxRestarts = 1
  MaxLost = 1
SPECIFICATION MCSpec
CHECK_DEADLOCK FALSE
PROPERTY LearnedFromOwner
