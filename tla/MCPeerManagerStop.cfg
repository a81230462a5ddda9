CONSTANTS
  n1 = n1
  n2 = n2
  n3 = n3
  None = None
  Nodes <- MCNodes
  bootstrap_nodes <- MCBoot
  min_peers = 1
  max_peers <- MCmax_peers
  MayStop <- MCMayStop
  MaxConns = 2
  MaxDrops = 0
SPECIFICATION Spec
CHECK_DEADLOCK FALSE
PROPERTY StopLeavesNoPeer
