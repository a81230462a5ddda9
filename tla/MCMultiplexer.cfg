CONSTANTS
  Protocols <- MCProtocols
  Pad = 2
  MaxWindow = 24
  MaxPriority = 8
  SidMod = 2
  Fragments = {5}
  Lengths <- MCLengths
  MaxPackets = 3
  MaxSpread = 2
SPECIFICATION Spec
CHECK_DEADLOCK FALSE
INVARIANTS CycleDequeues InOrderPerQueue
PROPERTY AllArrive
