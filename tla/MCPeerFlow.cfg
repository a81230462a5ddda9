CONSTANTS
  dialled = dialled
  accepted = accepted
  NoPeer = NoPeer
  Conns <- MCConns
  Dialled <- MCDialled
  Capacity = 1
  Sizes = {1, 3}
  MaxSent = 1
  MaxStops = 1
SPECIFICATION FlowSpec
CHECK_DEADLOCK FALSE
INVARIANT EventRestored
PROPERTIES WritesEnd BroadcastEnds
