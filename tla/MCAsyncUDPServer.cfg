SPECIFICATION FairSpec
CONSTANTS
  Data = {a, b}
  MaxArrivals = 4
PROPERTIES
  ImplementsFifo
  EventuallyDelivered
CHECK_DEADLOCK FALSE
