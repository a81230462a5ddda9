CONSTANTS
  Services <- MCServices
  MaxCmd <- MCMaxCmd
  Offers <- MCOffers
  Threshold = 1
  MaxSent <- MCMaxSent
  MaxWire = 1
SPECIFICATION Spec
CHECK_DEADLOCK FALSE
INVARIANTS RightProtocol EachStartStopped SilenceEnds
PROPERTY NoHalfOpen
