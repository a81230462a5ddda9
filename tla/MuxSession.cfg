CONSTANTS
  MaxPackets = 2
  MaxRead = 4
SPECIFICATION Spec
CHECK_DEADLOCK FALSE
INVARIANTS SecretsAgree FailsOnlyInHandshake HelloThenPackets
PROPERTY HellosArrive
