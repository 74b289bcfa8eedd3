SPECIFICATION Spec
CONSTANTS
  ConnectionFds <- TwoConnections
  InflightOps = 2
  QueueDepth = 3
  Modes = {TRUE}
  Scenarios <- Undisturbed
  MaxPasses = 1
INVARIANTS
  ClosedMeansClosed
