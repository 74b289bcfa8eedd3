SPECIFICATION FairSpec
CONSTANTS
  ConnectionFds <- TwoConnections
  InflightOps = 2
  QueueDepth = 3
  Modes = {TRUE, FALSE}
  Scenarios <- ThreeScenarios
  MaxPasses = 2
INVARIANTS
  InflightAccounting
  OneReceivePerBuffer
  
  ClosedMeansClosedOrReleased
PROPERTIES
  LossIsNeverConsumed
  DeadlineEndsWorker
