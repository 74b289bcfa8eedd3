SPECIFICATION FairSpec
CONSTANTS
  Fds = {7, 8}
  ConnectionsPerThread = 2
  InflightOps = 2
  QueueDepth = 2
  Modes = {FALSE}
  Faults = {}
  MaxRequests = 2
PROPERTIES
  DeadlineEndsThread
CHECK_DEADLOCK FALSE
