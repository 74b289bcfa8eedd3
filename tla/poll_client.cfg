SPECIFICATION FairSpec
CONSTANTS
  Threads = {1, 2}
  ConnectionsPerThread = 1
  Fds = {5, 6}
  Faults = {"connect", "setup", "poll", "lost"}
  MaxPasses = 2
INVARIANTS
  NothingLeaks
  ForeignOnlyAfterEarlyLoss
  
PROPERTIES
  DeadlineEndsThreads
