SPECIFICATION FairSpec
CONSTANTS
  ThreadCount = 2
  ConnectionsPerThread = 1
  Fds = {5, 6}
  Faults = {"poll", "lost"}
  MaxAccepts = 3
  MaxPasses = 1
INVARIANTS
  
  NothingServedLeaks
PROPERTIES
  ShutsDown
