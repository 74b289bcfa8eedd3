SPECIFICATION Spec
CONSTANTS
  Threads = {1, 2}
  ConnectionsPerThread = 1
  Fds = {5, 6}
  Faults = {"lost"}
  MaxPasses = 1
PROPERTIES
  ClosesOnlyLost
