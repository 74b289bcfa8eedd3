SPECIFICATION FairSpec
CONSTANTS
  Fds = {7, 8}
  ConnectionsPerThread = 2
  InflightOps = 4
  QueueDepth = 3
  Modes = {TRUE, FALSE}
  Faults = {"connect", "setup", "submit", "wait", "again", "error"}
  MaxRequests = 1
INVARIANTS
  InflightAccounting
  OneOpPerBuffer
  BufferKeepsConnection
  SqeAlwaysAvailable
PROPERTIES
  NoRequestAfterDeadline
  HalfDuplexEnds
