SPECIFICATION FairProgramSpec
CONSTANTS
  EntryCounts = {0, 3, 64, 100, 20000, 40000}
  AppBuffers = {0, 16384, 2097152}
  Callers = {"program", "probe", "mlock_size"}
  PoolCapacity = 2
  ServeRingSize = 4
  ServeThreads = {1, 2}
  ServeModes <- MCModes
  MaxOperations = 3
  StreamThreads = 2
  StreamRequests = 3
  StreamRingSize = 1
  StreamPageSize = 7
  StreamFaults = {"connect", "short", "reset", "exit"}
  ClientOps = 2
  ServerOps = 1
  RequestSize = 2
  PairPageSize = 3
  PairCapacity = 3
  PairFaults = {"short", "lost"}
  MaxRequests = 1
  MaxShortfall = 2
  ClientSources <- MCClientSources
  ServerSources <- MCServerSources
  PagesFaults = {"setup", "accept", "split", "reset"}
  BatchRequests = 3
  BatchSize = 2
  BatchRingSize = 4
  ClientPages = 2
  ServerPages = 2
  BatchFaults = {"setup", "split", "short", "reset"}
  MaxLosses = 1
  NumIterations = 5
  BurstSize = 2
  NumMbufs = 8
  RxRingSize = 2
  TxRingSize = 3
  Routes <- MCRoutes
  FrameFaults = {"setup", "foreign", "lost", "no reply"}
  MaxForeign = 2
  FutureRequests = 3
  FutureFaults = {"connect", "reset", "server ends"}
  Parallel = 2
  TaskPageSize = 2
  TaskCapacity = 3
  MaxWritten = 4
  TaskFaults = {"connect", "accept", "reset"}
  Environments <- MCEnvironments
  MaxCompleted = 1
  MaxRuns = 3
INVARIANTS
  
  
  StreamCounted
  PagesAnswered
  BatchesAnswered
  FramesCounted
  
  
PROPERTIES
  ProgramsEnd
CHECK_DEADLOCK FALSE
