SPECIFICATION FairSpec
CONSTANTS
  ThreadCount = 2
  ConnectionsPerThread = 3
  InflightOps = 1
  TornSizes = {7}
  Faults = {"accept", "setup"}
  MaxAccepts = 7
INVARIANTS
  
  ServesWithTimer
PROPERTIES
  ShutsDown
  EveryWorkerServes
