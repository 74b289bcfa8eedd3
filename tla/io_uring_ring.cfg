SPECIFICATION FairSpec
CONSTANTS
  Data = {1, 2, 3}
  SqEntries = 2
  CqEntries = 2
  Wrap = 4
  Kinds = {"sqpoll", "old plain"}
  FaultyKinds = {"plain"}
  MaxTimeouts = 1
INVARIANTS
  RingSound
  ReturnsCqeOrError
PROPERTIES
  Implements
  NoLostWakeup
  TimedWaitReturns
CHECK_DEADLOCK FALSE
