SPECIFICATION Spec
CONSTANTS
  Data = {1}
  SqEntries = 2
  CqEntries = 2
  Wrap = 4
  Kinds = {"old plain"}
  FaultyKinds = {}
  MaxTimeouts = 1
INVARIANTS
  AlwaysReturnsCqeOrError
CHECK_DEADLOCK FALSE
