SPECIFICATION FairSpec
CONSTANTS
  RingSize = 4
  Capacity = 3
  NumRequests = 5
  PageSize = 2
  RegisteredModes = {TRUE, FALSE}
  StupidModes = {TRUE, FALSE}
INVARIANTS
  BlocksSuffice
  CountsExactly
PROPERTIES
  AlwaysEnds
