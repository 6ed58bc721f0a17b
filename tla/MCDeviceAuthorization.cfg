\* Two requests, one after the other; any await of a process may be its last.
SPECIFICATION FairSpec
CONSTANTS
  Req = {1, 2}
  Early = {1}
  Old = Old
  None = None
  Overlap = FALSE
  MaxFaults = 1
INVARIANTS
  ToldOnce
PROPERTIES
  HealthyKept
  CompletionTrue
  Connects
CHECK_DEADLOCK FALSE
