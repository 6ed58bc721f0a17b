\* One stop and three failed starts; two supervisors, the first with a flight
\* that may outlive its service.
SPECIFICATION JointFairSpec
CONSTANTS
  Overlap = FALSE
  MaxStops = 1
  MaxFaults = 3
  MaxStarts = 2
  MaxFailures = 2
INVARIANTS
  Whole
  StopIsFinal
  Supervised
  ReadyIsFresh
  BeatOfTheLiving
  RequestHeard
PROPERTIES
  ComesBack
  Recovers
CHECK_DEADLOCK FALSE
