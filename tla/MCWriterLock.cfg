\* Five processes of three pids: pids are used again.
SPECIFICATION FairSpec
CONSTANTS
  Pid = {old, a, b}
  Legacy = old
  NoPid = none
  Linux = TRUE
  MaxRuns = 5
  MaxBoots = 2
INVARIANTS
  OneWriter
PROPERTIES
  UnknownOwnerKept
  WriterReturns
CHECK_DEADLOCK FALSE
