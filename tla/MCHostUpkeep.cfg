SPECIFICATION FairSpec
CONSTANTS
  None = None
  Older = {FALSE}
  MaxWork = 1
  MaxFaults = 1
  Late = FALSE
INVARIANTS
  InstallsBounded
  SourceSafe
PROPERTIES
  WorkSurvives
  Resumes
CHECK_DEADLOCK FALSE
