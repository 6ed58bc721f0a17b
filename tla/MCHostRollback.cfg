\* One failure of the activation, with a manager older than the package.
SPECIFICATION Spec
CONSTANTS
  None = None
  Older = {TRUE}
  MaxWork = 0
  MaxFaults = 1
  Late = FALSE
INVARIANT FailureRestores
CHECK_DEADLOCK FALSE
