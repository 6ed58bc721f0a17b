\* Two bindings, three jobs, every crash point; a second launch is possible.
SPECIFICATION FairSpec
CONSTANTS
  Job = {1, 2, 3}
  MaxBinding = 2
  Owner <- MCOwner
  SystemEvent = {2, 3}
  MaxLaunches = 2
INVARIANTS
  LaunchedOnce
  OutcomeKept
  TrueSuccess
  OwnReports
  OneStory
PROPERTY
  OutboxDrains
