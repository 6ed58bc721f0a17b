\* The binding changes while the answer of a poll is on its way.
SPECIFICATION FairSpec
CONSTANTS
  Job = {1, 2}
  MaxBinding = 2
  Owner <- RebindOwner
  SystemEvent = {2}
  MaxLaunches = 2
PROPERTY
  LaunchedByOwner
