\* Two events that fit one request each, but not one together.
SPECIFICATION Spec
CONSTANTS
  Event <- MCEvent
  MaxBinding = 2
  Owner <- MCOwner
  Health <- MCHealth
  Size <- AllFit
  MaxRows = 3
  MaxBatch = 2
  MaxBodyBytes = 1
  MaxClock = 0
  Replay = FALSE
INVARIANT
  OversizedAlone
