\* Three bindings, three events and room for two of them in the spool; one row
\* a request, so that the order of the queue decides who is sent; every
\* crash point.
SPECIFICATION FairSpec
CONSTANTS
  Event <- MCEvent
  MaxBinding = 3
  Owner <- MCOwner
  Health <- MCHealth
  Size <- MCSize
  MaxRows = 2
  MaxBatch = 1
  MaxBodyBytes = 1
  MaxClock = 1
  Replay = FALSE
INVARIANTS
  NoLoss
  NoCrossBinding
  WakeArmed
PROPERTIES
  CustodySpec
  Drains
  HealthGetsThrough
