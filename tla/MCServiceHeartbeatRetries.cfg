\* The three attempts of the document; nothing fails but the heartbeat.
SPECIFICATION JointFairSpec
CONSTANTS
  Overlap = FALSE
  MaxStops = 0
  MaxFaults = 0
  MaxStarts = 1
  MaxFailures = 3
PROPERTY
  RetriesBounded
CHECK_DEADLOCK FALSE
