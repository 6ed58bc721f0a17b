\* Two messages and a run of none, two records, one agent event under way.
SPECIFICATION FairSpec
CONSTANTS
  m1 = m1
  m2 = m2
  r1 = r1
  r2 = r2
  r3 = r3
  None = None
  Retired = Retired
  Msg = {m1, m2}
  Run = {r1, r2, r3}
  Of <- MCOf
  Outer <- MCOuter
  MaxRuns = 2
  MaxWire = 1
  Scenario <- MCScenario
INVARIANTS
  OneEnding
  OpenKept
PROPERTIES
  RefusalHarmless
  CurrentCloses
CHECK_DEADLOCK FALSE
