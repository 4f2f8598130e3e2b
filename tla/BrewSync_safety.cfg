CONSTANTS
  Machines = {m1, m2}
  Refs = {r1}
  MaxTime = 2
  MaxDeeds = 2
  MaxFaults = 1
  MaxRunning = 2
  Upgrades = TRUE
  TakeTurns = FALSE
SPECIFICATION Spec
INVARIANTS OneVerdictEach RetirementIsReal KeepSticks
PROPERTIES NoRollback
SYMMETRY Symmetry
