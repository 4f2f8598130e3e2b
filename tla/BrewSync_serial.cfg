CONSTANTS
  Machines = {m1, m2}
  Refs = {r1}
  MaxTime = 3
  MaxDeeds = 3
  MaxFaults = 1
  MaxRunning = 1
  Upgrades = FALSE
  TakeTurns = TRUE
SPECIFICATION Spec
PROPERTIES NoSilentReinstall
SYMMETRY Symmetry
