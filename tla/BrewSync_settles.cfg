CONSTANTS
  Machines = {m1, m2}
  Refs = {r1}
  MaxTime = 1
  MaxDeeds = 2
  MaxFaults = 0
  MaxRunning = 2
  Upgrades = FALSE
  TakeTurns = FALSE
SPECIFICATION FairSpec
PROPERTIES Settles
