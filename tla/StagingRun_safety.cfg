CONSTANTS
  Files = {f1}
  Sizes = {1, 4, 5}
  LargeFileBytes = 3
  ScanContentLimit = 1
  None = None
  Tick = 2
  Probe = 2
  Settle = 5
  Window = 3
  MaxTime = 4
  MaxVer = 3
SPECIFICATION Spec
CHECK_DEADLOCK FALSE
INVARIANTS TypeOK MarkerIsTrue PassedIsClean
PROPERTIES SkipsAreSound KeepsACopy
