CONSTANTS
  Procs = {p1, p2}
  Edits = {e1}
  Nobody = Nobody
  Crashable = {p1}
  Sleepers = {p2}
SPECIFICATION FairSpec
PROPERTY DeadLockIsBroken
