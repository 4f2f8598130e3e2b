CONSTANTS
  Procs = {p1, p2, p3}
  Edits = {}
  Nobody = Nobody
  Crashable = {}
  Sleepers = {}
SPECIFICATION Spec
INVARIANTS LockedUpdatesSurvive
PROPERTY ImplementsCAS
