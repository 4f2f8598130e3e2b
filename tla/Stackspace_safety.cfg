CONSTANTS
  Work = {w1, w2}
  None = None
  MaxRev = 2
  MaxOdd = 2
SPECIFICATION Spec
INVARIANTS WorkLeavesFirst CursorTellsTheTruth NothingReverted
SYMMETRY Symmetry
CHECK_DEADLOCK FALSE
