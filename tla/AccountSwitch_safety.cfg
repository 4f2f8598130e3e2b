CONSTANTS
  Switchers = {c1, c2}
  Adders = {c1}
  Sessions = {s1}
  Accounts = {a1, a2}
  None = None
  Blank = Blank
  Crashable = {c1}
  Sleepers = {}
  MaxGen = 3
  MaxBegun = 4
SPECIFICATION Spec
SYMMETRY Symmetry
CHECK_DEADLOCK FALSE
INVARIANTS OneAtATime NoTokenLost StoreHoldsItsOwn PairAgrees LiveStaysCurrent
