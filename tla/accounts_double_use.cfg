SPECIFICATION Spec
CONSTANTS
  Calls = {c1, c2, c3}
  Customers = {}
  Colleagues = {colleague}
  LongTtl = 1
  ShortTtl = 0
  MaxTime = 1
  None = None
SYMMETRY CallSymmetry
CHECK_DEADLOCK FALSE
PROPERTY SingleUse
