SPECIFICATION Spec
CONSTANTS
  Calls = {c1, c2, c3, c4}
  Customers = {customer}
  Colleagues = {colleague}
  LongTtl = 1
  ShortTtl = 0
  MaxTime = 1
  None = None
SYMMETRY CallSymmetry
CHECK_DEADLOCK FALSE
INVARIANTS
  TypeOK
  LinkOrTrouble
  PasswordFromOwnLink
  SpentIffEffective
  StatusExplained
PROPERTIES
  ClosedForGood
  ActivatedOnce
