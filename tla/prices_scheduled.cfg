SPECIFICATION TurnsSpec
CONSTANTS
  Changes = {c1, c2, c3, c4}
  Creations = {c1, c2}
  Lookups = {p1, o1}
  Pages = {p1}
  Orders = {o1}
  Groups = {g1}
  NoGroup = NoGroup
  Leads <- MCLeads
  MaxTime = 2
  Forever = Forever
  None = None
SYMMETRY PriceSymmetry
CHECK_DEADLOCK FALSE
INVARIANT NeverTwoPrices
