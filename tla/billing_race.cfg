SPECIFICATION Spec
CONSTANTS
  Requests = {r1, r2, r3, r4}
  Keys = {k1, k2}
  Totals <- MCTotals
  Amounts <- MCAmounts
  None = None
SYMMETRY BillingSymmetry
INVARIANTS
  TypeOK
  NumbersGapless
  InvoiceBalanced
  PendingIffUninvoiced
  PaidIffSettled
  SomebodyCanGoOn
PROPERTIES
  OrderMovesLegally
  ImplementsLedger
