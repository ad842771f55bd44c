SPECIFICATION SerialSpec
CONSTANTS
  Requests = {r1, r2, r3, r4, r5}
  Keys = {k1}
  Totals <- MCTotals
  Amounts <- MCAmounts
  None = None
SYMMETRY BillingSymmetry
INVARIANTS
  PaymentsAddUp
  HistoryChained
  SettledOnce
PROPERTY InvoiceMovesLegally
