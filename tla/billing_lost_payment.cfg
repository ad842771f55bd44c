SPECIFICATION Spec
CONSTANTS
  Requests = {r1, r2, r3}
  Keys = {k1}
  Totals <- TwoPartTotals
  Amounts <- TwoPartAmounts
  None = None
INVARIANT PaymentsAddUp
