---------------------------- MODULE BillingSerial ----------------------------
(***************************************************************************)
(* Billing when staff take turns: while one payment or cancellation is     *)
(* open no other one is, whatever the ordering clients do meanwhile.       *)
(* Nothing in the code enforces the turns; this module states what the     *)
(* ledger keeps as long as they are kept, and MCBilling shows which of it  *)
(* is lost when they are not.                                              *)
(***************************************************************************)
EXTENDS Billing

StaffRequests == {r \in Requests : tx[r].op \in {"pay", "cancel"}}

StaffTakeTurns == \A r, q \in StaffRequests : r = q

SerialNext == Next /\ StaffTakeTurns'

SerialSpec == Init /\ [][SerialNext]_vars

-----------------------------------------------------------------------------

\* What the rows of an invoice's StatusHistory say was paid.
Recorded(h) ==
  LET recorded[n \in 0..Len(h)] == IF n = 0 THEN 0 ELSE recorded[n-1] + h[n].amount
  IN  recorded[Len(h)]

\* What an invoice says was paid is what staff recorded against it
\* (markInvoicePaidManually writes an absolute amountPaid).
PaymentsAddUp == \A i \in Issued : Recorded(invoiceHistory[i]) = invoices[i].paid

\* An invoice's status only ever moves along INVOICE_TRANSITIONS; a paid one
\* is not taken for unpaid again and a cancelled one does not come back,
\* although payments and cancellations write by id what they checked earlier.
InvoiceMovesLegally ==
  [][\A i \in Issued :
       invoices'[i].status # invoices[i].status =>
         IsValidInvoiceTransition(invoices[i].status, invoices'[i].status)]_vars

Chained(h) == \A n \in 2..Len(h) : h[n].from = h[n-1].to

\* StatusHistory tells one story: each row of an order or an invoice starts
\* from the status the row before it reached.
HistoryChained ==
  /\ \A o \in Requests : Chained(orderHistory[o])
  /\ \A i \in Requests : Chained(invoiceHistory[i])

Settled(i) == \E n \in DOMAIN invoiceHistory[i] : invoiceHistory[i][n].to = "PAID"

\* However many invoices the retries of a placement issued for an order, at
\* most one of them is ever settled: PAID cannot move to PAID in the map.
SettledOnce ==
  \A i, j \in Issued :
    invoices[i].order = invoices[j].order /\ Settled(i) /\ Settled(j) => i = j
=============================================================================
