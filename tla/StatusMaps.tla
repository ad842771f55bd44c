----------------------------- MODULE StatusMaps -----------------------------
(***************************************************************************)
(* The explicit status maps of orders and invoices (packages/billing) and  *)
(* of clients (core/clients.ts): which statuses each may move to from the  *)
(* one it has, pure data that ARCHITECTURE.md names as the only way a      *)
(* status may change.                                                      *)
(***************************************************************************)

OrderStatuses ==
  {"PENDING", "AWAITING_PAYMENT", "PAID", "PROCESSING", "ACTIVE",
   "FRAUD_REVIEW", "CANCELLED", "FRAUD", "REFUNDED", "FAILED"}

ORDER_TRANSITIONS ==
  [s \in OrderStatuses |->
     CASE s = "PENDING"          -> {"AWAITING_PAYMENT", "CANCELLED", "FRAUD_REVIEW"}
       [] s = "AWAITING_PAYMENT" -> {"PAID", "CANCELLED", "FAILED", "FRAUD_REVIEW"}
       [] s = "PAID"             -> {"PROCESSING", "REFUNDED", "FRAUD"}
       [] s = "PROCESSING"       -> {"ACTIVE", "FAILED"}
       [] s = "ACTIVE"           -> {"REFUNDED"}
       [] s = "FRAUD_REVIEW"     -> {"AWAITING_PAYMENT", "CANCELLED", "FRAUD"}
       [] s = "FAILED"           -> {"AWAITING_PAYMENT", "CANCELLED"}
       [] OTHER                  -> {}]

\* Fault: asking for the status an order already has is let through.
Fault_IsValidOrderTransition(from, to) == to = from \/ to \in ORDER_TRANSITIONS[from]

IsValidOrderTransition(from, to) == to \in ORDER_TRANSITIONS[from]

InvoiceStatuses ==
  {"DRAFT", "ISSUED", "UNPAID", "PARTIALLY_PAID", "OVERDUE", "COLLECTIONS",
   "PAID", "CANCELLED", "REFUNDED"}

INVOICE_TRANSITIONS ==
  [s \in InvoiceStatuses |->
     CASE s = "DRAFT"              -> {"ISSUED", "CANCELLED"}
       [] s \in {"ISSUED", "UNPAID"} ->
            {"PARTIALLY_PAID", "PAID", "OVERDUE", "CANCELLED"}
       [] s = "PARTIALLY_PAID"     -> {"PAID", "OVERDUE", "COLLECTIONS", "CANCELLED"}
       [] s = "OVERDUE"            -> {"PARTIALLY_PAID", "PAID", "COLLECTIONS", "CANCELLED"}
       [] s = "COLLECTIONS"        -> {"PAID", "CANCELLED"}
       [] s = "PAID"               -> {"REFUNDED"}
       [] OTHER                    -> {}]

IsValidInvoiceTransition(from, to) == to \in INVOICE_TRANSITIONS[from]

\* What markInvoicePaidManually accepts a payment for.
PayableStatuses == {"ISSUED", "PARTIALLY_PAID", "OVERDUE"}

ClientStatuses == {"PENDING_VERIFICATION", "ACTIVE", "SUSPENDED", "CLOSED"}

CLIENT_TRANSITIONS ==
  [s \in ClientStatuses |->
     CASE s = "PENDING_VERIFICATION" -> {"ACTIVE", "CLOSED"}
       [] s = "ACTIVE"               -> {"SUSPENDED", "CLOSED"}
       [] s = "SUSPENDED"            -> {"ACTIVE", "CLOSED"}
       [] s = "CLOSED"               -> {}]

\* The test in transitionClientStatus.
IsValidClientTransition(from, to) == to \in CLIENT_TRANSITIONS[from]
=============================================================================
