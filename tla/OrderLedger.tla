----------------------------- MODULE OrderLedger -----------------------------
(***************************************************************************)
(* What billing promises about orders, each step of it indivisible: one    *)
(* order per idempotency key, consecutive order and invoice numbers, an    *)
(* order that awaits payment from its first invoice on, and that is paid   *)
(* once and for all after it was billed.  Billing implements it with       *)
(* transactions that interleave, wait and abort.                           *)
(***************************************************************************)
EXTENDS Integers

CONSTANTS Orders, Invoices, Keys, None

VARIABLES
  status,         \* status of each order, "NONE" before it is placed
  key,            \* idempotency key of each order
  orderNumber,    \* number of each order, 0 before it is placed
  billedOrder,    \* the order each invoice bills, None before it is issued
  invoiceNumber,  \* number of each invoice, 0 before it is issued
  lastOrder,      \* the last order number given out
  lastInvoice     \* the last invoice number given out

vars == <<status, key, orderNumber, billedOrder, invoiceNumber, lastOrder, lastInvoice>>

Init ==
  /\ status = [o \in Orders |-> "NONE"]
  /\ key = [o \in Orders |-> None]
  /\ orderNumber = [o \in Orders |-> 0]
  /\ billedOrder = [i \in Invoices |-> None]
  /\ invoiceNumber = [i \in Invoices |-> 0]
  /\ lastOrder = 0
  /\ lastInvoice = 0

PlaceOrder(o, k) ==
  /\ status[o] = "NONE"
  /\ \A p \in Orders : status[p] # "NONE" => key[p] # k
  /\ status' = [status EXCEPT ![o] = "PENDING"]
  /\ key' = [key EXCEPT ![o] = k]
  /\ lastOrder' = lastOrder + 1
  /\ orderNumber' = [orderNumber EXCEPT ![o] = lastOrder + 1]
  /\ UNCHANGED <<billedOrder, invoiceNumber, lastInvoice>>

IssueInvoice(i, o) ==
  /\ invoiceNumber[i] = 0
  /\ status[o] # "NONE"
  /\ status' = [status EXCEPT ![o] = IF @ = "PENDING" THEN "AWAITING_PAYMENT" ELSE @]
  /\ billedOrder' = [billedOrder EXCEPT ![i] = o]
  /\ lastInvoice' = lastInvoice + 1
  /\ invoiceNumber' = [invoiceNumber EXCEPT ![i] = lastInvoice + 1]
  /\ UNCHANGED <<key, orderNumber, lastOrder>>

SettleOrder(o) ==
  /\ status[o] = "AWAITING_PAYMENT"
  /\ \E i \in Invoices : billedOrder[i] = o
  /\ status' = [status EXCEPT ![o] = "PAID"]
  /\ UNCHANGED <<key, orderNumber, billedOrder, invoiceNumber, lastOrder, lastInvoice>>

Next ==
  \/ \E o \in Orders, k \in Keys : PlaceOrder(o, k)
  \/ \E i \in Invoices, o \in Orders : IssueInvoice(i, o)
  \/ \E o \in Orders : SettleOrder(o)

Spec == Init /\ [][Next]_vars
=============================================================================
