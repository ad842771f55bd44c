------------------------------- MODULE Billing -------------------------------
(***************************************************************************)
(* Orders, invoices and manual payments of one tenant (packages/billing),  *)
(* run by concurrent server requests over one PostgreSQL database.         *)
(*                                                                         *)
(* A request runs ONE server action once: placing an order (createOrder,   *)
(* then issueInvoiceForOrder in a transaction of its own), recording a     *)
(* payment, or cancelling an invoice.  The order and the invoice a request *)
(* creates carry the request's name, so a retry is another request with    *)
(* the same idempotency key.                                               *)
(*                                                                         *)
(* Every SQL statement that reads or locks shared rows is an action.  The  *)
(* database runs at READ COMMITTED and the reads take no lock, so a        *)
(* statement sees what was committed when it ran.  The writes of an open   *)
(* transaction are invisible to the others: they stay in the request's     *)
(* private record tx[r] until its commit action publishes them, and all    *)
(* that the others notice meanwhile is the row locks, which the Holds...   *)
(* operators read off the program counter.                                 *)
(***************************************************************************)
EXTENDS Integers, Sequences, StatusMaps

CONSTANTS
  Requests,    \* the requests that may arrive, each of them run once
  Keys,        \* idempotency keys a client may submit
  Totals,      \* order totals the catalogue can come to, in minor units
  Amounts,     \* payment amounts staff may type, in minor units
  None         \* no order, no invoice, no key

ASSUME BillingAssumption ==
  /\ None \notin Requests \cup Keys
  /\ Totals \subseteq Int
  /\ Amounts \subseteq Int

VARIABLES
  orders,          \* committed orders
  invoices,        \* committed invoices
  counters,        \* committed rows of Counter: order_number, invoice_number
  orderHistory,    \* committed StatusHistory rows of each order
  invoiceHistory,  \* committed StatusHistory rows of each invoice
  pc,              \* the statement each request runs next, or how it ended
  tx               \* what each request has read and not yet committed

db   == <<orders, invoices, counters, orderHistory, invoiceHistory>>
vars == <<orders, invoices, counters, orderHistory, invoiceHistory, pc, tx>>

-----------------------------------------------------------------------------
(* Rows *)

NoOrder   == [status |-> "NONE", key |-> None, number |-> 0, total |-> 0]
NoInvoice == [status |-> "NONE", order |-> None, number |-> 0,
              total |-> 0, paid |-> 0, due |-> 0]

Placed == {o \in Requests : orders[o].status # "NONE"}
Issued == {i \in Requests : invoices[i].status # "NONE"}

HistoryRow(from, to, amount) == [from |-> from, to |-> to, amount |-> amount]

NoTx == [op |-> "none",
         key |-> None, number |-> 0, total |-> 0,
         order |-> None, orderStatus |-> "NONE", orderFrom |-> "NONE",
         invoice |-> None, invoiceFrom |-> "NONE", paid |-> 0, amount |-> 0]

-----------------------------------------------------------------------------
(* Locks: held from the statement that takes them to the end of the        *)
(* transaction.                                                            *)

HoldsOrderCounter(r) == pc[r] \in {"insertOrder", "commitOrder"}

HoldsInvoiceCounter(r) ==
  /\ tx[r].op = "place"
  /\ pc[r] \in {"insertInvoice", "readOrder", "updateOrder", "commitInvoice"}

\* Fault: the read of an order takes a share lock on it, which the update
\* has to upgrade.
Fault_HoldsOrder(r, o) ==
  /\ tx[r].order = o /\ tx[r].orderFrom # "NONE"
  /\ pc[r] \in {"updateOrder", "commitInvoice", "commitPayment"}

HoldsOrder(r, o) ==
  /\ tx[r].order = o /\ tx[r].orderFrom # "NONE"
  /\ pc[r] \in {"commitInvoice", "commitPayment"}

HoldsInvoice(r, i) ==
  /\ tx[r].invoice = i
  /\ \/ pc[r] \in {"commitPayment", "commitCancel"}
     \/ tx[r].op = "pay" /\ pc[r] \in {"readOrder", "updateOrder"}

\* The unique-index entries of a row not yet committed make a second insert
\* of the same key or the same number wait.
HoldsOrderEntry(r, k, n) ==
  pc[r] = "commitOrder" /\ (tx[r].key = k \/ tx[r].number = n)

HoldsInvoiceEntry(r, n) ==
  /\ tx[r].op = "place" /\ tx[r].number = n
  /\ pc[r] \in {"readOrder", "updateOrder", "commitInvoice"}

\* q holds what the next statement of r has to lock.
Blocks(q, r) ==
  \/ pc[r] = "drawOrderNumber" /\ HoldsOrderCounter(q)
  \/ pc[r] = "insertOrder" /\ HoldsOrderEntry(q, tx[r].key, tx[r].number)
  \/ pc[r] = "drawInvoiceNumber" /\ HoldsInvoiceCounter(q)
  \/ pc[r] = "insertInvoice" /\ HoldsInvoiceEntry(q, tx[r].number)
  \/ pc[r] = "updateOrder" /\ HoldsOrder(q, tx[r].order)
  \/ pc[r] \in {"updateInvoice", "cancelInvoice"} /\ HoldsInvoice(q, tx[r].invoice)

Unblocked(r) == \A q \in Requests \ {r} : ~Blocks(q, r)

-----------------------------------------------------------------------------

Init ==
  /\ orders         = [o \in Requests |-> NoOrder]
  /\ invoices       = [i \in Requests |-> NoInvoice]
  /\ counters       = [order_number |-> 0, invoice_number |-> 0]
  /\ orderHistory   = [o \in Requests |-> << >>]
  /\ invoiceHistory = [i \in Requests |-> << >>]
  /\ pc             = [r \in Requests |-> "idle"]
  /\ tx             = [r \in Requests |-> NoTx]

Ended == {"done", "refused", "duplicate", "aborted"}

Goto(r, statement) == pc' = [pc EXCEPT ![r] = statement]

\* The request is over: the transaction it had open, if any, is gone.
End(r, outcome) ==
  /\ pc' = [pc EXCEPT ![r] = outcome]
  /\ tx' = [tx EXCEPT ![r] = NoTx]

-----------------------------------------------------------------------------
(* createOrder *)

OrdersWithKey(k) == {o \in Placed : orders[o].key = k}

\* The lookup by idempotency key, outside any transaction: an order that is
\* there already is returned and goes straight to issueInvoiceForOrder.
PlaceOrder(r) ==
  /\ pc[r] = "idle"
  /\ \E k \in Keys :
       \/ /\ OrdersWithKey(k) = {}
          /\ tx' = [tx EXCEPT ![r] = [NoTx EXCEPT !.op = "place", !.key = k]]
          /\ Goto(r, "drawOrderNumber")
       \/ \E o \in OrdersWithKey(k) :
          /\ tx' = [tx EXCEPT ![r] =
                      [NoTx EXCEPT !.op = "place", !.key = k, !.order = o,
                                   !.orderStatus = orders[o].status,
                                   !.total = orders[o].total]]
          /\ Goto(r, "drawInvoiceNumber")
  /\ UNCHANGED db

\* The price lookups may find no price in force, which ends the request.
RefuseOrder(r) ==
  /\ pc[r] = "drawOrderNumber"
  /\ End(r, "refused")
  /\ UNCHANGED db

\* Fault: the counter is incremented in a transaction of its own.
Fault_DrawOrderNumber(r) ==
  /\ pc[r] = "drawOrderNumber"
  /\ \E t \in Totals :
       tx' = [tx EXCEPT ![r].number = counters.order_number + 1, ![r].total = t]
  /\ counters' = [counters EXCEPT !.order_number = @ + 1]
  /\ Goto(r, "insertOrder")
  /\ UNCHANGED <<orders, invoices, orderHistory, invoiceHistory>>

\* nextSequenceNumber("order_number"): the upsert waits for the row's lock.
DrawOrderNumber(r) ==
  /\ pc[r] = "drawOrderNumber"
  /\ Unblocked(r)
  /\ \E t \in Totals :
       tx' = [tx EXCEPT ![r].number = counters.order_number + 1, ![r].total = t]
  /\ Goto(r, "insertOrder")
  /\ UNCHANGED db

\* The unique indexes on (tenantId, idempotencyKey) and (tenantId, orderNumber).
OrderClashes(r) ==
  \E o \in Placed : orders[o].key = tx[r].key \/ orders[o].number = tx[r].number

InsertOrder(r) ==
  /\ pc[r] = "insertOrder"
  /\ Unblocked(r)
  /\ \/ OrderClashes(r) /\ End(r, "duplicate")
     \/ ~OrderClashes(r) /\ Goto(r, "commitOrder") /\ UNCHANGED tx
  /\ UNCHANGED db

\* Fault: the order is created as if its invoice were out.
Fault_CommitOrder(r) ==
  /\ pc[r] = "commitOrder"
  /\ orders' = [orders EXCEPT ![r] = [status |-> "AWAITING_PAYMENT", key |-> tx[r].key,
                                      number |-> tx[r].number, total |-> tx[r].total]]
  /\ counters' = [counters EXCEPT !.order_number = tx[r].number]
  /\ orderHistory' = [orderHistory EXCEPT ![r] =
                        Append(@, HistoryRow("NONE", "AWAITING_PAYMENT", 0))]
  /\ tx' = [tx EXCEPT ![r].order = r, ![r].orderStatus = "AWAITING_PAYMENT",
                      ![r].number = 0]
  /\ Goto(r, "drawInvoiceNumber")
  /\ UNCHANGED <<invoices, invoiceHistory>>

CommitOrder(r) ==
  /\ pc[r] = "commitOrder"
  /\ orders' = [orders EXCEPT ![r] = [status |-> "PENDING", key |-> tx[r].key,
                                      number |-> tx[r].number, total |-> tx[r].total]]
  /\ counters' = [counters EXCEPT !.order_number = tx[r].number]
  /\ orderHistory' = [orderHistory EXCEPT ![r] =
                        Append(@, HistoryRow("NONE", "PENDING", 0))]
  /\ tx' = [tx EXCEPT ![r].order = r, ![r].orderStatus = "PENDING", ![r].number = 0]
  /\ Goto(r, "drawInvoiceNumber")
  /\ UNCHANGED <<invoices, invoiceHistory>>

-----------------------------------------------------------------------------
(* issueInvoiceForOrder, given the order as createOrder returned it *)

\* Fault: the counter is incremented in a transaction of its own, so nothing
\* keeps two issuers apart any more.
Fault_DrawInvoiceNumber(r) ==
  /\ pc[r] = "drawInvoiceNumber"
  /\ tx' = [tx EXCEPT ![r].number = counters.invoice_number + 1]
  /\ counters' = [counters EXCEPT !.invoice_number = @ + 1]
  /\ Goto(r, "insertInvoice")
  /\ UNCHANGED <<orders, invoices, orderHistory, invoiceHistory>>

DrawInvoiceNumber(r) ==
  /\ pc[r] = "drawInvoiceNumber"
  /\ Unblocked(r)
  /\ tx' = [tx EXCEPT ![r].number = counters.invoice_number + 1]
  /\ Goto(r, "insertInvoice")
  /\ UNCHANGED db

\* The unique index on (tenantId, invoiceNumber).
InvoiceClashes(r) == \E i \in Issued : invoices[i].number = tx[r].number

\* Fault: the order is left where it is.
Fault_InsertInvoice(r) ==
  /\ pc[r] = "insertInvoice"
  /\ Goto(r, "commitInvoice")
  /\ UNCHANGED <<db, tx>>

\* invoice.create; the order moves only if the caller's copy says PENDING.
InsertInvoice(r) ==
  /\ pc[r] = "insertInvoice"
  /\ Unblocked(r)
  /\ IF InvoiceClashes(r)
     THEN End(r, "duplicate")
     ELSE /\ Goto(r, IF tx[r].orderStatus = "PENDING" THEN "readOrder" ELSE "commitInvoice")
          /\ UNCHANGED tx
  /\ UNCHANGED db

-----------------------------------------------------------------------------
(* transitionOrderStatus, called by issueInvoiceForOrder and by            *)
(* markInvoicePaidManually inside their transactions                       *)

OrderTarget(r) == IF tx[r].op = "place" THEN "AWAITING_PAYMENT" ELSE "PAID"

ReadOrder(r) ==
  /\ pc[r] = "readOrder"
  /\ LET from == orders[tx[r].order].status
     IN \/ /\ IsValidOrderTransition(from, OrderTarget(r))
           /\ tx' = [tx EXCEPT ![r].orderFrom = from]
           /\ Goto(r, "updateOrder")
        \/ /\ ~IsValidOrderTransition(from, OrderTarget(r))
           /\ End(r, "refused")
  /\ UNCHANGED db

UpdateOrder(r) ==
  /\ pc[r] = "updateOrder"
  /\ Unblocked(r)
  /\ Goto(r, IF tx[r].op = "place" THEN "commitInvoice" ELSE "commitPayment")
  /\ UNCHANGED <<db, tx>>

\* What a commit publishes of the order's move, when the transaction made one.
PublishOrderMove(r) ==
  LET o == tx[r].order IN
  IF tx[r].orderFrom = "NONE"
  THEN UNCHANGED <<orders, orderHistory>>
  ELSE /\ orders' = [orders EXCEPT ![o].status = OrderTarget(r)]
       /\ orderHistory' = [orderHistory EXCEPT ![o] =
                             Append(@, HistoryRow(tx[r].orderFrom, OrderTarget(r), 0))]

CommitInvoice(r) ==
  /\ pc[r] = "commitInvoice"
  /\ invoices' = [invoices EXCEPT ![r] =
                    [status |-> "ISSUED", order |-> tx[r].order,
                     number |-> tx[r].number, total |-> tx[r].total,
                     paid |-> 0, due |-> tx[r].total]]
  /\ counters' = [counters EXCEPT !.invoice_number = tx[r].number]
  /\ invoiceHistory' = [invoiceHistory EXCEPT ![r] =
                          Append(@, HistoryRow("NONE", "ISSUED", 0))]
  /\ PublishOrderMove(r)
  /\ End(r, "done")

-----------------------------------------------------------------------------
(* markInvoicePaidManually *)

\* Fault: the invoice's status is not looked at.
Fault_AcceptsPayment(i, a) == invoices[i].paid + a <= invoices[i].total

AcceptsPayment(i, a) ==
  /\ invoices[i].status \in PayableStatuses
  /\ invoices[i].paid + a <= invoices[i].total

ReadInvoiceForPayment(r, i, a) ==
  /\ pc[r] = "idle"
  /\ \/ /\ a > 0 /\ AcceptsPayment(i, a)
        /\ tx' = [tx EXCEPT ![r] =
                    [NoTx EXCEPT !.op = "pay", !.invoice = i, !.amount = a,
                                 !.invoiceFrom = invoices[i].status,
                                 !.total = invoices[i].total,
                                 !.paid = invoices[i].paid + a,
                                 !.order = invoices[i].order]]
        /\ Goto(r, "updateInvoice")
     \/ /\ a <= 0 \/ ~AcceptsPayment(i, a)
        /\ End(r, "refused")
  /\ UNCHANGED db

\* The form on an invoice's page, with whatever amount was typed; one that is
\* no amount is turned away like one that is not positive.
markInvoicePaidAction(r) ==
  \E i \in Issued, a \in Amounts : ReadInvoiceForPayment(r, i, a)

\* Fault: a part payment leaves the invoice "unpaid".
Fault_PaymentStatus(r) == IF tx[r].total - tx[r].paid = 0 THEN "PAID" ELSE "UNPAID"

PaymentStatus(r) == IF tx[r].total - tx[r].paid = 0 THEN "PAID" ELSE "PARTIALLY_PAID"

\* Fault: every payment drives the order on, not only the settling one.
Fault_UpdateInvoice(r) ==
  /\ pc[r] = "updateInvoice"
  /\ Unblocked(r)
  /\ Goto(r, "readOrder")
  /\ UNCHANGED <<db, tx>>

\* invoice.update with the values worked out from the row as it was read.
UpdateInvoice(r) ==
  /\ pc[r] = "updateInvoice"
  /\ Unblocked(r)
  /\ Goto(r, IF PaymentStatus(r) = "PAID" THEN "readOrder" ELSE "commitPayment")
  /\ UNCHANGED <<db, tx>>

\* Fault: the amount due is decremented in place, the amount paid is not.
Fault_CommitPaymentDue(r) ==
  LET i == tx[r].invoice IN
  /\ pc[r] = "commitPayment"
  /\ invoices' = [invoices EXCEPT ![i].status = PaymentStatus(r),
                                  ![i].paid = tx[r].paid,
                                  ![i].due = @ - tx[r].amount]
  /\ invoiceHistory' = [invoiceHistory EXCEPT ![i] =
       Append(@, HistoryRow(tx[r].invoiceFrom, PaymentStatus(r), tx[r].amount))]
  /\ PublishOrderMove(r)
  /\ End(r, "done")
  /\ UNCHANGED counters

\* Fault: the history records the new amount paid for the payment.
Fault_CommitPaymentAmount(r) ==
  LET i == tx[r].invoice IN
  /\ pc[r] = "commitPayment"
  /\ invoices' = [invoices EXCEPT ![i].status = PaymentStatus(r),
                                  ![i].paid = tx[r].paid,
                                  ![i].due = tx[r].total - tx[r].paid]
  /\ invoiceHistory' = [invoiceHistory EXCEPT ![i] =
       Append(@, HistoryRow(tx[r].invoiceFrom, PaymentStatus(r), tx[r].paid))]
  /\ PublishOrderMove(r)
  /\ End(r, "done")
  /\ UNCHANGED counters

CommitPayment(r) ==
  LET i == tx[r].invoice IN
  /\ pc[r] = "commitPayment"
  /\ invoices' = [invoices EXCEPT ![i].status = PaymentStatus(r),
                                  ![i].paid = tx[r].paid,
                                  ![i].due = tx[r].total - tx[r].paid]
  /\ invoiceHistory' = [invoiceHistory EXCEPT ![i] =
       Append(@, HistoryRow(tx[r].invoiceFrom, PaymentStatus(r), tx[r].amount))]
  /\ PublishOrderMove(r)
  /\ End(r, "done")
  /\ UNCHANGED counters

-----------------------------------------------------------------------------
(* cancelInvoice: transitionInvoiceStatus to CANCELLED *)

ReadInvoiceToCancel(r) ==
  /\ pc[r] = "idle"
  /\ \E i \in Issued :
       \/ /\ IsValidInvoiceTransition(invoices[i].status, "CANCELLED")
          /\ tx' = [tx EXCEPT ![r] =
                      [NoTx EXCEPT !.op = "cancel", !.invoice = i,
                                   !.invoiceFrom = invoices[i].status]]
          /\ Goto(r, "cancelInvoice")
       \/ /\ ~IsValidInvoiceTransition(invoices[i].status, "CANCELLED")
          /\ End(r, "refused")
  /\ UNCHANGED db

CancelInvoice(r) ==
  /\ pc[r] = "cancelInvoice"
  /\ Unblocked(r)
  /\ Goto(r, "commitCancel")
  /\ UNCHANGED <<db, tx>>

\* Fault: the history takes for granted what was cancelled.
Fault_CommitCancel(r) ==
  LET i == tx[r].invoice IN
  /\ pc[r] = "commitCancel"
  /\ invoices' = [invoices EXCEPT ![i].status = "CANCELLED"]
  /\ invoiceHistory' = [invoiceHistory EXCEPT ![i] =
                          Append(@, HistoryRow("ISSUED", "CANCELLED", 0))]
  /\ End(r, "done")
  /\ UNCHANGED <<orders, counters, orderHistory>>

CommitCancel(r) ==
  LET i == tx[r].invoice IN
  /\ pc[r] = "commitCancel"
  /\ invoices' = [invoices EXCEPT ![i].status = "CANCELLED"]
  /\ invoiceHistory' = [invoiceHistory EXCEPT ![i] =
                          Append(@, HistoryRow(tx[r].invoiceFrom, "CANCELLED", 0))]
  /\ End(r, "done")
  /\ UNCHANGED <<orders, counters, orderHistory>>

-----------------------------------------------------------------------------

\* Anywhere before its end a request may be lost: the server crashes, the
\* connection drops, or the interactive transaction runs out of time.
Abort(r) ==
  /\ pc[r] \notin Ended \cup {"idle"}
  /\ End(r, "aborted")
  /\ UNCHANGED db

\* Every request has ended: the only state the system may rest in.
Quiescent ==
  /\ \A r \in Requests : pc[r] \in Ended
  /\ UNCHANGED vars

Start(r) == PlaceOrder(r) \/ markInvoicePaidAction(r) \/ ReadInvoiceToCancel(r)

Continue(r) ==
  \/ DrawOrderNumber(r) \/ InsertOrder(r) \/ CommitOrder(r)
  \/ DrawInvoiceNumber(r) \/ InsertInvoice(r) \/ CommitInvoice(r)
  \/ ReadOrder(r) \/ UpdateOrder(r)
  \/ UpdateInvoice(r) \/ CommitPayment(r)
  \/ CancelInvoice(r) \/ CommitCancel(r)

Next ==
  \/ \E r \in Requests : Start(r) \/ Continue(r) \/ RefuseOrder(r) \/ Abort(r)
  \/ Quiescent

Spec == Init /\ [][Next]_vars

-----------------------------------------------------------------------------
(* Properties *)

Statements == {"idle", "drawOrderNumber", "insertOrder", "commitOrder",
               "drawInvoiceNumber", "insertInvoice", "commitInvoice",
               "readOrder", "updateOrder", "updateInvoice", "commitPayment",
               "cancelInvoice", "commitCancel"}

LiveOrderStatuses   == {"NONE", "PENDING", "AWAITING_PAYMENT", "PAID"}
LiveInvoiceStatuses == {"NONE", "ISSUED", "PARTIALLY_PAID", "PAID", "CANCELLED"}

OrderRow == [status : LiveOrderStatuses, key : Keys \cup {None},
             number : Nat, total : Int]

InvoiceRow == [status : LiveInvoiceStatuses, order : Requests \cup {None},
               number : Nat, total : Int, paid : Int, due : Int]

HistoryRows == [from : OrderStatuses \cup InvoiceStatuses \cup {"NONE"},
                to : OrderStatuses \cup InvoiceStatuses, amount : Int]

TxRow == [op : {"none", "place", "pay", "cancel"},
          key : Keys \cup {None}, number : Nat, total : Int,
          order : Requests \cup {None},
          orderStatus : LiveOrderStatuses, orderFrom : LiveOrderStatuses,
          invoice : Requests \cup {None}, invoiceFrom : LiveInvoiceStatuses,
          paid : Int, amount : Int]

\* Type invariant.  Of the statuses the maps know, the code drives orders
\* only as far as PAID and invoices only to PAID or CANCELLED.
TypeOK ==
  /\ orders \in [Requests -> OrderRow]
  /\ invoices \in [Requests -> InvoiceRow]
  /\ counters \in [order_number : Nat, invoice_number : Nat]
  /\ orderHistory \in [Requests -> Seq(HistoryRows)]
  /\ invoiceHistory \in [Requests -> Seq(HistoryRows)]
  /\ pc \in [Requests -> Statements \cup Ended]
  /\ tx \in [Requests -> TxRow]

\* Whatever aborts and whoever races, the committed orders are numbered
\* 1, 2, ... without a gap or a repeat, and so are the invoices: the counter
\* is incremented inside the transaction of the row it numbers.
NumbersGapless ==
  /\ {orders[o].number : o \in Placed} = 1..counters.order_number
  /\ \A o, p \in Placed : orders[o].number = orders[p].number => o = p
  /\ {invoices[i].number : i \in Issued} = 1..counters.invoice_number
  /\ \A i, j \in Issued : invoices[i].number = invoices[j].number => i = j

\* Two requests with the same idempotency key never both leave an order,
\* however their lookups and inserts interleave (createOrder).
OneOrderPerKey ==
  \A o, p \in Placed : orders[o].key = orders[p].key => o = p

\* An invoice's money and its status agree, although a payment or a
\* cancellation writes them from a row it read before waiting for the lock.
InvoiceBalanced ==
  \A i \in Issued :
    LET v == invoices[i] IN
    /\ v.paid + v.due = v.total
    /\ v.paid >= 0
    /\ v.paid > 0 => v.due >= 0
    /\ v.status = "ISSUED" => v.paid = 0
    /\ v.status = "PARTIALLY_PAID" => v.paid > 0 /\ v.due > 0
    /\ v.status = "PAID" => v.paid > 0 /\ v.due = 0

\* An order is PENDING exactly as long as no invoice bills it, although
\* issueInvoiceForOrder decides on a copy of the order read long before, and
\* every retry of the placement calls it again.
PendingIffUninvoiced ==
  \A o \in Placed :
    orders[o].status = "PENDING" <=> ~\E i \in Issued : invoices[i].order = o

\* An order is PAID exactly if one of its invoices has been settled: the
\* payment that settles an invoice and the order's move commit together.
PaidIffSettled ==
  \A o \in Placed :
    orders[o].status = "PAID" <=>
      \E i \in Issued :
        /\ invoices[i].order = o
        /\ \E n \in 1..Len(invoiceHistory[i]) : invoiceHistory[i][n].to = "PAID"

\* An order's status only ever moves along ORDER_TRANSITIONS, although
\* transitionOrderStatus checks the map on an unlocked read and writes later.
OrderMovesLegally ==
  [][\A o \in Requests :
       orders'[o].status # orders[o].status =>
         \/ orders[o].status = "NONE" /\ orders'[o].status = "PENDING"
         \/ orders[o].status # "NONE"
            /\ IsValidOrderTransition(orders[o].status, orders'[o].status)]_vars

\* The atomic ledger the interleaved transactions implement.
Ledger == INSTANCE OrderLedger WITH
  Orders        <- Requests,
  Invoices      <- Requests,
  status        <- [o \in Requests |-> orders[o].status],
  key           <- [o \in Requests |-> orders[o].key],
  orderNumber   <- [o \in Requests |-> orders[o].number],
  billedOrder   <- [i \in Requests |-> invoices[i].order],
  invoiceNumber <- [i \in Requests |-> invoices[i].number],
  lastOrder     <- counters.order_number,
  lastInvoice   <- counters.invoice_number

\* Seen from outside, requests that interleave, wait for locks and abort
\* place, bill and settle orders one indivisible step at a time.
ImplementsLedger == Ledger!Spec

\* As long as a request is open, the next statement of one of the open requests
\* finds every lock it needs free: none of them, however few are left, wait for
\* each other's counters, rows and index entries in a circle.  A request takes
\* each of its statements once, so every one ends if the server keeps running
\* what can run.
SomebodyCanGoOn ==
  LET open == {r \in Requests : pc[r] \notin Ended \cup {"idle"}}
  IN open # {} => \E r \in open : Unblocked(r)
=============================================================================
