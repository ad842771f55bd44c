---------------------------- MODULE BillingProofs ----------------------------
(***************************************************************************)
(* Proofs about Billing, for any requests, keys, totals and amounts.       *)
(***************************************************************************)
EXTENDS Billing, TLAPS

-----------------------------------------------------------------------------
(* What the next statement of a request takes for granted *)

\* The statements that run with an order in hand.
WithOrder == {"drawInvoiceNumber", "insertInvoice", "readOrder", "updateOrder",
              "commitInvoice", "updateInvoice", "commitPayment"}

\* The operation a statement belongs to, and that the rows it refers to are there.
Fits(s, t) ==
  /\ s \in {"drawOrderNumber", "insertOrder", "commitOrder", "drawInvoiceNumber",
            "insertInvoice", "commitInvoice"} => t.op = "place"
  /\ s \in {"readOrder", "updateOrder"} => t.op \in {"place", "pay"}
  /\ s \in {"updateInvoice", "commitPayment"} => t.op = "pay"
  /\ s \in {"cancelInvoice", "commitCancel"} => t.op = "cancel"
  /\ s \in Ended \cup {"idle"} => t.op = "none"
  /\ t.op \in {"pay", "cancel"} => t.invoice \in Issued
  /\ s \in WithOrder => t.order \in Placed

RowsInHand ==
  /\ \A i \in Issued : invoices[i].order \in Placed
  /\ \A r \in Requests : Fits(pc[r], tx[r])

TypeInv == TypeOK /\ RowsInHand

LEMMA NoTxType == NoTx \in TxRow
  BY DEF NoTx, TxRow, LiveOrderStatuses, LiveInvoiceStatuses

LEMMA InitType == Init => TypeInv
  BY BillingAssumption
  DEF Init, TypeInv, TypeOK, RowsInHand, Fits, WithOrder, Issued, Placed,
      NoOrder, NoInvoice, NoTx, OrderRow, InvoiceRow, TxRow,
      LiveOrderStatuses, LiveInvoiceStatuses, Statements, Ended, HistoryRows

-----------------------------------------------------------------------------
(* The steps that publish nothing.  Such a step gives its request a new     *)
(* record t and a new place s; Advances lists what it may be.               *)

PrivateStep(r, t, s) ==
  /\ tx' = [tx EXCEPT ![r] = t]
  /\ pc' = [pc EXCEPT ![r] = s]
  /\ UNCHANGED db

OpensPlacement(r, t, s) ==
  /\ pc[r] = "idle"
  /\ t.op = "place" /\ t.key \in Keys /\ t.number = 0 /\ t.orderFrom = "NONE"
  /\ \/ s = "drawOrderNumber"
     \/ /\ s = "drawInvoiceNumber"
        /\ t.order \in Placed /\ t.orderStatus = orders[t.order].status

OpensPayment(r, t, s) ==
  /\ pc[r] = "idle" /\ s = "updateInvoice"
  /\ t.op = "pay" /\ t.number = 0 /\ t.orderFrom = "NONE"
  /\ t.invoice \in Issued /\ t.order = invoices[t.invoice].order
  /\ t.total = invoices[t.invoice].total
  /\ t.invoiceFrom = invoices[t.invoice].status /\ t.invoiceFrom \in PayableStatuses
  /\ t.amount > 0 /\ t.paid = invoices[t.invoice].paid + t.amount
  /\ t.paid <= t.total

OpensCancellation(r, t, s) ==
  /\ pc[r] = "idle" /\ s = "cancelInvoice"
  /\ t.op = "cancel" /\ t.invoice \in Issued
  /\ t.invoiceFrom = invoices[t.invoice].status
  /\ IsValidInvoiceTransition(t.invoiceFrom, "CANCELLED")

Closes(r, t, s) ==
  /\ pc[r] \notin Ended /\ s \in Ended /\ t = NoTx

DrawsNumber(r, t, s) ==
  \/ /\ pc[r] = "drawOrderNumber" /\ s = "insertOrder"
     /\ \A q \in Requests \ {r} : ~HoldsOrderCounter(q)
     /\ \E total \in Int :
          t = [tx[r] EXCEPT !.number = counters.order_number + 1, !.total = total]
  \/ /\ pc[r] = "drawInvoiceNumber" /\ s = "insertInvoice"
     /\ \A q \in Requests \ {r} : ~HoldsInvoiceCounter(q)
     /\ t = [tx[r] EXCEPT !.number = counters.invoice_number + 1]

ReadsOrder(r, t, s) ==
  /\ pc[r] = "readOrder" /\ s = "updateOrder"
  /\ t = [tx[r] EXCEPT !.orderFrom = orders[tx[r].order].status]
  /\ IsValidOrderTransition(orders[tx[r].order].status, OrderTarget(r))

MovesOn(r, t, s) ==
  /\ t = tx[r]
  /\ \/ pc[r] = "insertOrder" /\ s = "commitOrder" /\ ~OrderClashes(r)
     \/ pc[r] = "insertInvoice" /\ s = "readOrder" /\ t.orderStatus = "PENDING"
     \/ pc[r] = "insertInvoice" /\ s = "commitInvoice" /\ t.orderStatus # "PENDING"
     \/ pc[r] = "updateOrder" /\ s = "commitInvoice" /\ t.op = "place"
     \/ pc[r] = "updateOrder" /\ s = "commitPayment" /\ t.op # "place"
     \/ pc[r] = "updateInvoice" /\ s = "readOrder" /\ PaymentStatus(r) = "PAID"
     \/ pc[r] = "updateInvoice" /\ s = "commitPayment" /\ PaymentStatus(r) # "PAID"
     \/ pc[r] = "cancelInvoice" /\ s = "commitCancel"

Advances(r, t, s) ==
  \/ OpensPlacement(r, t, s) \/ OpensPayment(r, t, s) \/ OpensCancellation(r, t, s)
  \/ Closes(r, t, s) \/ DrawsNumber(r, t, s) \/ ReadsOrder(r, t, s) \/ MovesOn(r, t, s)

\* The actions that publish nothing.
PrivateAction(r) ==
  \/ Start(r) \/ RefuseOrder(r) \/ Abort(r)
  \/ DrawOrderNumber(r) \/ InsertOrder(r) \/ DrawInvoiceNumber(r) \/ InsertInvoice(r)
  \/ ReadOrder(r) \/ UpdateOrder(r) \/ UpdateInvoice(r) \/ CancelInvoice(r)

Advanced(r) ==
  \E t \in TxRow, s \in Statements \cup Ended : PrivateStep(r, t, s) /\ Advances(r, t, s)

LEMMA EndAdvances ==
  ASSUME NEW r \in Requests, NEW outcome \in Ended, pc[r] \notin Ended,
         End(r, outcome), UNCHANGED db
  PROVE  Advanced(r)
<1>1. PrivateStep(r, NoTx, outcome)
  BY DEF PrivateStep, End
<1>2. Advances(r, NoTx, outcome)
  BY DEF Advances, Closes
<1> QED BY <1>1, <1>2, NoTxType DEF Advanced

LEMMA PlaceAdvances ==
  ASSUME TypeInv, NEW r \in Requests, PlaceOrder(r)
  PROVE  Advanced(r)
<1>1. PICK k \in Keys :
        \/ PrivateStep(r, [NoTx EXCEPT !.op = "place", !.key = k], "drawOrderNumber")
        \/ \E o \in OrdersWithKey(k) :
             PrivateStep(r, [NoTx EXCEPT !.op = "place", !.key = k, !.order = o,
                                         !.orderStatus = orders[o].status,
                                         !.total = orders[o].total],
                         "drawInvoiceNumber")
  BY DEF PlaceOrder, PrivateStep, Goto
<1>2. CASE PrivateStep(r, [NoTx EXCEPT !.op = "place", !.key = k], "drawOrderNumber")
  <2> DEFINE t == [NoTx EXCEPT !.op = "place", !.key = k]
  <2>1. t \in TxRow
    BY NoTxType DEF TxRow
  <2>2. t.op = "place" /\ t.key = k /\ t.number = 0 /\ t.orderFrom = "NONE"
    BY DEF NoTx
  <2>3. PrivateStep(r, t, "drawOrderNumber")
    BY <1>2 DEF PrivateStep
  <2> HIDE DEF t
  <2>4. Advances(r, t, "drawOrderNumber")
    BY <2>2 DEF Advances, OpensPlacement, PlaceOrder
  <2> QED BY <2>1, <2>3, <2>4 DEF Advanced, Statements
<1>3. ASSUME NEW o \in OrdersWithKey(k),
             PrivateStep(r, [NoTx EXCEPT !.op = "place", !.key = k, !.order = o,
                                         !.orderStatus = orders[o].status,
                                         !.total = orders[o].total],
                         "drawInvoiceNumber")
      PROVE  Advanced(r)
  <2> DEFINE t == [NoTx EXCEPT !.op = "place", !.key = k, !.order = o,
                               !.orderStatus = orders[o].status,
                               !.total = orders[o].total]
  <2>1. o \in Placed /\ o \in Requests /\ orders[o] \in OrderRow
    BY DEF OrdersWithKey, Placed, TypeInv, TypeOK
  <2>2. t \in TxRow
    BY <2>1, NoTxType DEF TxRow, OrderRow
  <2>3. /\ t.op = "place" /\ t.key = k /\ t.number = 0 /\ t.orderFrom = "NONE"
        /\ t.order = o /\ t.orderStatus = orders[o].status
    BY DEF NoTx
  <2>4. PrivateStep(r, t, "drawInvoiceNumber")
    BY <1>3 DEF PrivateStep
  <2> HIDE DEF t
  <2>5. Advances(r, t, "drawInvoiceNumber")
    BY <2>1, <2>3 DEF Advances, OpensPlacement, PlaceOrder
  <2> QED BY <2>2, <2>4, <2>5 DEF Advanced, Statements
<1> QED BY <1>1, <1>2, <1>3

LEMMA PaymentAdvances ==
  ASSUME TypeInv, NEW r \in Requests, markInvoicePaidAction(r)
  PROVE  Advanced(r)
<1>1. CASE End(r, "refused") /\ UNCHANGED db
  BY <1>1, EndAdvances DEF Ended, ReadInvoiceForPayment, markInvoicePaidAction
<1>2. ASSUME NEW i \in Issued, NEW a \in Amounts, a > 0, AcceptsPayment(i, a),
             PrivateStep(r, [NoTx EXCEPT !.op = "pay", !.invoice = i, !.amount = a,
                                 !.invoiceFrom = invoices[i].status,
                                 !.total = invoices[i].total,
                                 !.paid = invoices[i].paid + a,
                                 !.order = invoices[i].order], "updateInvoice")
      PROVE  Advanced(r)
  <2> DEFINE t == [NoTx EXCEPT !.op = "pay", !.invoice = i, !.amount = a,
                               !.invoiceFrom = invoices[i].status,
                               !.total = invoices[i].total,
                               !.paid = invoices[i].paid + a,
                               !.order = invoices[i].order]
  <2>1. i \in Requests /\ invoices[i] \in InvoiceRow /\ invoices[i].order \in Requests
    BY DEF Issued, Placed, TypeInv, TypeOK, RowsInHand
  <2>2. invoices[i].paid + a \in Int /\ a \in Int /\ invoices[i].total \in Int
        /\ invoices[i].status \in LiveInvoiceStatuses
    BY <2>1, BillingAssumption DEF InvoiceRow
  <2>3. t \in TxRow
    BY <2>1, <2>2, NoTxType DEF TxRow
  <2>4. /\ t.op = "pay" /\ t.number = 0 /\ t.orderFrom = "NONE"
        /\ t.invoice = i /\ t.order = invoices[i].order /\ t.total = invoices[i].total
        /\ t.amount = a /\ t.paid = invoices[i].paid + a
        /\ t.invoiceFrom = invoices[i].status
    BY DEF NoTx
  <2>5. PrivateStep(r, t, "updateInvoice")
    BY <1>2 DEF PrivateStep
  <2> HIDE DEF t
  <2>6. Advances(r, t, "updateInvoice")
    BY <1>2, <2>1, <2>2, <2>4
    DEF Advances, OpensPayment, AcceptsPayment, ReadInvoiceForPayment,
        markInvoicePaidAction
  <2> QED BY <2>3, <2>5, <2>6 DEF Advanced, Statements
<1> QED BY <1>1, <1>2 DEF markInvoicePaidAction, ReadInvoiceForPayment, PrivateStep, Goto

LEMMA CancellationAdvances ==
  ASSUME TypeInv, NEW r \in Requests, ReadInvoiceToCancel(r)
  PROVE  Advanced(r)
<1>1. CASE End(r, "refused") /\ UNCHANGED db
  BY <1>1, EndAdvances DEF Ended, ReadInvoiceToCancel
<1>2. ASSUME NEW i \in Issued, IsValidInvoiceTransition(invoices[i].status, "CANCELLED"),
             PrivateStep(r, [NoTx EXCEPT !.op = "cancel", !.invoice = i,
                                 !.invoiceFrom = invoices[i].status], "cancelInvoice")
      PROVE  Advanced(r)
  <2> DEFINE t == [NoTx EXCEPT !.op = "cancel", !.invoice = i,
                               !.invoiceFrom = invoices[i].status]
  <2>1. i \in Requests /\ invoices[i] \in InvoiceRow
    BY DEF Issued, TypeInv, TypeOK
  <2>2. t \in TxRow
    BY <2>1, NoTxType DEF TxRow, InvoiceRow
  <2>3. t.op = "cancel" /\ t.invoice = i /\ t.invoiceFrom = invoices[i].status
    BY DEF NoTx
  <2>4. PrivateStep(r, t, "cancelInvoice")
    BY <1>2 DEF PrivateStep
  <2> HIDE DEF t
  <2>5. Advances(r, t, "cancelInvoice")
    BY <1>2, <2>3 DEF Advances, OpensCancellation, ReadInvoiceToCancel
  <2> QED BY <2>2, <2>4, <2>5 DEF Advanced, Statements
<1> QED BY <1>1, <1>2 DEF ReadInvoiceToCancel, PrivateStep, Goto

\* A statement that leaves the record alone.
LEMMA GotoAdvances ==
  ASSUME TypeInv, NEW r \in Requests, NEW s \in Statements, Goto(r, s),
         UNCHANGED <<db, tx>>, MovesOn(r, tx[r], s)
  PROVE  Advanced(r)
<1>1. PrivateStep(r, tx[r], s) /\ tx[r] \in TxRow
  BY DEF PrivateStep, Goto, TypeInv, TypeOK
<1> QED BY <1>1 DEF Advanced, Advances

LEMMA PrivateAdvances ==
  ASSUME TypeInv, NEW r \in Requests, PrivateAction(r)
  PROVE  Advanced(r)
<1>0. tx[r] \in TxRow /\ counters.order_number + 1 \in Nat
      /\ counters.invoice_number + 1 \in Nat
  BY DEF TypeInv, TypeOK
<1>1. CASE Start(r)
  BY <1>1, PlaceAdvances, PaymentAdvances, CancellationAdvances DEF Start
<1>2. CASE RefuseOrder(r) \/ Abort(r)
  BY <1>2, EndAdvances DEF RefuseOrder, Abort, Ended
<1>3. CASE DrawOrderNumber(r)
  <2>1. PICK total \in Totals :
          PrivateStep(r, [tx[r] EXCEPT !.number = counters.order_number + 1,
                                       !.total = total], "insertOrder")
    BY <1>0, <1>3 DEF DrawOrderNumber, PrivateStep, Goto, TypeInv, TypeOK, TxRow
  <2> DEFINE t == [tx[r] EXCEPT !.number = counters.order_number + 1, !.total = total]
  <2>2. total \in Int
    BY BillingAssumption
  <2>3. t \in TxRow
    BY <1>0, <2>2 DEF TxRow
  <2>4. PrivateStep(r, t, "insertOrder")
    BY <2>1 DEF PrivateStep
  <2>5. DrawsNumber(r, t, "insertOrder")
    BY <1>3, <2>2 DEF DrawOrderNumber, DrawsNumber, Unblocked, Blocks
  <2> HIDE DEF t
  <2> QED BY <2>3, <2>4, <2>5 DEF Advanced, Advances, Statements
<1>4. CASE InsertOrder(r)
  <2>1. CASE OrderClashes(r)
    BY <1>4, <2>1, EndAdvances DEF InsertOrder, Ended
  <2>2. CASE ~OrderClashes(r)
    BY <1>4, <2>2, GotoAdvances DEF InsertOrder, Statements, MovesOn
  <2> QED BY <2>1, <2>2
<1>5. CASE DrawInvoiceNumber(r)
  <2> DEFINE t == [tx[r] EXCEPT !.number = counters.invoice_number + 1]
  <2>1. PrivateStep(r, t, "insertInvoice")
    BY <1>0, <1>5 DEF DrawInvoiceNumber, PrivateStep, Goto, TypeInv, TypeOK, TxRow
  <2>2. t \in TxRow
    BY <1>0 DEF TxRow
  <2>3. DrawsNumber(r, t, "insertInvoice")
    BY <1>5 DEF DrawInvoiceNumber, DrawsNumber, Unblocked, Blocks
  <2> HIDE DEF t
  <2> QED BY <2>1, <2>2, <2>3 DEF Advanced, Advances, Statements
<1>6. CASE InsertInvoice(r)
  <2>1. CASE InvoiceClashes(r)
    BY <1>6, <2>1, EndAdvances DEF InsertInvoice, Ended
  <2>2. CASE ~InvoiceClashes(r)
    BY <1>6, <2>2, GotoAdvances DEF InsertInvoice, Statements, MovesOn
  <2> QED BY <2>1, <2>2
<1>7. CASE ReadOrder(r)
  <2> DEFINE from == orders[tx[r].order].status
             t    == [tx[r] EXCEPT !.orderFrom = from]
  <2>1. CASE IsValidOrderTransition(from, OrderTarget(r))
    <3>1. from \in LiveOrderStatuses
      BY <1>7 DEF ReadOrder, TypeInv, TypeOK, RowsInHand, Fits, WithOrder, Placed, OrderRow
    <3>2. PrivateStep(r, t, "updateOrder")
      BY <1>0, <1>7, <2>1 DEF ReadOrder, PrivateStep, Goto, TypeInv, TypeOK, TxRow
    <3>3. t \in TxRow
      BY <1>0, <3>1 DEF TxRow
    <3>4. ReadsOrder(r, t, "updateOrder")
      BY <1>7, <2>1 DEF ReadOrder, ReadsOrder
    <3> HIDE DEF t
    <3> QED BY <3>2, <3>3, <3>4 DEF Advanced, Advances, Statements
  <2>2. CASE ~IsValidOrderTransition(from, OrderTarget(r))
    BY <1>7, <2>2, EndAdvances DEF ReadOrder, Ended
  <2> QED BY <2>1, <2>2
<1>8. CASE UpdateOrder(r)
  BY <1>8, GotoAdvances DEF UpdateOrder, Statements, MovesOn
<1>9. CASE UpdateInvoice(r)
  BY <1>9, GotoAdvances DEF UpdateInvoice, Statements, MovesOn
<1>10. CASE CancelInvoice(r)
  BY <1>10, GotoAdvances DEF CancelInvoice, Statements, MovesOn
<1> QED
  BY <1>1, <1>2, <1>3, <1>4, <1>5, <1>6, <1>7, <1>8, <1>9, <1>10 DEF PrivateAction

-----------------------------------------------------------------------------
(* Type correctness *)

LEMMA AdvanceFits ==
  ASSUME TypeInv, NEW r \in Requests, NEW t \in TxRow, NEW s, Advances(r, t, s)
  PROVE  Fits(s, t)
<1>0. tx[r] \in TxRow /\ Fits(pc[r], tx[r])
  BY DEF TypeInv, TypeOK, RowsInHand
<1>1. CASE OpensPlacement(r, t, s)
  BY <1>1 DEF OpensPlacement, Fits, WithOrder, Ended
<1>2. CASE OpensPayment(r, t, s)
  BY <1>2 DEF OpensPayment, Fits, WithOrder, Ended, TypeInv, RowsInHand
<1>3. CASE OpensCancellation(r, t, s)
  BY <1>3 DEF OpensCancellation, Fits, WithOrder, Ended
<1>4. CASE Closes(r, t, s)
  BY <1>4 DEF Closes, Fits, WithOrder, Ended, NoTx
<1>5. CASE DrawsNumber(r, t, s)
  <2>1. t.op = tx[r].op /\ t.order = tx[r].order
    BY <1>0, <1>5 DEF DrawsNumber, TxRow
  <2> QED BY <1>0, <1>5, <2>1 DEF DrawsNumber, Fits, WithOrder, Ended
<1>6. CASE ReadsOrder(r, t, s)
  <2>1. t.op = tx[r].op /\ t.order = tx[r].order /\ t.invoice = tx[r].invoice
    BY <1>0, <1>6 DEF ReadsOrder, TxRow
  <2> QED BY <1>0, <1>6, <2>1 DEF ReadsOrder, Fits, WithOrder, Ended
<1>7. CASE MovesOn(r, t, s)
  BY <1>0, <1>7 DEF MovesOn, Fits, WithOrder, Ended
<1> QED BY <1>1, <1>2, <1>3, <1>4, <1>5, <1>6, <1>7 DEF Advances

LEMMA AdvanceType ==
  ASSUME TypeInv, NEW r \in Requests, Advanced(r)
  PROVE  TypeInv'
<1>1. PICK t \in TxRow, s \in Statements \cup Ended :
        PrivateStep(r, t, s) /\ Advances(r, t, s)
  BY DEF Advanced
<1>2. Fits(s, t)
  BY <1>1, AdvanceFits
<1>3. TypeOK'
  BY <1>1 DEF PrivateStep, TypeInv, TypeOK, db
<1>4. RowsInHand'
  BY <1>1, <1>2 DEF PrivateStep, TypeInv, TypeOK, RowsInHand, Fits, Issued, Placed, db
<1> QED BY <1>3, <1>4 DEF TypeInv

LEMMA HistoryGrows ==
  ASSUME NEW history \in [Requests -> Seq(HistoryRows)], NEW e \in Requests,
         NEW row \in HistoryRows
  PROVE  [history EXCEPT ![e] = Append(@, row)] \in [Requests -> Seq(HistoryRows)]
  OBVIOUS

\* The row createOrder commits, and the record it leaves behind.
CommittedOrder(r) == [status |-> "PENDING", key |-> tx[r].key,
                      number |-> tx[r].number, total |-> tx[r].total]

AfterOrder(r) ==
  [tx[r] EXCEPT !.order = r, !.orderStatus = "PENDING", !.number = 0]

LEMMA CommitOrderType ==
  ASSUME TypeInv, NEW r \in Requests, CommitOrder(r)
  PROVE  TypeInv'
<1> DEFINE row == CommittedOrder(r)
           u   == AfterOrder(r)
<1>1. tx[r] \in TxRow /\ tx[r].op = "place"
  BY DEF CommitOrder, TypeInv, TypeOK, RowsInHand, Fits
<1>2. row \in OrderRow /\ row.status = "PENDING" /\ tx[r].number \in Nat
  BY <1>1 DEF CommittedOrder, OrderRow, TxRow, LiveOrderStatuses
<1>3. u \in TxRow /\ u.order = r /\ u.op = "place"
  BY <1>1 DEF AfterOrder, TxRow, LiveOrderStatuses
<1>4. HistoryRow("NONE", "PENDING", 0) \in HistoryRows
  BY DEF HistoryRow, HistoryRows, OrderStatuses
<1>5. /\ tx' = [tx EXCEPT ![r] = u]
      /\ pc' = [pc EXCEPT ![r] = "drawInvoiceNumber"]
  BY <1>1 DEF CommitOrder, Goto, TypeInv, TypeOK, TxRow, AfterOrder
<1>6. /\ orders' = [orders EXCEPT ![r] = row]
      /\ counters' = [counters EXCEPT !.order_number = tx[r].number]
      /\ orderHistory' = [orderHistory EXCEPT ![r] =
                            Append(@, HistoryRow("NONE", "PENDING", 0))]
      /\ UNCHANGED <<invoices, invoiceHistory>>
  BY DEF CommitOrder, CommittedOrder
<1> HIDE DEF row, u
<1>7. TypeOK'
  <2>1. /\ orders' \in [Requests -> OrderRow]
        /\ counters' \in [order_number : Nat, invoice_number : Nat]
    BY <1>2, <1>6 DEF TypeInv, TypeOK
  <2>2. orderHistory' \in [Requests -> Seq(HistoryRows)]
    BY <1>4, <1>6, HistoryGrows DEF TypeInv, TypeOK
  <2>3. pc' \in [Requests -> Statements \cup Ended] /\ tx' \in [Requests -> TxRow]
    BY <1>3, <1>5 DEF TypeInv, TypeOK, Statements
  <2> QED BY <1>6, <2>1, <2>2, <2>3 DEF TypeInv, TypeOK
<1>8. RowsInHand'
  <2>1. Issued' = Issued /\ Placed \subseteq Placed' /\ r \in Placed'
    BY <1>2, <1>6 DEF Issued, Placed, TypeInv, TypeOK
  <2>2. \A i \in Issued' : invoices'[i].order \in Placed'
    BY <1>6, <2>1 DEF TypeInv, RowsInHand
  <2>3. \A q \in Requests : Fits(pc[q], tx[q])'
    <3>1. ASSUME NEW q \in Requests, q # r PROVE Fits(pc[q], tx[q])'
      BY <1>5, <2>1, <3>1 DEF TypeInv, TypeOK, RowsInHand, Fits
    <3>2. Fits(pc[r], tx[r])'
      BY <1>3, <1>5, <2>1 DEF TypeInv, TypeOK, Fits, Ended
    <3> QED BY <3>1, <3>2
  <2> QED BY <2>2, <2>3 DEF RowsInHand
<1> QED BY <1>7, <1>8 DEF TypeInv

\* The order's move a commit publishes keeps the types and every order in place.
LEMMA OrderMoveType ==
  ASSUME TypeInv, NEW r \in Requests, PublishOrderMove(r), tx[r].order \in Placed
  PROVE  /\ orders' \in [Requests -> OrderRow]
         /\ orderHistory' \in [Requests -> Seq(HistoryRows)]
         /\ Placed' = Placed
<1> DEFINE o == tx[r].order
           row == HistoryRow(tx[r].orderFrom, OrderTarget(r), 0)
<1>1. CASE tx[r].orderFrom = "NONE"
  BY <1>1 DEF PublishOrderMove, TypeInv, TypeOK, Placed
<1>2. CASE tx[r].orderFrom # "NONE"
  <2>1. orders[o] \in OrderRow /\ OrderTarget(r) \in LiveOrderStatuses \ {"NONE"}
        /\ o \in Requests
    BY DEF OrderTarget, TypeInv, TypeOK, LiveOrderStatuses, Placed
  <2>2. [orders[o] EXCEPT !.status = OrderTarget(r)] \in OrderRow
    BY <2>1 DEF OrderRow
  <2>3. orders' = [orders EXCEPT ![o] = [orders[o] EXCEPT !.status = OrderTarget(r)]]
    BY <1>2 DEF PublishOrderMove
  <2>4. row \in HistoryRows
    BY DEF HistoryRow, HistoryRows, OrderStatuses, OrderTarget, TypeInv, TypeOK, TxRow,
        LiveOrderStatuses
  <2>5. orderHistory' = [orderHistory EXCEPT ![o] = Append(@, row)]
    BY <1>2 DEF PublishOrderMove
  <2> HIDE DEF row
  <2>6. orderHistory' \in [Requests -> Seq(HistoryRows)]
    BY <2>1, <2>4, <2>5, HistoryGrows DEF TypeInv, TypeOK
  <2>7. Placed' = Placed
    BY <2>1, <2>3 DEF Placed, TypeInv, TypeOK, OrderRow
  <2> QED BY <2>1, <2>2, <2>3, <2>6, <2>7 DEF TypeInv, TypeOK
<1> QED BY <1>1, <1>2

\* A request that ends while rows only come in leaves the others as they were.
LEMMA EndFits ==
  ASSUME TypeInv, NEW r \in Requests, End(r, "done"),
         Placed \subseteq Placed', Issued \subseteq Issued'
  PROVE  \A q \in Requests : Fits(pc[q], tx[q])'
<1>1. ASSUME NEW q \in Requests, q # r PROVE Fits(pc[q], tx[q])'
  BY <1>1 DEF End, TypeInv, TypeOK, RowsInHand, Fits
<1>2. Fits(pc[r], tx[r])'
  BY DEF End, TypeInv, TypeOK, Fits, Ended, WithOrder, NoTx
<1> QED BY <1>1, <1>2

LEMMA EndTypes ==
  ASSUME TypeInv, NEW r \in Requests, End(r, "done")
  PROVE  pc' \in [Requests -> Statements \cup Ended] /\ tx' \in [Requests -> TxRow]
  BY NoTxType DEF End, TypeInv, TypeOK, Ended

LEMMA CommitInvoiceType ==
  ASSUME TypeInv, NEW r \in Requests, CommitInvoice(r)
  PROVE  TypeInv'
<1> DEFINE row == [status |-> "ISSUED", order |-> tx[r].order,
                   number |-> tx[r].number, total |-> tx[r].total,
                   paid |-> 0, due |-> tx[r].total]
<1>1. tx[r] \in TxRow /\ tx[r].order \in Placed /\ tx[r].order \in Requests
  BY DEF CommitInvoice, TypeInv, TypeOK, RowsInHand, Fits, WithOrder, Placed
<1>2. row \in InvoiceRow /\ row.order = tx[r].order /\ row.status = "ISSUED"
      /\ tx[r].number \in Nat
  BY <1>1 DEF InvoiceRow, TxRow, LiveInvoiceStatuses
<1>3. HistoryRow("NONE", "ISSUED", 0) \in HistoryRows
  BY DEF HistoryRow, HistoryRows, InvoiceStatuses
<1>4. /\ invoices' = [invoices EXCEPT ![r] = row]
      /\ counters' = [counters EXCEPT !.invoice_number = tx[r].number]
      /\ invoiceHistory' = [invoiceHistory EXCEPT ![r] =
                              Append(@, HistoryRow("NONE", "ISSUED", 0))]
      /\ PublishOrderMove(r) /\ End(r, "done")
  BY DEF CommitInvoice
<1> HIDE DEF row
<1>5. /\ orders' \in [Requests -> OrderRow]
      /\ orderHistory' \in [Requests -> Seq(HistoryRows)]
      /\ Placed' = Placed
  BY <1>1, <1>4, OrderMoveType
<1>6. TypeOK'
  <2>1. /\ invoices' \in [Requests -> InvoiceRow]
        /\ counters' \in [order_number : Nat, invoice_number : Nat]
    BY <1>2, <1>4 DEF TypeInv, TypeOK
  <2>2. invoiceHistory' \in [Requests -> Seq(HistoryRows)]
    BY <1>3, <1>4, HistoryGrows DEF TypeInv, TypeOK
  <2> QED BY <1>4, <1>5, <2>1, <2>2, EndTypes DEF TypeOK
<1>7. RowsInHand'
  <2>1. Issued' = Issued \cup {r}
    BY <1>2, <1>4 DEF Issued, TypeInv, TypeOK
  <2>2. \A i \in Issued' : invoices'[i].order \in Placed'
    BY <1>1, <1>2, <1>4, <1>5, <2>1 DEF Issued, TypeInv, TypeOK, RowsInHand
  <2> QED BY <1>4, <1>5, <2>1, <2>2, EndFits DEF RowsInHand
<1> QED BY <1>6, <1>7 DEF TypeInv

\* A commit that changes an invoice's status and money, and adds to its history.
LEMMA ChangeInvoiceType ==
  ASSUME TypeInv, NEW i \in Issued, NEW new \in InvoiceRow, NEW row \in HistoryRows,
         new.status # "NONE", new.order = invoices[i].order,
         invoices' = [invoices EXCEPT ![i] = new],
         invoiceHistory' = [invoiceHistory EXCEPT ![i] = Append(@, row)]
  PROVE  /\ invoices' \in [Requests -> InvoiceRow]
         /\ invoiceHistory' \in [Requests -> Seq(HistoryRows)]
         /\ Issued' = Issued
         /\ \A j \in Issued : invoices'[j].order = invoices[j].order
<1>1. i \in Requests
  BY DEF Issued
<1>2. invoiceHistory' \in [Requests -> Seq(HistoryRows)]
  BY <1>1, HistoryGrows DEF TypeInv, TypeOK
<1>3. invoices' \in [Requests -> InvoiceRow]
  BY <1>1 DEF TypeInv, TypeOK
<1>4. Issued' = Issued /\ \A j \in Issued : invoices'[j].order = invoices[j].order
  BY <1>1 DEF Issued, TypeInv, TypeOK
<1> QED BY <1>2, <1>3, <1>4

\* The row a payment commits.
PaidInvoice(r) ==
  [invoices[tx[r].invoice] EXCEPT !.status = PaymentStatus(r), !.paid = tx[r].paid,
                                  !.due = tx[r].total - tx[r].paid]

LEMMA CommitPaymentEffect ==
  ASSUME TypeInv, NEW r \in Requests, CommitPayment(r)
  PROVE  /\ tx[r] \in TxRow /\ tx[r].op = "pay"
         /\ tx[r].invoice \in Issued /\ tx[r].order \in Placed
         /\ PaymentStatus(r) \in {"PAID", "PARTIALLY_PAID"}
         /\ PaidInvoice(r) \in InvoiceRow
         /\ PaidInvoice(r).order = invoices[tx[r].invoice].order
         /\ PaidInvoice(r).number = invoices[tx[r].invoice].number
         /\ PaidInvoice(r).total = invoices[tx[r].invoice].total
         /\ PaidInvoice(r).status = PaymentStatus(r)
         /\ PaidInvoice(r).paid = tx[r].paid
         /\ PaidInvoice(r).due = tx[r].total - tx[r].paid
         /\ invoices' = [invoices EXCEPT ![tx[r].invoice] = PaidInvoice(r)]
<1>1. /\ tx[r] \in TxRow /\ tx[r].op = "pay"
      /\ tx[r].invoice \in Issued /\ tx[r].order \in Placed
  BY DEF CommitPayment, TypeInv, TypeOK, RowsInHand, Fits, WithOrder
<1>2. PaymentStatus(r) \in {"PAID", "PARTIALLY_PAID"}
      /\ tx[r].paid \in Int /\ tx[r].total - tx[r].paid \in Int
  BY <1>1 DEF PaymentStatus, TxRow
<1>3. invoices[tx[r].invoice] \in InvoiceRow /\ tx[r].invoice \in Requests
  BY <1>1 DEF TypeInv, TypeOK, Issued
<1>4. /\ PaidInvoice(r) \in InvoiceRow
      /\ PaidInvoice(r).order = invoices[tx[r].invoice].order
      /\ PaidInvoice(r).number = invoices[tx[r].invoice].number
      /\ PaidInvoice(r).total = invoices[tx[r].invoice].total
      /\ PaidInvoice(r).status = PaymentStatus(r)
      /\ PaidInvoice(r).paid = tx[r].paid
      /\ PaidInvoice(r).due = tx[r].total - tx[r].paid
  BY <1>2, <1>3 DEF PaidInvoice, InvoiceRow, LiveInvoiceStatuses
<1>5. invoices' = [invoices EXCEPT ![tx[r].invoice] = PaidInvoice(r)]
  BY <1>3 DEF CommitPayment, PaidInvoice, InvoiceRow, TypeInv, TypeOK
<1> QED BY <1>1, <1>2, <1>4, <1>5

LEMMA CommitPaymentType ==
  ASSUME TypeInv, NEW r \in Requests, CommitPayment(r)
  PROVE  TypeInv'
<1> DEFINE row == HistoryRow(tx[r].invoiceFrom, PaymentStatus(r), tx[r].amount)
<1>1. row \in HistoryRows
  BY CommitPaymentEffect
  DEF HistoryRow, HistoryRows, TxRow, LiveInvoiceStatuses, InvoiceStatuses
<1>2. /\ invoiceHistory' = [invoiceHistory EXCEPT ![tx[r].invoice] = Append(@, row)]
      /\ PublishOrderMove(r) /\ End(r, "done") /\ UNCHANGED counters
  BY DEF CommitPayment
<1> HIDE DEF row
<1>3. /\ invoices' \in [Requests -> InvoiceRow]
      /\ invoiceHistory' \in [Requests -> Seq(HistoryRows)]
      /\ Issued' = Issued
      /\ \A j \in Issued : invoices'[j].order = invoices[j].order
  BY <1>1, <1>2, CommitPaymentEffect, ChangeInvoiceType
<1>4. /\ orders' \in [Requests -> OrderRow]
      /\ orderHistory' \in [Requests -> Seq(HistoryRows)]
      /\ Placed' = Placed
  BY <1>2, CommitPaymentEffect, OrderMoveType
<1>5. TypeOK'
  BY <1>2, <1>3, <1>4, EndTypes DEF TypeInv, TypeOK
<1>6. RowsInHand'
  BY <1>2, <1>3, <1>4, EndFits DEF TypeInv, RowsInHand
<1> QED BY <1>5, <1>6 DEF TypeInv

\* The row a cancellation commits.
CancelledInvoice(r) == [invoices[tx[r].invoice] EXCEPT !.status = "CANCELLED"]

LEMMA CommitCancelEffect ==
  ASSUME TypeInv, NEW r \in Requests, CommitCancel(r)
  PROVE  /\ tx[r] \in TxRow /\ tx[r].op = "cancel" /\ tx[r].invoice \in Issued
         /\ CancelledInvoice(r) \in InvoiceRow
         /\ CancelledInvoice(r).status = "CANCELLED"
         /\ CancelledInvoice(r).order = invoices[tx[r].invoice].order
         /\ CancelledInvoice(r).number = invoices[tx[r].invoice].number
         /\ CancelledInvoice(r).total = invoices[tx[r].invoice].total
         /\ CancelledInvoice(r).paid = invoices[tx[r].invoice].paid
         /\ CancelledInvoice(r).due = invoices[tx[r].invoice].due
         /\ invoices' = [invoices EXCEPT ![tx[r].invoice] = CancelledInvoice(r)]
<1>1. tx[r] \in TxRow /\ tx[r].op = "cancel" /\ tx[r].invoice \in Issued
  BY DEF CommitCancel, TypeInv, TypeOK, RowsInHand, Fits
<1>2. invoices[tx[r].invoice] \in InvoiceRow
  BY <1>1 DEF TypeInv, TypeOK, Issued
<1>3. /\ CancelledInvoice(r) \in InvoiceRow
      /\ CancelledInvoice(r).status = "CANCELLED"
      /\ CancelledInvoice(r).order = invoices[tx[r].invoice].order
      /\ CancelledInvoice(r).number = invoices[tx[r].invoice].number
      /\ CancelledInvoice(r).total = invoices[tx[r].invoice].total
      /\ CancelledInvoice(r).paid = invoices[tx[r].invoice].paid
      /\ CancelledInvoice(r).due = invoices[tx[r].invoice].due
  BY <1>2 DEF CancelledInvoice, InvoiceRow, LiveInvoiceStatuses
<1>4. invoices' = [invoices EXCEPT ![tx[r].invoice] = CancelledInvoice(r)]
  BY DEF CommitCancel, CancelledInvoice
<1> QED BY <1>1, <1>3, <1>4

LEMMA CommitCancelType ==
  ASSUME TypeInv, NEW r \in Requests, CommitCancel(r)
  PROVE  TypeInv'
<1> DEFINE row == HistoryRow(tx[r].invoiceFrom, "CANCELLED", 0)
<1>1. row \in HistoryRows
  BY CommitCancelEffect
  DEF HistoryRow, HistoryRows, TxRow, LiveInvoiceStatuses, InvoiceStatuses
<1>2. /\ invoiceHistory' = [invoiceHistory EXCEPT ![tx[r].invoice] = Append(@, row)]
      /\ End(r, "done") /\ UNCHANGED <<orders, counters, orderHistory>>
  BY DEF CommitCancel
<1> HIDE DEF row
<1>3. /\ invoices' \in [Requests -> InvoiceRow]
      /\ invoiceHistory' \in [Requests -> Seq(HistoryRows)]
      /\ Issued' = Issued
      /\ \A j \in Issued : invoices'[j].order = invoices[j].order
  BY <1>1, <1>2, CommitCancelEffect, ChangeInvoiceType
<1>4. Placed' = Placed
  BY <1>2 DEF Placed
<1>5. TypeOK'
  BY <1>2, <1>3, EndTypes DEF TypeInv, TypeOK
<1>6. RowsInHand'
  BY <1>2, <1>3, <1>4, EndFits DEF TypeInv, RowsInHand
<1> QED BY <1>5, <1>6 DEF TypeInv

\* Every step of Next is private, a commit, or changes nothing.
LEMMA NextCases ==
  ASSUME TypeInv, [Next]_vars
  PROVE  \/ \E r \in Requests : \/ Advanced(r)
                                \/ CommitOrder(r) \/ CommitInvoice(r)
                                \/ CommitPayment(r) \/ CommitCancel(r)
         \/ UNCHANGED vars
  BY PrivateAdvances DEF Next, Continue, PrivateAction, Quiescent

LEMMA NextType == TypeInv /\ [Next]_vars => TypeInv'
<1> SUFFICES ASSUME TypeInv, [Next]_vars PROVE TypeInv'
  OBVIOUS
<1>1. ASSUME NEW r \in Requests, Advanced(r) PROVE TypeInv'
  BY <1>1, AdvanceType
<1>2. ASSUME NEW r \in Requests, CommitOrder(r) PROVE TypeInv'
  BY <1>2, CommitOrderType
<1>3. ASSUME NEW r \in Requests, CommitInvoice(r) PROVE TypeInv'
  BY <1>3, CommitInvoiceType
<1>4. ASSUME NEW r \in Requests, CommitPayment(r) PROVE TypeInv'
  BY <1>4, CommitPaymentType
<1>5. ASSUME NEW r \in Requests, CommitCancel(r) PROVE TypeInv'
  BY <1>5, CommitCancelType
<1>6. CASE UNCHANGED vars
  BY <1>6 DEF vars, TypeInv, TypeOK, RowsInHand, Fits, Issued, Placed
<1> QED BY <1>1, <1>2, <1>3, <1>4, <1>5, <1>6, NextCases

LEMMA TypeInvariant == Spec => []TypeInv
  BY InitType, NextType, PTL DEF Spec

\* Every reachable state is well typed: orders and invoices only ever reach
\* the statuses the code drives, and no statement runs on a missing row.
THEOREM TypeCorrect == Spec => []TypeOK
<1>1. TypeInv => TypeOK
  BY DEF TypeInv
<1> QED BY <1>1, TypeInvariant, PTL

-----------------------------------------------------------------------------
(* Numbering.  A counter row stays locked from the increment to the commit  *)
(* of the row it numbers, so one request at a time has a number in hand,    *)
(* and it is the next one.                                                  *)

OneHolder ==
  /\ \A q, r \in Requests : HoldsOrderCounter(q) /\ HoldsOrderCounter(r) => q = r
  /\ \A q, r \in Requests : HoldsInvoiceCounter(q) /\ HoldsInvoiceCounter(r) => q = r

NextInHand ==
  /\ \A r \in Requests :
       HoldsOrderCounter(r) => tx[r].number = counters.order_number + 1
  /\ \A r \in Requests :
       HoldsInvoiceCounter(r) => tx[r].number = counters.invoice_number + 1

\* A request that has yet to commit its order or its invoice has none.
NotYetCommitted ==
  /\ \A r \in Requests :
       pc[r] \in {"idle", "drawOrderNumber", "insertOrder", "commitOrder"} =>
         orders[r] = NoOrder
  /\ \A r \in Requests : pc[r] \notin Ended => invoices[r] = NoInvoice

CounterInv == TypeInv /\ OneHolder /\ NextInHand /\ NotYetCommitted /\ NumbersGapless

LEMMA InitCounter == Init => CounterInv
<1> SUFFICES ASSUME Init PROVE CounterInv
  OBVIOUS
<1>1. Placed = {} /\ Issued = {}
  BY DEF Init, Placed, Issued, NoOrder, NoInvoice
<1>2. NumbersGapless
  BY <1>1 DEF Init, NumbersGapless
<1>3. OneHolder /\ NextInHand /\ NotYetCommitted
  BY DEF Init, OneHolder, NextInHand, NotYetCommitted, HoldsOrderCounter,
      HoldsInvoiceCounter, NoTx
<1> QED BY <1>2, <1>3, InitType DEF CounterInv

LEMMA AdvanceCounter ==
  ASSUME CounterInv, NEW r \in Requests, Advanced(r)
  PROVE  CounterInv'
<1>1. PICK t \in TxRow, s \in Statements \cup Ended :
        PrivateStep(r, t, s) /\ Advances(r, t, s)
  BY DEF Advanced
<1>2. /\ pc \in [Requests -> Statements \cup Ended] /\ tx \in [Requests -> TxRow]
      /\ tx' = [tx EXCEPT ![r] = t] /\ pc' = [pc EXCEPT ![r] = s]
      /\ orders' = orders /\ invoices' = invoices /\ counters' = counters
  BY <1>1 DEF PrivateStep, db, CounterInv, TypeInv, TypeOK
<1>3. Fits(pc[r], tx[r]) /\ tx[r] \in TxRow /\ counters.order_number + 1 \in Nat
      /\ counters.invoice_number + 1 \in Nat
  BY <1>2 DEF CounterInv, TypeInv, RowsInHand, TypeOK
<1>4. s \in {"insertOrder", "commitOrder"} =>
        /\ \A q \in Requests \ {r} : ~HoldsOrderCounter(q)
        /\ t.number = counters.order_number + 1
  BY <1>1, <1>3
  DEF Advances, OpensPlacement, OpensPayment, OpensCancellation, Closes, DrawsNumber,
      ReadsOrder, MovesOn, TxRow, CounterInv, OneHolder, NextInHand,
      HoldsOrderCounter, Ended
<1>5. t.op = "place" /\ s \in {"insertInvoice", "readOrder", "updateOrder", "commitInvoice"} =>
        /\ \A q \in Requests \ {r} : ~HoldsInvoiceCounter(q)
        /\ t.number = counters.invoice_number + 1
  BY <1>1, <1>3
  DEF Advances, OpensPlacement, OpensPayment, OpensCancellation, Closes, DrawsNumber,
      ReadsOrder, MovesOn, TxRow, CounterInv, OneHolder, NextInHand, Fits,
      HoldsInvoiceCounter, Ended
<1>6. OneHolder'
  BY <1>2, <1>4, <1>5 DEF CounterInv, OneHolder, HoldsOrderCounter, HoldsInvoiceCounter
<1>7. NextInHand'
  BY <1>2, <1>4, <1>5 DEF CounterInv, NextInHand, HoldsOrderCounter, HoldsInvoiceCounter
<1>8. NotYetCommitted'
  <2>1. pc[r] \notin Ended
    BY <1>1 DEF Advances, OpensPlacement, OpensPayment, OpensCancellation, Closes,
        DrawsNumber, ReadsOrder, MovesOn, Ended
  <2>2. s \in {"drawOrderNumber", "insertOrder", "commitOrder", "idle"} =>
          pc[r] \in {"idle", "drawOrderNumber", "insertOrder", "commitOrder"}
    BY <1>1 DEF Advances, OpensPlacement, OpensPayment, OpensCancellation, Closes,
        DrawsNumber, ReadsOrder, MovesOn, Ended
  <2> QED BY <1>2, <2>1, <2>2 DEF CounterInv, NotYetCommitted
<1>9. NumbersGapless'
  BY <1>2 DEF CounterInv, NumbersGapless, Placed, Issued
<1> QED BY <1>6, <1>7, <1>8, <1>9, AdvanceType DEF CounterInv

LEMMA CommitOrderCounter ==
  ASSUME CounterInv, NEW r \in Requests, CommitOrder(r)
  PROVE  CounterInv'
<1> DEFINE n == tx[r].number
<1>1. /\ pc \in [Requests -> Statements \cup Ended] /\ tx \in [Requests -> TxRow]
      /\ orders \in [Requests -> OrderRow] /\ invoices' = invoices
      /\ counters \in [order_number : Nat, invoice_number : Nat]
      /\ pc[r] = "commitOrder" /\ pc' = [pc EXCEPT ![r] = "drawInvoiceNumber"]
      /\ orders' = [orders EXCEPT ![r] = CommittedOrder(r)]
      /\ counters' = [counters EXCEPT !.order_number = n]
  BY DEF CounterInv, TypeInv, TypeOK, CommitOrder, Goto, CommittedOrder
<1>2. \A q \in Requests \ {r} : tx'[q] = tx[q] /\ pc'[q] = pc[q]
  BY <1>1 DEF CommitOrder
<1>3. /\ n = counters.order_number + 1
      /\ \A q \in Requests \ {r} : ~HoldsOrderCounter(q)
      /\ orders[r] = NoOrder
  BY <1>1 DEF CounterInv, NextInHand, OneHolder, HoldsOrderCounter, NotYetCommitted
<1>4. /\ Placed' = Placed \cup {r} /\ r \notin Placed /\ Issued' = Issued
      /\ \A o \in Placed : orders'[o].number = orders[o].number
      /\ orders'[r].number = n
  BY <1>1, <1>3 DEF Placed, Issued, NoOrder, CommittedOrder
<1>5. /\ counters'.order_number = counters.order_number + 1
      /\ counters'.invoice_number = counters.invoice_number
      /\ counters.order_number \in Nat
  BY <1>1, <1>3
<1>6. NumbersGapless'
  <2>1. /\ \A o \in Placed : orders[o].number \in 1..counters.order_number
        /\ \A k \in 1..counters.order_number : \E o \in Placed : orders[o].number = k
        /\ \A o, p \in Placed : orders[o].number = orders[p].number => o = p
    BY DEF CounterInv, NumbersGapless
  <2>2. \A o \in Placed' : orders'[o].number \in 1..counters.order_number'
    BY <1>3, <1>4, <1>5, <2>1
  <2>3. \A k \in 1..counters.order_number' : \E o \in Placed' : orders'[o].number = k
    <3> SUFFICES ASSUME NEW k \in 1..counters.order_number'
                 PROVE  \E o \in Placed' : orders'[o].number = k
      OBVIOUS
    <3>1. CASE k = n
      BY <3>1, <1>4
    <3>2. CASE k # n
      BY <3>2, <1>3, <1>4, <1>5, <2>1
    <3> QED BY <3>1, <3>2
  <2>4. {orders'[o].number : o \in Placed'} = 1..counters.order_number'
    BY <2>2, <2>3
  <2>5. \A o, p \in Placed' : orders'[o].number = orders'[p].number => o = p
    BY <1>3, <1>4, <1>5, <2>1
  <2> QED BY <1>1, <1>4, <1>5, <2>4, <2>5 DEF CounterInv, NumbersGapless, Issued
<1>7. OneHolder'
  BY <1>1, <1>2 DEF CounterInv, OneHolder, HoldsOrderCounter, HoldsInvoiceCounter
<1>8. NextInHand'
  BY <1>1, <1>2, <1>3, <1>5 DEF CounterInv, NextInHand, HoldsOrderCounter, HoldsInvoiceCounter
<1>9. NotYetCommitted'
  BY <1>1, <1>2 DEF CounterInv, NotYetCommitted, Ended
<1> QED BY <1>6, <1>7, <1>8, <1>9, CommitOrderType DEF CounterInv

\* The row issueInvoiceForOrder commits.
CommittedInvoice(r) ==
  [status |-> "ISSUED", order |-> tx[r].order, number |-> tx[r].number,
   total |-> tx[r].total, paid |-> 0, due |-> tx[r].total]

\* An order's move changes its status and nothing else, and only of the order in hand.
LEMMA OrderMoveEffect ==
  ASSUME TypeInv, NEW r \in Requests, PublishOrderMove(r), tx[r].order \in Placed
  PROVE  /\ Placed' = Placed
         /\ \A o \in Requests : /\ orders'[o].number = orders[o].number
                                /\ orders'[o].key = orders[o].key
                                /\ orders'[o].total = orders[o].total
                                /\ o # tx[r].order => orders'[o] = orders[o]
         /\ tx[r].orderFrom = "NONE" => orders' = orders
         /\ tx[r].orderFrom # "NONE" => orders'[tx[r].order].status = OrderTarget(r)
<1>1. orders \in [Requests -> OrderRow] /\ tx[r].order \in Requests
  BY DEF TypeInv, TypeOK, Placed
<1>2. CASE tx[r].orderFrom = "NONE"
  BY <1>2 DEF PublishOrderMove, Placed
<1>3. CASE tx[r].orderFrom # "NONE"
  <2>1. orders' = [orders EXCEPT ![tx[r].order].status = OrderTarget(r)]
    BY <1>3 DEF PublishOrderMove
  <2> QED BY <1>1, <1>3, <2>1, OrderMoveType DEF OrderRow
<1> QED BY <1>2, <1>3

LEMMA EndLeavesOthers ==
  ASSUME TypeInv, NEW r \in Requests, NEW outcome, End(r, outcome)
  PROVE  /\ \A q \in Requests \ {r} : tx'[q] = tx[q] /\ pc'[q] = pc[q]
         /\ pc'[r] = outcome /\ tx'[r] = NoTx
  BY DEF End, TypeInv, TypeOK

LEMMA CommitInvoiceCounter ==
  ASSUME CounterInv, NEW r \in Requests, CommitInvoice(r)
  PROVE  CounterInv'
<1> DEFINE n == tx[r].number
<1>0. TypeInv /\ invoices \in [Requests -> InvoiceRow]
      /\ counters \in [order_number : Nat, invoice_number : Nat]
  BY DEF CounterInv, TypeInv, TypeOK
<1>1. /\ pc[r] = "commitInvoice" /\ tx[r].op = "place" /\ tx[r].order \in Placed
      /\ invoices' = [invoices EXCEPT ![r] = CommittedInvoice(r)]
      /\ counters' = [counters EXCEPT !.invoice_number = n]
      /\ PublishOrderMove(r) /\ End(r, "done")
  BY <1>0 DEF CommitInvoice, CommittedInvoice, TypeInv, RowsInHand, Fits, WithOrder
<1>2. /\ \A q \in Requests \ {r} : tx'[q] = tx[q] /\ pc'[q] = pc[q]
      /\ pc'[r] = "done"
  BY <1>0, <1>1, EndLeavesOthers
<1>3. /\ n = counters.invoice_number + 1
      /\ \A q \in Requests \ {r} : ~HoldsInvoiceCounter(q)
      /\ invoices[r] = NoInvoice
  BY <1>1 DEF CounterInv, NextInHand, OneHolder, HoldsInvoiceCounter, NotYetCommitted, Ended
<1>4. /\ Issued' = Issued \cup {r} /\ r \notin Issued /\ Placed' = Placed
      /\ \A i \in Issued : invoices'[i].number = invoices[i].number
      /\ invoices'[r].number = n
      /\ \A o \in Requests : orders'[o].number = orders[o].number
  BY <1>0, <1>1, <1>3, OrderMoveEffect DEF Issued, NoInvoice, CommittedInvoice
<1>5. /\ counters'.invoice_number = counters.invoice_number + 1
      /\ counters'.order_number = counters.order_number
      /\ counters.invoice_number \in Nat
  BY <1>0, <1>1, <1>3
<1>6. NumbersGapless'
  <2>1. /\ \A i \in Issued : invoices[i].number \in 1..counters.invoice_number
        /\ \A k \in 1..counters.invoice_number : \E i \in Issued : invoices[i].number = k
        /\ \A i, j \in Issued : invoices[i].number = invoices[j].number => i = j
    BY DEF CounterInv, NumbersGapless
  <2>2. \A i \in Issued' : invoices'[i].number \in 1..counters.invoice_number'
    BY <1>3, <1>4, <1>5, <2>1
  <2>3. \A k \in 1..counters.invoice_number' : \E i \in Issued' : invoices'[i].number = k
    <3> SUFFICES ASSUME NEW k \in 1..counters.invoice_number'
                 PROVE  \E i \in Issued' : invoices'[i].number = k
      OBVIOUS
    <3>1. CASE k = n
      BY <3>1, <1>4
    <3>2. CASE k # n
      BY <3>2, <1>3, <1>4, <1>5, <2>1
    <3> QED BY <3>1, <3>2
  <2>4. {invoices'[i].number : i \in Issued'} = 1..counters.invoice_number'
    BY <2>2, <2>3
  <2>5. \A i, j \in Issued' : invoices'[i].number = invoices'[j].number => i = j
    BY <1>3, <1>4, <1>5, <2>1
  <2>6. {orders'[o].number : o \in Placed'} = {orders[o].number : o \in Placed}
    BY <1>4 DEF Placed
  <2>7. \A o, p \in Placed' : orders'[o].number = orders'[p].number => o = p
    BY <1>4 DEF CounterInv, NumbersGapless, Placed
  <2> QED BY <1>5, <2>4, <2>5, <2>6, <2>7 DEF CounterInv, NumbersGapless
<1>7. OneHolder'
  BY <1>1, <1>2 DEF CounterInv, OneHolder, HoldsOrderCounter, HoldsInvoiceCounter
<1>8. NextInHand'
  BY <1>1, <1>2, <1>3, <1>5 DEF CounterInv, NextInHand, HoldsOrderCounter, HoldsInvoiceCounter
<1>9. NotYetCommitted'
  <2>1. tx[r].order \in Placed => orders[tx[r].order] # NoOrder
    BY DEF Placed, NoOrder
  <2>2. \A q \in Requests : orders[q] = NoOrder => orders'[q] = NoOrder
    BY <1>0, <1>1, <2>1, OrderMoveEffect
  <2>3. \A q \in Requests \ {r} : invoices'[q] = invoices[q]
    BY <1>0, <1>1
  <2> QED BY <1>2, <2>2, <2>3 DEF CounterInv, NotYetCommitted, Ended
<1> QED BY <1>6, <1>7, <1>8, <1>9, CommitInvoiceType DEF CounterInv

\* A commit that numbers no row: the counters, the numbers and the rows that
\* are missing stay as they were.
LEMMA UnnumberedCounter ==
  ASSUME CounterInv, NEW r \in Requests, NEW i \in Issued, NEW new \in InvoiceRow,
         End(r, "done"), counters' = counters,
         invoices' = [invoices EXCEPT ![i] = new],
         new.number = invoices[i].number, new.status # "NONE",
         \A q \in Requests : orders'[q].number = orders[q].number,
         \A q \in Requests : orders[q] = NoOrder => orders'[q] = NoOrder,
         Placed' = Placed, TypeInv'
  PROVE  CounterInv'
<1>1. TypeInv /\ i \in Requests /\ invoices \in [Requests -> InvoiceRow]
  BY DEF CounterInv, TypeInv, TypeOK, Issued
<1>2. /\ \A q \in Requests \ {r} : tx'[q] = tx[q] /\ pc'[q] = pc[q]
      /\ pc'[r] = "done"
  BY <1>1, EndLeavesOthers
<1>3. /\ \A j \in Requests : invoices'[j].number = invoices[j].number
      /\ \A j \in Requests : j # i => invoices'[j] = invoices[j]
      /\ Issued' = Issued
  BY <1>1 DEF Issued
<1>4. NumbersGapless'
  <2>1. /\ {orders'[o].number : o \in Placed'} = {orders[o].number : o \in Placed}
        /\ {invoices'[j].number : j \in Issued'} = {invoices[j].number : j \in Issued}
    BY <1>3 DEF Placed, Issued
  <2>2. /\ \A o, p \in Placed' : orders'[o].number = orders'[p].number => o = p
        /\ \A j, k \in Issued' : invoices'[j].number = invoices'[k].number => j = k
    BY <1>3 DEF CounterInv, NumbersGapless, Placed, Issued
  <2> QED BY <2>1, <2>2 DEF CounterInv, NumbersGapless
<1>5. OneHolder' /\ NextInHand'
  BY <1>2 DEF CounterInv, OneHolder, NextInHand, HoldsOrderCounter, HoldsInvoiceCounter
<1>6. NotYetCommitted'
  <2>1. invoices[i] # NoInvoice
    BY DEF Issued, NoInvoice
  <2> QED BY <1>1, <1>2, <1>3, <2>1 DEF CounterInv, NotYetCommitted, Ended
<1> QED BY <1>4, <1>5, <1>6 DEF CounterInv

LEMMA CommitPaymentCounter ==
  ASSUME CounterInv, NEW r \in Requests, CommitPayment(r)
  PROVE  CounterInv'
<1>1. TypeInv /\ TypeInv'
  BY CommitPaymentType DEF CounterInv
<1>2. /\ PublishOrderMove(r) /\ End(r, "done") /\ counters' = counters
      /\ tx[r].invoice \in Issued /\ tx[r].order \in Placed
      /\ PaidInvoice(r) \in InvoiceRow
      /\ PaidInvoice(r).number = invoices[tx[r].invoice].number
      /\ PaidInvoice(r).status # "NONE"
      /\ invoices' = [invoices EXCEPT ![tx[r].invoice] = PaidInvoice(r)]
  BY <1>1, CommitPaymentEffect DEF CommitPayment
<1>3. /\ Placed' = Placed
      /\ \A q \in Requests : orders'[q].number = orders[q].number
      /\ \A q \in Requests : q # tx[r].order => orders'[q] = orders[q]
  BY <1>1, <1>2, OrderMoveEffect
<1>4. \A q \in Requests : orders[q] = NoOrder => orders'[q] = NoOrder
  BY <1>2, <1>3 DEF Placed, NoOrder
<1> QED BY <1>1, <1>2, <1>3, <1>4, UnnumberedCounter

LEMMA CommitCancelCounter ==
  ASSUME CounterInv, NEW r \in Requests, CommitCancel(r)
  PROVE  CounterInv'
<1>1. TypeInv /\ TypeInv'
  BY CommitCancelType DEF CounterInv
<1>2. /\ End(r, "done") /\ counters' = counters /\ orders' = orders
      /\ tx[r].invoice \in Issued
      /\ CancelledInvoice(r) \in InvoiceRow
      /\ CancelledInvoice(r).number = invoices[tx[r].invoice].number
      /\ CancelledInvoice(r).status # "NONE"
      /\ invoices' = [invoices EXCEPT ![tx[r].invoice] = CancelledInvoice(r)]
  BY <1>1, CommitCancelEffect DEF CommitCancel
<1>3. Placed' = Placed
  BY <1>2 DEF Placed
<1> QED BY <1>1, <1>2, <1>3, UnnumberedCounter

LEMMA NextCounter == CounterInv /\ [Next]_vars => CounterInv'
<1> SUFFICES ASSUME CounterInv, [Next]_vars PROVE CounterInv'
  OBVIOUS
<1>1. ASSUME NEW r \in Requests, Advanced(r) PROVE CounterInv'
  BY <1>1, AdvanceCounter
<1>2. ASSUME NEW r \in Requests, CommitOrder(r) PROVE CounterInv'
  BY <1>2, CommitOrderCounter
<1>3. ASSUME NEW r \in Requests, CommitInvoice(r) PROVE CounterInv'
  BY <1>3, CommitInvoiceCounter
<1>4. ASSUME NEW r \in Requests, CommitPayment(r) PROVE CounterInv'
  BY <1>4, CommitPaymentCounter
<1>5. ASSUME NEW r \in Requests, CommitCancel(r) PROVE CounterInv'
  BY <1>5, CommitCancelCounter
<1>6. CASE UNCHANGED vars
  <2>1. TypeInv'
    BY NextType DEF CounterInv
  <2> QED
    BY <1>6, <2>1 DEF vars, CounterInv, OneHolder, NextInHand, NotYetCommitted,
        NumbersGapless, HoldsOrderCounter, HoldsInvoiceCounter, Placed, Issued
<1>7. TypeInv
  BY DEF CounterInv
<1> QED BY <1>1, <1>2, <1>3, <1>4, <1>5, <1>6, <1>7, NextCases

LEMMA CounterInvariant == Spec => []CounterInv
  BY InitCounter, NextCounter, PTL DEF Spec

\* Whatever aborts and whoever races, committed orders and committed invoices
\* are numbered 1, 2, ... without a gap or a repeat.
THEOREM NumbersAreGapless == Spec => []NumbersGapless
<1>1. CounterInv => NumbersGapless
  BY DEF CounterInv
<1> QED BY <1>1, CounterInvariant, PTL

-----------------------------------------------------------------------------
(* One order per key.  A request about to commit its order has found no     *)
(* order with its key, and as it holds the order counter no other request   *)
(* can commit one before it does.                                           *)

KeyIsFree ==
  \A r \in Requests : pc[r] = "commitOrder" =>
    \A o \in Placed : orders[o].key # tx[r].key

\* Every placement has one of the keys.
KeyKnown == \A r \in Requests : tx[r].op = "place" => tx[r].key \in Keys

KeyInv == CounterInv /\ KeyIsFree /\ KeyKnown /\ OneOrderPerKey

LEMMA InitKey == Init => KeyInv
  BY InitCounter DEF Init, KeyInv, KeyIsFree, KeyKnown, OneOrderPerKey, Placed,
      NoOrder, NoTx

\* A step that leaves the orders' keys alone and brings nobody to commitOrder.
LEMMA KeysUntouched ==
  ASSUME KeyInv, CounterInv', NEW r \in Requests,
         \A q \in Requests \ {r} : tx'[q] = tx[q] /\ pc'[q] = pc[q],
         tx'[r] = NoTx, pc'[r] # "commitOrder", Placed' = Placed,
         \A o \in Requests : orders'[o].key = orders[o].key
  PROVE  KeyInv'
<1>1. OneOrderPerKey'
  BY DEF KeyInv, OneOrderPerKey, Placed
<1>2. KeyIsFree'
  BY DEF KeyInv, KeyIsFree, Placed
<1>3. KeyKnown'
  BY DEF KeyInv, KeyKnown, NoTx
<1> QED BY <1>1, <1>2, <1>3 DEF KeyInv

LEMMA AdvanceKey ==
  ASSUME KeyInv, NEW r \in Requests, Advanced(r)
  PROVE  KeyInv'
<1>1. PICK t \in TxRow, s \in Statements \cup Ended :
        PrivateStep(r, t, s) /\ Advances(r, t, s)
  BY DEF Advanced
<1>2. /\ pc \in [Requests -> Statements \cup Ended] /\ tx \in [Requests -> TxRow]
      /\ tx' = [tx EXCEPT ![r] = t] /\ pc' = [pc EXCEPT ![r] = s] /\ orders' = orders
  BY <1>1 DEF PrivateStep, db, KeyInv, CounterInv, TypeInv, TypeOK
<1>3. s = "commitOrder" => t = tx[r] /\ ~OrderClashes(r)
  BY <1>1 DEF Advances, OpensPlacement, OpensPayment, OpensCancellation, Closes,
      DrawsNumber, ReadsOrder, MovesOn, Ended
<1>4. OneOrderPerKey'
  BY <1>2 DEF KeyInv, OneOrderPerKey, Placed
<1>5. KeyIsFree'
  BY <1>2, <1>3 DEF KeyInv, KeyIsFree, OrderClashes, Placed
<1>6. t.op = "place" => t.key \in Keys
  <2>1. tx[r] \in TxRow /\ (tx[r].op = "place" => tx[r].key \in Keys)
    BY <1>2 DEF KeyInv, KeyKnown
  <2>2. CASE \/ OpensPlacement(r, t, s) \/ OpensPayment(r, t, s)
             \/ OpensCancellation(r, t, s) \/ Closes(r, t, s)
    BY <2>2 DEF OpensPlacement, OpensPayment, OpensCancellation, Closes, NoTx
  <2>3. CASE DrawsNumber(r, t, s) \/ ReadsOrder(r, t, s) \/ MovesOn(r, t, s)
    <3>1. t.op = tx[r].op /\ t.key = tx[r].key
      BY <2>1, <2>3 DEF DrawsNumber, ReadsOrder, MovesOn, TxRow
    <3> QED BY <2>1, <3>1
  <2> QED BY <1>1, <2>2, <2>3 DEF Advances
<1>7. KeyKnown'
  BY <1>2, <1>6 DEF KeyInv, KeyKnown
<1> QED BY <1>4, <1>5, <1>7, AdvanceCounter DEF KeyInv

LEMMA CommitOrderKey ==
  ASSUME KeyInv, NEW r \in Requests, CommitOrder(r)
  PROVE  KeyInv'
<1>1. /\ pc[r] = "commitOrder" /\ orders \in [Requests -> OrderRow]
      /\ orders' = [orders EXCEPT ![r] = CommittedOrder(r)]
      /\ \A q \in Requests \ {r} : tx'[q] = tx[q] /\ pc'[q] = pc[q]
      /\ pc'[r] = "drawInvoiceNumber"
  BY DEF KeyInv, CounterInv, TypeInv, TypeOK, CommitOrder, Goto, CommittedOrder
<1>2. \A q \in Requests \ {r} : pc'[q] # "commitOrder"
  BY <1>1 DEF KeyInv, CounterInv, OneHolder, HoldsOrderCounter
<1>3. /\ Placed' = Placed \cup {r}
      /\ \A o \in Placed \ {r} : orders'[o].key = orders[o].key
      /\ orders'[r].key = tx[r].key
  BY <1>1 DEF Placed, CommittedOrder
<1>4. \A o \in Placed : orders[o].key # tx[r].key
  BY <1>1 DEF KeyInv, KeyIsFree
<1>5. OneOrderPerKey'
  BY <1>3, <1>4 DEF KeyInv, OneOrderPerKey
<1>6. KeyIsFree'
  BY <1>1, <1>2 DEF KeyIsFree
<1>7. KeyKnown'
  <2>1. tx \in [Requests -> TxRow] /\ tx' = [tx EXCEPT ![r] = AfterOrder(r)]
    BY DEF KeyInv, CounterInv, TypeInv, TypeOK, CommitOrder, AfterOrder
  <2>2. AfterOrder(r).op = tx[r].op /\ AfterOrder(r).key = tx[r].key
    BY <2>1 DEF AfterOrder, TxRow
  <2> QED BY <2>1, <2>2 DEF KeyInv, KeyKnown
<1> QED BY <1>5, <1>6, <1>7, CommitOrderCounter DEF KeyInv

LEMMA NextKey == KeyInv /\ [Next]_vars => KeyInv'
<1> SUFFICES ASSUME KeyInv, [Next]_vars PROVE KeyInv'
  OBVIOUS
<1>1. CounterInv /\ TypeInv /\ CounterInv'
  BY NextCounter DEF KeyInv, CounterInv
<1>2. ASSUME NEW r \in Requests, Advanced(r) PROVE KeyInv'
  BY <1>2, AdvanceKey
<1>3. ASSUME NEW r \in Requests, CommitOrder(r) PROVE KeyInv'
  BY <1>3, CommitOrderKey
<1>4. ASSUME NEW r \in Requests, CommitInvoice(r) PROVE KeyInv'
  <2>1. PublishOrderMove(r) /\ End(r, "done") /\ tx[r].order \in Placed
    BY <1>1, <1>4 DEF CommitInvoice, TypeInv, RowsInHand, Fits, WithOrder
  <2> QED BY <1>1, <2>1, OrderMoveEffect, EndLeavesOthers, KeysUntouched
<1>5. ASSUME NEW r \in Requests, CommitPayment(r) PROVE KeyInv'
  <2>1. PublishOrderMove(r) /\ End(r, "done") /\ tx[r].order \in Placed
    BY <1>1, <1>5 DEF CommitPayment, TypeInv, RowsInHand, Fits, WithOrder
  <2> QED BY <1>1, <2>1, OrderMoveEffect, EndLeavesOthers, KeysUntouched
<1>6. ASSUME NEW r \in Requests, CommitCancel(r) PROVE KeyInv'
  <2>1. End(r, "done") /\ orders' = orders
    BY <1>6 DEF CommitCancel
  <2>2. Placed' = Placed
    BY <2>1 DEF Placed
  <2> QED BY <1>1, <2>1, <2>2, EndLeavesOthers, KeysUntouched
<1>7. CASE UNCHANGED vars
  BY <1>1, <1>7 DEF vars, KeyInv, KeyIsFree, KeyKnown, OneOrderPerKey, Placed
<1> QED BY <1>1, <1>2, <1>3, <1>4, <1>5, <1>6, <1>7, NextCases

LEMMA KeyInvariant == Spec => []KeyInv
  BY InitKey, NextKey, PTL DEF Spec

\* Two requests with the same idempotency key never both leave an order.
THEOREM OrderPerKey == Spec => []OneOrderPerKey
<1>1. KeyInv => OneOrderPerKey
  BY DEF KeyInv
<1> QED BY <1>1, KeyInvariant, PTL

-----------------------------------------------------------------------------
(* The order's moves.  An issuer that found its order PENDING holds the     *)
(* invoice counter until it commits, so no other issuer moves the order     *)
(* meanwhile; a payment only moves an order that an invoice bills already.  *)

\* Nothing has been read for the move of the order yet.
Unread(r) ==
  pc[r] \in {"drawOrderNumber", "insertOrder", "commitOrder", "drawInvoiceNumber",
             "insertInvoice", "readOrder", "updateInvoice"} => tx[r].orderFrom = "NONE"

IssueInHand(r) ==
  LET now == orders[tx[r].order].status IN
  tx[r].op = "place" =>
    /\ pc[r] \in WithOrder /\ tx[r].orderStatus # "PENDING" => now # "PENDING"
    /\ pc[r] = "readOrder" => tx[r].orderStatus = "PENDING"
    /\ pc[r] = "updateOrder" => tx[r].orderFrom = "PENDING" /\ now = "PENDING"
    /\ pc[r] = "commitInvoice" => \/ tx[r].orderFrom = "PENDING" /\ now = "PENDING"
                                  \/ tx[r].orderFrom = "NONE" /\ now # "PENDING"

PaymentInHand(r) ==
  tx[r].op = "pay" =>
    /\ tx[r].order = invoices[tx[r].invoice].order
    /\ pc[r] = "updateOrder" => tx[r].orderFrom = "AWAITING_PAYMENT"
    /\ pc[r] = "commitPayment" => tx[r].orderFrom \in {"NONE", "AWAITING_PAYMENT"}

MoveInv ==
  /\ CounterInv
  /\ \A r \in Requests : Unread(r) /\ IssueInHand(r) /\ PaymentInHand(r)
  /\ PendingIffUninvoiced

LEMMA InitMove == Init => MoveInv
  BY InitCounter DEF Init, MoveInv, Unread, IssueInHand, PaymentInHand, NoTx, NoOrder,
      PendingIffUninvoiced, Placed

\* The statuses the two targets may be reached from.
LEMMA MovesAllowed ==
  ASSUME NEW from \in LiveOrderStatuses \ {"NONE"}
  PROVE  /\ IsValidOrderTransition(from, "AWAITING_PAYMENT") <=> from = "PENDING"
         /\ IsValidOrderTransition(from, "PAID") <=> from = "AWAITING_PAYMENT"
  BY DEF IsValidOrderTransition, ORDER_TRANSITIONS, OrderStatuses, LiveOrderStatuses

LEMMA AdvanceMove ==
  ASSUME MoveInv, NEW r \in Requests, Advanced(r)
  PROVE  MoveInv'
<1>1. PICK t \in TxRow, s \in Statements \cup Ended :
        PrivateStep(r, t, s) /\ Advances(r, t, s)
  BY DEF Advanced
<1>2. /\ pc \in [Requests -> Statements \cup Ended] /\ tx \in [Requests -> TxRow]
      /\ tx' = [tx EXCEPT ![r] = t] /\ pc' = [pc EXCEPT ![r] = s]
      /\ orders' = orders /\ invoices' = invoices
      /\ tx[r] \in TxRow /\ Fits(pc[r], tx[r]) /\ Fits(s, t)
      /\ Unread(r) /\ IssueInHand(r) /\ PaymentInHand(r)
  BY <1>1, AdvanceFits
  DEF PrivateStep, db, MoveInv, CounterInv, TypeInv, TypeOK, RowsInHand
<1>3. \A q \in Requests \ {r} : Unread(q)' /\ IssueInHand(q)' /\ PaymentInHand(q)'
  BY <1>2 DEF MoveInv, Unread, IssueInHand, PaymentInHand
<1>4. tx'[r] = t /\ pc'[r] = s
  BY <1>2
<1>5. PendingIffUninvoiced'
  BY <1>2 DEF MoveInv, PendingIffUninvoiced, Placed, Issued
<1>6. Unread(r)' /\ IssueInHand(r)' /\ PaymentInHand(r)'
  <2>1. CASE OpensPlacement(r, t, s)
    BY <1>2, <1>4, <2>1
    DEF OpensPlacement, Unread, IssueInHand, PaymentInHand, WithOrder
  <2>2. CASE OpensPayment(r, t, s)
    BY <1>2, <1>4, <2>2 DEF OpensPayment, Unread, IssueInHand, PaymentInHand
  <2>3. CASE OpensCancellation(r, t, s)
    BY <1>2, <1>4, <2>3 DEF OpensCancellation, Unread, IssueInHand, PaymentInHand
  <2>4. CASE Closes(r, t, s)
    BY <1>2, <1>4, <2>4 DEF Closes, Unread, IssueInHand, PaymentInHand, NoTx, Ended
  <2>5. CASE DrawsNumber(r, t, s)
    BY <1>2, <1>4, <2>5
    DEF DrawsNumber, Unread, IssueInHand, PaymentInHand, WithOrder, Fits, TxRow
  <2>6. CASE ReadsOrder(r, t, s)
    <3>1. /\ tx[r].order \in Placed /\ tx[r].op \in {"place", "pay"}
          /\ orders[tx[r].order].status \in LiveOrderStatuses \ {"NONE"}
      BY <1>2, <2>6
      DEF ReadsOrder, Fits, WithOrder, Placed, MoveInv, CounterInv, TypeInv, TypeOK, OrderRow
    <3>2. orders[tx[r].order].status =
            IF tx[r].op = "place" THEN "PENDING" ELSE "AWAITING_PAYMENT"
      BY <3>1, <2>6, MovesAllowed DEF ReadsOrder, OrderTarget
    <3>3. /\ t.op = tx[r].op /\ t.order = tx[r].order /\ t.invoice = tx[r].invoice
          /\ t.orderStatus = tx[r].orderStatus
          /\ t.orderFrom = orders[tx[r].order].status
          /\ pc[r] = "readOrder" /\ s = "updateOrder"
      BY <1>2, <2>6 DEF ReadsOrder, TxRow
    <3> QED
      BY <1>2, <1>4, <3>1, <3>2, <3>3 DEF Unread, IssueInHand, PaymentInHand, WithOrder
  <2>7. CASE MovesOn(r, t, s)
    BY <1>2, <1>4, <2>7
    DEF MovesOn, Unread, IssueInHand, PaymentInHand, WithOrder, Fits
  <2> QED BY <1>1, <2>1, <2>2, <2>3, <2>4, <2>5, <2>6, <2>7 DEF Advances
<1> QED BY <1>3, <1>5, <1>6, AdvanceCounter DEF MoveInv

\* A step of r that commits and leaves the others' work standing: no order
\* falls back to PENDING, one that leaves PENDING is nobody else's to move,
\* and no invoice changes hands.
LEMMA OthersMove ==
  ASSUME MoveInv, NEW r \in Requests, NEW q \in Requests, q # r,
         tx'[q] = tx[q], pc'[q] = pc[q],
         \A o \in Placed : orders[o].status # "PENDING" => orders'[o].status # "PENDING",
         \A o \in Placed : /\ orders[o].status = "PENDING"
                           /\ tx[q].op = "place" /\ pc[q] \in {"updateOrder", "commitInvoice"}
                           => orders'[o].status = "PENDING",
         \A i \in Issued : invoices'[i].order = invoices[i].order
  PROVE  Unread(q)' /\ IssueInHand(q)' /\ PaymentInHand(q)'
<1>1. Unread(q) /\ IssueInHand(q) /\ PaymentInHand(q) /\ Fits(pc[q], tx[q])
  BY DEF MoveInv, CounterInv, TypeInv, RowsInHand
<1>2. Unread(q)'
  BY <1>1 DEF Unread
<1>3. IssueInHand(q)'
  BY <1>1 DEF IssueInHand, Fits, WithOrder
<1>4. PaymentInHand(q)'
  BY <1>1 DEF PaymentInHand, Fits
<1> QED BY <1>2, <1>3, <1>4

\* The request that ends has nothing in hand.
LEMMA EndedMove ==
  ASSUME NEW r \in Requests, pc'[r] = "done", tx'[r] = NoTx
  PROVE  Unread(r)' /\ IssueInHand(r)' /\ PaymentInHand(r)'
  BY DEF Unread, IssueInHand, PaymentInHand, NoTx

\* How the order stands when its move is committed.
LEMMA MoveFromRead ==
  ASSUME MoveInv, NEW r \in Requests, tx[r].order \in Placed,
         \/ pc[r] = "commitInvoice" /\ tx[r].op = "place"
         \/ pc[r] = "commitPayment" /\ tx[r].op = "pay"
  PROVE  /\ tx[r].op = "place" /\ tx[r].orderFrom # "NONE" =>
              orders[tx[r].order].status = "PENDING"
         /\ tx[r].op = "place" /\ tx[r].orderFrom = "NONE" =>
              orders[tx[r].order].status # "PENDING"
         /\ tx[r].op = "pay" =>
              orders[tx[r].order].status \in {"AWAITING_PAYMENT", "PAID"}
<1>1. IssueInHand(r) /\ PaymentInHand(r) /\ Fits(pc[r], tx[r])
  BY DEF MoveInv, CounterInv, TypeInv, RowsInHand
<1>2. orders[tx[r].order] \in OrderRow
  BY DEF MoveInv, CounterInv, TypeInv, TypeOK, Placed
<1>3. CASE tx[r].op = "place"
  BY <1>1, <1>3 DEF IssueInHand
<1>4. CASE tx[r].op = "pay"
  <2>1. tx[r].invoice \in Issued /\ invoices[tx[r].invoice].order = tx[r].order
    BY <1>1, <1>4 DEF Fits, PaymentInHand
  <2>2. orders[tx[r].order].status # "PENDING"
    BY <2>1 DEF MoveInv, PendingIffUninvoiced
  <2> QED BY <1>2, <1>4, <2>2 DEF OrderRow, LiveOrderStatuses, Placed
<1> QED BY <1>3, <1>4

LEMMA CommitOrderMove ==
  ASSUME MoveInv, NEW r \in Requests, CommitOrder(r)
  PROVE  MoveInv'
<1>1. /\ pc[r] = "commitOrder" /\ orders \in [Requests -> OrderRow]
      /\ tx \in [Requests -> TxRow] /\ orders[r] = NoOrder
      /\ orders' = [orders EXCEPT ![r] = CommittedOrder(r)] /\ invoices' = invoices
      /\ tx' = [tx EXCEPT ![r] = AfterOrder(r)]
      /\ \A q \in Requests \ {r} : tx'[q] = tx[q] /\ pc'[q] = pc[q]
      /\ pc'[r] = "drawInvoiceNumber"
  BY DEF MoveInv, CounterInv, NotYetCommitted, TypeInv, TypeOK, CommitOrder, Goto,
      CommittedOrder, AfterOrder
<1>2. /\ r \notin Placed /\ Placed' = Placed \cup {r}
      /\ \A o \in Placed : orders'[o] = orders[o]
      /\ orders'[r].status = "PENDING"
      /\ Issued' = Issued
  BY <1>1 DEF Placed, Issued, NoOrder, CommittedOrder
<1>3. \A i \in Issued : invoices'[i].order = invoices[i].order /\ invoices[i].order # r
  BY <1>1, <1>2 DEF MoveInv, CounterInv, TypeInv, RowsInHand
<1>4. \A q \in Requests \ {r} : Unread(q)' /\ IssueInHand(q)' /\ PaymentInHand(q)'
  BY <1>1, <1>2, <1>3, OthersMove
<1>5. Unread(r)' /\ IssueInHand(r)' /\ PaymentInHand(r)'
  <2>1. Unread(r) /\ Fits(pc[r], tx[r]) /\ tx[r] \in TxRow
    BY <1>1 DEF MoveInv, CounterInv, TypeInv, RowsInHand
  <2>2. /\ tx'[r].op = "place" /\ tx'[r].orderFrom = "NONE"
        /\ tx'[r].orderStatus = "PENDING"
    BY <1>1, <2>1 DEF AfterOrder, Unread, Fits, TxRow
  <2> QED BY <1>1, <2>2 DEF Unread, IssueInHand, PaymentInHand
<1>6. PendingIffUninvoiced'
  BY <1>2, <1>3 DEF MoveInv, PendingIffUninvoiced
<1> QED BY <1>4, <1>5, <1>6, CommitOrderCounter DEF MoveInv

LEMMA CommitInvoiceMove ==
  ASSUME MoveInv, NEW r \in Requests, CommitInvoice(r)
  PROVE  MoveInv'
<1> DEFINE o == tx[r].order
<1>0. CounterInv /\ TypeInv /\ invoices \in [Requests -> InvoiceRow]
  BY DEF MoveInv, CounterInv, TypeInv, TypeOK
<1>1. /\ pc[r] = "commitInvoice" /\ tx[r].op = "place" /\ o \in Placed
      /\ invoices' = [invoices EXCEPT ![r] = CommittedInvoice(r)]
      /\ PublishOrderMove(r) /\ End(r, "done") /\ invoices[r] = NoInvoice
  BY <1>0 DEF CommitInvoice, CommittedInvoice, CounterInv, NotYetCommitted, TypeInv,
      RowsInHand, Fits, WithOrder, Ended
<1>2. /\ \A q \in Requests \ {r} : tx'[q] = tx[q] /\ pc'[q] = pc[q]
      /\ pc'[r] = "done" /\ tx'[r] = NoTx
  BY <1>0, <1>1, EndLeavesOthers
<1>3. /\ Placed' = Placed /\ orders'[o].status # "PENDING"
      /\ \A p \in Placed : p # o => orders'[p] = orders[p]
  BY <1>0, <1>1, OrderMoveEffect, MoveFromRead DEF OrderTarget, Placed
<1>4. /\ r \notin Issued /\ Issued' = Issued \cup {r} /\ invoices'[r].order = o
      /\ \A i \in Issued : invoices'[i] = invoices[i]
  BY <1>0, <1>1 DEF Issued, NoInvoice, CommittedInvoice
<1>5. \A q \in Requests \ {r} :
        ~(tx[q].op = "place" /\ pc[q] \in {"updateOrder", "commitInvoice"})
  BY <1>0, <1>1 DEF CounterInv, OneHolder, HoldsInvoiceCounter
<1>6. \A q \in Requests \ {r} : Unread(q)' /\ IssueInHand(q)' /\ PaymentInHand(q)'
  BY <1>2, <1>3, <1>4, <1>5, OthersMove
<1>7. PendingIffUninvoiced'
  BY <1>1, <1>3, <1>4 DEF MoveInv, PendingIffUninvoiced
<1> QED BY <1>0, <1>2, <1>6, <1>7, EndedMove, CommitInvoiceCounter DEF MoveInv

LEMMA CommitPaymentMove ==
  ASSUME MoveInv, NEW r \in Requests, CommitPayment(r)
  PROVE  MoveInv'
<1> DEFINE o == tx[r].order
<1>0. CounterInv /\ TypeInv /\ invoices \in [Requests -> InvoiceRow]
  BY DEF MoveInv, CounterInv, TypeInv, TypeOK
<1>1. /\ pc[r] = "commitPayment" /\ tx[r].op = "pay" /\ o \in Placed
      /\ tx[r].invoice \in Issued /\ tx[r].invoice \in Requests
      /\ PaidInvoice(r).order = invoices[tx[r].invoice].order
      /\ PaidInvoice(r).status # "NONE"
      /\ invoices' = [invoices EXCEPT ![tx[r].invoice] = PaidInvoice(r)]
      /\ PublishOrderMove(r) /\ End(r, "done")
  BY <1>0, CommitPaymentEffect DEF CommitPayment, Issued
<1>2. /\ \A q \in Requests \ {r} : tx'[q] = tx[q] /\ pc'[q] = pc[q]
      /\ pc'[r] = "done" /\ tx'[r] = NoTx
  BY <1>0, <1>1, EndLeavesOthers
<1>3. /\ Placed' = Placed
      /\ orders[o].status # "PENDING" /\ orders'[o].status # "PENDING"
      /\ \A p \in Placed : p # o => orders'[p] = orders[p]
  BY <1>0, <1>1, OrderMoveEffect, MoveFromRead DEF OrderTarget, Placed
<1>4. Issued' = Issued /\ \A i \in Issued : invoices'[i].order = invoices[i].order
  BY <1>0, <1>1 DEF Issued
<1>5. \A q \in Requests \ {r} : Unread(q)' /\ IssueInHand(q)' /\ PaymentInHand(q)'
  BY <1>2, <1>3, <1>4, OthersMove
<1>6. PendingIffUninvoiced'
  BY <1>1, <1>3, <1>4 DEF MoveInv, PendingIffUninvoiced
<1> QED BY <1>0, <1>2, <1>5, <1>6, EndedMove, CommitPaymentCounter DEF MoveInv

LEMMA CommitCancelMove ==
  ASSUME MoveInv, NEW r \in Requests, CommitCancel(r)
  PROVE  MoveInv'
<1>0. CounterInv /\ TypeInv /\ invoices \in [Requests -> InvoiceRow]
  BY DEF MoveInv, CounterInv, TypeInv, TypeOK
<1>1. /\ orders' = orders /\ tx[r].invoice \in Issued /\ tx[r].invoice \in Requests
      /\ CancelledInvoice(r).order = invoices[tx[r].invoice].order
      /\ CancelledInvoice(r).status # "NONE"
      /\ invoices' = [invoices EXCEPT ![tx[r].invoice] = CancelledInvoice(r)]
      /\ End(r, "done")
  BY <1>0, CommitCancelEffect DEF CommitCancel, Issued
<1>2. /\ \A q \in Requests \ {r} : tx'[q] = tx[q] /\ pc'[q] = pc[q]
      /\ pc'[r] = "done" /\ tx'[r] = NoTx
  BY <1>0, <1>1, EndLeavesOthers
<1>3. /\ Placed' = Placed /\ Issued' = Issued
      /\ \A i \in Issued : invoices'[i].order = invoices[i].order
  BY <1>0, <1>1 DEF Placed, Issued
<1>4. \A q \in Requests \ {r} : Unread(q)' /\ IssueInHand(q)' /\ PaymentInHand(q)'
  BY <1>1, <1>2, <1>3, OthersMove
<1>5. PendingIffUninvoiced'
  BY <1>1, <1>3 DEF MoveInv, PendingIffUninvoiced
<1> QED BY <1>0, <1>2, <1>4, <1>5, EndedMove, CommitCancelCounter DEF MoveInv

LEMMA NextMove == MoveInv /\ [Next]_vars => MoveInv'
<1> SUFFICES ASSUME MoveInv, [Next]_vars PROVE MoveInv'
  OBVIOUS
<1>1. CounterInv /\ TypeInv
  BY DEF MoveInv, CounterInv
<1>2. ASSUME NEW r \in Requests, Advanced(r) PROVE MoveInv'
  BY <1>2, AdvanceMove
<1>3. ASSUME NEW r \in Requests, CommitOrder(r) PROVE MoveInv'
  BY <1>3, CommitOrderMove
<1>4. ASSUME NEW r \in Requests, CommitInvoice(r) PROVE MoveInv'
  BY <1>4, CommitInvoiceMove
<1>5. ASSUME NEW r \in Requests, CommitPayment(r) PROVE MoveInv'
  BY <1>5, CommitPaymentMove
<1>6. ASSUME NEW r \in Requests, CommitCancel(r) PROVE MoveInv'
  BY <1>6, CommitCancelMove
<1>7. CASE UNCHANGED vars
  BY <1>1, <1>7, NextCounter
  DEF vars, MoveInv, Unread, IssueInHand, PaymentInHand, PendingIffUninvoiced, Placed, Issued
<1> QED BY <1>1, <1>2, <1>3, <1>4, <1>5, <1>6, <1>7, NextCases

LEMMA MoveInvariant == Spec => []MoveInv
  BY InitMove, NextMove, PTL DEF Spec

\* An order is PENDING exactly as long as no invoice bills it, whichever
\* requests issue its invoices and whatever copy of it they decided on.
THEOREM PendingOrders == Spec => []PendingIffUninvoiced
<1>1. MoveInv => PendingIffUninvoiced
  BY DEF MoveInv
<1> QED BY <1>1, MoveInvariant, PTL

\* Orders only ever move along ORDER_TRANSITIONS, although the map is checked
\* on a read that takes no lock.
THEOREM OrdersMoveLegally == Spec => OrderMovesLegally
<1> DEFINE Legal(o) ==
      orders'[o].status # orders[o].status =>
        \/ orders[o].status = "NONE" /\ orders'[o].status = "PENDING"
        \/ orders[o].status # "NONE"
           /\ IsValidOrderTransition(orders[o].status, orders'[o].status)
<1>1. ASSUME MoveInv, [Next]_vars PROVE \A o \in Requests : Legal(o)
  <2>0. CounterInv /\ TypeInv
    BY <1>1 DEF MoveInv, CounterInv
  <2>1. ASSUME NEW r \in Requests, Advanced(r) PROVE orders' = orders
    BY <2>1 DEF Advanced, PrivateStep, db
  <2>2. ASSUME NEW r \in Requests, CommitOrder(r) PROVE \A o \in Requests : Legal(o)
    <3>1. /\ orders[r] = NoOrder /\ orders \in [Requests -> OrderRow]
          /\ orders' = [orders EXCEPT ![r] = CommittedOrder(r)]
      BY <2>0, <2>2 DEF CounterInv, NotYetCommitted, CommitOrder, CommittedOrder,
          TypeInv, TypeOK
    <3> QED BY <3>1 DEF NoOrder, CommittedOrder
  <2>3. ASSUME NEW r \in Requests, PublishOrderMove(r), tx[r].order \in Placed,
               \/ pc[r] = "commitInvoice" /\ tx[r].op = "place"
               \/ pc[r] = "commitPayment" /\ tx[r].op = "pay"
        PROVE  \A o \in Requests : Legal(o)
    <3>1. \A o \in Requests : o # tx[r].order => orders'[o] = orders[o]
      BY <2>0, <2>3, OrderMoveEffect
    <3>2. orders[tx[r].order].status \in LiveOrderStatuses \ {"NONE"}
      BY <2>0, <2>3 DEF TypeInv, TypeOK, OrderRow, Placed
    <3>3. Legal(tx[r].order)
      BY <1>1, <2>0, <2>3, <3>2, OrderMoveEffect, MoveFromRead, MovesAllowed
      DEF OrderTarget
    <3> QED BY <3>1, <3>3
  <2>4. ASSUME NEW r \in Requests, CommitInvoice(r) PROVE \A o \in Requests : Legal(o)
    BY <2>0, <2>3, <2>4 DEF CommitInvoice, TypeInv, RowsInHand, Fits, WithOrder
  <2>5. ASSUME NEW r \in Requests, CommitPayment(r) PROVE \A o \in Requests : Legal(o)
    BY <2>0, <2>3, <2>5, CommitPaymentEffect DEF CommitPayment
  <2>6. ASSUME NEW r \in Requests, CommitCancel(r) PROVE orders' = orders
    BY <2>6 DEF CommitCancel
  <2>7. CASE UNCHANGED vars
    BY <2>7 DEF vars
  <2> QED BY <1>1, <2>0, <2>1, <2>2, <2>4, <2>5, <2>6, <2>7, NextCases
<1>2. MoveInv /\ [Next]_vars => [\A o \in Requests : Legal(o)]_vars
  BY <1>1
<1>3. Spec => [][\A o \in Requests : Legal(o)]_vars
  BY <1>2, MoveInvariant, PTL DEF Spec
<1> QED BY <1>3 DEF OrderMovesLegally

-----------------------------------------------------------------------------
(* Billing implements OrderLedger: the three commits that change an order   *)
(* or number an invoice are the ledger's three steps, and everything else   *)
(* is a stutter.  The guards of the ledger's steps are what the invariants  *)
(* above keep true at those commits.                                        *)

LEMMA InitLedger == Init => Ledger!Init
  BY DEF Init, Ledger!Init, NoOrder, NoInvoice

\* A step that changes neither the orders nor an invoice's number or order.
LEMMA StutterLedger ==
  ASSUME orders' = orders, counters' = counters,
         \A i \in Requests : /\ invoices'[i].order = invoices[i].order
                             /\ invoices'[i].number = invoices[i].number
  PROVE  UNCHANGED Ledger!vars
<1>1. [i \in Requests |-> invoices[i].order]' = [i \in Requests |-> invoices[i].order]
  OBVIOUS
<1>2. [i \in Requests |-> invoices[i].number]' = [i \in Requests |-> invoices[i].number]
  OBVIOUS
<1> QED BY <1>1, <1>2 DEF Ledger!vars

LEMMA CommitOrderLedger ==
  ASSUME KeyInv, NEW r \in Requests, CommitOrder(r)
  PROVE  Ledger!Next
<1>1. /\ pc[r] = "commitOrder" /\ tx[r].op = "place" /\ orders[r] = NoOrder
      /\ orders \in [Requests -> OrderRow]
      /\ counters \in [order_number : Nat, invoice_number : Nat]
      /\ orders' = [orders EXCEPT ![r] = CommittedOrder(r)]
      /\ counters' = [counters EXCEPT !.order_number = tx[r].number]
      /\ invoices' = invoices
      /\ tx[r].number = counters.order_number + 1
  BY DEF CommitOrder, CommittedOrder, KeyInv, CounterInv, NotYetCommitted, NextInHand,
      HoldsOrderCounter, TypeInv, TypeOK, RowsInHand, Fits
<1>2. /\ tx[r].key \in Keys
      /\ \A o \in Requests : orders[o].status # "NONE" => orders[o].key # tx[r].key
  BY <1>1 DEF KeyInv, KeyKnown, KeyIsFree, Placed
<1>3. /\ counters'.order_number = counters.order_number + 1
      /\ counters'.invoice_number = counters.invoice_number
  BY <1>1
<1>4. \A o \in Requests : orders'[o] = IF o = r THEN CommittedOrder(r) ELSE orders[o]
  BY <1>1
<1>5. PICK k \in Keys : k = tx[r].key
  BY <1>2
<1>6. Ledger!PlaceOrder(r, k)
  <2>0. /\ orders'[r].status = "PENDING" /\ orders'[r].key = k
        /\ orders'[r].number = counters.order_number + 1
        /\ \A o \in Requests \ {r} : orders'[o] = orders[o]
    BY <1>1, <1>4, <1>5 DEF CommittedOrder
  <2>1. [o \in Requests |-> orders[o].status]' =
          [[o \in Requests |-> orders[o].status] EXCEPT ![r] = "PENDING"]
    BY <2>0
  <2>2. [o \in Requests |-> orders[o].key]' =
          [[o \in Requests |-> orders[o].key] EXCEPT ![r] = k]
    BY <2>0
  <2>3. [o \in Requests |-> orders[o].number]' =
          [[o \in Requests |-> orders[o].number] EXCEPT ![r] = counters.order_number + 1]
    BY <2>0
  <2>4. orders[r].status = "NONE"
    BY <1>1 DEF NoOrder
  <2> QED BY <1>1, <1>2, <1>3, <1>5, <2>1, <2>2, <2>3, <2>4 DEF Ledger!PlaceOrder
<1> QED BY <1>6 DEF Ledger!Next

LEMMA CommitInvoiceLedger ==
  ASSUME MoveInv, NEW r \in Requests, CommitInvoice(r)
  PROVE  Ledger!Next
<1>o. PICK o \in Requests : o = tx[r].order /\ o \in Placed
  BY DEF CommitInvoice, MoveInv, CounterInv, TypeInv, RowsInHand, Fits, WithOrder, Placed
<1>0. CounterInv /\ TypeInv /\ invoices \in [Requests -> InvoiceRow]
      /\ orders \in [Requests -> OrderRow]
      /\ counters \in [order_number : Nat, invoice_number : Nat]
  BY DEF MoveInv, CounterInv, TypeInv, TypeOK
<1>1. /\ pc[r] = "commitInvoice" /\ tx[r].op = "place"
      /\ invoices' = [invoices EXCEPT ![r] = CommittedInvoice(r)]
      /\ counters' = [counters EXCEPT !.invoice_number = tx[r].number]
      /\ PublishOrderMove(r) /\ invoices[r] = NoInvoice
      /\ tx[r].number = counters.invoice_number + 1
  BY <1>0 DEF CommitInvoice, CommittedInvoice, CounterInv, NotYetCommitted, NextInHand,
      HoldsInvoiceCounter, TypeInv, RowsInHand, Fits, WithOrder, Ended
<1>2. /\ counters'.invoice_number = counters.invoice_number + 1
      /\ counters'.order_number = counters.order_number
  BY <1>0, <1>1
<1>3. /\ \A p \in Requests : /\ orders'[p].number = orders[p].number
                             /\ orders'[p].key = orders[p].key
                             /\ p # o => orders'[p].status = orders[p].status
      /\ orders'[o].status = IF orders[o].status = "PENDING" THEN "AWAITING_PAYMENT"
                                                             ELSE orders[o].status
  BY <1>0, <1>1, <1>o, OrderMoveEffect, MoveFromRead DEF OrderTarget
<1>4. \A i \in Requests : invoices'[i] = IF i = r THEN CommittedInvoice(r) ELSE invoices[i]
  BY <1>0, <1>1
<1>5. o \in Requests /\ orders[o].status # "NONE"
  BY <1>o DEF Placed
<1>6. Ledger!IssueInvoice(r, o)
  <2>1. [p \in Requests |-> orders[p].status]' =
          [[p \in Requests |-> orders[p].status] EXCEPT ![o] =
             IF @ = "PENDING" THEN "AWAITING_PAYMENT" ELSE @]
    BY <1>3, <1>5
  <2>0. /\ invoices'[r].order = o
        /\ invoices'[r].number = counters.invoice_number + 1
        /\ \A i \in Requests \ {r} : invoices'[i] = invoices[i]
    BY <1>1, <1>4, <1>o DEF CommittedInvoice
  <2>2. [i \in Requests |-> invoices[i].order]' =
          [[i \in Requests |-> invoices[i].order] EXCEPT ![r] = o]
    BY <2>0
  <2>4. [i \in Requests |-> invoices[i].number]' =
          [[i \in Requests |-> invoices[i].number] EXCEPT ![r] =
             counters.invoice_number + 1]
    BY <2>0
  <2>5. invoices[r].number = 0
    BY <1>1 DEF NoInvoice
  <2>3. /\ [p \in Requests |-> orders[p].key]' = [p \in Requests |-> orders[p].key]
        /\ [p \in Requests |-> orders[p].number]' = [p \in Requests |-> orders[p].number]
    BY <1>3
  <2> QED BY <1>2, <1>5, <2>1, <2>2, <2>3, <2>4, <2>5 DEF Ledger!IssueInvoice
<1> QED BY <1>5, <1>6 DEF Ledger!Next

LEMMA CommitPaymentLedger ==
  ASSUME MoveInv, NEW r \in Requests, CommitPayment(r)
  PROVE  Ledger!Next \/ UNCHANGED Ledger!vars
<1>o. PICK o \in Requests : o = tx[r].order /\ o \in Placed
  BY CommitPaymentEffect DEF MoveInv, CounterInv, Placed
<1>0. CounterInv /\ TypeInv /\ invoices \in [Requests -> InvoiceRow]
  BY DEF MoveInv, CounterInv, TypeInv, TypeOK
<1>1. /\ pc[r] = "commitPayment" /\ tx[r].op = "pay"
      /\ o = tx[r].order /\ o \in Placed
      /\ tx[r].invoice \in Issued /\ tx[r].invoice \in Requests
      /\ invoices' = [invoices EXCEPT ![tx[r].invoice] = PaidInvoice(r)]
      /\ PaidInvoice(r).order = invoices[tx[r].invoice].order
      /\ PaidInvoice(r).number = invoices[tx[r].invoice].number
      /\ invoices[tx[r].invoice].order = o
      /\ PublishOrderMove(r) /\ counters' = counters
  BY <1>0, <1>o, CommitPaymentEffect DEF CommitPayment, MoveInv, PaymentInHand, Issued
<1>2. \A i \in Requests : /\ invoices'[i].order = invoices[i].order
                          /\ invoices'[i].number = invoices[i].number
  BY <1>0, <1>1
<1>3. CASE orders' = orders
  BY <1>1, <1>2, <1>3, StutterLedger
<1>4. CASE orders' # orders
  <2>1. orders \in [Requests -> OrderRow] /\ orders' \in [Requests -> OrderRow]
    BY <1>0, <1>1, OrderMoveType DEF TypeInv, TypeOK
  <2>2. /\ tx[r].orderFrom # "NONE"
        /\ orders' = [orders EXCEPT ![o].status = "PAID"]
    BY <1>1, <1>4 DEF PublishOrderMove, OrderTarget
  <2>3. orders[o].status \in {"AWAITING_PAYMENT", "PAID"}
    BY <1>1, MoveFromRead
  <2>4. CASE orders[o].status = "PAID"
    <3>1. orders' = orders
      BY <1>1, <2>1, <2>2, <2>4 DEF OrderRow
    <3> QED BY <1>4, <3>1
  <2>5. CASE orders[o].status = "AWAITING_PAYMENT"
    <3>1. /\ [p \in Requests |-> orders[p].status]' =
               [[p \in Requests |-> orders[p].status] EXCEPT ![o] = "PAID"]
          /\ [p \in Requests |-> orders[p].key]' = [p \in Requests |-> orders[p].key]
          /\ [p \in Requests |-> orders[p].number]' = [p \in Requests |-> orders[p].number]
      BY <1>1, <2>1, <2>2 DEF OrderRow
    <3>2. /\ [i \in Requests |-> invoices[i].order]' = [i \in Requests |-> invoices[i].order]
          /\ [i \in Requests |-> invoices[i].number]' = [i \in Requests |-> invoices[i].number]
      BY <1>2
    <3>3. \E i \in Requests : invoices[i].order = o
      BY <1>1
    <3>4. Ledger!SettleOrder(o)
      BY <1>1, <2>5, <3>1, <3>2, <3>3 DEF Ledger!SettleOrder
    <3> QED BY <3>4 DEF Ledger!Next
  <2> QED BY <2>3, <2>4, <2>5
<1> QED BY <1>3, <1>4

LEMMA NextLedger ==
  ASSUME KeyInv, MoveInv, [Next]_vars
  PROVE  [Ledger!Next]_Ledger!vars
<1>0. TypeInv
  BY DEF KeyInv, CounterInv
<1>1. ASSUME NEW r \in Requests, Advanced(r) PROVE UNCHANGED Ledger!vars
  BY <1>1, StutterLedger DEF Advanced, PrivateStep, db
<1>2. ASSUME NEW r \in Requests, CommitOrder(r) PROVE Ledger!Next
  BY <1>2, CommitOrderLedger
<1>3. ASSUME NEW r \in Requests, CommitInvoice(r) PROVE Ledger!Next
  BY <1>3, CommitInvoiceLedger
<1>4. ASSUME NEW r \in Requests, CommitPayment(r) PROVE Ledger!Next \/ UNCHANGED Ledger!vars
  BY <1>4, CommitPaymentLedger
<1>5. ASSUME NEW r \in Requests, CommitCancel(r) PROVE UNCHANGED Ledger!vars
  <2>1. orders' = orders /\ counters' = counters
    BY <1>5 DEF CommitCancel
  <2>2. invoices \in [Requests -> InvoiceRow]
    BY <1>0 DEF TypeInv, TypeOK
  <2>3. \A i \in Requests : /\ invoices'[i].order = invoices[i].order
                            /\ invoices'[i].number = invoices[i].number
    BY <1>0, <1>5, <2>2, CommitCancelEffect
  <2> QED BY <2>1, <2>3, StutterLedger
<1>6. CASE UNCHANGED vars
  BY <1>6, StutterLedger DEF vars
<1> QED BY <1>0, <1>1, <1>2, <1>3, <1>4, <1>5, <1>6, NextCases

\* Requests that interleave, wait for locks and abort place, bill and settle
\* orders as if each did so in one indivisible step.
THEOREM BillingImplementsLedger == Spec => ImplementsLedger
<1>1. Spec => Ledger!Init /\ [][Ledger!Next]_Ledger!vars
  BY InitLedger, NextLedger, KeyInvariant, MoveInvariant, PTL DEF Spec
<1> QED BY <1>1 DEF ImplementsLedger, Ledger!Spec

-----------------------------------------------------------------------------
(* Nobody waits in a circle.  The locks have an order: whoever waits for an *)
(* order row waits for a commit; whoever waits for an entry of the invoice  *)
(* index or for an invoice row waits for those or for a commit; and whoever *)
(* waits for a counter waits for one of these.                              *)

Open == {r \in Requests : pc[r] \notin Ended \cup {"idle"}}

\* The statements that need no lock another transaction may hold.
Lockless == {"commitOrder", "readOrder", "commitInvoice", "commitPayment", "commitCancel"}

LEMMA LocklessUnblocked ==
  ASSUME NEW r \in Requests, pc[r] \in Lockless
  PROVE  r \in Open /\ Unblocked(r)
  BY DEF Lockless, Open, Ended, Unblocked, Blocks

LEMMA OrderWaitEnds ==
  ASSUME NEW r \in Requests, pc[r] \in {"updateOrder", "insertOrder"}
  PROVE  \E q \in Open : Unblocked(q)
<1>1. CASE Unblocked(r)
  BY <1>1 DEF Open, Ended
<1>2. CASE ~Unblocked(r)
  <2>1. PICK q \in Requests : pc[q] \in Lockless
    BY <1>2 DEF Unblocked, Blocks, HoldsOrder, HoldsOrderEntry, Lockless
  <2> QED BY <2>1, LocklessUnblocked
<1> QED BY <1>1, <1>2

LEMMA InvoiceWaitEnds ==
  ASSUME NEW r \in Requests,
         pc[r] \in {"insertInvoice", "updateInvoice", "cancelInvoice"}
  PROVE  \E q \in Open : Unblocked(q)
<1>1. CASE Unblocked(r)
  BY <1>1 DEF Open, Ended
<1>2. CASE ~Unblocked(r)
  <2>1. PICK q \in Requests : pc[q] \in Lockless \cup {"updateOrder"}
    BY <1>2 DEF Unblocked, Blocks, HoldsInvoice, HoldsInvoiceEntry, Lockless
  <2> QED BY <2>1, LocklessUnblocked, OrderWaitEnds
<1> QED BY <1>1, <1>2

LEMMA CounterWaitEnds ==
  ASSUME NEW r \in Requests, pc[r] \in {"drawOrderNumber", "drawInvoiceNumber"}
  PROVE  \E q \in Open : Unblocked(q)
<1>1. CASE Unblocked(r)
  BY <1>1 DEF Open, Ended
<1>2. CASE ~Unblocked(r)
  <2>1. PICK q \in Requests :
          pc[q] \in Lockless \cup {"insertOrder", "insertInvoice", "updateOrder"}
    BY <1>2 DEF Unblocked, Blocks, HoldsOrderCounter, HoldsInvoiceCounter, Lockless
  <2> QED BY <2>1, LocklessUnblocked, OrderWaitEnds, InvoiceWaitEnds
<1> QED BY <1>1, <1>2

\* As long as a request is open, one of the open requests finds every lock its
\* next statement needs free, whichever requests are open and wherever they are.
THEOREM NobodyWaitsInACircle == Spec => []SomebodyCanGoOn
<1>1. TypeInv => SomebodyCanGoOn
  <2> SUFFICES ASSUME TypeInv, Open # {} PROVE \E r \in Open : Unblocked(r)
    BY DEF SomebodyCanGoOn, Open
  <2>1. PICK r \in Requests : pc[r] \in Statements \ {"idle"}
    BY DEF TypeInv, TypeOK, Open
  <2> QED BY <2>1, LocklessUnblocked, OrderWaitEnds, InvoiceWaitEnds, CounterWaitEnds
      DEF Statements, Lockless
<1> QED BY <1>1, TypeInvariant, PTL
=============================================================================
