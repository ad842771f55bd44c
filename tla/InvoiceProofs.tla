---------------------------- MODULE InvoiceProofs ----------------------------
(***************************************************************************)
(* What an invoice's money, its status, its order and its history have to  *)
(* do with each other: first for requests that interleave in any way, then *)
(* what more is kept while staff take turns (BillingSerial).               *)
(***************************************************************************)
EXTENDS BillingProofs, BillingSerial, WellFoundedInduction

-----------------------------------------------------------------------------
(* Money.  A payment writes the amounts it worked out from the row it read, *)
(* which may be stale by then; but the total never changes, so what it      *)
(* writes is a balanced row all the same.                                   *)

MoneyInHand(r) ==
  tx[r].op = "pay" => /\ tx[r].total = invoices[tx[r].invoice].total
                      /\ tx[r].paid > 0 /\ tx[r].paid <= tx[r].total

Balanced(v) ==
  /\ v.paid + v.due = v.total
  /\ v.paid >= 0
  /\ v.paid > 0 => v.due >= 0
  /\ v.status = "ISSUED" => v.paid = 0
  /\ v.status = "PARTIALLY_PAID" => v.paid > 0 /\ v.due > 0
  /\ v.status = "PAID" => v.paid > 0 /\ v.due = 0

MoneyInv ==
  /\ CounterInv
  /\ \A r \in Requests : MoneyInHand(r)
  /\ \A i \in Issued : Balanced(invoices[i])

LEMMA InitMoney == Init => MoneyInv
  BY InitCounter DEF Init, MoneyInv, MoneyInHand, NoTx, Issued, NoInvoice

LEMMA AdvanceMoney ==
  ASSUME MoneyInv, NEW r \in Requests, Advanced(r)
  PROVE  MoneyInv'
<1>1. PICK t \in TxRow, s \in Statements \cup Ended :
        PrivateStep(r, t, s) /\ Advances(r, t, s)
  BY DEF Advanced
<1>2. /\ tx \in [Requests -> TxRow] /\ tx' = [tx EXCEPT ![r] = t] /\ invoices' = invoices
      /\ tx[r] \in TxRow
  BY <1>1 DEF PrivateStep, db, MoneyInv, CounterInv, TypeInv, TypeOK
<1>3. t.op = "pay" =>
        t.total = invoices[t.invoice].total /\ t.paid > 0 /\ t.paid <= t.total
  <2>1. CASE OpensPayment(r, t, s)
    <3>1. invoices[t.invoice] \in InvoiceRow /\ Balanced(invoices[t.invoice])
      BY <2>1 DEF OpensPayment, MoneyInv, CounterInv, TypeInv, TypeOK, Issued
    <3>2. invoices[t.invoice].paid \in Int /\ invoices[t.invoice].paid >= 0
      BY <3>1 DEF InvoiceRow, Balanced
    <3>3. t.amount \in Int /\ t.paid \in Int /\ t.total \in Int
      BY DEF TxRow
    <3> QED BY <2>1, <3>2, <3>3 DEF OpensPayment
  <2>2. CASE OpensPlacement(r, t, s) \/ OpensCancellation(r, t, s) \/ Closes(r, t, s)
    BY <2>2 DEF OpensPlacement, OpensCancellation, Closes, NoTx
  <2>3. CASE DrawsNumber(r, t, s) \/ ReadsOrder(r, t, s) \/ MovesOn(r, t, s)
    <3>1. CASE pc[r] \in {"drawOrderNumber", "drawInvoiceNumber"}
      <4>1. Fits(pc[r], tx[r])
        BY DEF MoneyInv, CounterInv, TypeInv, RowsInHand
      <4> QED BY <1>2, <2>3, <3>1, <4>1 DEF DrawsNumber, ReadsOrder, MovesOn, Fits, TxRow
    <3>2. CASE pc[r] \notin {"drawOrderNumber", "drawInvoiceNumber"}
      <4>1. /\ t.op = tx[r].op /\ t.invoice = tx[r].invoice
            /\ t.total = tx[r].total /\ t.paid = tx[r].paid
        BY <1>2, <2>3, <3>2 DEF DrawsNumber, ReadsOrder, MovesOn, TxRow
      <4> QED BY <4>1 DEF MoneyInv, MoneyInHand
    <3> QED BY <3>1, <3>2
  <2> QED BY <1>1, <2>1, <2>2, <2>3 DEF Advances
<1>4. \A q \in Requests : MoneyInHand(q)'
  BY <1>2, <1>3 DEF MoneyInv, MoneyInHand
<1>5. \A i \in Issued' : Balanced(invoices[i])'
  BY <1>2 DEF MoneyInv, Balanced, Issued
<1> QED BY <1>4, <1>5, AdvanceCounter DEF MoneyInv

\* A commit of r that leaves a balanced row i and every other row as it was.
LEMMA BalancedCommit ==
  ASSUME MoneyInv, CounterInv', NEW r \in Requests, NEW i \in Requests,
         \A q \in Requests \ {r} : tx'[q] = tx[q], tx'[r].op # "pay",
         Balanced(invoices[i])',
         \A j \in Requests \ {i} : invoices'[j] = invoices[j],
         i \in Issued => invoices'[i].total = invoices[i].total
  PROVE  MoneyInv'
<1>1. \A j \in Issued' : Balanced(invoices[j])'
  <2> SUFFICES ASSUME NEW j \in Issued', j # i PROVE Balanced(invoices[j])'
    OBVIOUS
  <2>1. invoices'[j] = invoices[j] /\ j \in Issued
    BY DEF Issued
  <2> QED BY <2>1 DEF MoneyInv, Balanced
<1>2. \A q \in Requests : MoneyInHand(q)'
  <2> SUFFICES ASSUME NEW q \in Requests, q # r PROVE MoneyInHand(q)'
    BY DEF MoneyInHand
  <2>1. tx[q].op = "pay" => tx[q].invoice \in Issued
    BY DEF MoneyInv, CounterInv, TypeInv, RowsInHand, Fits
  <2>2. \A j \in Issued : invoices'[j].total = invoices[j].total
    BY DEF Issued
  <2> QED BY <2>1, <2>2 DEF MoneyInv, MoneyInHand
<1> QED BY <1>1, <1>2 DEF MoneyInv

LEMMA NextMoney == MoneyInv /\ [Next]_vars => MoneyInv'
<1> SUFFICES ASSUME MoneyInv, [Next]_vars PROVE MoneyInv'
  OBVIOUS
<1>0. /\ CounterInv /\ TypeInv /\ CounterInv'
      /\ invoices \in [Requests -> InvoiceRow] /\ tx \in [Requests -> TxRow]
  BY NextCounter DEF MoneyInv, CounterInv, TypeInv, TypeOK
<1>1. ASSUME NEW r \in Requests, Advanced(r) PROVE MoneyInv'
  BY <1>1, AdvanceMoney
<1>2. ASSUME NEW r \in Requests, CommitOrder(r) PROVE MoneyInv'
  <2>1. /\ tx' = [tx EXCEPT ![r] = AfterOrder(r)] /\ invoices' = invoices
        /\ AfterOrder(r).op = tx[r].op /\ tx[r].op = "place"
    <3>1. tx[r] \in TxRow /\ tx[r].op = "place"
      BY <1>0, <1>2 DEF CommitOrder, TypeInv, RowsInHand, Fits
    <3>2. tx' = [tx EXCEPT ![r] = AfterOrder(r)] /\ invoices' = invoices
      BY <1>0, <1>2 DEF CommitOrder, AfterOrder
    <3> QED BY <3>1, <3>2 DEF AfterOrder, TxRow
  <2>2. \A q \in Requests : MoneyInHand(q)'
    <3>1. tx'[r].op = "place"
      BY <1>0, <1>2, <2>1
    <3>2. \A q \in Requests \ {r} : tx'[q] = tx[q]
      BY <1>0, <2>1
    <3> QED BY <2>1, <3>1, <3>2 DEF MoneyInv, MoneyInHand
  <2>3. \A i \in Issued' : Balanced(invoices[i])'
    BY <2>1 DEF MoneyInv, Balanced, Issued
  <2> QED BY <1>0, <2>2, <2>3 DEF MoneyInv
<1>3. ASSUME NEW r \in Requests, CommitInvoice(r) PROVE MoneyInv'
  <2>1. /\ invoices' = [invoices EXCEPT ![r] = CommittedInvoice(r)]
        /\ End(r, "done") /\ invoices[r] = NoInvoice /\ tx[r].total \in Int
    BY <1>0, <1>3 DEF CommitInvoice, CommittedInvoice, CounterInv, NotYetCommitted,
        Ended, TxRow
  <2>2. Balanced(CommittedInvoice(r)) /\ r \notin Issued
    BY <2>1 DEF Balanced, CommittedInvoice, Issued, NoInvoice
  <2>3. Balanced(invoices[r])'
    BY <1>0, <2>1, <2>2 DEF Balanced
  <2>4. \A j \in Requests \ {r} : invoices'[j] = invoices[j] /\ tx'[j] = tx[j]
    BY <1>0, <2>1, EndLeavesOthers
  <2>5. tx'[r].op # "pay"
    BY <1>0, <2>1 DEF End, NoTx
  <2> QED BY <1>0, <2>2, <2>3, <2>4, <2>5, BalancedCommit
<1>4. ASSUME NEW r \in Requests, CommitPayment(r) PROVE MoneyInv'
  <2>1. PICK i \in Issued : i = tx[r].invoice
    BY <1>0, <1>4, CommitPaymentEffect
  <2>2. i \in Requests /\ End(r, "done") /\ tx[r] \in TxRow /\ MoneyInHand(r)
        /\ tx[r].op = "pay" /\ invoices' = [invoices EXCEPT ![i] = PaidInvoice(r)]
    BY <1>0, <1>4, <2>1, CommitPaymentEffect DEF CommitPayment, Issued, MoneyInv
  <2>3. /\ PaidInvoice(r).total = invoices[i].total
        /\ PaidInvoice(r).status = PaymentStatus(r)
        /\ PaidInvoice(r).paid = tx[r].paid
        /\ PaidInvoice(r).due = tx[r].total - tx[r].paid
    BY <1>0, <1>4, <2>1, CommitPaymentEffect
  <2>4. tx[r].total = invoices[i].total /\ tx[r].paid > 0 /\ tx[r].paid <= tx[r].total
        /\ tx[r].paid \in Int /\ tx[r].total \in Int
    BY <2>1, <2>2 DEF MoneyInHand, TxRow
  <2>5. Balanced(PaidInvoice(r))
    <3>1. CASE tx[r].total - tx[r].paid = 0
      BY <2>3, <2>4, <3>1 DEF Balanced, PaymentStatus
    <3>2. CASE tx[r].total - tx[r].paid # 0
      BY <2>3, <2>4, <3>2 DEF Balanced, PaymentStatus
    <3> QED BY <3>1, <3>2
  <2>6. invoices'[i] = PaidInvoice(r) /\ \A j \in Requests \ {i} : invoices'[j] = invoices[j]
    BY <1>0, <2>2
  <2>7. Balanced(invoices[i])' /\ invoices'[i].total = invoices[i].total
    BY <2>3, <2>5, <2>6 DEF Balanced
  <2>8. /\ \A q \in Requests \ {r} : tx'[q] = tx[q]
        /\ tx'[r].op # "pay"
    BY <1>0, <2>2, EndLeavesOthers DEF NoTx
  <2> QED BY <1>0, <2>2, <2>6, <2>7, <2>8, BalancedCommit
<1>5. ASSUME NEW r \in Requests, CommitCancel(r) PROVE MoneyInv'
  <2>1. PICK i \in Issued : i = tx[r].invoice
    BY <1>0, <1>5, CommitCancelEffect
  <2>2. i \in Requests /\ End(r, "done")
        /\ invoices' = [invoices EXCEPT ![i] = CancelledInvoice(r)]
    BY <1>0, <1>5, <2>1, CommitCancelEffect DEF CommitCancel, Issued
  <2>3. /\ CancelledInvoice(r).status = "CANCELLED"
        /\ CancelledInvoice(r).total = invoices[i].total
        /\ CancelledInvoice(r).paid = invoices[i].paid
        /\ CancelledInvoice(r).due = invoices[i].due
    BY <1>0, <1>5, <2>1, CommitCancelEffect
  <2>4. invoices'[i] = CancelledInvoice(r)
        /\ \A j \in Requests \ {i} : invoices'[j] = invoices[j]
    BY <1>0, <2>2
  <2>5. Balanced(invoices[i])' /\ invoices'[i].total = invoices[i].total
    BY <2>3, <2>4 DEF Balanced, MoneyInv
  <2>6. /\ \A q \in Requests \ {r} : tx'[q] = tx[q]
        /\ tx'[r].op # "pay"
    BY <1>0, <2>2, EndLeavesOthers DEF NoTx
  <2> QED BY <1>0, <2>2, <2>4, <2>5, <2>6, BalancedCommit
<1>6. CASE UNCHANGED vars
  BY <1>0, <1>6 DEF vars, MoneyInv, MoneyInHand, Balanced, Issued
<1> QED BY <1>0, <1>1, <1>2, <1>3, <1>4, <1>5, <1>6, NextCases

LEMMA MoneyInvariant == Spec => []MoneyInv
  BY InitMoney, NextMoney, PTL DEF Spec

\* An invoice's paid, due and total always agree with each other and with its
\* status, although they are written from a row read before the lock was had.
THEOREM InvoicesBalance == Spec => []InvoiceBalanced
<1>1. MoneyInv => InvoiceBalanced
  BY DEF MoneyInv, Balanced, InvoiceBalanced
<1> QED BY <1>1, MoneyInvariant, PTL

-----------------------------------------------------------------------------
(* Settlement.  The payment that leaves nothing due, and no other, moves    *)
(* the order, and both are published by one commit.                         *)

Settles(h) == \E n \in 1..Len(h) : h[n].to = "PAID"

SettlementInHand(r) ==
  tx[r].op = "pay" =>
    /\ pc[r] \in {"readOrder", "updateOrder"} => PaymentStatus(r) = "PAID"
    /\ pc[r] = "commitPayment" => (tx[r].orderFrom # "NONE" <=> PaymentStatus(r) = "PAID")

\* An invoice that is not there has no history.
NoHistoryYet == \A i \in Requests \ Issued : invoiceHistory[i] = << >>

SettleInv ==
  /\ MoveInv
  /\ \A r \in Requests : SettlementInHand(r)
  /\ NoHistoryYet
  /\ PaidIffSettled

LEMMA InitSettle == Init => SettleInv
  BY InitMove DEF Init, SettleInv, SettlementInHand, NoTx, NoHistoryYet, PaidIffSettled,
      Placed, NoOrder

\* One more row settles the invoice if it was settled already or the row does.
LEMMA SettlesAppend ==
  ASSUME NEW h \in Seq(HistoryRows), NEW row \in HistoryRows
  PROVE  Settles(Append(h, row)) <=> Settles(h) \/ row.to = "PAID"
<1>1. /\ Len(Append(h, row)) = Len(h) + 1 /\ Len(h) \in Nat
      /\ \A n \in 1..Len(h) : Append(h, row)[n] = h[n]
      /\ Append(h, row)[Len(h) + 1] = row
  OBVIOUS
<1>2. 1..(Len(h) + 1) = (1..Len(h)) \cup {Len(h) + 1}
  BY <1>1
<1> QED BY <1>1, <1>2 DEF Settles

LEMMA AdvanceSettle ==
  ASSUME SettleInv, NEW r \in Requests, Advanced(r)
  PROVE  SettleInv'
<1>1. PICK t \in TxRow, s \in Statements \cup Ended :
        PrivateStep(r, t, s) /\ Advances(r, t, s)
  BY DEF Advanced
<1>2. /\ pc \in [Requests -> Statements \cup Ended] /\ tx \in [Requests -> TxRow]
      /\ tx' = [tx EXCEPT ![r] = t] /\ pc' = [pc EXCEPT ![r] = s] /\ UNCHANGED db
      /\ tx[r] \in TxRow /\ Fits(pc[r], tx[r])
      /\ SettlementInHand(r) /\ Unread(r) /\ PaymentInHand(r)
  BY <1>1 DEF PrivateStep, SettleInv, MoveInv, CounterInv, TypeInv, TypeOK, RowsInHand
<1>3. NoHistoryYet' /\ PaidIffSettled'
  BY <1>2 DEF db, SettleInv, NoHistoryYet, PaidIffSettled, Placed, Issued
<1>4. tx'[r] = t /\ pc'[r] = s
      /\ \A q \in Requests \ {r} : tx'[q] = tx[q] /\ pc'[q] = pc[q]
  BY <1>2
<1>5. \A q \in Requests \ {r} : SettlementInHand(q)'
  BY <1>4 DEF SettleInv, SettlementInHand, PaymentStatus
<1>6. SettlementInHand(r)'
  <2>1. CASE \/ OpensPlacement(r, t, s) \/ OpensPayment(r, t, s)
             \/ OpensCancellation(r, t, s) \/ Closes(r, t, s)
    BY <1>4, <2>1 DEF OpensPlacement, OpensPayment, OpensCancellation, Closes, NoTx,
        SettlementInHand
  <2>2. CASE DrawsNumber(r, t, s)
    BY <1>4, <2>2 DEF DrawsNumber, SettlementInHand
  <2>3. CASE ReadsOrder(r, t, s)
    <3>1. t.op = tx[r].op /\ t.total = tx[r].total /\ t.paid = tx[r].paid
      BY <1>2, <2>3 DEF ReadsOrder, TxRow
    <3>2. PaymentStatus(r)' = PaymentStatus(r)
      BY <1>4, <3>1 DEF PaymentStatus
    <3> QED BY <1>2, <1>4, <2>3, <3>1, <3>2 DEF ReadsOrder, SettlementInHand
  <2>4. CASE MovesOn(r, t, s)
    <3>1. PaymentStatus(r)' = PaymentStatus(r)
      BY <1>4, <2>4 DEF MovesOn, PaymentStatus
    <3> QED BY <1>2, <1>4, <2>4, <3>1
        DEF MovesOn, SettlementInHand, Unread, PaymentInHand, Fits
  <2> QED BY <1>1, <2>1, <2>2, <2>3, <2>4 DEF Advances
<1> QED BY <1>3, <1>5, <1>6, AdvanceMove DEF SettleInv

\* What a commit of r leaves in hand.
LEMMA SettlementsInHand ==
  ASSUME SettleInv, NEW r \in Requests, tx'[r].op # "pay",
         \A q \in Requests \ {r} : tx'[q] = tx[q] /\ pc'[q] = pc[q]
  PROVE  \A q \in Requests : SettlementInHand(q)'
<1>1. SettlementInHand(r)'
  BY DEF SettlementInHand
<1>2. ASSUME NEW q \in Requests, q # r PROVE SettlementInHand(q)'
  BY <1>2 DEF SettleInv, SettlementInHand, PaymentStatus
<1> QED BY <1>1, <1>2

LEMMA CommitOrderSettle ==
  ASSUME SettleInv, NEW r \in Requests, CommitOrder(r)
  PROVE  SettleInv'
<1>0. CounterInv /\ TypeInv /\ tx \in [Requests -> TxRow] /\ MoveInv'
  BY CommitOrderMove DEF SettleInv, MoveInv, CounterInv, TypeInv, TypeOK
<1>1. /\ orders \in [Requests -> OrderRow] /\ orders[r] = NoOrder /\ tx[r].op = "place"
      /\ orders' = [orders EXCEPT ![r] = CommittedOrder(r)]
      /\ invoices' = invoices /\ invoiceHistory' = invoiceHistory
  BY <1>0 DEF CommitOrder, CommittedOrder, CounterInv, NotYetCommitted, TypeInv, TypeOK,
      RowsInHand, Fits
<1>2. tx'[r].op # "pay" /\ \A q \in Requests \ {r} : tx'[q] = tx[q] /\ pc'[q] = pc[q]
  <2>1. tx' = [tx EXCEPT ![r] = AfterOrder(r)] /\ pc' = [pc EXCEPT ![r] = "drawInvoiceNumber"]
    BY <1>0 DEF CommitOrder, AfterOrder, Goto
  <2>2. AfterOrder(r).op = tx[r].op
    BY <1>0 DEF AfterOrder, TxRow
  <2> QED BY <1>0, <1>1, <2>1, <2>2 DEF TypeInv, TypeOK
<1>3. /\ r \notin Placed /\ Placed' = Placed \cup {r} /\ Issued' = Issued
      /\ \A o \in Placed : orders'[o] = orders[o]
      /\ orders'[r].status = "PENDING"
  BY <1>1 DEF Placed, Issued, NoOrder, CommittedOrder
<1>4. \A i \in Issued : invoices[i].order # r
  BY <1>0, <1>3 DEF TypeInv, RowsInHand
<1>5. PaidIffSettled'
  BY <1>1, <1>3, <1>4 DEF SettleInv, PaidIffSettled
<1>6. NoHistoryYet'
  BY <1>1, <1>3 DEF SettleInv, NoHistoryYet
<1> QED BY <1>0, <1>2, <1>5, <1>6, SettlementsInHand DEF SettleInv

LEMMA CommitInvoiceSettle ==
  ASSUME SettleInv, NEW r \in Requests, CommitInvoice(r)
  PROVE  SettleInv'
<1>o. PICK o \in Requests : o = tx[r].order /\ o \in Placed
  BY DEF CommitInvoice, SettleInv, MoveInv, CounterInv, TypeInv, RowsInHand, Fits,
      WithOrder, Placed
<1>0. /\ CounterInv /\ TypeInv /\ MoveInv /\ MoveInv'
      /\ invoices \in [Requests -> InvoiceRow]
      /\ invoiceHistory \in [Requests -> Seq(HistoryRows)]
  BY CommitInvoiceMove DEF SettleInv, MoveInv, CounterInv, TypeInv, TypeOK
<1>1. /\ pc[r] = "commitInvoice" /\ tx[r].op = "place" /\ invoices[r] = NoInvoice
      /\ invoices' = [invoices EXCEPT ![r] = CommittedInvoice(r)]
      /\ invoiceHistory' = [invoiceHistory EXCEPT ![r] =
                              Append(@, HistoryRow("NONE", "ISSUED", 0))]
      /\ PublishOrderMove(r) /\ End(r, "done")
  BY <1>0 DEF CommitInvoice, CommittedInvoice, CounterInv, NotYetCommitted, TypeInv,
      RowsInHand, Fits, Ended
<1>2. /\ r \notin Issued /\ Issued' = Issued \cup {r} /\ invoices'[r].order = o
      /\ \A i \in Issued : invoices'[i] = invoices[i] /\ invoiceHistory'[i] = invoiceHistory[i]
      /\ \A i \in Requests \ {r} : invoiceHistory'[i] = invoiceHistory[i]
  BY <1>0, <1>1, <1>o DEF Issued, NoInvoice, CommittedInvoice
<1>3. ~Settles(invoiceHistory'[r])
  <2>1. invoiceHistory'[r] = Append(invoiceHistory[r], HistoryRow("NONE", "ISSUED", 0))
    BY <1>0, <1>1
  <2>2. invoiceHistory[r] = << >>
    BY <1>2 DEF SettleInv, NoHistoryYet
  <2>3. HistoryRow("NONE", "ISSUED", 0) \in HistoryRows
        /\ HistoryRow("NONE", "ISSUED", 0).to = "ISSUED"
    BY DEF HistoryRow, HistoryRows, InvoiceStatuses
  <2>4. invoiceHistory[r] \in Seq(HistoryRows) /\ ~Settles(invoiceHistory[r])
    BY <1>0, <2>2 DEF Settles
  <2> QED BY <2>1, <2>3, <2>4, SettlesAppend
<1>4. /\ Placed' = Placed
      /\ \A p \in Placed : p # o => orders'[p] = orders[p]
      /\ orders'[o].status = "PAID" <=> orders[o].status = "PAID"
  BY <1>0, <1>1, <1>o, OrderMoveEffect, MoveFromRead DEF OrderTarget, Placed
<1>5. PaidIffSettled'
  <2>1. ASSUME NEW p \in Placed
        PROVE  \/ p # o /\ orders'[p] = orders[p]
               \/ p = o /\ (orders'[p].status = "PAID" <=> orders[p].status = "PAID")
    BY <1>4
  <2>2. ASSUME NEW p \in Placed
        PROVE  (\E i \in Issued' : invoices'[i].order = p /\ Settles(invoiceHistory'[i]))
                 <=> (\E i \in Issued : invoices[i].order = p /\ Settles(invoiceHistory[i]))
    BY <1>2, <1>3
  <2> QED BY <1>4, <2>1, <2>2 DEF SettleInv, PaidIffSettled, Settles
<1>6. NoHistoryYet'
  BY <1>2 DEF SettleInv, NoHistoryYet
<1>7. tx'[r].op # "pay" /\ \A q \in Requests \ {r} : tx'[q] = tx[q] /\ pc'[q] = pc[q]
  BY <1>0, <1>1, EndLeavesOthers DEF NoTx
<1> QED BY <1>0, <1>5, <1>6, <1>7, SettlementsInHand DEF SettleInv

LEMMA CommitPaymentSettle ==
  ASSUME SettleInv, NEW r \in Requests, CommitPayment(r)
  PROVE  SettleInv'
<1> DEFINE row == HistoryRow(tx[r].invoiceFrom, PaymentStatus(r), tx[r].amount)
<1>o. PICK o \in Requests : o = tx[r].order /\ o \in Placed
  BY CommitPaymentEffect DEF SettleInv, MoveInv, CounterInv, Placed
<1>i. PICK i \in Requests : i = tx[r].invoice /\ i \in Issued
  BY CommitPaymentEffect DEF SettleInv, MoveInv, CounterInv, Issued
<1>0. /\ CounterInv /\ TypeInv /\ MoveInv /\ MoveInv'
      /\ invoices \in [Requests -> InvoiceRow]
      /\ invoiceHistory \in [Requests -> Seq(HistoryRows)]
  BY CommitPaymentMove DEF SettleInv, MoveInv, CounterInv, TypeInv, TypeOK
<1>1. /\ pc[r] = "commitPayment" /\ tx[r].op = "pay"
      /\ PaymentStatus(r) \in {"PAID", "PARTIALLY_PAID"}
      /\ invoices[i].order = o
      /\ PaidInvoice(r).order = o /\ PaidInvoice(r).status # "NONE"
      /\ invoices' = [invoices EXCEPT ![i] = PaidInvoice(r)]
      /\ (tx[r].orderFrom # "NONE" <=> PaymentStatus(r) = "PAID")
  <2>1. /\ PaymentStatus(r) \in {"PAID", "PARTIALLY_PAID"} /\ tx[r].op = "pay"
        /\ PaidInvoice(r).order = invoices[i].order
        /\ PaidInvoice(r).status = PaymentStatus(r)
        /\ invoices' = [invoices EXCEPT ![i] = PaidInvoice(r)]
    BY <1>0, <1>i, CommitPaymentEffect
  <2>2. PaymentInHand(r) /\ SettlementInHand(r) /\ pc[r] = "commitPayment"
    BY DEF SettleInv, MoveInv, CommitPayment
  <2>3. invoices[i].order = o
    BY <1>o, <1>i, <2>1, <2>2 DEF PaymentInHand
  <2> QED BY <2>1, <2>2, <2>3 DEF SettlementInHand
<1>2. /\ invoiceHistory' = [invoiceHistory EXCEPT ![i] = Append(@, row)]
      /\ PublishOrderMove(r) /\ End(r, "done")
  BY <1>i DEF CommitPayment
<1>3. row \in HistoryRows /\ row.to = PaymentStatus(r)
  <2>1. tx[r] \in TxRow
    BY <1>0, CommitPaymentEffect
  <2> QED BY <1>1, <2>1
      DEF HistoryRow, HistoryRows, TxRow, LiveInvoiceStatuses, InvoiceStatuses
<1> HIDE DEF row
<1>4. /\ Issued' = Issued
      /\ \A j \in Issued : invoices'[j].order = invoices[j].order
      /\ \A j \in Requests \ {i} : invoiceHistory'[j] = invoiceHistory[j]
      /\ invoiceHistory'[i] = Append(invoiceHistory[i], row)
  BY <1>0, <1>1, <1>2, <1>i DEF Issued
<1>5. Settles(invoiceHistory'[i]) <=> Settles(invoiceHistory[i]) \/ PaymentStatus(r) = "PAID"
  BY <1>0, <1>3, <1>4, SettlesAppend
<1>6. /\ Placed' = Placed
      /\ \A p \in Placed : p # o => orders'[p] = orders[p]
      /\ PaymentStatus(r) = "PAID" => orders'[o].status = "PAID"
      /\ PaymentStatus(r) # "PAID" => orders'[o] = orders[o]
  BY <1>0, <1>1, <1>2, <1>o, OrderMoveEffect DEF OrderTarget, Placed
<1>7. PaidIffSettled'
  <2> DEFINE settled(p) == \E j \in Issued : invoices[j].order = p /\ Settles(invoiceHistory[j])
             settled2(p) == \E j \in Issued : invoices[j].order = p /\ Settles(invoiceHistory'[j])
  <2>1. \A p \in Placed : orders[p].status = "PAID" <=> settled(p)
    BY DEF SettleInv, PaidIffSettled, Settles
  <2>2. \A p \in Placed : p # o => (settled2(p) <=> settled(p))
    BY <1>1, <1>4 DEF Issued
  <2>3. PaymentStatus(r) # "PAID" => (settled2(o) <=> settled(o))
    BY <1>4, <1>5 DEF Issued
  <2>4. PaymentStatus(r) = "PAID" => settled2(o)
    BY <1>1, <1>5, <1>i
  <2>5. \A p \in Placed : orders'[p].status = "PAID" <=> settled2(p)
    BY <1>6, <2>1, <2>2, <2>3, <2>4
  <2>6. \A p \in Placed : settled2(p) <=>
          \E j \in Issued' : invoices'[j].order = p /\ Settles(invoiceHistory'[j])
    BY <1>4
  <2> HIDE DEF settled, settled2
  <2> QED BY <1>6, <2>5, <2>6 DEF PaidIffSettled, Settles
<1>8. NoHistoryYet'
  BY <1>4, <1>i DEF SettleInv, NoHistoryYet
<1>9. tx'[r].op # "pay" /\ \A q \in Requests \ {r} : tx'[q] = tx[q] /\ pc'[q] = pc[q]
  BY <1>0, <1>2, EndLeavesOthers DEF NoTx
<1> QED BY <1>0, <1>7, <1>8, <1>9, SettlementsInHand DEF SettleInv

LEMMA CommitCancelSettle ==
  ASSUME SettleInv, NEW r \in Requests, CommitCancel(r)
  PROVE  SettleInv'
<1> DEFINE row == HistoryRow(tx[r].invoiceFrom, "CANCELLED", 0)
<1>i. PICK i \in Requests : i = tx[r].invoice /\ i \in Issued
  BY CommitCancelEffect DEF SettleInv, MoveInv, CounterInv, Issued
<1>0. /\ CounterInv /\ TypeInv /\ MoveInv /\ MoveInv'
      /\ invoices \in [Requests -> InvoiceRow]
      /\ invoiceHistory \in [Requests -> Seq(HistoryRows)]
  BY CommitCancelMove DEF SettleInv, MoveInv, CounterInv, TypeInv, TypeOK
<1>1. /\ invoices' = [invoices EXCEPT ![i] = CancelledInvoice(r)]
      /\ CancelledInvoice(r).order = invoices[i].order
      /\ CancelledInvoice(r).status # "NONE"
      /\ invoiceHistory' = [invoiceHistory EXCEPT ![i] = Append(@, row)]
      /\ End(r, "done") /\ orders' = orders
  BY <1>0, <1>i, CommitCancelEffect DEF CommitCancel
<1>2. row \in HistoryRows /\ row.to = "CANCELLED"
  <2>1. tx[r] \in TxRow
    BY <1>0, CommitCancelEffect
  <2> QED BY <2>1 DEF HistoryRow, HistoryRows, TxRow, LiveInvoiceStatuses, InvoiceStatuses
<1> HIDE DEF row
<1>3. /\ Issued' = Issued /\ Placed' = Placed
      /\ \A j \in Issued : invoices'[j].order = invoices[j].order
      /\ \A j \in Requests \ {i} : invoiceHistory'[j] = invoiceHistory[j]
      /\ invoiceHistory'[i] = Append(invoiceHistory[i], row)
  BY <1>0, <1>1, <1>i DEF Issued, Placed
<1>4. \A j \in Requests : Settles(invoiceHistory'[j]) <=> Settles(invoiceHistory[j])
  <2>1. Settles(invoiceHistory'[i]) <=> Settles(invoiceHistory[i])
    BY <1>0, <1>2, <1>3, SettlesAppend
  <2> QED BY <1>3, <2>1
<1>5. PaidIffSettled'
  <2>1. \A p \in Placed :
          (\E j \in Issued' : invoices'[j].order = p /\ Settles(invoiceHistory'[j]))
            <=> (\E j \in Issued : invoices[j].order = p /\ Settles(invoiceHistory[j]))
    BY <1>3, <1>4 DEF Issued
  <2> QED BY <1>1, <1>3, <2>1 DEF SettleInv, PaidIffSettled, Settles
<1>6. NoHistoryYet'
  BY <1>3, <1>i DEF SettleInv, NoHistoryYet
<1>7. tx'[r].op # "pay" /\ \A q \in Requests \ {r} : tx'[q] = tx[q] /\ pc'[q] = pc[q]
  BY <1>0, <1>1, EndLeavesOthers DEF NoTx
<1> QED BY <1>0, <1>5, <1>6, <1>7, SettlementsInHand DEF SettleInv

LEMMA NextSettle == SettleInv /\ [Next]_vars => SettleInv'
<1> SUFFICES ASSUME SettleInv, [Next]_vars PROVE SettleInv'
  OBVIOUS
<1>0. TypeInv /\ MoveInv'
  BY NextMove DEF SettleInv, MoveInv, CounterInv
<1>1. ASSUME NEW r \in Requests, Advanced(r) PROVE SettleInv'
  BY <1>1, AdvanceSettle
<1>2. ASSUME NEW r \in Requests, CommitOrder(r) PROVE SettleInv'
  BY <1>2, CommitOrderSettle
<1>3. ASSUME NEW r \in Requests, CommitInvoice(r) PROVE SettleInv'
  BY <1>3, CommitInvoiceSettle
<1>4. ASSUME NEW r \in Requests, CommitPayment(r) PROVE SettleInv'
  BY <1>4, CommitPaymentSettle
<1>5. ASSUME NEW r \in Requests, CommitCancel(r) PROVE SettleInv'
  BY <1>5, CommitCancelSettle
<1>6. CASE UNCHANGED vars
  BY <1>0, <1>6 DEF vars, SettleInv, SettlementInHand, PaymentStatus, NoHistoryYet,
      PaidIffSettled, Placed, Issued
<1> QED BY <1>0, <1>1, <1>2, <1>3, <1>4, <1>5, <1>6, NextCases

LEMMA SettleInvariant == Spec => []SettleInv
  BY InitSettle, NextSettle, PTL DEF Spec

\* An order is PAID exactly if one of its invoices has been settled: neither a
\* race of two payments nor an aborted one parts the order from its invoice.
THEOREM PaidOrdersSettled == Spec => []PaidIffSettled
<1>1. SettleInv => PaidIffSettled
  BY DEF SettleInv
<1> QED BY <1>1, SettleInvariant, PTL

-----------------------------------------------------------------------------
(* Sums over a history.  A sum is a recursive function over the history, so *)
(* what one more row does to it is shown by induction: a set of numbers     *)
(* that holds 0 and every number's successor holds them all, as otherwise   *)
(* the least number it misses would have no predecessor.                    *)

LEMMA Induction ==
  ASSUME NEW S, 0 \in S, \A n \in Nat : n \in S => n + 1 \in S
  PROVE  Nat \subseteq S
<1> SUFFICES ASSUME Nat \ S # {} PROVE FALSE
  OBVIOUS
<1>1. IsWellFoundedOn(OpToRel(<, Nat), Nat)
  BY NatLessThanWellFounded
<1>2. PICK n \in Nat \ S : \A m \in Nat \ S : ~(<<m, n>> \in OpToRel(<, Nat))
  BY <1>1, WFMin
<1>3. n \in Nat /\ n \notin S /\ n # 0
  OBVIOUS
<1>4. n - 1 \in Nat /\ n - 1 < n /\ (n - 1) + 1 = n
  BY <1>3
<1>5. n - 1 \in S
  BY <1>2, <1>4 DEF OpToRel
<1> QED BY <1>3, <1>4, <1>5

\* f holds the sums of the first rows of h, up to the first n of them.
Tallies(f, h, n) ==
  f = [k \in 0..n |-> IF k = 0 THEN 0 ELSE f[k-1] + h[k].amount]

LEMMA TallyExists ==
  ASSUME NEW h, NEW m \in Nat
  PROVE  \E f : Tallies(f, h, m)
<1> DEFINE S == {n \in Nat : \E f : Tallies(f, h, n)}
<1>1. 0 \in S
  <2>1. Tallies([k \in 0..0 |-> 0], h, 0)
    BY DEF Tallies
  <2> QED BY <2>1
<1>2. ASSUME NEW n \in Nat, n \in S PROVE n + 1 \in S
  <2>1. PICK f : Tallies(f, h, n)
    BY <1>2
  <2> DEFINE g == [k \in 0..(n+1) |-> IF k = n + 1 THEN f[n] + h[n+1].amount ELSE f[k]]
  <2>2. ASSUME NEW k \in 0..(n+1)
        PROVE  g[k] = IF k = 0 THEN 0 ELSE g[k-1] + h[k].amount
    <3>1. CASE k = n + 1
      <4>1. g[k] = f[n] + h[n+1].amount /\ g[k-1] = f[n]
        BY <3>1
      <4> QED BY <3>1, <4>1
    <3>2. CASE k \in 0..n
      <4>1. f[k] = IF k = 0 THEN 0 ELSE f[k-1] + h[k].amount
        BY <2>1, <3>2 DEF Tallies
      <4>2. g[k] = f[k] /\ (k # 0 => g[k-1] = f[k-1])
        BY <3>2
      <4> QED BY <4>1, <4>2
    <3> QED BY <3>1, <3>2
  <2>3. g = [k \in 0..(n+1) |-> g[k]]
    OBVIOUS
  <2> HIDE DEF g
  <2>4. Tallies(g, h, n + 1)
    BY <2>2, <2>3 DEF Tallies
  <2> QED BY <2>4
<1> HIDE DEF S
<1>3. Nat \subseteq S
  BY <1>1, <1>2, Induction
<1> QED BY <1>3 DEF S

\* Tallies of two histories agree as long as the histories do.
LEMMA TalliesAgree ==
  ASSUME NEW f, NEW g, NEW h, NEW j, NEW m \in Nat, NEW n \in Nat, m <= n,
         Tallies(f, h, m), Tallies(g, j, n), \A k \in 1..m : h[k] = j[k]
  PROVE  f[m] = g[m]
<1> DEFINE S == {k \in Nat : k <= m => f[k] = g[k]}
<1>1. 0 \in S
  BY DEF Tallies
<1>2. ASSUME NEW k \in Nat, k \in S PROVE k + 1 \in S
  <2> SUFFICES ASSUME k + 1 <= m PROVE f[k+1] = g[k+1]
    OBVIOUS
  <2>1. k + 1 \in 0..m /\ k + 1 \in 0..n /\ k + 1 # 0 /\ (k + 1) - 1 = k /\ k + 1 \in 1..m
    OBVIOUS
  <2>2. f[k+1] = f[k] + h[k+1].amount /\ g[k+1] = g[k] + j[k+1].amount
    BY <2>1 DEF Tallies
  <2>3. f[k] = g[k] /\ h[k+1] = j[k+1]
    BY <1>2, <2>1
  <2> QED BY <2>2, <2>3
<1> HIDE DEF S
<1>3. Nat \subseteq S
  BY <1>1, <1>2, Induction
<1> QED BY <1>3 DEF S

LEMMA RecordedIs ==
  ASSUME NEW h \in Seq(HistoryRows)
  PROVE  \E f : Tallies(f, h, Len(h)) /\ Recorded(h) = f[Len(h)]
<1> DEFINE r == CHOOSE f : f = [n \in 0..Len(h) |->
                                 IF n = 0 THEN 0 ELSE f[n-1] + h[n].amount]
<1>1. \E f : Tallies(f, h, Len(h))
  BY TallyExists
<1>2. Recorded(h) = r[Len(h)]
  BY DEF Recorded
<1>3. Tallies(r, h, Len(h))
  BY <1>1 DEF Tallies
<1> QED BY <1>2, <1>3

\* One more row adds its amount to what is recorded.
LEMMA RecordedAppend ==
  ASSUME NEW h \in Seq(HistoryRows), NEW row \in HistoryRows
  PROVE  Recorded(Append(h, row)) = Recorded(h) + row.amount
<1> DEFINE j == Append(h, row)
           n == Len(h)
<1>1. /\ j \in Seq(HistoryRows) /\ n \in Nat /\ Len(j) = n + 1 /\ j[n+1] = row
      /\ \A k \in 1..n : h[k] = j[k]
  OBVIOUS
<1>2. PICK f : Tallies(f, h, n) /\ Recorded(h) = f[n]
  BY RecordedIs
<1>3. PICK g : Tallies(g, j, n + 1) /\ Recorded(j) = g[n+1]
  BY <1>1, RecordedIs
<1> HIDE DEF j, n
<1>4. f[n] = g[n]
  <2>1. n + 1 \in Nat /\ n <= n + 1
    BY <1>1
  <2> QED BY <1>1, <1>2, <1>3, <2>1, TalliesAgree
<1>5. n + 1 \in 0..(n+1) /\ n + 1 # 0 /\ (n + 1) - 1 = n
  BY <1>1
<1>6. g[n+1] = g[n] + j[n+1].amount
  BY <1>3, <1>5 DEF Tallies
<1> QED BY <1>1, <1>2, <1>3, <1>4, <1>6 DEF j

LEMMA RecordedNothing == Recorded(<< >>) = 0
<1>1. << >> \in Seq(HistoryRows) /\ Len(<< >>) = 0
  OBVIOUS
<1>2. PICK f : Tallies(f, << >>, 0) /\ Recorded(<< >>) = f[0]
  BY <1>1, RecordedIs
<1> QED BY <1>2 DEF Tallies

\* Sums of whole amounts are whole.
LEMMA RecordedWhole ==
  ASSUME NEW h \in Seq(HistoryRows)
  PROVE  Recorded(h) \in Int
<1>1. PICK f : Tallies(f, h, Len(h)) /\ Recorded(h) = f[Len(h)]
  BY RecordedIs
<1> DEFINE S == {k \in Nat : k <= Len(h) => f[k] \in Int}
<1>2. 0 \in S
  BY <1>1 DEF Tallies
<1>3. ASSUME NEW k \in Nat, k \in S PROVE k + 1 \in S
  <2> SUFFICES ASSUME k + 1 <= Len(h) PROVE f[k+1] \in Int
    OBVIOUS
  <2>1. k + 1 \in 0..Len(h) /\ k + 1 # 0 /\ (k + 1) - 1 = k /\ k + 1 \in 1..Len(h)
    OBVIOUS
  <2>2. f[k+1] = f[k] + h[k+1].amount
    BY <1>1, <2>1 DEF Tallies
  <2>3. f[k] \in Int
    BY <1>3
  <2>4. h[k+1].amount \in Int
    <3>1. h[k+1] \in HistoryRows
      BY <2>1
    <3> QED BY <3>1 DEF HistoryRows
  <2> QED BY <2>2, <2>3, <2>4
<1> HIDE DEF S
<1>4. Nat \subseteq S
  BY <1>2, <1>3, Induction
<1>5. Len(h) \in Nat /\ Len(h) <= Len(h)
  OBVIOUS
<1> QED BY <1>1, <1>4, <1>5 DEF S

-----------------------------------------------------------------------------
(* What a race can cost.  A payment adds its amount to what it read, and    *)
(* what it read was recorded by then and stays recorded: so a payment may   *)
(* be written over, but none counts that nobody recorded.                   *)

\* An invoice never says more was paid than its history records, although
\* markInvoicePaidManually writes an absolute amount over whatever is there.
NeverOverstated ==
  \A i \in Issued : invoices[i].paid <= Recorded(invoiceHistory[i])

RecordedInHand(r) ==
  tx[r].op = "pay" =>
    /\ tx[r].amount > 0
    /\ tx[r].paid <= Recorded(invoiceHistory[tx[r].invoice]) + tx[r].amount

RecordedInv ==
  /\ SettleInv
  /\ \A r \in Requests : RecordedInHand(r)
  /\ NeverOverstated

LEMMA InitRecorded == Init => RecordedInv
  BY InitSettle DEF Init, RecordedInv, RecordedInHand, NoTx, NeverOverstated, Issued,
      NoInvoice

LEMMA AdvanceRecorded ==
  ASSUME RecordedInv, NEW r \in Requests, Advanced(r)
  PROVE  RecordedInv'
<1>1. PICK t \in TxRow, s \in Statements \cup Ended :
        PrivateStep(r, t, s) /\ Advances(r, t, s)
  BY DEF Advanced
<1>2. /\ tx \in [Requests -> TxRow] /\ tx' = [tx EXCEPT ![r] = t] /\ UNCHANGED db
      /\ tx[r] \in TxRow /\ Fits(pc[r], tx[r]) /\ RecordedInHand(r)
      /\ invoices \in [Requests -> InvoiceRow]
      /\ invoiceHistory \in [Requests -> Seq(HistoryRows)]
  BY <1>1 DEF PrivateStep, RecordedInv, SettleInv, MoveInv, CounterInv, TypeInv, TypeOK,
      RowsInHand
<1>3. t.op = "pay" =>
        t.amount > 0 /\ t.paid <= Recorded(invoiceHistory[t.invoice]) + t.amount
  <2>1. CASE OpensPayment(r, t, s)
    <3>1. t.invoice \in Issued /\ t.invoice \in Requests
      BY <2>1 DEF OpensPayment, Issued
    <3>2. /\ invoices[t.invoice].paid \in Int /\ t.amount \in Int
          /\ Recorded(invoiceHistory[t.invoice]) \in Int
      BY <1>2, <3>1, RecordedWhole DEF InvoiceRow, TxRow
    <3>3. invoices[t.invoice].paid <= Recorded(invoiceHistory[t.invoice])
      BY <3>1 DEF RecordedInv, NeverOverstated
    <3> QED BY <2>1, <3>2, <3>3 DEF OpensPayment
  <2>2. CASE OpensPlacement(r, t, s) \/ OpensCancellation(r, t, s) \/ Closes(r, t, s)
    BY <2>2 DEF OpensPlacement, OpensCancellation, Closes, NoTx
  <2>3. CASE DrawsNumber(r, t, s)
    BY <1>2, <2>3 DEF DrawsNumber, Fits, TxRow
  <2>4. CASE ReadsOrder(r, t, s) \/ MovesOn(r, t, s)
    <3>1. /\ t.op = tx[r].op /\ t.invoice = tx[r].invoice
          /\ t.amount = tx[r].amount /\ t.paid = tx[r].paid
      BY <1>2, <2>4 DEF ReadsOrder, MovesOn, TxRow
    <3> QED BY <1>2, <3>1 DEF RecordedInHand
  <2> QED BY <1>1, <2>1, <2>2, <2>3, <2>4 DEF Advances
<1>4. \A q \in Requests : RecordedInHand(q)'
  <2>1. tx'[r] = t /\ invoiceHistory' = invoiceHistory
        /\ \A q \in Requests \ {r} : tx'[q] = tx[q]
    BY <1>2 DEF db
  <2> QED BY <1>3, <2>1 DEF RecordedInv, RecordedInHand
<1>5. NeverOverstated'
  BY <1>2 DEF db, RecordedInv, NeverOverstated, Issued
<1> QED BY <1>4, <1>5, AdvanceSettle DEF RecordedInv

\* The order of a payment is there.
LEMMA PaymentHasOrder ==
  ASSUME TypeInv, NEW q \in Requests, tx[q].op = "pay"
  PROVE  tx[q].order \in Placed /\ tx[q].invoice \in Issued
<1>1. Fits(pc[q], tx[q]) /\ pc[q] \in Statements \cup Ended
  BY DEF TypeInv, TypeOK, RowsInHand
<1> QED BY <1>1 DEF Fits, Statements, WithOrder

\* A commit of r that adds a row to the history of i.
LEMMA RecordingCommit ==
  ASSUME RecordedInv, SettleInv', NEW r \in Requests, NEW i \in Requests,
         NEW row \in HistoryRows, row.amount >= 0,
         invoiceHistory' = [invoiceHistory EXCEPT ![i] = Append(@, row)],
         invoices'[i].paid <= Recorded(invoiceHistory[i]) + row.amount,
         \A j \in Requests \ {i} : invoices'[j] = invoices[j],
         tx'[r].op # "pay", \A q \in Requests \ {r} : tx'[q] = tx[q]
  PROVE  RecordedInv'
<1>0. /\ TypeInv /\ invoiceHistory \in [Requests -> Seq(HistoryRows)]
      /\ tx \in [Requests -> TxRow] /\ row.amount \in Int
  BY DEF RecordedInv, SettleInv, MoveInv, CounterInv, TypeInv, TypeOK, HistoryRows
<1>1. /\ Recorded(invoiceHistory'[i]) = Recorded(invoiceHistory[i]) + row.amount
      /\ \A j \in Requests \ {i} : invoiceHistory'[j] = invoiceHistory[j]
      /\ \A j \in Requests : Recorded(invoiceHistory[j]) \in Int
  BY <1>0, RecordedAppend, RecordedWhole
<1>2. \A j \in Requests : /\ Recorded(invoiceHistory'[j]) \in Int
                          /\ Recorded(invoiceHistory[j]) <= Recorded(invoiceHistory'[j])
  BY <1>0, <1>1
<1>3. \A q \in Requests : RecordedInHand(q)'
  <2> SUFFICES ASSUME NEW q \in Requests, q # r, tx[q].op = "pay" PROVE RecordedInHand(q)'
    BY DEF RecordedInHand
  <2>1. tx[q].invoice \in Requests /\ tx[q].paid \in Int /\ tx[q].amount \in Int
    BY <1>0, PaymentHasOrder DEF Issued, TxRow
  <2>2. /\ tx[q].amount > 0
        /\ tx[q].paid <= Recorded(invoiceHistory[tx[q].invoice]) + tx[q].amount
    BY DEF RecordedInv, RecordedInHand
  <2>3. tx[q].paid <= Recorded(invoiceHistory'[tx[q].invoice]) + tx[q].amount
    BY <1>1, <1>2, <2>1, <2>2
  <2> QED BY <2>2, <2>3 DEF RecordedInHand
<1>4. NeverOverstated'
  BY <1>1 DEF RecordedInv, NeverOverstated, Issued
<1> QED BY <1>3, <1>4 DEF RecordedInv

LEMMA NextRecorded == RecordedInv /\ [Next]_vars => RecordedInv'
<1> SUFFICES ASSUME RecordedInv, [Next]_vars PROVE RecordedInv'
  OBVIOUS
<1>0. /\ SettleInv /\ CounterInv /\ TypeInv /\ SettleInv'
      /\ invoices \in [Requests -> InvoiceRow] /\ tx \in [Requests -> TxRow]
      /\ invoiceHistory \in [Requests -> Seq(HistoryRows)]
  BY NextSettle DEF RecordedInv, SettleInv, MoveInv, CounterInv, TypeInv, TypeOK
<1>1. ASSUME NEW r \in Requests, Advanced(r) PROVE RecordedInv'
  BY <1>1, AdvanceRecorded
<1>2. ASSUME NEW r \in Requests, CommitOrder(r) PROVE RecordedInv'
  <2>1. /\ tx' = [tx EXCEPT ![r] = AfterOrder(r)]
        /\ invoices' = invoices /\ invoiceHistory' = invoiceHistory
        /\ tx[r].op = "place" /\ AfterOrder(r).op = tx[r].op
    BY <1>0, <1>2 DEF CommitOrder, AfterOrder, TxRow, TypeInv, RowsInHand, Fits
  <2>2. tx'[r].op = "place" /\ \A q \in Requests \ {r} : tx'[q] = tx[q]
    BY <1>0, <2>1
  <2>3. \A q \in Requests : RecordedInHand(q)'
    BY <2>1, <2>2 DEF RecordedInv, RecordedInHand
  <2> QED BY <1>0, <2>1, <2>3 DEF RecordedInv, NeverOverstated, Issued
<1>3. ASSUME NEW r \in Requests, CommitInvoice(r) PROVE RecordedInv'
  <2> DEFINE row == HistoryRow("NONE", "ISSUED", 0)
  <2>1. /\ invoices[r] = NoInvoice
        /\ invoices' = [invoices EXCEPT ![r] = CommittedInvoice(r)]
        /\ invoiceHistory' = [invoiceHistory EXCEPT ![r] = Append(@, row)]
        /\ End(r, "done")
    BY <1>0, <1>3 DEF CommitInvoice, CommittedInvoice, CounterInv, NotYetCommitted, Ended
  <2>2. row \in HistoryRows /\ row.amount = 0
    BY DEF HistoryRow, HistoryRows, InvoiceStatuses
  <2> HIDE DEF row
  <2>3. Recorded(invoiceHistory[r]) = 0
    <3>1. invoiceHistory[r] = << >>
      BY <1>0, <2>1 DEF SettleInv, NoHistoryYet, Issued, NoInvoice
    <3> QED BY <3>1, RecordedNothing
  <2>4. invoices'[r].paid = 0 /\ \A j \in Requests \ {r} : invoices'[j] = invoices[j]
    BY <1>0, <2>1 DEF CommittedInvoice, NoInvoice
  <2>5. tx'[r].op # "pay" /\ \A q \in Requests \ {r} : tx'[q] = tx[q]
    BY <1>0, <2>1, EndLeavesOthers DEF NoTx
  <2>6. row.amount >= 0 /\ invoices'[r].paid <= Recorded(invoiceHistory[r]) + row.amount
    BY <2>2, <2>3, <2>4
  <2> QED BY <1>0, <2>1, <2>2, <2>4, <2>5, <2>6, RecordingCommit
<1>4. ASSUME NEW r \in Requests, CommitPayment(r) PROVE RecordedInv'
  <2> DEFINE row == HistoryRow(tx[r].invoiceFrom, PaymentStatus(r), tx[r].amount)
  <2>i. PICK i \in Requests : i = tx[r].invoice
    BY <1>0, <1>4, CommitPaymentEffect DEF Issued
  <2>1. /\ tx[r] \in TxRow /\ tx[r].op = "pay"
        /\ PaymentStatus(r) \in {"PAID", "PARTIALLY_PAID"}
        /\ invoices' = [invoices EXCEPT ![i] = PaidInvoice(r)]
        /\ PaidInvoice(r).paid = tx[r].paid
    BY <1>0, <1>4, <2>i, CommitPaymentEffect
  <2>2. /\ invoiceHistory' = [invoiceHistory EXCEPT ![i] = Append(@, row)]
        /\ End(r, "done")
    BY <1>4, <2>i DEF CommitPayment
  <2>3. row \in HistoryRows /\ row.amount = tx[r].amount
    BY <2>1 DEF HistoryRow, HistoryRows, TxRow, LiveInvoiceStatuses, InvoiceStatuses
  <2> HIDE DEF row
  <2>4. /\ row.amount \in Int /\ row.amount > 0
        /\ tx[r].paid <= Recorded(invoiceHistory[i]) + row.amount
    BY <2>i, <2>1, <2>3 DEF RecordedInv, RecordedInHand, TxRow
  <2>5. /\ invoices'[i].paid = tx[r].paid
        /\ \A j \in Requests \ {i} : invoices'[j] = invoices[j]
    BY <1>0, <2>1
  <2>6. tx'[r].op # "pay" /\ \A q \in Requests \ {r} : tx'[q] = tx[q]
    BY <1>0, <2>2, EndLeavesOthers DEF NoTx
  <2>7. row.amount >= 0 /\ invoices'[i].paid <= Recorded(invoiceHistory[i]) + row.amount
    BY <2>4, <2>5
  <2> QED BY <1>0, <2>2, <2>3, <2>5, <2>6, <2>7, RecordingCommit
<1>5. ASSUME NEW r \in Requests, CommitCancel(r) PROVE RecordedInv'
  <2> DEFINE row == HistoryRow(tx[r].invoiceFrom, "CANCELLED", 0)
  <2>i. PICK i \in Requests : i = tx[r].invoice /\ i \in Issued
    BY <1>0, <1>5, CommitCancelEffect DEF Issued
  <2>1. /\ tx[r] \in TxRow
        /\ invoices' = [invoices EXCEPT ![i] = CancelledInvoice(r)]
        /\ CancelledInvoice(r).paid = invoices[i].paid
    BY <1>0, <1>5, <2>i, CommitCancelEffect
  <2>2. /\ invoiceHistory' = [invoiceHistory EXCEPT ![i] = Append(@, row)]
        /\ End(r, "done")
    BY <1>5, <2>i DEF CommitCancel
  <2>3. row \in HistoryRows /\ row.amount = 0
    BY <2>1 DEF HistoryRow, HistoryRows, TxRow, LiveInvoiceStatuses, InvoiceStatuses
  <2> HIDE DEF row
  <2>4. /\ invoices'[i].paid = invoices[i].paid
        /\ \A j \in Requests \ {i} : invoices'[j] = invoices[j]
    BY <1>0, <2>1
  <2>5. row.amount >= 0 /\ invoices'[i].paid <= Recorded(invoiceHistory[i]) + row.amount
    <3>1. invoices[i].paid <= Recorded(invoiceHistory[i])
          /\ Recorded(invoiceHistory[i]) \in Int
      BY <1>0, <2>i, RecordedWhole DEF RecordedInv, NeverOverstated
    <3> QED BY <2>3, <2>4, <3>1
  <2>6. tx'[r].op # "pay" /\ \A q \in Requests \ {r} : tx'[q] = tx[q]
    BY <1>0, <2>2, EndLeavesOthers DEF NoTx
  <2> QED BY <1>0, <2>2, <2>3, <2>4, <2>5, <2>6, RecordingCommit
<1>6. CASE UNCHANGED vars
  BY <1>0, <1>6 DEF vars, RecordedInv, RecordedInHand, NeverOverstated, Issued
<1> QED BY <1>0, <1>1, <1>2, <1>3, <1>4, <1>5, <1>6, NextCases

\* However payments, cancellations and orders interleave and whatever aborts,
\* an invoice never says that more was paid than its history records: a race
\* of two payments may lose one, as billing_lost_payment shows, and invents none.
THEOREM NothingInvented == Spec => []NeverOverstated
<1>1. RecordedInv => NeverOverstated
  BY DEF RecordedInv
<1> QED BY <1>1, InitRecorded, NextRecorded, PTL DEF Spec

-----------------------------------------------------------------------------
(* Taking turns.  While one payment or cancellation is open no other one    *)
(* is, so what it read of its invoice still stands when it commits; an      *)
(* order it is about to settle still awaits its payment, since placements   *)
(* only ever move PENDING orders.                                           *)

StaffInHand(r) ==
  LET v == invoices[tx[r].invoice] IN
  /\ tx[r].op \in {"pay", "cancel"} => tx[r].invoiceFrom = v.status
  /\ tx[r].op = "pay" => /\ v.status \in PayableStatuses
                         /\ tx[r].paid = v.paid + tx[r].amount
  /\ tx[r].op = "pay" /\ tx[r].orderFrom # "NONE" =>
       orders[tx[r].order].status = tx[r].orderFrom
  /\ tx[r].op = "cancel" => IsValidInvoiceTransition(v.status, "CANCELLED")

\* A history tells how its row came to have the status it has.
Tells(h, status) ==
  /\ Chained(h)
  /\ IF status = "NONE" THEN h = << >> ELSE Len(h) > 0 /\ h[Len(h)].to = status

HistoriesTell ==
  \A e \in Requests : /\ Tells(orderHistory[e], orders[e].status)
                      /\ Tells(invoiceHistory[e], invoices[e].status)

SerialInv ==
  /\ SettleInv
  /\ StaffTakeTurns
  /\ \A r \in Requests : StaffInHand(r)
  /\ HistoriesTell
  /\ PaymentsAddUp
  /\ SettledOnce

LEMMA InitSerial == Init => SerialInv
<1> SUFFICES ASSUME Init PROVE SerialInv
  OBVIOUS
<1>1. Issued = {} /\ \A r \in Requests : tx[r] = NoTx
  BY DEF Init, Issued, NoInvoice
<1>2. StaffTakeTurns /\ PaymentsAddUp /\ SettledOnce /\ \A r \in Requests : StaffInHand(r)
  BY <1>1 DEF StaffTakeTurns, StaffRequests, PaymentsAddUp, SettledOnce, StaffInHand, NoTx
<1>3. HistoriesTell
  BY DEF Init, HistoriesTell, Tells, Chained, NoOrder, NoInvoice
<1> QED BY <1>2, <1>3, InitSettle DEF SerialInv

\* One more row that starts where the history stands.
LEMMA TellsAppend ==
  ASSUME NEW h \in Seq(HistoryRows), NEW row \in HistoryRows, Tells(h, row.from)
  PROVE  Tells(Append(h, row), row.to)
<1> DEFINE j == Append(h, row)
           n == Len(h)
<1>1. /\ n \in Nat /\ Len(j) = n + 1 /\ j[n+1] = row
      /\ \A k \in 1..n : j[k] = h[k]
  OBVIOUS
<1>2. row.to # "NONE"
  BY DEF HistoryRows, OrderStatuses, InvoiceStatuses
<1>3. ASSUME NEW k \in 2..(n+1) PROVE j[k].from = j[k-1].to
  <2>1. CASE k \in 2..n
    <3>1. h[k].from = h[k-1].to
      BY <2>1 DEF Tells, Chained
    <3> QED BY <1>1, <2>1, <3>1
  <2>2. CASE k = n + 1
    <3>1. n > 0 /\ h # << >>
      BY <1>1, <2>2
    <3>2. h[n].to = row.from
      BY <3>1 DEF Tells
    <3>3. k - 1 = n /\ n \in 1..n
      BY <1>1, <2>2, <3>1
    <3> QED BY <1>1, <2>2, <3>2, <3>3
  <2> QED BY <1>1, <2>1, <2>2
<1> HIDE DEF j, n
<1>4. Chained(j)
  BY <1>1, <1>3 DEF Chained
<1>5. Len(j) > 0 /\ j[Len(j)].to = row.to
  BY <1>1
<1> QED BY <1>2, <1>4, <1>5 DEF Tells, j

\* The order's move a commit publishes is one more row of its history.
LEMMA OrderMoveTells ==
  ASSUME TypeInv, HistoriesTell, NEW r \in Requests, PublishOrderMove(r),
         tx[r].order \in Placed,
         tx[r].orderFrom # "NONE" => orders[tx[r].order].status = tx[r].orderFrom
  PROVE  \A e \in Requests : Tells(orderHistory'[e], orders'[e].status)
<1> DEFINE o == tx[r].order
           row == HistoryRow(tx[r].orderFrom, OrderTarget(r), 0)
<1>1. CASE tx[r].orderFrom = "NONE"
  BY <1>1 DEF PublishOrderMove, HistoriesTell
<1>2. CASE tx[r].orderFrom # "NONE"
  <2>1. /\ row \in HistoryRows /\ row.from = orders[o].status /\ row.to = OrderTarget(r)
    BY <1>2 DEF HistoryRow, HistoryRows, OrderStatuses, OrderTarget, TypeInv, TypeOK, TxRow,
        LiveOrderStatuses
  <2>2. orderHistory' = [orderHistory EXCEPT ![o] = Append(@, row)]
    BY <1>2 DEF PublishOrderMove
  <2> HIDE DEF row
  <2>3. o \in Requests /\ orderHistory \in [Requests -> Seq(HistoryRows)]
    BY DEF Placed, TypeInv, TypeOK
  <2>4. orderHistory'[o] = Append(orderHistory[o], row) /\ orderHistory[o] \in Seq(HistoryRows)
    BY <2>2, <2>3
  <2>5. Tells(orderHistory'[o], orders'[o].status)
    <3>1. Tells(orderHistory[o], row.from)
      BY <2>1, <2>3 DEF HistoriesTell
    <3>2. orders'[o].status = row.to
      BY <1>2, <2>1, OrderMoveEffect
    <3> QED BY <2>1, <2>4, <3>1, <3>2, TellsAppend
  <2>6. ASSUME NEW e \in Requests, e # o PROVE Tells(orderHistory'[e], orders'[e].status)
    <3>1. orderHistory'[e] = orderHistory[e] /\ orders'[e] = orders[e]
      BY <2>2, <2>3, <2>6, OrderMoveEffect
    <3> QED BY <3>1 DEF HistoriesTell
  <2> QED BY <2>5, <2>6
<1> QED BY <1>1, <1>2

LEMMA AdvanceSerial ==
  ASSUME SerialInv, StaffTakeTurns', NEW r \in Requests, Advanced(r)
  PROVE  SerialInv'
<1>1. PICK t \in TxRow, s \in Statements \cup Ended :
        PrivateStep(r, t, s) /\ Advances(r, t, s)
  BY DEF Advanced
<1>2. /\ tx \in [Requests -> TxRow] /\ tx' = [tx EXCEPT ![r] = t] /\ UNCHANGED db
      /\ tx[r] \in TxRow /\ Fits(pc[r], tx[r]) /\ StaffInHand(r) /\ TypeInv
  BY <1>1 DEF PrivateStep, SerialInv, SettleInv, MoveInv, CounterInv, TypeInv, TypeOK,
      RowsInHand
<1>3. tx'[r] = t /\ \A q \in Requests \ {r} : tx'[q] = tx[q]
  BY <1>2
<1>4. \A q \in Requests \ {r} : StaffInHand(q)'
  BY <1>2, <1>3 DEF db, SerialInv, StaffInHand
<1>5. StaffInHand(r)'
  <2>1. CASE OpensPlacement(r, t, s) \/ Closes(r, t, s)
    BY <1>3, <2>1 DEF OpensPlacement, Closes, NoTx, StaffInHand
  <2>2. CASE OpensPayment(r, t, s)
    BY <1>2, <1>3, <2>2 DEF OpensPayment, StaffInHand, db
  <2>3. CASE OpensCancellation(r, t, s)
    BY <1>2, <1>3, <2>3 DEF OpensCancellation, StaffInHand, db
  <2>4. CASE DrawsNumber(r, t, s)
    <3>1. t.op = "place"
      BY <1>2, <2>4 DEF DrawsNumber, Fits, TxRow
    <3> QED BY <1>3, <3>1 DEF StaffInHand
  <2>5. CASE ReadsOrder(r, t, s)
    <3>1. /\ t.op = tx[r].op /\ t.invoice = tx[r].invoice /\ t.order = tx[r].order
          /\ t.invoiceFrom = tx[r].invoiceFrom /\ t.paid = tx[r].paid
          /\ t.amount = tx[r].amount /\ t.orderFrom = orders[tx[r].order].status
      BY <1>2, <2>5 DEF ReadsOrder, TxRow
    <3> QED BY <1>2, <1>3, <3>1 DEF StaffInHand, db
  <2>6. CASE MovesOn(r, t, s)
    BY <1>2, <1>3, <2>6 DEF MovesOn, StaffInHand, db
  <2> QED BY <1>1, <2>1, <2>2, <2>3, <2>4, <2>5, <2>6 DEF Advances
<1>6. HistoriesTell' /\ PaymentsAddUp' /\ SettledOnce'
  BY <1>2 DEF db, SerialInv, HistoriesTell, PaymentsAddUp, SettledOnce, Settled, Issued
<1> QED BY <1>4, <1>5, <1>6, AdvanceSettle DEF SerialInv

LEMMA CommitOrderSerial ==
  ASSUME SerialInv, StaffTakeTurns', NEW r \in Requests, CommitOrder(r)
  PROVE  SerialInv'
<1>0. SettleInv /\ CounterInv /\ TypeInv /\ tx \in [Requests -> TxRow]
  BY DEF SerialInv, SettleInv, MoveInv, CounterInv, TypeInv, TypeOK
<1>1. /\ orders \in [Requests -> OrderRow] /\ orders[r] = NoOrder /\ tx[r].op = "place"
      /\ orders' = [orders EXCEPT ![r] = CommittedOrder(r)]
      /\ invoices' = invoices /\ invoiceHistory' = invoiceHistory
      /\ orderHistory \in [Requests -> Seq(HistoryRows)]
      /\ orderHistory' = [orderHistory EXCEPT ![r] =
                            Append(@, HistoryRow("NONE", "PENDING", 0))]
      /\ tx' = [tx EXCEPT ![r] = AfterOrder(r)]
  BY <1>0 DEF CommitOrder, CommittedOrder, AfterOrder, CounterInv, NotYetCommitted, TypeInv,
      TypeOK, RowsInHand, Fits
<1>2. tx'[r].op = "place" /\ \A q \in Requests \ {r} : tx'[q] = tx[q]
  <2>1. AfterOrder(r).op = tx[r].op
    BY <1>0 DEF AfterOrder, TxRow
  <2> QED BY <1>0, <1>1, <2>1
<1>3. /\ r \notin Placed /\ \A o \in Requests \ {r} : orders'[o] = orders[o]
      /\ orders'[r].status = "PENDING" /\ Issued' = Issued
  BY <1>1 DEF Placed, Issued, NoOrder, CommittedOrder
<1>4. \A q \in Requests : StaffInHand(q)'
  <2>1. StaffInHand(r)'
    BY <1>2 DEF StaffInHand
  <2>2. ASSUME NEW q \in Requests, q # r PROVE StaffInHand(q)'
    <3>1. tx[q].op = "pay" => orders'[tx[q].order] = orders[tx[q].order]
      BY <1>0, <1>3, PaymentHasOrder DEF Placed
    <3> QED BY <1>1, <1>2, <2>2, <3>1 DEF SerialInv, StaffInHand
  <2> QED BY <2>1, <2>2
<1>5. HistoriesTell'
  <2>1. Tells(orderHistory'[r], orders'[r].status)
    <3>1. HistoryRow("NONE", "PENDING", 0) \in HistoryRows
          /\ HistoryRow("NONE", "PENDING", 0).from = orders[r].status
          /\ HistoryRow("NONE", "PENDING", 0).to = orders'[r].status
      BY <1>1, <1>3 DEF HistoryRow, HistoryRows, OrderStatuses, NoOrder
    <3>2. orderHistory'[r] = Append(orderHistory[r], HistoryRow("NONE", "PENDING", 0))
          /\ orderHistory[r] \in Seq(HistoryRows)
          /\ Tells(orderHistory[r], orders[r].status)
      BY <1>1 DEF SerialInv, HistoriesTell
    <3> QED BY <3>1, <3>2, TellsAppend
  <2>2. \A e \in Requests \ {r} : orderHistory'[e] = orderHistory[e] /\ orders'[e] = orders[e]
    BY <1>1, <1>3
  <2> QED BY <1>1, <2>1, <2>2 DEF SerialInv, HistoriesTell
<1>6. PaymentsAddUp' /\ SettledOnce'
  BY <1>1, <1>3 DEF SerialInv, PaymentsAddUp, SettledOnce, Settled
<1> QED BY <1>0, <1>4, <1>5, <1>6, CommitOrderSettle DEF SerialInv

LEMMA CommitInvoiceSerial ==
  ASSUME SerialInv, StaffTakeTurns', NEW r \in Requests, CommitInvoice(r)
  PROVE  SerialInv'
<1> DEFINE row == HistoryRow("NONE", "ISSUED", 0)
<1>o. PICK o \in Requests : o = tx[r].order /\ o \in Placed
  BY DEF CommitInvoice, SerialInv, SettleInv, MoveInv, CounterInv, TypeInv, RowsInHand,
      Fits, WithOrder, Placed
<1>0. /\ SettleInv /\ MoveInv /\ CounterInv /\ TypeInv
      /\ invoices \in [Requests -> InvoiceRow]
      /\ invoiceHistory \in [Requests -> Seq(HistoryRows)]
  BY DEF SerialInv, SettleInv, MoveInv, CounterInv, TypeInv, TypeOK
<1>1. /\ pc[r] = "commitInvoice" /\ tx[r].op = "place" /\ invoices[r] = NoInvoice
      /\ invoices' = [invoices EXCEPT ![r] = CommittedInvoice(r)]
      /\ invoiceHistory' = [invoiceHistory EXCEPT ![r] = Append(@, row)]
      /\ PublishOrderMove(r) /\ End(r, "done")
  BY <1>0 DEF CommitInvoice, CommittedInvoice, CounterInv, NotYetCommitted, TypeInv,
      RowsInHand, Fits, Ended
<1>2. /\ r \notin Issued /\ Issued' = Issued \cup {r}
      /\ invoices'[r].status = "ISSUED" /\ invoices'[r].paid = 0
      /\ \A i \in Requests \ {r} : /\ invoices'[i] = invoices[i]
                                  /\ invoiceHistory'[i] = invoiceHistory[i]
  BY <1>0, <1>1 DEF Issued, NoInvoice, CommittedInvoice
<1>3. /\ row \in HistoryRows /\ row.from = "NONE" /\ row.to = "ISSUED" /\ row.amount = 0
      /\ invoiceHistory[r] = << >> /\ invoiceHistory[r] \in Seq(HistoryRows)
      /\ invoiceHistory'[r] = Append(invoiceHistory[r], row)
  BY <1>0, <1>1, <1>2
  DEF HistoryRow, HistoryRows, InvoiceStatuses, SettleInv, NoHistoryYet
<1> HIDE DEF row
<1>4. /\ tx'[r].op = "none" /\ \A q \in Requests \ {r} : tx'[q] = tx[q] /\ pc'[q] = pc[q]
  BY <1>0, <1>1, EndLeavesOthers DEF NoTx
<1>5. tx[r].orderFrom # "NONE" => tx[r].orderFrom = "PENDING" /\ orders[o].status = "PENDING"
  BY <1>0, <1>1, <1>o DEF MoveInv, IssueInHand
<1>6. \A q \in Requests : StaffInHand(q)'
  <2>1. StaffInHand(r)'
    BY <1>4 DEF StaffInHand
  <2>2. ASSUME NEW q \in Requests, q # r PROVE StaffInHand(q)'
    <3>1. tx[q].op \in {"pay", "cancel"} => tx[q].invoice \in Issued
      BY <1>0 DEF TypeInv, RowsInHand, Fits
    <3>2. tx[q].op \in {"pay", "cancel"} => invoices'[tx[q].invoice] = invoices[tx[q].invoice]
      BY <1>2, <3>1 DEF Issued
    <3>3. ASSUME tx[q].op = "pay", tx[q].orderFrom # "NONE"
          PROVE  orders'[tx[q].order].status = tx[q].orderFrom
      <4>1. tx[q].order \in Placed /\ tx[q].order \in Requests
        BY <1>0, <3>3, PaymentHasOrder DEF Placed
      <4>2. tx[q].orderFrom = "AWAITING_PAYMENT"
        <5>1. Fits(pc[q], tx[q]) /\ pc[q] \in Statements \cup Ended /\ Unread(q)
              /\ PaymentInHand(q)
          BY <1>0 DEF MoveInv, TypeInv, TypeOK, RowsInHand
        <5> QED BY <3>3, <5>1 DEF Fits, Statements, Unread, PaymentInHand
      <4>3. orders[tx[q].order].status = tx[q].orderFrom
        BY <3>3 DEF SerialInv, StaffInHand
      <4>4. tx[q].order # tx[r].order \/ tx[r].orderFrom = "NONE"
        BY <1>5, <1>o, <4>2, <4>3
      <4> QED BY <1>0, <1>1, <1>o, <4>1, <4>3, <4>4, OrderMoveEffect
    <3> QED BY <1>4, <2>2, <3>2, <3>3 DEF SerialInv, StaffInHand
  <2> QED BY <2>1, <2>2
<1>7. HistoriesTell'
  <2>1. \A e \in Requests : Tells(orderHistory'[e], orders'[e].status)
    BY <1>0, <1>1, <1>5, <1>o, OrderMoveTells DEF SerialInv
  <2>2. Tells(invoiceHistory'[r], invoices'[r].status)
    <3>1. Tells(invoiceHistory[r], row.from)
      BY <1>3 DEF Tells, Chained
    <3> QED BY <1>2, <1>3, <3>1, TellsAppend
  <2>3. \A e \in Requests \ {r} : Tells(invoiceHistory'[e], invoices'[e].status)
    BY <1>2 DEF SerialInv, HistoriesTell
  <2> QED BY <2>1, <2>2, <2>3 DEF HistoriesTell
<1>8. PaymentsAddUp'
  <2>1. Recorded(invoiceHistory'[r]) = invoices'[r].paid
    <3>1. Recorded(invoiceHistory[r]) = 0
      BY <1>3, RecordedNothing
    <3>2. Recorded(Append(invoiceHistory[r], row)) = Recorded(invoiceHistory[r]) + row.amount
      BY <1>3, RecordedAppend
    <3> QED BY <1>2, <1>3, <3>1, <3>2
  <2> QED BY <1>2, <2>1 DEF SerialInv, PaymentsAddUp, Issued
<1>9. SettledOnce'
  <2>1. ~Settled(r)'
    BY <1>3 DEF Settled
  <2>2. \A i \in Issued : /\ i # r /\ i \in Requests
                          /\ invoices'[i] = invoices[i]
                          /\ invoiceHistory'[i] = invoiceHistory[i]
    BY <1>2 DEF Issued
  <2>3. \A i \in Issued : Settled(i)' <=> Settled(i)
    BY <2>2 DEF Settled
  <2> QED BY <1>2, <2>1, <2>2, <2>3 DEF SerialInv, SettledOnce
<1> QED BY <1>0, <1>6, <1>7, <1>8, <1>9, CommitInvoiceSettle DEF SerialInv

\* While r has its turn nobody else has an invoice in hand.
LEMMA TurnOver ==
  ASSUME SerialInv, NEW r \in Requests, tx[r].op \in {"pay", "cancel"}, tx'[r] = NoTx,
         \A q \in Requests \ {r} : tx'[q] = tx[q]
  PROVE  \A q \in Requests : StaffInHand(q)'
<1>1. \A q \in Requests : tx'[q].op \notin {"pay", "cancel"}
  BY DEF SerialInv, StaffTakeTurns, StaffRequests, NoTx
<1> QED BY <1>1 DEF StaffInHand

\* A commit that adds a row to the history of i, from where the invoice stands.
LEMMA InvoiceTells ==
  ASSUME SerialInv, NEW i \in Requests, NEW row \in HistoryRows,
         row.from = invoices[i].status, row.to = invoices'[i].status,
         invoiceHistory \in [Requests -> Seq(HistoryRows)],
         invoiceHistory' = [invoiceHistory EXCEPT ![i] = Append(@, row)],
         \A j \in Requests \ {i} : invoices'[j] = invoices[j],
         \A e \in Requests : Tells(orderHistory'[e], orders'[e].status)
  PROVE  HistoriesTell'
<1>1. Tells(invoiceHistory'[i], invoices'[i].status)
  <2>1. Tells(invoiceHistory[i], row.from) /\ invoiceHistory[i] \in Seq(HistoryRows)
        /\ invoiceHistory'[i] = Append(invoiceHistory[i], row)
    BY DEF SerialInv, HistoriesTell
  <2> QED BY <2>1, TellsAppend
<1>2. \A j \in Requests \ {i} : Tells(invoiceHistory'[j], invoices'[j].status)
  BY DEF SerialInv, HistoriesTell
<1> QED BY <1>1, <1>2 DEF HistoriesTell

\* What the row says was paid is what it adds to the amount paid.
LEMMA InvoiceAddsUp ==
  ASSUME SerialInv, NEW i \in Issued, NEW row \in HistoryRows,
         invoices'[i].paid = invoices[i].paid + row.amount,
         invoiceHistory \in [Requests -> Seq(HistoryRows)],
         invoiceHistory' = [invoiceHistory EXCEPT ![i] = Append(@, row)],
         \A j \in Requests \ {i} : invoices'[j] = invoices[j],
         Issued' = Issued
  PROVE  PaymentsAddUp'
<1>1. i \in Requests
  BY DEF Issued
<1>2. Recorded(invoiceHistory'[i]) = Recorded(invoiceHistory[i]) + row.amount
  BY <1>1, RecordedAppend
<1>3. \A j \in Issued \ {i} : invoiceHistory'[j] = invoiceHistory[j] /\ invoices'[j] = invoices[j]
  BY <1>1 DEF Issued
<1> QED BY <1>2, <1>3 DEF SerialInv, PaymentsAddUp

LEMMA CommitPaymentSerial ==
  ASSUME SerialInv, StaffTakeTurns', NEW r \in Requests, CommitPayment(r)
  PROVE  SerialInv'
<1> DEFINE row == HistoryRow(tx[r].invoiceFrom, PaymentStatus(r), tx[r].amount)
<1>o. PICK o \in Requests : o = tx[r].order /\ o \in Placed
  BY CommitPaymentEffect DEF SerialInv, SettleInv, MoveInv, CounterInv, Placed
<1>i. PICK i \in Requests : i = tx[r].invoice /\ i \in Issued
  BY CommitPaymentEffect DEF SerialInv, SettleInv, MoveInv, CounterInv, Issued
<1>0. /\ SettleInv /\ MoveInv /\ CounterInv /\ TypeInv /\ StaffInHand(r)
      /\ invoices \in [Requests -> InvoiceRow]
      /\ invoiceHistory \in [Requests -> Seq(HistoryRows)]
  BY DEF SerialInv, SettleInv, MoveInv, CounterInv, TypeInv, TypeOK
<1>1. /\ pc[r] = "commitPayment" /\ tx[r] \in TxRow /\ tx[r].op = "pay"
      /\ PaymentStatus(r) \in {"PAID", "PARTIALLY_PAID"}
      /\ invoices' = [invoices EXCEPT ![i] = PaidInvoice(r)]
      /\ PaidInvoice(r).order = invoices[i].order
      /\ PaidInvoice(r).status = PaymentStatus(r) /\ PaidInvoice(r).paid = tx[r].paid
      /\ invoiceHistory' = [invoiceHistory EXCEPT ![i] = Append(@, row)]
      /\ PublishOrderMove(r) /\ End(r, "done")
  BY <1>0, <1>i, CommitPaymentEffect DEF CommitPayment
<1>2. /\ row \in HistoryRows /\ row.from = invoices[i].status
      /\ row.to = PaymentStatus(r) /\ row.amount = tx[r].amount
  BY <1>0, <1>1, <1>i DEF HistoryRow, HistoryRows, TxRow, LiveInvoiceStatuses,
      InvoiceStatuses, StaffInHand
<1> HIDE DEF row
<1>3. /\ invoices'[i].status = PaymentStatus(r) /\ invoices'[i].order = invoices[i].order
      /\ invoices'[i].paid = invoices[i].paid + row.amount
      /\ \A j \in Requests \ {i} : /\ invoices'[j] = invoices[j]
                                  /\ invoiceHistory'[j] = invoiceHistory[j]
      /\ invoiceHistory'[i] = Append(invoiceHistory[i], row)
      /\ Issued' = Issued
  <2>1. /\ invoices'[i] = PaidInvoice(r)
        /\ \A j \in Requests \ {i} : /\ invoices'[j] = invoices[j]
                                    /\ invoiceHistory'[j] = invoiceHistory[j]
        /\ invoiceHistory'[i] = Append(invoiceHistory[i], row)
    BY <1>0, <1>1
  <2>2. tx[r].paid = invoices[i].paid + tx[r].amount
    BY <1>0, <1>1, <1>i DEF StaffInHand
  <2>3. Issued' = Issued
    BY <1>1, <1>i, <2>1 DEF Issued
  <2> QED BY <1>1, <1>2, <2>1, <2>2, <2>3
<1>4. /\ tx'[r] = NoTx /\ \A q \in Requests \ {r} : tx'[q] = tx[q]
  BY <1>0, <1>1, EndLeavesOthers
<1>5. \A q \in Requests : StaffInHand(q)'
  BY <1>1, <1>4, TurnOver
<1>6. tx[r].orderFrom # "NONE" => orders[o].status = tx[r].orderFrom
  BY <1>0, <1>1, <1>o DEF StaffInHand
<1>7. HistoriesTell'
  <2>1. \A e \in Requests : Tells(orderHistory'[e], orders'[e].status)
    BY <1>0, <1>1, <1>6, <1>o, OrderMoveTells DEF SerialInv
  <2> QED BY <1>0, <1>1, <1>2, <1>3, <2>1, InvoiceTells
<1>8. PaymentsAddUp'
  BY <1>0, <1>1, <1>2, <1>3, <1>i, InvoiceAddsUp
<1>9. SettledOnce'
  <2>1. \A j \in Issued : Settled(j) <=> Settles(invoiceHistory[j])
    BY <1>0 DEF Settled, Settles, Issued
  <2>2. \A j \in Issued : j # i => (Settled(j)' <=> Settled(j))
    BY <1>3 DEF Settled, Issued
  <2>3. Settled(i)' => Settled(i) \/ PaymentStatus(r) = "PAID"
    <3>1. invoiceHistory[i] \in Seq(HistoryRows) /\ invoiceHistory'[i] \in Seq(HistoryRows)
      BY <1>0, <1>2, <1>3
    <3>2. Settled(i)' => Settles(invoiceHistory'[i])
      BY <3>1 DEF Settled, Settles
    <3> QED BY <1>2, <1>3, <1>i, <2>1, <3>1, <3>2, SettlesAppend
  <2>4. PaymentStatus(r) = "PAID" =>
          \A j \in Issued : invoices[j].order = invoices[i].order => ~Settled(j)
    <3> SUFFICES ASSUME PaymentStatus(r) = "PAID"
                 PROVE  \A j \in Issued : invoices[j].order = invoices[i].order => ~Settled(j)
      OBVIOUS
    <3>1. /\ tx[r].orderFrom # "NONE" /\ tx[r].orderFrom \in {"NONE", "AWAITING_PAYMENT"}
          /\ invoices[i].order = o
      BY <1>0, <1>1, <1>i, <1>o DEF SettleInv, SettlementInHand, MoveInv, PaymentInHand
    <3>2. orders[o].status # "PAID"
      BY <1>6, <3>1
    <3> QED BY <1>0, <1>o, <2>1, <3>1, <3>2 DEF SettleInv, PaidIffSettled, Settles
  <2>5. \A j \in Issued : invoices'[j].order = invoices[j].order
    BY <1>3 DEF Issued
  <2> QED BY <1>3, <1>i, <2>2, <2>3, <2>4, <2>5 DEF SerialInv, SettledOnce
<1> QED BY <1>0, <1>5, <1>7, <1>8, <1>9, CommitPaymentSettle DEF SerialInv

LEMMA CommitCancelSerial ==
  ASSUME SerialInv, StaffTakeTurns', NEW r \in Requests, CommitCancel(r)
  PROVE  SerialInv'
<1> DEFINE row == HistoryRow(tx[r].invoiceFrom, "CANCELLED", 0)
<1>i. PICK i \in Requests : i = tx[r].invoice /\ i \in Issued
  BY CommitCancelEffect DEF SerialInv, SettleInv, MoveInv, CounterInv, Issued
<1>0. /\ SettleInv /\ MoveInv /\ CounterInv /\ TypeInv /\ StaffInHand(r)
      /\ invoices \in [Requests -> InvoiceRow]
      /\ invoiceHistory \in [Requests -> Seq(HistoryRows)]
  BY DEF SerialInv, SettleInv, MoveInv, CounterInv, TypeInv, TypeOK
<1>1. /\ tx[r] \in TxRow /\ tx[r].op = "cancel"
      /\ invoices' = [invoices EXCEPT ![i] = CancelledInvoice(r)]
      /\ CancelledInvoice(r).order = invoices[i].order
      /\ CancelledInvoice(r).status = "CANCELLED"
      /\ CancelledInvoice(r).paid = invoices[i].paid
      /\ invoiceHistory' = [invoiceHistory EXCEPT ![i] = Append(@, row)]
      /\ End(r, "done") /\ orders' = orders /\ orderHistory' = orderHistory
  BY <1>0, <1>i, CommitCancelEffect DEF CommitCancel
<1>2. /\ row \in HistoryRows /\ row.from = invoices[i].status
      /\ row.to = "CANCELLED" /\ row.amount = 0
  BY <1>0, <1>1, <1>i DEF HistoryRow, HistoryRows, TxRow, LiveInvoiceStatuses,
      InvoiceStatuses, StaffInHand
<1> HIDE DEF row
<1>3. /\ invoices'[i].status = "CANCELLED" /\ invoices'[i].order = invoices[i].order
      /\ invoices'[i].paid = invoices[i].paid + row.amount
      /\ \A j \in Requests \ {i} : /\ invoices'[j] = invoices[j]
                                  /\ invoiceHistory'[j] = invoiceHistory[j]
      /\ invoiceHistory'[i] = Append(invoiceHistory[i], row)
      /\ Issued' = Issued
  <2>1. /\ invoices'[i] = CancelledInvoice(r)
        /\ \A j \in Requests \ {i} : /\ invoices'[j] = invoices[j]
                                    /\ invoiceHistory'[j] = invoiceHistory[j]
        /\ invoiceHistory'[i] = Append(invoiceHistory[i], row)
    BY <1>0, <1>1
  <2>2. invoices[i].paid \in Int
    BY <1>0 DEF InvoiceRow
  <2>3. Issued' = Issued
    BY <1>1, <1>i, <2>1 DEF Issued
  <2> QED BY <1>1, <1>2, <2>1, <2>2, <2>3
<1>4. /\ tx'[r] = NoTx /\ \A q \in Requests \ {r} : tx'[q] = tx[q]
  BY <1>0, <1>1, EndLeavesOthers
<1>5. \A q \in Requests : StaffInHand(q)'
  BY <1>1, <1>4, TurnOver
<1>6. HistoriesTell'
  <2>1. \A e \in Requests : Tells(orderHistory'[e], orders'[e].status)
    BY <1>1 DEF SerialInv, HistoriesTell
  <2> QED BY <1>0, <1>1, <1>2, <1>3, <2>1, InvoiceTells
<1>7. PaymentsAddUp'
  BY <1>0, <1>1, <1>2, <1>3, <1>i, InvoiceAddsUp
<1>8. SettledOnce'
  <2>1. \A j \in Issued : j # i => (Settled(j)' <=> Settled(j))
    BY <1>3 DEF Settled, Issued
  <2>2. Settled(i)' => Settled(i)
    <3>1. invoiceHistory[i] \in Seq(HistoryRows) /\ invoiceHistory'[i] \in Seq(HistoryRows)
      BY <1>0, <1>2, <1>3
    <3>2. Settled(i)' => Settles(invoiceHistory'[i])
      BY <3>1 DEF Settled, Settles
    <3>3. Settles(invoiceHistory[i]) => Settled(i)
      BY <3>1 DEF Settled, Settles
    <3> QED BY <1>2, <1>3, <3>1, <3>2, <3>3, SettlesAppend
  <2>3. \A j \in Issued : invoices'[j].order = invoices[j].order
    BY <1>3 DEF Issued
  <2> QED BY <1>3, <2>1, <2>2, <2>3 DEF SerialInv, SettledOnce
<1> QED BY <1>0, <1>5, <1>6, <1>7, <1>8, CommitCancelSettle DEF SerialInv

LEMMA NextSerial == SerialInv /\ [SerialNext]_vars => SerialInv'
<1> SUFFICES ASSUME SerialInv, [SerialNext]_vars PROVE SerialInv'
  OBVIOUS
<1>0. TypeInv
  BY DEF SerialInv, SettleInv, MoveInv, CounterInv
<1>1. CASE UNCHANGED vars
  <2>1. SettleInv'
    BY <1>1, NextSettle DEF SerialInv
  <2> QED BY <1>1, <2>1 DEF vars, SerialInv, StaffTakeTurns, StaffRequests, StaffInHand,
      HistoriesTell, PaymentsAddUp, SettledOnce, Settled, Issued
<1>2. CASE Next /\ StaffTakeTurns'
  <2>1. ASSUME NEW r \in Requests, Advanced(r) PROVE SerialInv'
    BY <1>2, <2>1, AdvanceSerial
  <2>2. ASSUME NEW r \in Requests, CommitOrder(r) PROVE SerialInv'
    BY <1>2, <2>2, CommitOrderSerial
  <2>3. ASSUME NEW r \in Requests, CommitInvoice(r) PROVE SerialInv'
    BY <1>2, <2>3, CommitInvoiceSerial
  <2>4. ASSUME NEW r \in Requests, CommitPayment(r) PROVE SerialInv'
    BY <1>2, <2>4, CommitPaymentSerial
  <2>5. ASSUME NEW r \in Requests, CommitCancel(r) PROVE SerialInv'
    BY <1>2, <2>5, CommitCancelSerial
  <2> QED BY <1>0, <1>1, <1>2, <2>1, <2>2, <2>3, <2>4, <2>5, NextCases
<1> QED BY <1>1, <1>2 DEF SerialNext

LEMMA SerialInvariant == SerialSpec => []SerialInv
  BY InitSerial, NextSerial, PTL DEF SerialSpec

\* While staff take turns, what an invoice says was paid is what was recorded
\* against it, however many payments there were and whatever clients order.
THEOREM PaymentsAlwaysAddUp == SerialSpec => []PaymentsAddUp
<1>1. SerialInv => PaymentsAddUp
  BY DEF SerialInv
<1> QED BY <1>1, SerialInvariant, PTL

\* While staff take turns, each row of a StatusHistory starts from the status
\* the row before it reached.
THEOREM HistoriesChained == SerialSpec => []HistoryChained
<1>1. SerialInv => HistoryChained
  BY DEF SerialInv, HistoriesTell, Tells, HistoryChained
<1> QED BY <1>1, SerialInvariant, PTL

\* While staff take turns, at most one of the invoices that the retries of a
\* placement issued for an order is ever settled.
THEOREM OrdersSettledOnce == SerialSpec => []SettledOnce
<1>1. SerialInv => SettledOnce
  BY DEF SerialInv
<1> QED BY <1>1, SerialInvariant, PTL

\* While staff take turns, invoices only ever move along INVOICE_TRANSITIONS.
THEOREM InvoicesMoveLegally == SerialSpec => InvoiceMovesLegally
<1> DEFINE Legal(i) ==
      invoices'[i].status # invoices[i].status =>
        IsValidInvoiceTransition(invoices[i].status, invoices'[i].status)
<1>1. ASSUME SerialInv, [SerialNext]_vars PROVE \A i \in Issued : Legal(i)
  <2>0. /\ CounterInv /\ TypeInv /\ [Next]_vars
        /\ invoices \in [Requests -> InvoiceRow]
    BY <1>1 DEF SerialInv, SettleInv, MoveInv, CounterInv, TypeInv, TypeOK, SerialNext
  <2>1. ASSUME NEW r \in Requests, Advanced(r) PROVE invoices' = invoices
    BY <2>1 DEF Advanced, PrivateStep, db
  <2>2. ASSUME NEW r \in Requests, CommitOrder(r) PROVE invoices' = invoices
    BY <2>2 DEF CommitOrder
  <2>3. ASSUME NEW r \in Requests, CommitInvoice(r) PROVE \A i \in Issued : Legal(i)
    <3>1. invoices[r] = NoInvoice /\ invoices' = [invoices EXCEPT ![r] = CommittedInvoice(r)]
      BY <2>0, <2>3 DEF CommitInvoice, CommittedInvoice, CounterInv, NotYetCommitted, Ended
    <3> QED BY <2>0, <3>1 DEF Issued, NoInvoice
  <2>4. ASSUME NEW r \in Requests, CommitPayment(r) PROVE \A i \in Issued : Legal(i)
    <3>1. PICK i \in Issued : i = tx[r].invoice
      BY <2>0, <2>4, CommitPaymentEffect
    <3>2. /\ invoices' = [invoices EXCEPT ![i] = PaidInvoice(r)]
          /\ PaidInvoice(r).status \in {"PAID", "PARTIALLY_PAID"}
          /\ tx[r].op = "pay"
      BY <2>0, <2>4, <3>1, CommitPaymentEffect
    <3>3. i \in Requests /\ invoices[i].status \in {"ISSUED", "PARTIALLY_PAID", "OVERDUE"}
      BY <1>1, <3>1, <3>2 DEF SerialInv, StaffInHand, PayableStatuses, Issued
    <3>4. invoices'[i].status \in {"PAID", "PARTIALLY_PAID"}
          /\ \A j \in Requests \ {i} : invoices'[j] = invoices[j]
      BY <2>0, <3>2, <3>3
    <3>5. Legal(i)
      BY <3>3, <3>4 DEF IsValidInvoiceTransition, INVOICE_TRANSITIONS, InvoiceStatuses
    <3> QED BY <3>4, <3>5 DEF Issued
  <2>5. ASSUME NEW r \in Requests, CommitCancel(r) PROVE \A i \in Issued : Legal(i)
    <3>1. PICK i \in Issued : i = tx[r].invoice
      BY <2>0, <2>5, CommitCancelEffect
    <3>2. /\ invoices' = [invoices EXCEPT ![i] = CancelledInvoice(r)]
          /\ CancelledInvoice(r).status = "CANCELLED"
          /\ tx[r].op = "cancel"
      BY <2>0, <2>5, <3>1, CommitCancelEffect
    <3>3. i \in Requests /\ IsValidInvoiceTransition(invoices[i].status, "CANCELLED")
      BY <1>1, <3>1, <3>2 DEF SerialInv, StaffInHand, Issued
    <3>4. invoices'[i].status = "CANCELLED"
          /\ \A j \in Requests \ {i} : invoices'[j] = invoices[j]
      BY <2>0, <3>2, <3>3
    <3> QED BY <3>3, <3>4 DEF Issued
  <2>6. CASE UNCHANGED vars
    BY <2>6 DEF vars
  <2> QED BY <2>0, <2>1, <2>2, <2>3, <2>4, <2>5, <2>6, NextCases
<1>2. SerialInv /\ [SerialNext]_vars => [\A i \in Issued : Legal(i)]_vars
  BY <1>1
<1>3. SerialSpec => [][\A i \in Issued : Legal(i)]_vars
  BY <1>2, SerialInvariant, PTL DEF SerialSpec
<1> QED BY <1>3 DEF InvoiceMovesLegally
=============================================================================
