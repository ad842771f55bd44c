-------------------------------- MODULE Prices --------------------------------
(***************************************************************************)
(* The versioned prices of one product in one currency and billing cycle   *)
(* (core/catalog.ts).  A ProductPrice row is in force from effectiveFrom   *)
(* up to effectiveTo.  setProductPrice reads the row still open for the    *)
(* client group, closes it and inserts the new one in one transaction, and *)
(* reads without a lock; getCurrentPrice is two queries over one instant.  *)
(*                                                                         *)
(* A row carries the name of the change that inserts it, which also stands *)
(* for its amount.  effectiveFrom is settled before the transaction opens, *)
(* so time may pass and other changes may commit in between.               *)
(***************************************************************************)
EXTENDS Integers

CONSTANTS
  Changes,     \* price changes staff may submit, each of them once
  Lookups,     \* order items that look their price up, each of them once
  Groups,      \* client groups with prices of their own
  NoGroup,     \* the price for everybody else
  Leads,       \* how far from now an effectiveFrom may be set
  MaxTime,     \* bound on the clock, for TLC
  Forever,     \* effectiveTo of an open row, a null in the database
  None         \* no row

Scopes == Groups \cup {NoGroup}

ASSUME PricesAssumption ==
  /\ None \notin Changes \cup Groups \cup {NoGroup}
  /\ Forever \notin Int
  /\ NoGroup \notin Groups
  /\ Changes \cap Lookups = {}
  /\ Leads \subseteq Int
  /\ MaxTime \in Nat

VARIABLES
  now,      \* the clock
  row,      \* committed ProductPrice rows
  pc,       \* the next statement of each change and each lookup
  form,     \* the scope and effectiveFrom of each change submitted
  previous, \* the open row a change has read
  asked,    \* the scope and the instant each lookup asks for
  found     \* the row a lookup came back with

vars == <<now, row, pc, form, previous, asked, found>>

NoRow == [scope |-> None, from |-> 0, to |-> Forever]

Rows(s) == {c \in Changes : row[c] # NoRow /\ row[c].scope = s}

OpenRows(s) == {c \in Rows(s) : row[c].to = Forever}

\* effectiveFrom: { lte: now }, and effectiveTo is null or { gt: now }.
Covers(r, t) == r.from <= t /\ (r.to = Forever \/ r.to > t)

InForce(s, t) == {c \in Rows(s) : Covers(row[c], t)}

\* orderBy effectiveFrom desc: among equals the database picks any.
Latest(S) == {c \in S : \A d \in S : row[d].from <= row[c].from}

Init ==
  /\ now = 0
  /\ row = [c \in Changes |-> NoRow]
  /\ pc = [p \in Changes \cup Lookups |-> "idle"]
  /\ form = [c \in Changes |-> [scope |-> NoGroup, from |-> 0]]
  /\ previous = [c \in Changes |-> None]
  /\ asked = [l \in Lookups |-> [scope |-> NoGroup, at |-> 0]]
  /\ found = [l \in Lookups |-> None]

Goto(p, statement) == pc' = [pc EXCEPT ![p] = statement]

-----------------------------------------------------------------------------
(* setProductPrice *)

\* Fault: effectiveFrom is not defaulted to the present.
Fault_SubmitPrice(c) ==
  /\ pc[c] = "idle"
  /\ \E s \in Scopes : form' = [form EXCEPT ![c] = [scope |-> s, from |-> None]]
  /\ Goto(c, "read")
  /\ UNCHANGED <<now, row, previous, asked, found>>

\* effectiveFrom defaults to the present, the lead 0.
SubmitPrice(c) ==
  /\ pc[c] = "idle"
  /\ \E s \in Scopes, d \in Leads : form' = [form EXCEPT ![c] = [scope |-> s, from |-> now + d]]
  /\ Goto(c, "read")
  /\ UNCHANGED <<now, row, previous, asked, found>>

ReadOpenRow(c) ==
  /\ pc[c] = "read"
  /\ LET open == OpenRows(form[c].scope) IN
     \E p \in IF open = {} THEN {None} ELSE Latest(open) :
       previous' = [previous EXCEPT ![c] = p]
  /\ Goto(c, "commit")
  /\ UNCHANGED <<now, row, form, asked, found>>

\* Fault: the previous row is closed at the time of the commit and not at the
\* time the new row begins.
Fault_CommitPriceNow(c) ==
  /\ pc[c] = "commit"
  /\ row' = [d \in Changes |->
       IF d = c THEN [scope |-> form[c].scope, from |-> form[c].from, to |-> Forever]
       ELSE IF d = previous[c] THEN [row[d] EXCEPT !.to = now]
       ELSE row[d]]
  /\ Goto(c, "done")
  /\ UNCHANGED <<now, form, previous, asked, found>>

\* The update goes by the previous row's id, whatever became of that row since
\* the read.  Nothing reads between update and insert but sees the rows of
\* before, so the two and the commit are one step.
CommitPrice(c) ==
  /\ pc[c] = "commit"
  /\ row' = [d \in Changes |->
       IF d = c THEN [scope |-> form[c].scope, from |-> form[c].from, to |-> Forever]
       ELSE IF d = previous[c] THEN [row[d] EXCEPT !.to = form[c].from]
       ELSE row[d]]
  /\ Goto(c, "done")
  /\ UNCHANGED <<now, form, previous, asked, found>>

\* The transaction is rolled back.
AbortPrice(c) ==
  /\ pc[c] \in {"read", "commit"}
  /\ Goto(c, "aborted")
  /\ UNCHANGED <<now, row, form, previous, asked, found>>

-----------------------------------------------------------------------------
(* getCurrentPrice *)

AskPrice(l) ==
  /\ pc[l] = "idle"
  /\ \E s \in Scopes :
       /\ asked' = [asked EXCEPT ![l] = [scope |-> s, at |-> now]]
       /\ Goto(l, IF s = NoGroup THEN "default" ELSE "group")
  /\ UNCHANGED <<now, row, form, previous, found>>

\* A group without a price of its own falls back on the default price.
ReadGroupPrice(l) ==
  /\ pc[l] = "group"
  /\ LET prices == InForce(asked[l].scope, asked[l].at) IN
     \/ \E c \in Latest(prices) :
          found' = [found EXCEPT ![l] = c] /\ Goto(l, "done")
     \/ prices = {} /\ Goto(l, "default") /\ UNCHANGED found
  /\ UNCHANGED <<now, row, form, previous, asked>>

ReadDefaultPrice(l) ==
  /\ pc[l] = "default"
  /\ LET prices == InForce(NoGroup, asked[l].at) IN
     \/ \E c \in Latest(prices) :
          found' = [found EXCEPT ![l] = c] /\ Goto(l, "done")
     \/ prices = {} /\ Goto(l, "unpriced") /\ UNCHANGED found
  /\ UNCHANGED <<now, row, form, previous, asked>>

-----------------------------------------------------------------------------

Tick ==
  /\ now < MaxTime
  /\ now' = now + 1
  /\ UNCHANGED <<row, pc, form, previous, asked, found>>

ChangeStep(c) == SubmitPrice(c) \/ ReadOpenRow(c) \/ CommitPrice(c) \/ AbortPrice(c)

LookupStep(l) == AskPrice(l) \/ ReadGroupPrice(l) \/ ReadDefaultPrice(l)

Next ==
  \/ \E c \in Changes : ChangeStep(c)
  \/ \E l \in Lookups : LookupStep(l)
  \/ Tick

Spec == Init /\ [][Next]_vars

-----------------------------------------------------------------------------
(* What setProductPrice takes for granted, and nothing enforces *)

\* The transaction of the change has begun and not ended.
Open(c) == pc[c] \in {"read", "commit"}

OneChangeAtATime == \A c, d \in Changes : Open(c) /\ Open(d) => c = d

\* No change begins before a row that its scope has already.
InDateOrder ==
  \A c \in Changes : Open(c) => \A d \in Rows(form[c].scope) : row[d].from <= form[c].from

OrderlySpec == Init /\ [][Next /\ (OneChangeAtATime /\ InDateOrder)']_vars

-----------------------------------------------------------------------------
(* Properties *)

PriceRow == [scope : Scopes, from : Int, to : Int \cup {Forever}]

TypeOK ==
  /\ now \in Nat
  /\ row \in [Changes -> PriceRow \cup {NoRow}]
  /\ pc \in [Changes \cup Lookups ->
       {"idle", "read", "commit", "aborted", "group", "default", "done", "unpriced"}]
  /\ form \in [Changes -> [scope : Scopes, from : Int]]
  /\ previous \in [Changes -> Changes \cup {None}]
  /\ asked \in [Lookups -> [scope : Scopes, at : Nat]]
  /\ found \in [Lookups -> Changes \cup {None}]

\* Price changes never leave a gap: from the first effectiveFrom of a scope on,
\* some row is in force at every instant, however many changes overlap
\* (setProductPrice closes a row exactly where the new one begins).
PriceNeverLapses ==
  \A s \in Scopes : \A c, d \in Rows(s) :
    LET t == row[d].from IN row[c].from <= t => InForce(s, t) # {}

\* A closed row was closed for a successor: some row of the same scope begins
\* where it ends.
HandedOver ==
  \A s \in Scopes : \A c \in Rows(s) :
    row[c].to = Forever \/ \E d \in Rows(s) : row[d].from = row[c].to

\* A product that had a price by the instant an order asks for is never
\* reported unpriced, although the row may be replaced between the order's
\* start and its two queries (createOrder, "order.no_price").
NeverUnpricedByAChange ==
  [][\A l \in Lookups : pc'[l] = "unpriced" /\ pc[l] # "unpriced" =>
       \A c \in Rows(NoGroup) : row[c].from > asked[l].at]_vars

\* No two rows of a scope are in force at one instant: intervals that start at
\* each other's instants would meet there.
NeverTwoPrices ==
  \A s \in Scopes : \A c, d \in Rows(s) :
    c # d => ~ (c \in InForce(s, row[d].from) /\ d \in InForce(s, row[d].from))
=============================================================================
