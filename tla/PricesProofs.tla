----------------------------- MODULE PricesProofs -----------------------------
(***************************************************************************)
(* What overlapping price changes cannot break.  setProductPrice reads the *)
(* row it closes without a lock, so nothing keeps two changes from closing *)
(* the same row; but each of them closes a row exactly where its own row   *)
(* begins, and that alone keeps every instant covered.                     *)
(* Covered twice it can be; what rules that out are turns and dates that   *)
(* only go forward, which OnePriceInOrder assumes.                         *)
(***************************************************************************)
EXTENDS Catalogue, TLAPS

\* A change has no row before it commits, and the row it read is one of its
\* own scope.
ChangeInHand ==
  \A c \in Changes :
    /\ pc[c] \in {"idle", "read", "commit"} => row[c] = NoRow
    /\ pc[c] = "commit" /\ previous[c] # None => previous[c] \in Rows(form[c].scope)

TypeInv == TypeOK /\ ChangeInHand

\* PriceNeverLapses for every instant, not only those at which a row begins.
AlwaysInForce ==
  \A s \in Scopes, t \in Int :
    (\E c \in Rows(s) : row[c].from <= t) => InForce(s, t) # {}

-----------------------------------------------------------------------------
(* What a commit does to the rows *)

\* The row a change inserts.
NewRow(c) == [scope |-> form[c].scope, from |-> form[c].from, to |-> Forever]

\* A committed change adds its row, closes the row it read at the new row's
\* start and leaves every other row alone (setProductPrice's two writes).
LEMMA CommitRows ==
  ASSUME TypeInv, NEW c \in Changes, CommitPrice(c)
  PROVE  /\ form[c].scope \in Scopes /\ form[c].from \in Int
         /\ row[c] = NoRow /\ row'[c] = NewRow(c)
         /\ \A d \in Changes : d # c /\ d # previous[c] => row'[d] = row[d]
         /\ previous[c] # None =>
              /\ previous[c] # c /\ previous[c] \in Rows(form[c].scope)
              /\ row'[previous[c]] = [row[previous[c]] EXCEPT !.to = form[c].from]
  <1>1. form[c].scope \in Scopes /\ form[c].from \in Int
    BY DEF TypeInv, TypeOK
  <1>2. row[c] = NoRow /\ row'[c] = NewRow(c)
    BY DEF TypeInv, ChangeInHand, CommitPrice, NewRow
  <1>3. ASSUME NEW d \in Changes, d # c, d # previous[c]
        PROVE  row'[d] = row[d]
    BY <1>3 DEF CommitPrice
  <1>4. ASSUME previous[c] # None
        PROVE  /\ previous[c] # c /\ previous[c] \in Rows(form[c].scope)
               /\ row'[previous[c]] = [row[previous[c]] EXCEPT !.to = form[c].from]
    <2>1. previous[c] \in Rows(form[c].scope)
      BY <1>4 DEF TypeInv, ChangeInHand, CommitPrice
    <2>2. previous[c] \in Changes /\ previous[c] # c
      BY <2>1, <1>2 DEF Rows
    <2> QED  BY <2>1, <2>2 DEF CommitPrice
  <1> QED  BY <1>1, <1>2, <1>3, <1>4

\* No row disappears, moves to another scope or begins at another time.
LEMMA RowsStay ==
  ASSUME TypeInv, NEW c \in Changes, CommitPrice(c), NEW d \in Changes, row[d] # NoRow
  PROVE  /\ row'[d] # NoRow
         /\ row'[d].scope = row[d].scope /\ row'[d].from = row[d].from
  <1>1. d # c
    BY CommitRows
  <1>2. row[d] \in PriceRow
    BY DEF TypeInv, TypeOK
  <1>3. CASE d = previous[c]
    <2>1. d # None
      BY PricesAssumption
    <2>2. row'[d] = [row[d] EXCEPT !.to = form[c].from]
      BY <1>3, <2>1, CommitRows
    <2>3. row'[d].scope \in Scopes
      BY <1>2, <2>2 DEF PriceRow
    <2> QED  BY <1>2, <2>2, <2>3, PricesAssumption DEF PriceRow, NoRow, Scopes
  <1>4. CASE d # previous[c]
    BY <1>1, <1>4, CommitRows
  <1> QED  BY <1>3, <1>4

-----------------------------------------------------------------------------
(* Types *)

LEMMA TypeInit == ASSUME Init PROVE TypeInv
  BY PricesAssumption DEF Init, TypeInv, TypeOK, ChangeInHand, PriceRow, Scopes, Rows

LEMMA TypeNext == ASSUME TypeInv, [Next]_vars PROVE TypeInv'
  <1>1. ASSUME NEW c \in Changes, SubmitPrice(c) PROVE TypeInv'
    <2>1. PICK s \in Scopes, l \in Leads :
            form' = [form EXCEPT ![c] = [scope |-> s, from |-> now + l]]
      BY <1>1 DEF SubmitPrice
    <2>2. now + l \in Int
      BY PricesAssumption DEF TypeInv, TypeOK
    <2>3. TypeOK'
      BY <1>1, <2>1, <2>2 DEF TypeInv, TypeOK, SubmitPrice, Goto
    <2>4. ChangeInHand'
      BY <1>1, <2>1 DEF TypeInv, TypeOK, ChangeInHand, SubmitPrice, Goto, Rows
    <2> QED  BY <2>3, <2>4 DEF TypeInv
  <1>2. ASSUME NEW c \in Changes, ReadOpenRow(c) PROVE TypeInv'
    <2>1. PICK p \in Changes \cup {None} :
            /\ previous' = [previous EXCEPT ![c] = p]
            /\ p # None => p \in Rows(form[c].scope)
      BY <1>2 DEF ReadOpenRow, OpenRows, Latest, Rows
    <2>2. TypeOK'
      BY <1>2, <2>1 DEF TypeInv, TypeOK, ReadOpenRow, Goto
    <2>3. ChangeInHand'
      BY <1>2, <2>1 DEF TypeInv, TypeOK, ChangeInHand, ReadOpenRow, Goto, Rows
    <2> QED  BY <2>2, <2>3 DEF TypeInv
  <1>3. ASSUME NEW c \in Changes, CommitPrice(c) PROVE TypeInv'
    <2>1. ASSUME NEW d \in Changes PROVE row'[d] \in PriceRow \cup {NoRow}
      <3>1. CASE d = c
        <4>1. NewRow(c) \in PriceRow
          BY <1>3, CommitRows DEF NewRow, PriceRow
        <4> QED  BY <1>3, <3>1, <4>1, CommitRows
      <3>2. CASE d # c /\ d = previous[c]
        <4>1. d # None
          BY PricesAssumption
        <4>2. /\ d \in Rows(form[c].scope) /\ form[c].from \in Int
              /\ row'[d] = [row[d] EXCEPT !.to = form[c].from]
          BY <1>3, <3>2, <4>1, CommitRows
        <4>3. row[d] \in PriceRow
          BY <4>2 DEF TypeInv, TypeOK, Rows
        <4>4. [row[d] EXCEPT !.to = form[c].from] \in PriceRow
          BY <4>2, <4>3 DEF PriceRow
        <4> QED  BY <4>2, <4>4
      <3>3. CASE d # c /\ d # previous[c]
        <4>1. row'[d] = row[d]
          BY <1>3, <3>3, CommitRows
        <4> QED  BY <4>1 DEF TypeInv, TypeOK
      <3> QED  BY <3>1, <3>2, <3>3
    <2>2. row' \in [Changes -> PriceRow \cup {NoRow}]
      BY <1>3, <2>1 DEF CommitPrice
    <2>3. TypeOK'
      BY <1>3, <2>2 DEF TypeInv, TypeOK, CommitPrice, Goto
    <2>4. ASSUME NEW d \in Changes
          PROVE  /\ pc'[d] \in {"idle", "read", "commit"} => row'[d] = NoRow
                 /\ (pc[d] = "commit" /\ previous[d] # None =>
                       previous[d] \in Rows(form[d].scope))'
      <3>1. CASE d = c
        BY <1>3, <3>1 DEF TypeInv, TypeOK, CommitPrice, Goto
      <3>2. CASE d # c
        <4>1. pc'[d] = pc[d] /\ previous' = previous /\ form' = form
          BY <1>3, <3>2 DEF TypeInv, TypeOK, CommitPrice, Goto
        <4>2. pc[d] \in {"idle", "read", "commit"} => row'[d] = NoRow
          <5>1. SUFFICES ASSUME pc[d] \in {"idle", "read", "commit"}
                         PROVE  row'[d] = NoRow
            OBVIOUS
          <5>2. row[d] = NoRow
            BY <5>1 DEF TypeInv, ChangeInHand
          <5>3. previous[c] # d
            <6>1. d # None
              BY PricesAssumption
            <6>2. previous[c] # None => row[previous[c]] # NoRow
              BY <1>3, CommitRows DEF Rows
            <6> QED  BY <5>2, <6>1, <6>2
          <5> QED  BY <1>3, <3>2, <5>2, <5>3, CommitRows
        <4>3. pc[d] = "commit" /\ previous[d] # None => previous[d] \in Rows(form[d].scope)'
          <5>1. SUFFICES ASSUME pc[d] = "commit", previous[d] # None
                         PROVE  previous[d] \in Rows(form[d].scope)'
            OBVIOUS
          <5>2. previous[d] \in Rows(form[d].scope)
            BY <5>1 DEF TypeInv, ChangeInHand
          <5>3. PICK e \in Changes : e = previous[d]
            BY <5>2 DEF Rows
          <5>4. row'[e] # NoRow /\ row'[e].scope = row[e].scope
            BY <1>3, <5>2, <5>3, RowsStay DEF Rows
          <5> QED  BY <4>1, <5>2, <5>3, <5>4 DEF Rows
        <4> QED  BY <4>1, <4>2, <4>3
      <3> QED  BY <3>1, <3>2
    <2> QED  BY <2>3, <2>4 DEF TypeInv, ChangeInHand
  <1>4. ASSUME NEW c \in Changes, AbortPrice(c) PROVE TypeInv'
    BY <1>4 DEF TypeInv, TypeOK, ChangeInHand, AbortPrice, Goto, Rows
  <1>5. ASSUME NEW l \in Lookups, LookupStep(l) PROVE TypeInv'
    <2>0. l \notin Changes
      BY PricesAssumption
    <2>1. CASE AskPrice(l)
      <3>1. PICK s \in Scopes :
              /\ asked' = [asked EXCEPT ![l] = [scope |-> s, at |-> now]]
              /\ Goto(l, IF s = NoGroup THEN "default" ELSE "group")
        BY <2>1 DEF AskPrice
      <3>2. TypeOK'
        BY <1>5, <2>1, <3>1 DEF TypeInv, TypeOK, AskPrice, Goto
      <3>3. ChangeInHand'
        BY <1>5, <2>0, <2>1, <3>1 DEF TypeInv, TypeOK, ChangeInHand, AskPrice, Goto, Rows
      <3> QED  BY <3>2, <3>3 DEF TypeInv
    <2>2. CASE ReadGroupPrice(l)
      <3>1. PICK st \in {"done", "default"} : Goto(l, st)
        BY <2>2 DEF ReadGroupPrice
      <3>2. found' \in [Lookups -> Changes \cup {None}]
        BY <2>2 DEF ReadGroupPrice, TypeInv, TypeOK, Latest, InForce, Rows
      <3>3. TypeOK'
        BY <1>5, <2>2, <3>1, <3>2 DEF TypeInv, TypeOK, ReadGroupPrice, Goto
      <3>4. ChangeInHand'
        BY <1>5, <2>0, <2>2, <3>1 DEF TypeInv, TypeOK, ChangeInHand, ReadGroupPrice, Goto, Rows
      <3> QED  BY <3>3, <3>4 DEF TypeInv
    <2>3. CASE ReadDefaultPrice(l)
      <3>1. PICK st \in {"done", "unpriced"} : Goto(l, st)
        BY <2>3 DEF ReadDefaultPrice
      <3>2. found' \in [Lookups -> Changes \cup {None}]
        BY <2>3 DEF ReadDefaultPrice, TypeInv, TypeOK, Latest, InForce, Rows
      <3>3. TypeOK'
        BY <1>5, <2>3, <3>1, <3>2 DEF TypeInv, TypeOK, ReadDefaultPrice, Goto
      <3>4. ChangeInHand'
        BY <1>5, <2>0, <2>3, <3>1 DEF TypeInv, TypeOK, ChangeInHand, ReadDefaultPrice, Goto, Rows
      <3> QED  BY <3>3, <3>4 DEF TypeInv
    <2> QED  BY <1>5, <2>1, <2>2, <2>3 DEF LookupStep
  <1>6. ASSUME Tick PROVE TypeInv'
    BY <1>6 DEF TypeInv, TypeOK, ChangeInHand, Tick, Rows
  <1>7. ASSUME UNCHANGED vars PROVE TypeInv'
    BY <1>7 DEF TypeInv, TypeOK, ChangeInHand, vars, Rows
  <1> QED  BY <1>1, <1>2, <1>3, <1>4, <1>5, <1>6, <1>7, PricesAssumption DEF Next, ChangeStep

\* Whatever is written, committed or refused, prices stay well typed and a
\* change keeps hold of a row of its own scope (setProductPrice's query).
LEMMA TypeInvariant == Spec => []TypeInv
  <1>1. Init => TypeInv
    BY TypeInit
  <1>2. TypeInv /\ [Next]_vars => TypeInv'
    BY TypeNext
  <1> QED  BY <1>1, <1>2, PTL DEF Spec

\* The rows, forms and answers are well typed in every reachable state.
THEOREM TypeCorrect == Spec => []TypeOK
  <1>1. TypeInv => TypeOK
    BY DEF TypeInv
  <1> QED  BY <1>1, TypeInvariant, PTL

\* The rows change only when a price change commits.
LEMMA OnlyCommits ==
  ASSUME [Next]_vars
  PROVE  (\E c \in Changes : CommitPrice(c)) \/ UNCHANGED row
  BY DEF Next, vars, ChangeStep, LookupStep, SubmitPrice, ReadOpenRow, AbortPrice,
         AskPrice, ReadGroupPrice, ReadDefaultPrice, Tick

\* A row there after the commit of c, other than c's own, was there before it.
LEMMA OldRow ==
  ASSUME TypeInv, NEW c \in Changes, CommitPrice(c), NEW d \in Changes, d # c, row'[d] # NoRow
  PROVE  row[d] # NoRow /\ row'[d].from = row[d].from /\ row'[d].scope = row[d].scope
  <1>1. row[d] # NoRow
    <2>1. d # None
      BY PricesAssumption
    <2>2. CASE d = previous[c]
      BY <2>1, <2>2, CommitRows DEF Rows
    <2>3. CASE d # previous[c]
      BY <2>3, CommitRows
    <2> QED  BY <2>2, <2>3
  <1> QED  BY <1>1, RowsStay

-----------------------------------------------------------------------------
(* No gap *)

LEMMA CommitLeavesNoGap ==
  ASSUME TypeInv, AlwaysInForce, NEW c \in Changes, CommitPrice(c)
  PROVE  AlwaysInForce'
  <1> DEFINE from == form[c].from
  <1>1. SUFFICES ASSUME NEW s \in Scopes, NEW t \in Int,
                        NEW e \in Changes, (e \in Rows(s))', row'[e].from <= t
                 PROVE  \E f \in Changes : (f \in Rows(s))' /\ Covers(row'[f], t)
    BY DEF AlwaysInForce, InForce, Rows
  <1>2. from \in Int /\ row'[c] = NewRow(c)
    BY CommitRows
  <1>3. CASE s = form[c].scope /\ from <= t
    <2>1. row'[c].scope = s /\ row'[c].from = from /\ row'[c].to = Forever
      BY <1>2, <1>3 DEF NewRow
    <2>2. row'[c] # NoRow
      BY <2>1, PricesAssumption DEF NoRow, Scopes
    <2> QED  BY <1>3, <2>1, <2>2 DEF Rows, Covers
  <1>4. CASE s # form[c].scope \/ t < from
    <2>1. e # c
      BY <1>1, <1>2, <1>4 DEF Rows, NewRow
    <2>2. e \in Rows(s) /\ row[e].from <= t
      BY <1>1, <2>1, OldRow DEF Rows
    <2>3. PICK f \in Changes : f \in Rows(s) /\ Covers(row[f], t)
      BY <2>2 DEF AlwaysInForce, InForce, Rows
    <2>4. (f \in Rows(s))'
      BY <2>3, RowsStay DEF Rows
    <2>5. f # c
      BY <2>3, CommitRows DEF Rows
    <2>6. CASE f = previous[c]
      <3>1. f # None
        BY PricesAssumption
      <3>2. f \in Rows(form[c].scope) /\ row'[f] = [row[f] EXCEPT !.to = from]
        BY <2>6, <3>1, CommitRows
      <3>3. t < from
        BY <1>4, <2>3, <3>2 DEF Rows
      <3>4. row[f] \in PriceRow
        BY <2>3 DEF Rows, TypeInv, TypeOK
      <3>5. row'[f].from = row[f].from /\ row'[f].to = from
        BY <3>2, <3>4 DEF PriceRow
      <3> QED  BY <1>2, <2>3, <2>4, <3>3, <3>5 DEF Covers
    <2>7. CASE f # previous[c]
      BY <2>3, <2>4, <2>5, <2>7, CommitRows
    <2> QED  BY <2>6, <2>7
  <1>5. t < from \/ from <= t
    BY <1>2
  <1> QED  BY <1>3, <1>4, <1>5

LEMMA InForceNext ==
  ASSUME TypeInv, AlwaysInForce, [Next]_vars
  PROVE  AlwaysInForce'
  <1>1. CASE UNCHANGED row
    BY <1>1 DEF AlwaysInForce, InForce, Rows
  <1> QED  BY <1>1, OnlyCommits, CommitLeavesNoGap

LEMMA AlwaysInForceInv == Spec => []AlwaysInForce
  <1>1. Init => AlwaysInForce
    <2> SUFFICES ASSUME Init PROVE AlwaysInForce
      OBVIOUS
    <2>1. ASSUME NEW s \in Scopes PROVE Rows(s) = {}
      BY DEF Init, Rows
    <2> QED  BY <2>1 DEF AlwaysInForce
  <1>2. TypeInv /\ AlwaysInForce /\ [Next]_vars => AlwaysInForce'
    BY InForceNext
  <1> QED  BY <1>1, <1>2, TypeInvariant, PTL DEF Spec

\* Once a scope has a price, some price is in force at every later instant,
\* however many changes read and close rows at the same time.
THEOREM NoGap == Spec => []PriceNeverLapses
  <1>1. TypeInv /\ AlwaysInForce => PriceNeverLapses
    <2> SUFFICES ASSUME TypeInv, AlwaysInForce,
                        NEW s \in Scopes, NEW c \in Rows(s), NEW d \in Rows(s),
                        row[c].from <= row[d].from
                 PROVE  InForce(s, row[d].from) # {}
      BY DEF PriceNeverLapses
    <2>1. row[d] \in PriceRow
      BY DEF TypeInv, TypeOK, Rows
    <2> QED  BY <2>1 DEF AlwaysInForce, PriceRow
  <1> QED  BY <1>1, TypeInvariant, AlwaysInForceInv, PTL

-----------------------------------------------------------------------------
(* Successors *)

LEMMA CommitHandsOver ==
  ASSUME TypeInv, HandedOver, NEW c \in Changes, CommitPrice(c)
  PROVE  HandedOver'
  <1>1. SUFFICES ASSUME NEW s \in Scopes, NEW d \in Changes, (d \in Rows(s))', row'[d].to # Forever
                 PROVE  \E e \in Changes : (e \in Rows(s))' /\ row'[e].from = row'[d].to
    BY DEF HandedOver, Rows
  <1>2. d # c
    <2>0. row'[c] = NewRow(c)
      BY CommitRows
    <2>1. row'[c].to = Forever
      BY <2>0 DEF NewRow
    <2> QED  BY <1>1, <2>1
  <1>3. d \in Rows(s)
    BY <1>1, <1>2, OldRow DEF Rows
  <1>4. CASE d = previous[c]
    <2>1. d # None
      BY PricesAssumption
    <2>2. d \in Rows(form[c].scope) /\ row'[d] = [row[d] EXCEPT !.to = form[c].from]
      <3>1. previous[c] # None
        BY <1>4, <2>1
      <3>2. /\ previous[c] \in Rows(form[c].scope)
            /\ row'[previous[c]] = [row[previous[c]] EXCEPT !.to = form[c].from]
        BY <3>1, CommitRows
      <3> QED  BY <1>4, <3>2
    <2>3. row[d] \in PriceRow
      BY <1>3 DEF Rows, TypeInv, TypeOK
    <2>4. row'[d].to = form[c].from /\ form[c].scope = s
      BY <1>3, <2>2, <2>3 DEF Rows, PriceRow
    <2>5. row'[c].scope = s /\ row'[c].from = form[c].from
      <3>1. row'[c] = NewRow(c)
        BY CommitRows
      <3> QED  BY <2>4, <3>1 DEF NewRow
    <2>6. row'[c] # NoRow
      BY <2>5, PricesAssumption DEF NoRow, Scopes
    <2> QED  BY <2>4, <2>5, <2>6 DEF Rows
  <1>5. CASE d # previous[c]
    <2>1. row'[d] = row[d]
      BY <1>2, <1>5, CommitRows
    <2>2. PICK e \in Changes : e \in Rows(s) /\ row[e].from = row[d].to
      BY <1>1, <1>3, <2>1 DEF HandedOver, Rows
    <2> QED  BY <2>1, <2>2, RowsStay DEF Rows
  <1> QED  BY <1>4, <1>5

\* A row that ends is followed by one that begins there.
THEOREM Successors == Spec => []HandedOver
  <1>1. Init => HandedOver
    <2> SUFFICES ASSUME Init PROVE HandedOver
      OBVIOUS
    <2>1. ASSUME NEW s \in Scopes PROVE Rows(s) = {}
      BY DEF Init, Rows
    <2> QED  BY <2>1 DEF HandedOver
  <1>2. TypeInv /\ HandedOver /\ [Next]_vars => HandedOver'
    <2> SUFFICES ASSUME TypeInv, HandedOver, [Next]_vars PROVE HandedOver'
      OBVIOUS
    <2>1. CASE UNCHANGED row
      BY <2>1 DEF HandedOver, Rows
    <2> QED  BY <2>1, OnlyCommits, CommitHandsOver
  <1> QED  BY <1>1, <1>2, TypeInvariant, PTL DEF Spec

-----------------------------------------------------------------------------
(* One price at a time, if changes take turns and go forward in time *)

Ends(c, d) == row[c].to # Forever /\ row[c].to <= row[d].from

\* The rows of a scope follow one another, so at most one of them is open.
Apart == \A s \in Scopes : \A c, d \in Rows(s) : c # d => Ends(c, d) \/ Ends(d, c)

\* What a change about to commit has read is still so.
FreshRead ==
  \A c \in Changes : pc[c] = "commit" => OpenRows(form[c].scope) = {previous[c]} \ {None}

OrderlyInv == OneChangeAtATime /\ InDateOrder /\ FreshRead /\ Apart

\* The row a commit closes ends where the new one begins; another one had
\* ended by then, for its successor is no younger than the new row.
LEMMA CommitEndsOthers ==
  ASSUME TypeInv, HandedOver, InDateOrder, FreshRead,
         NEW c \in Changes, CommitPrice(c), NEW e \in Rows(form[c].scope)
  PROVE  Ends(e, c)'
  <1>0. row'[c] = NewRow(c) /\ form[c].from \in Int /\ form[c].scope \in Scopes
    BY CommitRows
  <1>1. /\ row'[c].from = form[c].from /\ form[c].from \in Int /\ form[c].scope \in Scopes
        /\ e \in Changes /\ row[e] \in PriceRow /\ e # None
    BY <1>0, PricesAssumption DEF NewRow, Rows, TypeInv, TypeOK
  <1>2. e # c
    BY CommitRows DEF Rows
  <1>3. Open(c) /\ pc[c] = "commit"
    BY DEF CommitPrice, Open
  <1>4. CASE row[e].to = Forever
    <2>1. e = previous[c]
      BY <1>1, <1>3, <1>4 DEF FreshRead, OpenRows
    <2>2. row'[e].to = form[c].from
      BY <1>1, <2>1, CommitRows DEF PriceRow
    <2> QED  BY <1>1, <2>2, PricesAssumption DEF Ends
  <1>5. CASE row[e].to # Forever
    <2>1. e # previous[c]
      BY <1>1, <1>3, <1>5 DEF FreshRead, OpenRows
    <2>2. row'[e] = row[e]
      BY <1>1, <1>2, <2>1, CommitRows
    <2>3. PICK f \in Rows(form[c].scope) : row[f].from = row[e].to
      BY <1>1, <1>5 DEF HandedOver
    <2>4. row[f].from <= form[c].from
      BY <1>3, <2>3 DEF InDateOrder
    <2> QED  BY <1>1, <1>5, <2>2, <2>3, <2>4 DEF Ends
  <1> QED  BY <1>4, <1>5

LEMMA EndsStays ==
  ASSUME TypeInv, FreshRead, NEW c \in Changes, CommitPrice(c),
         NEW x \in Changes, NEW y \in Changes, row[x] # NoRow, row[y] # NoRow, Ends(x, y)
  PROVE  Ends(x, y)'
  <1>1. row'[y].from = row[y].from
    BY RowsStay
  <1>2. x # c /\ x # None
    BY CommitRows, PricesAssumption
  <1>3. x # previous[c]
    <2>1. pc[c] = "commit"
      BY DEF CommitPrice
    <2> QED  BY <1>2, <2>1 DEF FreshRead, OpenRows, Ends
  <1>4. row'[x] = row[x]
    BY <1>2, <1>3, CommitRows
  <1> QED  BY <1>1, <1>4 DEF Ends

LEMMA CommitKeepsApart ==
  ASSUME TypeInv, HandedOver, OrderlyInv, NEW c \in Changes, CommitPrice(c)
  PROVE  Apart'
  <1> USE DEF OrderlyInv
  <1>1. SUFFICES ASSUME NEW s \in Scopes, NEW d \in Changes, NEW e \in Changes,
                        (d \in Rows(s))', (e \in Rows(s))', d # e
                 PROVE  Ends(d, e)' \/ Ends(e, d)'
    BY DEF Apart, Rows
  <1>2. row'[c].scope = form[c].scope
    <2>1. row'[c] = NewRow(c)
      BY CommitRows
    <2> QED  BY <2>1 DEF NewRow
  <1>3. \A x \in Changes : x # c /\ (x \in Rows(s))' => x \in Rows(s)
    BY OldRow DEF Rows
  <1>4. CASE d = c
    BY <1>1, <1>2, <1>3, <1>4, CommitEndsOthers DEF Rows
  <1>5. CASE e = c
    BY <1>1, <1>2, <1>3, <1>5, CommitEndsOthers DEF Rows
  <1>6. CASE d # c /\ e # c
    <2>1. d \in Rows(s) /\ e \in Rows(s)
      BY <1>1, <1>3, <1>6
    <2>2. row[d] # NoRow /\ row[e] # NoRow
      BY <2>1 DEF Rows
    <2>3. Ends(d, e) \/ Ends(e, d)
      BY <1>1, <2>1 DEF Apart
    <2> QED  BY <2>2, <2>3, EndsStays
  <1> QED  BY <1>4, <1>5, <1>6

LEMMA FreshReadNext ==
  ASSUME TypeInv, OrderlyInv, [Next]_vars PROVE FreshRead'
  <1> USE DEF OrderlyInv, FreshRead, Goto
  <1>1. /\ pc \in [Changes \cup Lookups ->
             {"idle", "read", "commit", "aborted", "group", "default", "done", "unpriced"}]
        /\ form \in [Changes -> [scope : Scopes, from : Int]]
        /\ previous \in [Changes -> Changes \cup {None}]
        /\ Changes \cap Lookups = {} /\ None \notin Changes
    BY PricesAssumption DEF TypeInv, TypeOK
  \* The rows stay, and no change comes to the point of its commit.
  <1>2. ASSUME row' = row, previous' = previous,
               \A c \in Changes : pc'[c] = "commit" => pc[c] = "commit" /\ form'[c] = form[c]
        PROVE  FreshRead'
    BY <1>2 DEF OpenRows, Rows
  <1>3. ASSUME NEW c \in Changes, SubmitPrice(c) \/ AbortPrice(c) PROVE FreshRead'
    BY <1>1, <1>2, <1>3 DEF SubmitPrice, AbortPrice
  <1>4. ASSUME NEW c \in Changes, ReadOpenRow(c) PROVE FreshRead'
    <2> DEFINE open == OpenRows(form[c].scope)
    <2>1. form[c].scope \in Scopes
      BY <1>1
    <2>2. \A d, e \in open : d = e
      BY <2>1 DEF Apart, Ends, OpenRows
    <2>3. PICK p \in IF open = {} THEN {None} ELSE Latest(open) :
            previous' = [previous EXCEPT ![c] = p]
      BY <1>4 DEF ReadOpenRow
    <2>4. open = {p} \ {None}
      BY <1>1, <2>2, <2>3 DEF Latest, OpenRows, Rows
    <2>5. /\ row' = row /\ form' = form /\ previous'[c] = p
          /\ \A d \in Changes : d # c => pc'[d] = pc[d] /\ previous'[d] = previous[d]
      BY <1>1, <1>4, <2>3 DEF ReadOpenRow
    <2>6. OpenRows(form[c].scope)' = open
      BY <2>5 DEF OpenRows, Rows
    <2>7. ASSUME NEW d \in Changes, pc'[d] = "commit"
          PROVE  (OpenRows(form[d].scope) = {previous[d]} \ {None})'
      <3>1. CASE d = c
        BY <2>4, <2>5, <2>6, <3>1
      <3>2. CASE d # c
        BY <2>5, <2>7, <3>2 DEF OpenRows, Rows
      <3> QED  BY <3>1, <3>2
    <2> QED  BY <2>7
  <1>5. ASSUME NEW c \in Changes, CommitPrice(c) PROVE FreshRead'
    <2>1. \A d \in Changes : pc[d] = "commit" => d = c
      BY <1>5 DEF CommitPrice, OneChangeAtATime, Open
    <2>2. \A d \in Changes : pc'[d] # "commit"
      BY <1>1, <1>5, <2>1 DEF CommitPrice
    <2> QED  BY <2>2
  <1>6. ASSUME NEW l \in Lookups, LookupStep(l) PROVE FreshRead'
    <2>1. /\ UNCHANGED <<row, form, previous>>
          /\ \A c \in Changes : pc'[c] = pc[c]
      BY <1>1, <1>6 DEF LookupStep, AskPrice, ReadGroupPrice, ReadDefaultPrice
    <2> QED  BY <1>2, <2>1
  <1>7. CASE Tick \/ UNCHANGED vars
    BY <1>2, <1>7 DEF Tick, vars
  <1> QED  BY <1>3, <1>4, <1>5, <1>6, <1>7 DEF Next, ChangeStep

\* One change after the other, none of them dated before a row there is
\* already, leaves one price in force at any instant.  Scheduled prices may be
\* among them: the row they close ends in the future (setProductPrice).
THEOREM OnePriceInOrder == OrderlySpec => []NeverTwoPrices
  <1>1. OrderlySpec => Spec
    BY PTL DEF OrderlySpec, Spec
  <1>2. Init => OrderlyInv
    <2> SUFFICES ASSUME Init PROVE OrderlyInv
      OBVIOUS
    <2>1. \A c \in Changes : ~ Open(c)
      BY PricesAssumption DEF Init, Open
    <2>2. \A s \in Scopes : Rows(s) = {}
      BY DEF Init, Rows
    <2> QED  BY <2>1, <2>2
             DEF OrderlyInv, OneChangeAtATime, InDateOrder, FreshRead, Open, Apart
  <1>3. TypeInv /\ HandedOver /\ OrderlyInv
          /\ [Next /\ (OneChangeAtATime /\ InDateOrder)']_vars => OrderlyInv'
    <2> SUFFICES ASSUME TypeInv, HandedOver, OrderlyInv,
                        [Next /\ (OneChangeAtATime /\ InDateOrder)']_vars
                 PROVE  OrderlyInv'
      OBVIOUS
    <2>1. OneChangeAtATime' /\ InDateOrder'
      BY DEF OrderlyInv, OneChangeAtATime, InDateOrder, Open, Rows, vars
    <2>2. FreshRead'
      BY FreshReadNext
    <2>3. [Next]_vars
      OBVIOUS
    <2>4. ASSUME UNCHANGED row PROVE Apart'
      BY <2>4 DEF OrderlyInv, Apart, Ends, Rows
    <2>5. ASSUME NEW c \in Changes, CommitPrice(c) PROVE Apart'
      BY <2>5, CommitKeepsApart
    <2>6. Apart'
      BY <2>3, <2>4, <2>5, OnlyCommits
    <2> QED  BY <2>1, <2>2, <2>6 DEF OrderlyInv
  <1>4. TypeInv /\ OrderlyInv => NeverTwoPrices
    <2> SUFFICES ASSUME TypeInv, Apart,
                        NEW s \in Scopes, NEW c \in Rows(s), NEW d \in Rows(s), c # d,
                        c \in InForce(s, row[d].from), d \in InForce(s, row[d].from)
                 PROVE  FALSE
      BY DEF OrderlyInv, NeverTwoPrices
    <2>1. row[c] \in PriceRow /\ row[d] \in PriceRow
      BY DEF Rows, TypeInv, TypeOK
    <2> QED  BY <2>1, PricesAssumption DEF Apart, Ends, InForce, Covers, PriceRow
  <1> QED  BY <1>1, <1>2, <1>3, <1>4, TypeInvariant, Successors, PTL DEF OrderlySpec

-----------------------------------------------------------------------------
(* Lookups *)

\* Only the query for the default price reports a product unpriced.
LEMMA OnlyDefaultUnprices ==
  ASSUME TypeInv, [Next]_vars, NEW l \in Lookups, pc'[l] = "unpriced", pc[l] # "unpriced"
  PROVE  ReadDefaultPrice(l) /\ InForce(NoGroup, asked[l].at) = {}
  <1>1. l \notin Changes
    BY PricesAssumption
  <1>2. pc \in [Changes \cup Lookups ->
          {"idle", "read", "commit", "aborted", "group", "default", "done", "unpriced"}]
    BY DEF TypeInv, TypeOK
  <1>3. ASSUME NEW c \in Changes, ChangeStep(c) PROVE FALSE
    BY <1>1, <1>2, <1>3 DEF ChangeStep, SubmitPrice, ReadOpenRow, CommitPrice, AbortPrice, Goto
  <1>4. ~ Tick /\ ~ UNCHANGED vars
    BY DEF Tick, vars
  <1>5. PICK k \in Lookups : LookupStep(k)
    BY <1>3, <1>4 DEF Next
  <1>6. ~ AskPrice(k) /\ ~ ReadGroupPrice(k)
    BY <1>2 DEF AskPrice, ReadGroupPrice, Goto
  <1>7. ReadDefaultPrice(k)
    BY <1>5, <1>6 DEF LookupStep
  <1>8. k = l
    BY <1>2, <1>7 DEF ReadDefaultPrice, Goto
  <1> QED  BY <1>2, <1>7, <1>8 DEF ReadDefaultPrice, Goto

\* No order is told a product has no price because its price is being changed.
THEOREM OrdersFindAPrice == Spec => NeverUnpricedByAChange
  <1>1. TypeInv /\ AlwaysInForce /\ [Next]_vars =>
          [\A l \in Lookups : pc'[l] = "unpriced" /\ pc[l] # "unpriced" =>
             \A c \in Rows(NoGroup) : row[c].from > asked[l].at]_vars
    <2> SUFFICES ASSUME TypeInv, AlwaysInForce, [Next]_vars,
                        NEW l \in Lookups, pc'[l] = "unpriced", pc[l] # "unpriced",
                        NEW c \in Rows(NoGroup)
                 PROVE  row[c].from > asked[l].at
      OBVIOUS
    <2>1. InForce(NoGroup, asked[l].at) = {}
      BY OnlyDefaultUnprices
    <2>2. row[c].from \in Int /\ asked[l].at \in Int
      BY DEF TypeInv, TypeOK, Rows, PriceRow
    <2>3. ~ (row[c].from <= asked[l].at)
      BY <2>1, <2>2 DEF AlwaysInForce, Scopes
    <2> QED  BY <2>2, <2>3
  <1> QED  BY <1>1, TypeInvariant, AlwaysInForceInv, PTL DEF Spec, NeverUnpricedByAChange

-----------------------------------------------------------------------------
(* The catalogue around the prices *)

\* Every step of the catalogue is a step of the prices, or none of theirs.
LEMMA PricesStep == ASSUME [CatalogueNext]_catalogueVars PROVE [Next]_vars
  <1>1. ASSUME NEW c \in Creations, createProductAction(c) PROVE [Next]_vars
    <2>1. c \in Changes
      BY CatalogueAssumption
    <2> QED  BY <1>1, <2>1 DEF createProductAction, CreateProduct, PriceProduct, LoseCreation,
                               Next, ChangeStep
  <1>2. CASE createProductGroupAction
    BY <1>2 DEF createProductGroupAction, createProductGroup
  <1>3. ASSUME NEW c \in Changes, setProductPrice(c) PROVE [Next]_vars
    BY <1>3 DEF setProductPrice, Next, ChangeStep
  <1>4. ASSUME NEW p \in Pages, ListProduct(p) PROVE [Next]_vars
    BY <1>4, CatalogueAssumption DEF ListProduct, Next, LookupStep
  <1>5. ASSUME NEW o \in Orders, OrderProduct(o) PROVE [Next]_vars
    BY <1>5, CatalogueAssumption DEF OrderProduct, Next, LookupStep
  <1>6. ASSUME NEW l \in Lookups, getCurrentPrice(l) PROVE [Next]_vars
    BY <1>6 DEF getCurrentPrice, Next, LookupStep
  <1>7. CASE Tick \/ UNCHANGED catalogueVars
    BY <1>7 DEF Next, catalogueVars
  <1> QED  BY <1>1, <1>2, <1>3, <1>4, <1>5, <1>6, <1>7 DEF CatalogueNext

\* The catalogue implements the prices: what holds of them holds in it.
THEOREM CatalogueImplementsPrices == CatalogueSpec => Spec
  <1>1. CatalogueInit => Init
    BY DEF CatalogueInit
  <1>2. [CatalogueNext]_catalogueVars => [Next]_vars
    BY PricesStep
  <1> QED  BY <1>1, <1>2, PTL DEF CatalogueSpec, Spec

\* No price of the catalogue ends but for a successor.
THEOREM CatalogueHandsOver == CatalogueSpec => []HandedOver
  BY CatalogueImplementsPrices, Successors, PTL

LEMMA ListingNext ==
  ASSUME ListingOK, TypeOK', [CatalogueNext]_catalogueVars PROVE ListingOK'
  <1> USE DEF ListingOK, listing
  <1>1. ASSUME NEW c \in Creations, createProductAction(c) PROVE ListingOK'
    BY <1>1 DEF createProductAction, CreateProduct, PriceProduct, LoseCreation
  <1>2. CASE createProductGroupAction
    BY <1>2 DEF createProductGroupAction, createProductGroup
  <1>3. CASE UNCHANGED listing
    BY <1>3
  <1> QED
    BY <1>1, <1>2, <1>3
    DEF CatalogueNext, setProductPrice, ListProduct, OrderProduct, getCurrentPrice, catalogueVars

\* Groups, products, prices and their lookups are well typed.
THEOREM CatalogueTypeCorrect == CatalogueSpec => []ListingOK
  <1>1. CatalogueInit /\ TypeOK => ListingOK
    BY DEF CatalogueInit, ListingOK
  <1>2. ListingOK /\ TypeOK' /\ [CatalogueNext]_catalogueVars => ListingOK'
    BY ListingNext
  <1> QED  BY <1>1, <1>2, CatalogueImplementsPrices, TypeCorrect, PTL DEF CatalogueSpec

-----------------------------------------------------------------------------
(* What is offered can be ordered *)

\* Everybody has had a price since some instant up to t.
PricedBy(t) == \E c \in Rows(NoGroup) : row[c].from <= t

OfferInv ==
  /\ \A p \in Pages :
       /\ pc[p] # "group"
       /\ pc[p] \in {"default", "done"} => asked[p].at <= now
       /\ pc[p] = "done" => PricedBy(asked[p].at)
  /\ \A o \in Orders : /\ pc[o] \in {"group", "default"} => PricedBy(asked[o].at)
                       /\ pc[o] # "unpriced"

LEMMA PricedStays ==
  ASSUME TypeInv, [Next]_vars, NEW t \in Int, PricedBy(t) PROVE PricedBy(t)'
  <1>1. CASE UNCHANGED row
    BY <1>1 DEF PricedBy, Rows
  <1>2. ASSUME NEW c \in Changes, CommitPrice(c) PROVE PricedBy(t)'
    BY <1>2, RowsStay DEF PricedBy, Rows
  <1> QED  BY <1>1, <1>2, OnlyCommits

LEMMA PricedLater ==
  ASSUME TypeInv, NEW t \in Int, NEW u \in Int, t <= u, PricedBy(t) PROVE PricedBy(u)
  <1>1. PICK c \in Rows(NoGroup) : row[c].from <= t
    BY DEF PricedBy
  <1>2. row[c].from \in Int
    BY DEF Rows, TypeInv, TypeOK, PriceRow
  <1> QED  BY <1>1, <1>2 DEF PricedBy

\* Who is priced at t finds a price there, and the other way round.
LEMMA PricedFinds ==
  ASSUME TypeInv, AlwaysInForce, NEW t \in Int
  PROVE  PricedBy(t) <=> InForce(NoGroup, t) # {}
  BY DEF PricedBy, AlwaysInForce, Scopes, InForce, Covers

LEMMA OfferNext ==
  ASSUME TypeInv, AlwaysInForce, OfferInv, [CatalogueNext]_catalogueVars
  PROVE  OfferInv'
  <1>1. [Next]_vars
    BY PricesStep
  <1>2. /\ now \in Int
        /\ pc \in [Changes \cup Lookups ->
             {"idle", "read", "commit", "aborted", "group", "default", "done", "unpriced"}]
        /\ asked \in [Lookups -> [scope : Scopes, at : Nat]]
    BY DEF TypeInv, TypeOK
  <1>3. Pages \subseteq Lookups /\ Orders \subseteq Lookups /\ Pages \cap Orders = {}
        /\ Changes \cap Lookups = {}
    BY CatalogueAssumption, PricesAssumption
  <1>4. \A t \in Int : PricedBy(t) => PricedBy(t)'
    BY <1>1, PricedStays
  <1> USE <1>2, <1>3 DEF OfferInv, Goto
  \* No lookup is concerned.
  <1>5. ASSUME \A l \in Lookups : pc'[l] = pc[l], asked' = asked, now' \in Int, now <= now'
        PROVE  OfferInv'
    BY <1>4, <1>5
  <1>6. ASSUME NEW c \in Changes, ChangeStep(c) PROVE OfferInv'
    <2>1. asked' = asked /\ now' = now /\ \A l \in Lookups : pc'[l] = pc[l]
      BY <1>6 DEF ChangeStep, SubmitPrice, ReadOpenRow, CommitPrice, AbortPrice
    <2> QED  BY <1>5, <2>1
  <1>7. ASSUME NEW p \in Pages, ListProduct(p) PROVE OfferInv'
    <2>1. AskPrice(p) /\ asked'[p].scope = NoGroup
      BY <1>7 DEF ListProduct
    <2>2. /\ now' = now /\ row' = row /\ asked'[p].at = now /\ pc'[p] = "default"
          /\ \A l \in Lookups : l # p => pc'[l] = pc[l] /\ asked'[l] = asked[l]
      BY <2>1 DEF AskPrice
    <2> QED  BY <1>4, <2>2
  <1>8. ASSUME NEW o \in Orders, OrderProduct(o) PROVE OfferInv'
    <2>1. AskPrice(o)
      BY <1>8 DEF OrderProduct
    <2>2. PICK p \in Pages : pc[p] = "done"
      BY <1>8 DEF OrderProduct, Offered
    <2>3. PricedBy(now)
      BY <2>2, PricedLater
    <2>4. /\ now' = now /\ asked'[o].at = now /\ pc'[o] \in {"group", "default"}
          /\ \A l \in Lookups : l # o => pc'[l] = pc[l] /\ asked'[l] = asked[l]
      BY <2>1 DEF AskPrice
    <2> QED  BY <1>4, <2>3, <2>4
  <1>9. ASSUME NEW l \in Lookups, ReadGroupPrice(l) \/ ReadDefaultPrice(l) PROVE OfferInv'
    <2>1. /\ now' = now /\ asked' = asked
          /\ \A k \in Lookups : k # l => pc'[k] = pc[k]
      BY <1>9 DEF ReadGroupPrice, ReadDefaultPrice
    <2>2. asked[l].at \in Int
      OBVIOUS
    <2>3. CASE ReadGroupPrice(l)
      <3>1. l \in Orders /\ PricedBy(asked[l].at) /\ pc'[l] \in {"default", "done"}
        BY <2>3, CatalogueAssumption DEF ReadGroupPrice
      <3> QED  BY <1>4, <2>1, <2>2, <3>1
    <2>4. CASE ReadDefaultPrice(l)
      <3>1. PricedBy(asked[l].at) <=> InForce(NoGroup, asked[l].at) # {}
        BY <2>2, PricedFinds
      <3>2. /\ pc[l] = "default" /\ pc'[l] \in {"done", "unpriced"}
            /\ pc'[l] = "done" => InForce(NoGroup, asked[l].at) # {}
            /\ pc'[l] = "unpriced" => InForce(NoGroup, asked[l].at) = {}
        BY <2>4 DEF ReadDefaultPrice, Latest
      <3> QED  BY <1>4, <2>1, <2>2, <3>1, <3>2
    <2> QED  BY <1>9, <2>3, <2>4
  <1>10. CASE Tick
    BY <1>5, <1>10 DEF Tick
  <1>11. CASE UNCHANGED vars
    BY <1>5, <1>11 DEF vars
  <1> QED
    BY <1>6, <1>7, <1>8, <1>9, <1>10, <1>11, CatalogueAssumption
    DEF CatalogueNext, createProductAction, CreateProduct, PriceProduct, LoseCreation, ChangeStep,
        createProductGroupAction, createProductGroup, setProductPrice, getCurrentPrice,
        catalogueVars

\* What the products page shows with a price can be ordered at any later
\* instant, for any group and however often the price changes in between.
THEOREM OffersHold == CatalogueSpec => []OfferedIsOrderable
  <1>1. CatalogueInit => OfferInv
    BY CatalogueAssumption DEF CatalogueInit, Init, OfferInv
  <1>2. TypeInv /\ AlwaysInForce /\ OfferInv /\ [CatalogueNext]_catalogueVars => OfferInv'
    BY OfferNext
  <1>3. OfferInv => OfferedIsOrderable
    BY DEF OfferInv, OfferedIsOrderable
  <1> QED  BY <1>1, <1>2, <1>3, CatalogueImplementsPrices, TypeInvariant, AlwaysInForceInv, PTL
           DEF CatalogueSpec

-----------------------------------------------------------------------------
(* Products without a price *)

CreationInv ==
  /\ product # None => creating[product] \in {"setPrice", "unpriced", "priced", "lost"}
  /\ \A c \in Creations : creating[c] = "priced" =>
       /\ form[c].scope = NoGroup
       /\ pc[c] \in {"read", "commit", "aborted", "done"}
       /\ pc[c] = "done" => c \in Rows(NoGroup)

LEMMA CreationNext ==
  ASSUME TypeInv, ListingOK, CreationInv, [CatalogueNext]_catalogueVars
  PROVE  CreationInv'
  <1>1. /\ pc \in [Changes \cup Lookups ->
             {"idle", "read", "commit", "aborted", "group", "default", "done", "unpriced"}]
        /\ form \in [Changes -> [scope : Scopes, from : Int]]
        /\ creating \in [Creations ->
             {"idle", "setPrice", "unpriced", "priced", "failed", "lost"}]
        /\ product \in Creations \cup {None}
    BY DEF TypeInv, TypeOK, ListingOK
  <1>2. Creations \subseteq Changes /\ Changes \cap Lookups = {}
    BY CatalogueAssumption, PricesAssumption
  <1> USE <1>1, <1>2 DEF CreationInv, Goto
  \* No creation is concerned, and no row goes.
  <1>3. ASSUME UNCHANGED listing, \A c \in Creations : pc'[c] = pc[c] /\ form'[c] = form[c],
               Rows(NoGroup) \subseteq Rows(NoGroup)'
        PROVE  CreationInv'
    BY <1>3 DEF listing
  <1>4. ASSUME NEW c \in Creations, createProductAction(c) PROVE CreationInv'
    <2>1. CASE CreateProduct(c)
      <3>1. UNCHANGED <<pc, form, row>>
        BY <2>1 DEF CreateProduct, vars
      <3>2. Rows(NoGroup)' = Rows(NoGroup)
        BY <3>1 DEF Rows
      <3> QED  BY <1>4, <2>1, <3>1, <3>2 DEF CreateProduct
    <2>2. CASE PriceProduct(c)
      BY <1>4, <2>2 DEF PriceProduct, SubmitPrice, FromNowForAll, Rows
    <2>3. CASE LoseCreation(c)
      BY <1>4, <2>3 DEF LoseCreation, vars, Rows
    <2> QED  BY <1>4, <2>1, <2>2, <2>3 DEF createProductAction
  <1>5. ASSUME NEW c \in Changes, setProductPrice(c) PROVE CreationInv'
    <2>1. CASE c \notin Creations /\ SubmitPrice(c)
      BY <1>3, <1>5, <2>1 DEF SubmitPrice, Rows, setProductPrice
    <2>2. CASE ReadOpenRow(c) \/ AbortPrice(c)
      BY <1>5, <2>2 DEF ReadOpenRow, AbortPrice, Rows, setProductPrice, listing
    <2>3. CASE CommitPrice(c)
      <3>1. Rows(NoGroup) \subseteq Rows(NoGroup)'
        BY <2>3, RowsStay DEF Rows
      <3>2. form[c].scope = NoGroup => c \in Rows(NoGroup)'
        <4>1. row'[c] = NewRow(c)
          BY <2>3, CommitRows
        <4> QED  BY <4>1, PricesAssumption DEF NewRow, NoRow, Rows
      <3> QED  BY <1>5, <2>3, <3>1, <3>2 DEF CommitPrice, setProductPrice, listing
    <2> QED  BY <1>5, <2>1, <2>2, <2>3 DEF setProductPrice
  <1>6. ASSUME NEW l \in Lookups, LookupStep(l), UNCHANGED listing PROVE CreationInv'
    BY <1>3, <1>6 DEF LookupStep, AskPrice, ReadGroupPrice, ReadDefaultPrice, Rows
  <1>7. CASE createProductGroupAction
    BY <1>7 DEF createProductGroupAction, createProductGroup, vars, Rows
  <1>8. CASE Tick /\ UNCHANGED listing
    BY <1>3, <1>8 DEF Tick, Rows
  <1>9. CASE UNCHANGED catalogueVars
    BY <1>3, <1>9 DEF catalogueVars, vars, Rows
  <1> QED
    BY <1>4, <1>5, <1>6, <1>7, <1>8, <1>9, CatalogueAssumption
    DEF CatalogueNext, ListProduct, OrderProduct, getCurrentPrice, LookupStep

\* A product stays without any default price only if its form gave none or its
\* second commit has not happened.
THEOREM UnpricedProducts == CatalogueSpec => []UnpricedExplained
  <1>1. CatalogueInit => CreationInv
    BY CatalogueAssumption DEF CatalogueInit, CreationInv
  <1>2. TypeInv /\ ListingOK /\ CreationInv /\ [CatalogueNext]_catalogueVars => CreationInv'
    BY CreationNext
  <1>3. ListingOK /\ CreationInv => UnpricedExplained
    BY DEF ListingOK, CreationInv, UnpricedExplained
  <1> QED  BY <1>1, <1>2, <1>3, CatalogueImplementsPrices, TypeInvariant, CatalogueTypeCorrect, PTL
           DEF CatalogueSpec
=============================================================================
