-------------------------------- MODULE Money ---------------------------------
(***************************************************************************)
(* Money (shared/money): whole numbers of minor units, and the few places  *)
(* where a fraction appears and is rounded away: shares of a total,        *)
(* percentages, and amounts typed into a form or printed into one.         *)
(*                                                                         *)
(* JavaScript's numbers are exact here: amounts and products stay far      *)
(* below 2^53.  The one inexact step is parseFloat(..) * factor, which may *)
(* leave a half on either side of it.                                      *)
(***************************************************************************)
EXTENDS Integers, Sequences

CONSTANTS
  Currencies,  \* ISO codes in use
  Calls        \* the calls that are tried

VARIABLES
  call,    \* a call, as a record of its name and arguments
  answer   \* the amounts it returns, <<MoneyError>>, or <<>> before it returns

vars == <<call, answer>>

Moneys         == [amount : Int, currency : Currencies]
OrderLines     == [price : Moneys, quantity : Int, setupFee : Moneys]
DecimalStrings == [negative : BOOLEAN, digits : Nat, places : Nat]

\* A decimal string is a sign, the digits as one number, and how many of them
\* stand behind the point; or Malformed, for all that the pattern refuses.
Decimal(negative, digits, places) ==
  [negative |-> negative, digits |-> digits, places |-> places]

Malformed == Decimal(FALSE, 0, -1)

ASSUME MoneyAssumption ==
  /\ "none" \notin Currencies
  /\ Calls \subseteq
       [name : {"allocate"}, of : Moneys, ratios : Seq(Int)]
         \cup [name : {"percentageBps"}, of : Moneys, bps : Int]
         \cup [name : {"fromDecimalString"}, typed : DecimalStrings \cup {Malformed},
               currency : Currencies]
         \cup [name : {"markInvoicePaidAction"}, of : Moneys]
         \cup [name : {"sum"}, lines : Seq(OrderLines), currency : Currencies]

Pow10[n \in Nat] == IF n = 0 THEN 1 ELSE 10 * Pow10[n - 1]

\* MINOR_UNIT_DIGITS: one currency of each kind that differs from the rest.
MINOR_UNIT_DIGITS == [JPY |-> 0, BHD |-> 3]

minorUnitDigits(cur) ==
  IF cur \in DOMAIN MINOR_UNIT_DIGITS THEN MINOR_UNIT_DIGITS[cur] ELSE 2

money(amount, cur) == [amount |-> amount, currency |-> cur]

\* Thrown instead of a result.
MoneyError == money(0, "none")

Abs(n) == IF n < 0 THEN -n ELSE n

\* Math.round of a fraction with d > 0: a half goes up.
Round(n, d) == (2 * n + d) \div (2 * d)

SumOf(s) ==
  LET upTo[k \in 0..Len(s)] == IF k = 0 THEN 0 ELSE upTo[k - 1] + s[k]
  IN  upTo[Len(s)]

-----------------------------------------------------------------------------

add(a, b) ==
  IF MoneyError \in {a, b} \/ a.currency # b.currency
  THEN MoneyError ELSE money(a.amount + b.amount, a.currency)

\* sum: one item of another currency refuses the whole.
sum(cur, items) ==
  LET upTo[k \in 0..Len(items)] ==
        IF k = 0 THEN money(0, cur) ELSE add(upTo[k - 1], items[k])
  IN  upTo[Len(items)]

multiply(a, quantity) == money(a.amount * quantity, a.currency)

\* What an order charges for a line (orders.ts).
LineTotal(line) == add(multiply(line.price, line.quantity), line.setupFee)

\* Fault: fractions are cut off.
Fault_percentageBps(a, bps) ==
  IF bps < 0 THEN MoneyError ELSE money((a.amount * bps) \div 10000, a.currency)

percentageBps(a, bps) ==
  IF bps < 0 THEN MoneyError ELSE money(Round(a.amount * bps, 10000), a.currency)

Shares(total, ratios) ==
  [i \in DOMAIN ratios |-> (Abs(total) * ratios[i]) \div SumOf(ratios)]

Remainder(total, ratios) == Abs(total) - SumOf(Shares(total, ratios))

\* Fault: the remainder goes to the last share.
Fault_Extra(total, ratios, i) ==
  IF i = Len(ratios) THEN Remainder(total, ratios) ELSE 0

\* How often the loop over the remainder comes by share i.
Extra(total, ratios, i) ==
  (Remainder(total, ratios) + Len(ratios) - i) \div Len(ratios)

Refused(ratios) ==
  ratios = <<>> \/ (\E i \in DOMAIN ratios : ratios[i] < 0) \/ SumOf(ratios) = 0

allocate(total, ratios) ==
  IF Refused(ratios) THEN <<MoneyError>>
  ELSE LET sign == IF total.amount < 0 THEN -1 ELSE 1 IN
       [i \in DOMAIN ratios |->
          money(sign * (Shares(total.amount, ratios)[i] + Extra(total.amount, ratios, i)),
                total.currency)]

-----------------------------------------------------------------------------
(* Amounts as decimal strings *)

Signed(d) == IF d.negative THEN -d.digits ELSE d.digits

\* The amounts parsing may yield: a half is rounded either way.
Parsed(d, cur) ==
  LET n == Signed(d) * Pow10[minorUnitDigits(cur)]
      half == (2 * Abs(n)) % (2 * Pow10[d.places]) = Pow10[d.places]
      up   == Round(n, Pow10[d.places])
  IN  IF half THEN {up, up - 1} ELSE {up}

fromDecimalString(d, cur) ==
  IF d = Malformed THEN {<<MoneyError>>} ELSE {<<money(n, cur)>> : n \in Parsed(d, cur)}

\* toFixed(digits)
toDecimalString(m) ==
  Decimal(m.amount < 0, Abs(m.amount), minorUnitDigits(m.currency))

parseUsdAmount(d) == fromDecimalString(d, "USD")

-----------------------------------------------------------------------------

Init == call \in Calls /\ answer = <<>>

Return(name, values) ==
  /\ answer = <<>> /\ call.name = name
  /\ answer' \in values
  /\ UNCHANGED call

Total      == Return("sum", {<<sum(call.currency, [i \in DOMAIN call.lines |->
                                                     LineTotal(call.lines[i])])>>})
Percentage == Return("percentageBps", {<<percentageBps(call.of, call.bps)>>})
Allocate   == Return("allocate", {allocate(call.of, call.ratios)})
Parse      == Return("fromDecimalString", fromDecimalString(call.typed, call.currency))

\* The payment form is filled with what is due, printed in the invoice's
\* currency, and read back as dollars.
PayTheRest == Return("markInvoicePaidAction", parseUsdAmount(toDecimalString(call.of)))

Next == Total \/ Percentage \/ Allocate \/ Parse \/ PayTheRest

Spec == Init /\ [][Next]_vars

Answered(name) == call.name = name /\ answer # <<>> /\ answer # <<MoneyError>>

-----------------------------------------------------------------------------
(* Properties *)

\* No penny is lost, invented or moved to where it does not belong: the shares
\* of a total add up to it as sum adds them, each is within one unit of its
\* exact part, and of two equal ratios the earlier one gets no less.
SplitsExactly ==
  Answered("allocate") =>
    LET m == call.of  r == call.ratios IN
    /\ sum(m.currency, answer) = m
    /\ \A i \in DOMAIN r :
         Abs(answer[i].amount * SumOf(r) - m.amount * r[i]) <= SumOf(r)
    /\ \A i, j \in DOMAIN r :
         i < j /\ r[i] = r[j] => Abs(answer[i].amount) >= Abs(answer[j].amount)

\* Where a fraction is rounded away it is rounded once and to the nearest unit,
\* and an amount in dollars that a form shows comes back from it as it was.
RoundsOnce ==
  /\ Answered("percentageBps") =>
       2 * Abs(10000 * answer[1].amount - call.of.amount * call.bps) <= 10000
  /\ Answered("fromDecimalString") =>
       LET scale == Pow10[call.typed.places]
           exact == Signed(call.typed) * Pow10[minorUnitDigits(call.currency)]
       IN  2 * Abs(scale * answer[1].amount - exact) <= scale
  /\ Answered("markInvoicePaidAction") /\ call.of.currency = "USD" =>
       answer = <<call.of>>
=============================================================================
