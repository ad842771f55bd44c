------------------------------- MODULE MCMoney --------------------------------
(* Small instances of Money for TLC: every kind of call with small amounts.   *)
EXTENDS Money, FiniteSets, SequencesExt

Amounts == {money(n, c) : n \in -7..12, c \in Currencies}

Ratios == BoundedSeq(-1..3, 3)

Fractions == {0, 1, 4999, 5000, 5001, 9999, 10000, 12500, -1}

Decimals == [negative : BOOLEAN, digits : {0, 4, 5, 6, 15, 125, 1995}, places : 0..4]

Fees == {money(n, c) : n \in {0, 3}, c \in Currencies}

Lines == [price : {money(n, c) : n \in {0, 5}, c \in Currencies},
          quantity : {1, 3}, setupFee : Fees]

MCCalls ==
  [name : {"allocate"}, of : Amounts, ratios : Ratios]
    \cup [name : {"percentageBps"}, of : Amounts, bps : Fractions]
    \cup [name : {"fromDecimalString"}, typed : Decimals \cup {Malformed},
          currency : Currencies]
    \cup [name : {"markInvoicePaidAction"}, of : Amounts]
    \cup [name : {"sum"}, lines : BoundedSeq(Lines, 2), currency : Currencies]
=============================================================================
