------------------------------ MODULE MCBilling ------------------------------
(* Small instances of Billing for TLC. *)
EXTENDS BillingSerial, TLC

\* An order for nothing, and one that takes up to three part payments.
MCTotals  == {0, 3}
MCAmounts == {0, 1, 2, 3}

\* One total that two part payments settle.
TwoPartTotals  == {2}
TwoPartAmounts == {0, 1, 2}

\* Requests are interchangeable, and so are keys.
BillingSymmetry == Permutations(Requests) \cup Permutations(Keys)
=============================================================================
