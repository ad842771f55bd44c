------------------------------- MODULE MCLogins -------------------------------
(* Small instances of Logins for TLC. *)
EXTENDS Logins, TLC

CONSTANTS boss, agent, customer

MCRole == (boss :> "admin") @@ (agent :> "support_staff")

Made(f, x) == Cardinality({a \in Attempts : f[a] = x})

\* Who signs in: the boss once and an agent twice; the boss and a customer;
\* or one customer, over and over.
MCCasts ==
  {f \in [Attempts -> Accounts \cup {None}] :
     \/ Made(f, boss) = 1 /\ Made(f, agent) = 2 /\ Made(f, customer) = 0
     \/ Made(f, boss) = 1 /\ Made(f, agent) = 0 /\ Made(f, customer) = 1
     \/ Made(f, customer) = Cardinality(Attempts)}

LoginSymmetry == Permutations(Attempts) \cup Permutations(Visits)
=============================================================================
