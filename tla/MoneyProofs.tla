------------------------------ MODULE MoneyProofs ------------------------------
(***************************************************************************)
(* The money functions for every amount, ratio, percentage and decimal     *)
(* string.  The shares of a total are followed as the loops of allocate    *)
(* and sum make them, one ratio after the other: whatever the first k      *)
(* shares leave over is less than k units, so that the remainder is handed *)
(* out in one round of the last loop.                                      *)
(***************************************************************************)
EXTENDS Money, WellFoundedInduction, TLAPS

LEMMA Induction ==
  ASSUME NEW S, 0 \in S, \A n \in Nat : n \in S => n + 1 \in S
  PROVE  Nat \subseteq S
  <1> SUFFICES ASSUME Nat \ S # {} PROVE FALSE
    OBVIOUS
  <1>1. IsWellFoundedOn(OpToRel(<, Nat), Nat)
    BY NatLessThanWellFounded
  <1>2. PICK n \in Nat \ S : \A m \in Nat \ S : ~(<<m, n>> \in OpToRel(<, Nat))
    BY <1>1, WFMin
  <1>3. n \in Nat /\ n \notin S /\ n # 0
    OBVIOUS
  <1>4. n - 1 \in Nat /\ n - 1 < n /\ (n - 1) + 1 = n
    BY <1>3
  <1>5. n - 1 \in S
    BY <1>2, <1>4 DEF OpToRel
  <1> QED  BY <1>3, <1>4, <1>5

-----------------------------------------------------------------------------
(* Powers of ten *)

\* f is Pow10 as far as n.
Powers(f, n) == f = [k \in 0..n |-> IF k = 0 THEN 1 ELSE 10 * f[k - 1]]

LEMMA PowersExist == ASSUME NEW n \in Nat PROVE \E f : Powers(f, n)
  <1> DEFINE S == {m \in Nat : \E f : Powers(f, m)}
  <1>1. 0 \in S
    <2>1. Powers([k \in 0..0 |-> 1], 0)
      BY DEF Powers
    <2> QED  BY <2>1
  <1>2. ASSUME NEW m \in Nat, m \in S PROVE m + 1 \in S
    <2>1. PICK f : Powers(f, m)
      BY <1>2
    <2> DEFINE g == [k \in 0..(m + 1) |-> IF k = m + 1 THEN 10 * f[m] ELSE f[k]]
    <2>2. ASSUME NEW k \in 0..(m + 1)
          PROVE  g[k] = IF k = 0 THEN 1 ELSE 10 * g[k - 1]
      <3>1. CASE k = m + 1
        BY <3>1
      <3>2. CASE k \in 0..m
        <4>1. f[k] = IF k = 0 THEN 1 ELSE 10 * f[k - 1]
          BY <2>1, <3>2 DEF Powers
        <4> QED  BY <3>2, <4>1
      <3> QED  BY <3>1, <3>2
    <2>3. Powers(g, m + 1)
      BY <2>2 DEF Powers
    <2> QED  BY <2>3
  <1> HIDE DEF S
  <1>3. Nat \subseteq S
    BY <1>1, <1>2, Induction
  <1> QED  BY <1>3 DEF S

\* Two of them agree as far as both go.
LEMMA PowersAgree ==
  ASSUME NEW n \in Nat, NEW m \in Nat, NEW f, NEW g, Powers(f, n), Powers(g, m),
         NEW k \in 0..n, k <= m
  PROVE  f[k] = g[k]
  <1> DEFINE S == {j \in Nat : j <= n /\ j <= m => f[j] = g[j]}
  <1>0. /\ \A j \in 0..n : f[j] = IF j = 0 THEN 1 ELSE 10 * f[j - 1]
        /\ \A j \in 0..m : g[j] = IF j = 0 THEN 1 ELSE 10 * g[j - 1]
    BY DEF Powers
  <1>1. 0 \in S
    BY <1>0
  <1>2. ASSUME NEW j \in Nat, j \in S PROVE j + 1 \in S
    BY <1>0, <1>2
  <1> HIDE DEF S
  <1>3. Nat \subseteq S
    BY <1>1, <1>2, Induction
  <1> QED  BY <1>3 DEF S

LEMMA PowersStep == ASSUME NEW n \in Nat PROVE Pow10[n] = IF n = 0 THEN 1 ELSE 10 * Pow10[n - 1]
  <1> DEFINE At(k) == CHOOSE f : Powers(f, k)
             P == [k \in Nat |-> At(k)[k]]
  <1>1. ASSUME NEW k \in Nat PROVE Powers(At(k), k)
    BY PowersExist
  <1>2. ASSUME NEW k \in Nat PROVE P[k] = IF k = 0 THEN 1 ELSE 10 * P[k - 1]
    <2>1. At(k)[k] = IF k = 0 THEN 1 ELSE 10 * At(k)[k - 1]
      <3> HIDE DEF At
      <3>1. At(k) = [j \in 0..k |-> IF j = 0 THEN 1 ELSE 10 * At(k)[j - 1]] /\ k \in 0..k
        BY <1>1 DEF Powers
      <3> QED  BY <3>1
    <2>2. CASE k = 0
      BY <2>1, <2>2
    <2>3. CASE k # 0
      <3>1. k - 1 \in Nat /\ k - 1 \in 0..k
        BY <2>3
      <3>2. At(k)[k - 1] = At(k - 1)[k - 1]
        <4> HIDE DEF At
        <4> QED  BY <1>1, <3>1, PowersAgree
      <3> QED  BY <2>1, <2>3, <3>1, <3>2
    <2> QED  BY <2>2, <2>3
  <1> HIDE DEF At
  <1>3. P = [k \in Nat |-> IF k = 0 THEN 1 ELSE 10 * P[k - 1]]
    BY <1>2
  <1> HIDE DEF P
  <1>4. Pow10 = [k \in Nat |-> IF k = 0 THEN 1 ELSE 10 * Pow10[k - 1]]
    BY <1>3 DEF Pow10
  <1> QED  BY <1>4

LEMMA PowersPositive == \A n \in Nat : Pow10[n] \in Nat /\ Pow10[n] > 0
  <1> DEFINE S == {n \in Nat : Pow10[n] \in Nat /\ Pow10[n] > 0}
  <1>1. 0 \in S
    BY PowersStep
  <1>2. ASSUME NEW n \in Nat, n \in S PROVE n + 1 \in S
    <2>1. Pow10[n + 1] = 10 * Pow10[n]
      BY PowersStep
    <2> QED  BY <1>2, <2>1
  <1> HIDE DEF S
  <1>3. Nat \subseteq S
    BY <1>1, <1>2, Induction
  <1> QED  BY <1>3 DEF S

-----------------------------------------------------------------------------
(* Rounding *)

LEMMA Division ==
  ASSUME NEW a \in Int, NEW b \in Nat \ {0}
  PROVE  /\ a \div b \in Int
         /\ b * (a \div b) <= a /\ a < b * (a \div b) + b
         /\ a % b = a - b * (a \div b)
  OBVIOUS

\* Math.round is off by half at most.
LEMMA RoundedOnce ==
  ASSUME NEW n \in Int, NEW d \in Nat \ {0}
  PROVE  Round(n, d) \in Int /\ 2 * Abs(d * Round(n, d) - n) <= d
  <1> DEFINE q == (2 * n + d) \div (2 * d)
  <1>1. 2 * d \in Nat \ {0} /\ 2 * n + d \in Int
    OBVIOUS
  <1>2. q \in Int
    BY <1>1
  <1>3. (2 * d) * q <= 2 * n + d /\ 2 * n + d < (2 * d) * q + 2 * d
    BY <1>1
  <1>4. Round(n, d) = q
    BY DEF Round
  <1> HIDE DEF q
  <1>5. (2 * d) * q = 2 * (d * q) /\ d * q \in Int
    BY <1>2
  <1> QED  BY <1>2, <1>3, <1>4, <1>5 DEF Abs

\* And where it is off by half, so is the number below.
LEMMA HalfRoundedDown ==
  ASSUME NEW n \in Int, NEW d \in Nat \ {0}, (2 * Abs(n)) % (2 * d) = d
  PROVE  2 * Abs(d * (Round(n, d) - 1) - n) <= d
  <1> DEFINE k == (2 * Abs(n)) \div (2 * d)
             r == Round(n, d)
  <1>1. Abs(n) \in Nat /\ (n = Abs(n) \/ n = -Abs(n)) /\ 2 * d \in Nat \ {0}
    BY DEF Abs
  <1>2. k \in Int /\ 2 * Abs(n) = (2 * d) * k + d
    <2>0. 2 * Abs(n) \in Int
      BY <1>1
    <2>1. k \in Int /\ (2 * Abs(n)) % (2 * d) = 2 * Abs(n) - (2 * d) * k
      <3> HIDE DEF k
      <3>1. \A a \in Int, b \in Nat \ {0} : a \div b \in Int /\ a % b = a - b * (a \div b)
        BY Division
      <3> QED  BY <1>1, <2>0, <3>1 DEF k
    <2>2. (2 * d) * k \in Int
      BY <2>1
    <2> HIDE DEF k
    <2> QED  BY <1>1, <2>1, <2>2
  <1>3. r \in Int
    BY RoundedOnce
  <1>4. (2 * d) * r <= 2 * n + d /\ 2 * n + d < (2 * d) * r + 2 * d
    <2>1. 2 * n + d \in Int
      OBVIOUS
    <2>2. \A a \in Int, b \in Nat \ {0} : b * (a \div b) <= a /\ a < b * (a \div b) + b
      BY Division
    <2>3. r = (2 * n + d) \div (2 * d)
      BY DEF Round
    <2> HIDE DEF r
    <2> QED  BY <1>1, <2>1, <2>2, <2>3
  <1> HIDE DEF k, r
  <1>5. /\ d * k \in Int /\ d * r \in Int /\ (2 * d) * k = 2 * (d * k) /\ (2 * d) * r = 2 * (d * r)
        /\ d * (r - 1) = d * r - d
    BY <1>2, <1>3
  <1>6. CASE n = Abs(n)
    <2>1. d * r = d * k + d
      <3>1. d * r <= d * k + d /\ d * k + d < d * r + d
        BY <1>1, <1>2, <1>4, <1>5, <1>6
      <3>2. r <= k + 1 /\ k + 1 < r + 1
        <4>1. ASSUME r > k + 1 PROVE FALSE
          <5>1. d * (r - (k + 1)) >= d
            BY <1>2, <1>3, <4>1
          <5>2. d * (r - (k + 1)) = d * r - (d * k + d)
            BY <1>2, <1>3
          <5> QED  BY <3>1, <1>5, <5>1, <5>2
        <4>2. ASSUME k + 1 > r PROVE FALSE
          <5>1. d * ((k + 1) - r) >= d
            BY <1>2, <1>3, <4>2
          <5>2. d * ((k + 1) - r) = (d * k + d) - d * r
            BY <1>2, <1>3
          <5> QED  BY <3>1, <1>5, <5>1, <5>2
        <4> QED  BY <1>2, <1>3, <4>1, <4>2
      <3>3. r = k + 1
        BY <3>2, <1>2, <1>3
      <3> QED  BY <3>3, <1>2
    <2> QED  BY <1>1, <1>2, <1>3, <1>5, <1>6, <2>1 DEF r, Abs
  <1>7. CASE n = -Abs(n)
    <2>1. d * r <= -(d * k) /\ -(d * k) < d * r + d
      BY <1>1, <1>2, <1>4, <1>5, <1>7
    <2>2. r = -k
      <3>1. ASSUME r > -k PROVE FALSE
        <4>1. d * (r + k) >= d
          BY <1>2, <1>3, <3>1
        <4>2. d * (r + k) = d * r + d * k
          BY <1>2, <1>3
        <4> QED  BY <1>5, <2>1, <4>1, <4>2
      <3>2. ASSUME -k > r PROVE FALSE
        <4>1. d * (-k - r) >= d
          BY <1>2, <1>3, <3>2
        <4>2. d * (-k - r) = -(d * k) - d * r
          BY <1>2, <1>3
        <4> QED  BY <1>5, <2>1, <4>1, <4>2
      <3> QED  BY <1>2, <1>3, <3>1, <3>2
    <2>3. d * r = -(d * k)
      BY <1>2, <2>2
    <2> QED  BY <1>1, <1>2, <1>3, <1>5, <1>7, <2>3 DEF r, Abs
  <1> QED  BY <1>1, <1>6, <1>7

-----------------------------------------------------------------------------
(* Sums *)

\* f is the loop's running sum of the first n numbers.
Sums(f, s, n) == f = [k \in 0..n |-> IF k = 0 THEN 0 ELSE f[k - 1] + s[k]]

LEMMA SumsExist == ASSUME NEW s, NEW n \in Nat PROVE \E f : Sums(f, s, n)
  <1> DEFINE S == {m \in Nat : \E f : Sums(f, s, m)}
  <1>1. 0 \in S
    <2>1. Sums([k \in 0..0 |-> 0], s, 0)
      BY DEF Sums
    <2> QED  BY <2>1
  <1>2. ASSUME NEW m \in Nat, m \in S PROVE m + 1 \in S
    <2>1. PICK f : Sums(f, s, m)
      BY <1>2
    <2> DEFINE g == [k \in 0..(m + 1) |-> IF k = m + 1 THEN f[m] + s[m + 1] ELSE f[k]]
    <2>2. ASSUME NEW k \in 0..(m + 1)
          PROVE  g[k] = IF k = 0 THEN 0 ELSE g[k - 1] + s[k]
      <3>1. CASE k = m + 1
        BY <3>1
      <3>2. CASE k \in 0..m
        <4>1. f[k] = IF k = 0 THEN 0 ELSE f[k - 1] + s[k]
          BY <2>1, <3>2 DEF Sums
        <4> QED  BY <3>2, <4>1
      <3> QED  BY <3>1, <3>2
    <2>3. Sums(g, s, m + 1)
      BY <2>2 DEF Sums
    <2> QED  BY <2>3
  <1> HIDE DEF S
  <1>3. Nat \subseteq S
    BY <1>1, <1>2, Induction
  <1> QED  BY <1>3 DEF S

\* A sum is the last of the running sums.
LEMMA RunningSum ==
  ASSUME NEW s \in Seq(Int)
  PROVE  \E f \in [0..Len(s) -> Int] :
            /\ f[0] = 0 /\ f[Len(s)] = SumOf(s)
            /\ \A k \in 1..Len(s) : f[k] = f[k - 1] + s[k]
  <1>0. Len(s) \in Nat /\ \A k \in 1..Len(s) : s[k] \in Int
    OBVIOUS
  <1> DEFINE f == CHOOSE g : Sums(g, s, Len(s))
  <1>1. Sums(f, s, Len(s))
    BY <1>0, SumsExist
  <1>2. SumOf(s) = f[Len(s)]
    BY DEF SumOf, Sums
  <1> HIDE DEF f
  <1>3. f[0] = 0 /\ \A k \in 1..Len(s) : f[k] = f[k - 1] + s[k]
    <2>1. \A k \in 0..Len(s) : f[k] = IF k = 0 THEN 0 ELSE f[k - 1] + s[k]
      BY <1>1 DEF Sums
    <2> QED  BY <1>0, <2>1
  <1> DEFINE S == {k \in Nat : k <= Len(s) => f[k] \in Int}
  <1>4. 0 \in S
    BY <1>3
  <1>5. ASSUME NEW k \in Nat, k \in S PROVE k + 1 \in S
    <2>1. CASE k + 1 <= Len(s)
      <3>1. k + 1 \in 1..Len(s) /\ (k + 1) - 1 = k /\ f[k] \in Int
        BY <1>0, <1>5, <2>1
      <3>2. f[k + 1] = f[k] + s[k + 1]
        BY <1>3, <3>1
      <3> QED  BY <1>0, <3>1, <3>2
    <2> QED  BY <1>0, <2>1
  <1> HIDE DEF S
  <1>6. Nat \subseteq S
    BY <1>4, <1>5, Induction
  <1>7. f = [k \in 0..Len(s) |-> f[k]]
    BY <1>1 DEF Sums
  <1>8. f \in [0..Len(s) -> Int]
    <2>1. \A k \in 0..Len(s) : f[k] \in Int
      BY <1>0, <1>6 DEF S
    <2> QED  BY <1>7, <2>1
  <1> QED  BY <1>2, <1>3, <1>8

\* Money of one currency is summed as its amounts are.
LEMMA MoneySum ==
  ASSUME NEW cur \in Currencies, NEW items \in Seq(Moneys),
         \A i \in 1..Len(items) : items[i].currency = cur,
         NEW f \in [0..Len(items) -> Int],
         f[0] = 0, \A k \in 1..Len(items) : f[k] = f[k - 1] + items[k].amount
  PROVE  sum(cur, items) = money(f[Len(items)], cur)
  <1> DEFINE n == Len(items)
             Totals(h) == h = [k \in 0..n |-> IF k = 0 THEN money(0, cur)
                                                       ELSE add(h[k - 1], items[k])]
             g == [k \in 0..n |-> money(f[k], cur)]
  <1>0. n \in Nat /\ \A k \in 1..n : items[k] \in Moneys
    OBVIOUS
  <1>1. ASSUME NEW k \in 1..n
        PROVE  add(money(f[k - 1], cur), items[k]) = money(f[k], cur)
    <2>1. items[k].amount \in Int /\ items[k].currency = cur /\ items[k] \in Moneys
      BY <1>0 DEF Moneys
    <2>2. MoneyError.currency = "none" /\ money(f[k - 1], cur).currency = cur
      BY DEF MoneyError, money
    <2>3. MoneyError \notin {money(f[k - 1], cur), items[k]}
      BY <2>1, <2>2, MoneyAssumption
    <2>4. money(f[k - 1], cur).amount = f[k - 1] /\ f[k] = f[k - 1] + items[k].amount
      BY DEF money
    <2> QED  BY <2>1, <2>2, <2>3, <2>4 DEF add
  <1>2. Totals(g)
    <2>1. ASSUME NEW k \in 0..n
          PROVE  g[k] = IF k = 0 THEN money(0, cur) ELSE add(g[k - 1], items[k])
      <3>1. CASE k = 0
        BY <3>1
      <3>2. CASE k \in 1..n
        <4>1. g[k - 1] = money(f[k - 1], cur) /\ g[k] = money(f[k], cur)
          BY <1>0, <3>2
        <4> QED  BY <1>1, <3>2, <4>1
      <3> QED  BY <1>0, <3>1, <3>2
    <2> QED  BY <2>1
  <1> DEFINE h == CHOOSE t : Totals(t)
  <1>3. Totals(h)
    BY <1>2
  <1>4. sum(cur, items) = h[n]
    BY DEF sum
  <1> DEFINE S == {k \in Nat : k <= n => h[k] = g[k]}
  <1> HIDE DEF h, g
  <1>5. 0 \in S
    BY <1>0, <1>2, <1>3
  <1>6. ASSUME NEW k \in Nat, k \in S PROVE k + 1 \in S
    <2>1. CASE k + 1 <= n
      <3>1. k + 1 \in 0..n /\ k + 1 # 0 /\ (k + 1) - 1 = k /\ h[k] = g[k]
        BY <1>0, <1>6, <2>1
      <3>2. h[k + 1] = add(h[k], items[k + 1]) /\ g[k + 1] = add(g[k], items[k + 1])
        BY <1>2, <1>3, <3>1
      <3> QED  BY <3>1, <3>2
    <2> QED  BY <1>0, <2>1
  <1> HIDE DEF S
  <1>7. Nat \subseteq S
    BY <1>5, <1>6, Induction
  <1>8. h[n] = g[n]
    BY <1>0, <1>7 DEF S
  <1> QED  BY <1>0, <1>4, <1>8 DEF g

-----------------------------------------------------------------------------
(* Shares *)

\* A multiple of T below T times another has the smaller factor.
LEMMA Cancel ==
  ASSUME NEW T \in Nat \ {0}, NEW a \in Int, NEW b \in Int, T * a < T * b
  PROVE  a < b
  <1> SUFFICES ASSUME a >= b PROVE FALSE
    OBVIOUS
  <1>1. PICK d \in Nat : a = b + d
    <2>1. a - b \in Nat /\ a = b + (a - b)
      OBVIOUS
    <2> QED  BY <2>1
  <1>2. T * (b + d) = T * b + T * d /\ T * d \in Nat /\ T * b \in Int
    OBVIOUS
  <1> QED  BY <1>1, <1>2

\* The ratios of an accepted call.
LEMMA Accepted ==
  ASSUME NEW r \in Seq(Int), ~Refused(r)
  PROVE  /\ Len(r) \in Nat \ {0} /\ DOMAIN r = 1..Len(r)
         /\ SumOf(r) \in Nat \ {0}
         /\ \A i \in 1..Len(r) : r[i] \in Nat
  <1>1. Len(r) \in Nat \ {0} /\ DOMAIN r = 1..Len(r)
    BY DEF Refused
  <1>2. \A i \in 1..Len(r) : r[i] \in Nat
    BY <1>1 DEF Refused
  <1>3. PICK f \in [0..Len(r) -> Int] :
              /\ f[0] = 0 /\ f[Len(r)] = SumOf(r)
              /\ \A k \in 1..Len(r) : f[k] = f[k - 1] + r[k]
    BY RunningSum
  <1> DEFINE S == {k \in Nat : k <= Len(r) => f[k] \in Nat}
  <1>4. 0 \in S
    BY <1>3
  <1>5. ASSUME NEW k \in Nat, k \in S PROVE k + 1 \in S
    <2>1. CASE k + 1 <= Len(r)
      <3>1. k + 1 \in 1..Len(r) /\ (k + 1) - 1 = k /\ f[k] \in Nat
        BY <1>1, <1>5, <2>1
      <3>2. f[k + 1] = f[k] + r[k + 1] /\ r[k + 1] \in Nat
        BY <1>2, <1>3, <3>1
      <3> QED  BY <3>1, <3>2
    <2> QED  BY <1>1, <2>1
  <1> HIDE DEF S
  <1>6. Nat \subseteq S
    BY <1>4, <1>5, Induction
  <1>7. SumOf(r) \in Nat
    BY <1>1, <1>3, <1>6 DEF S
  <1>8. SumOf(r) # 0
    BY DEF Refused
  <1> QED  BY <1>1, <1>2, <1>7, <1>8

\* Each share is its exact part, rounded down.
LEMMA SharesAre ==
  ASSUME NEW t \in Int, NEW r \in Seq(Int), ~Refused(r)
  PROVE  /\ Shares(t, r) \in Seq(Int) /\ Len(Shares(t, r)) = Len(r)
         /\ \A i \in 1..Len(r) :
              LET s == Shares(t, r)[i] IN
              /\ s \in Nat
              /\ SumOf(r) * s <= Abs(t) * r[i] /\ Abs(t) * r[i] < SumOf(r) * s + SumOf(r)
  <1> DEFINE T == SumOf(r)
             n == Len(r)
             s == Shares(t, r)
  <1>1. n \in Nat \ {0} /\ DOMAIN r = 1..n /\ T \in Nat \ {0} /\ Abs(t) \in Nat
    BY Accepted DEF Abs
  <1>2. s = [i \in 1..n |-> (Abs(t) * r[i]) \div T]
    BY <1>1 DEF Shares
  <1> HIDE DEF T, n, s
  <1>3. ASSUME NEW i \in 1..n
        PROVE  s[i] \in Nat /\ T * s[i] <= Abs(t) * r[i] /\ Abs(t) * r[i] < T * s[i] + T
    <2>1. r[i] \in Nat
      BY Accepted DEF n
    <2>2. PICK a \in Nat : a = Abs(t) * r[i]
      BY <1>1, <2>1
    <2>3. s[i] = a \div T
      BY <1>2, <2>2
    <2>4. s[i] \in Int /\ T * s[i] <= a /\ a < T * s[i] + T
      BY <1>1, <2>3, Division
    <2>5. PICK m \in Int : m = -1
      OBVIOUS
    <2>6. m < s[i]
      <3>1. T * s[i] \in Int /\ T * m = -T
        BY <1>1, <2>4, <2>5
      <3>2. T * m < T * s[i]
        BY <1>1, <2>2, <2>4, <3>1
      <3> QED  BY <1>1, <2>4, <3>2, Cancel
    <2> QED  BY <2>2, <2>4, <2>5, <2>6
  <1>4. s \in Seq(Int) /\ Len(s) = n
    BY <1>1, <1>2, <1>3
  <1> QED  BY <1>3, <1>4 DEF T, n, s

\* What the shares leave over is less than one unit for each of them.
LEMMA LeftOver ==
  ASSUME NEW t \in Int, NEW r \in Seq(Int), ~Refused(r)
  PROVE  Remainder(t, r) \in 0..(Len(r) - 1)
  <1> DEFINE T == SumOf(r)
             n == Len(r)
             s == Shares(t, r)
             A == Abs(t)
  <1>1. n \in Nat \ {0} /\ T \in Nat \ {0} /\ A \in Nat /\ \A i \in 1..n : r[i] \in Nat
    BY Accepted DEF Abs
  <1>2. /\ s \in Seq(Int) /\ Len(s) = n
        /\ \A i \in 1..n : s[i] \in Nat /\ T * s[i] <= A * r[i] /\ A * r[i] < T * s[i] + T
    BY SharesAre
  <1>3. PICK f \in [0..n -> Int] : /\ f[0] = 0 /\ f[n] = T
                                   /\ \A k \in 1..n : f[k] = f[k - 1] + r[k]
    BY RunningSum
  <1>4. PICK g \in [0..n -> Int] : /\ g[0] = 0 /\ g[n] = SumOf(s)
                                   /\ \A k \in 1..n : g[k] = g[k - 1] + s[k]
    <2>1. \E g \in [0..Len(s) -> Int] : /\ g[0] = 0 /\ g[Len(s)] = SumOf(s)
                                        /\ \A k \in 1..Len(s) : g[k] = g[k - 1] + s[k]
      BY <1>2, RunningSum
    <2> QED  BY <1>2, <2>1
  <1>5. Remainder(t, r) = A - g[n]
    BY <1>4 DEF Remainder
  <1> HIDE DEF T, n, s, A
  <1> DEFINE S == {k \in Nat : k <= n => /\ T * g[k] <= A * f[k]
                                         /\ A * f[k] <= T * g[k] + (T - 1) * k}
  <1>6. 0 \in S
    BY <1>1, <1>3, <1>4
  <1>7. ASSUME NEW k \in Nat, k \in S PROVE k + 1 \in S
    <2>1. CASE k + 1 <= n
      <3>1. k + 1 \in 1..n /\ (k + 1) - 1 = k /\ k \in 0..n /\ k + 1 \in 0..n
        BY <1>1, <2>1
      <3>2. /\ T * g[k] <= A * f[k]
            /\ A * f[k] <= T * g[k] + (T - 1) * k
        BY <1>7, <1>1, <2>1
      <3>3. PICK a \in Int, b \in Int, c \in Nat, d \in Nat :
                 a = f[k] /\ b = g[k] /\ c = r[k + 1] /\ d = s[k + 1]
        BY <1>1, <1>2, <3>1
      <3>4. f[k + 1] = a + c /\ g[k + 1] = b + d
        BY <1>3, <1>4, <3>1, <3>3
      <3>5. /\ T * (b + d) = T * b + T * d /\ A * (a + c) = A * a + A * c
            /\ (T - 1) * (k + 1) = (T - 1) * k + (T - 1)
            /\ T * b \in Int /\ T * d \in Int /\ A * a \in Int /\ A * c \in Int
            /\ (T - 1) * k \in Int
        BY <1>1
      <3>6. T * d <= A * c /\ A * c < T * d + T
        BY <1>2, <3>1, <3>3
      <3>7. T * b <= A * a /\ A * a <= T * b + (T - 1) * k
        BY <3>2, <3>3
      <3>8. T * (b + d) <= A * (a + c) /\ A * (a + c) <= T * (b + d) + (T - 1) * (k + 1)
        BY <1>1, <3>5, <3>6, <3>7
      <3> QED  BY <3>4, <3>8
    <2> QED  BY <1>1, <2>1
  <1> HIDE DEF S
  <1>8. Nat \subseteq S
    BY <1>6, <1>7, Induction
  <1>9. PICK G \in Int : G = g[n]
    BY <1>1
  <1>10. T * G <= A * T /\ A * T <= T * G + (T - 1) * n
    BY <1>1, <1>3, <1>8, <1>9 DEF S
  <1>11. /\ A * T = T * A /\ T * (A + 1) = T * A + T /\ T * (G + n) = T * G + T * n
         /\ (T - 1) * n = T * n - n
         /\ T * G \in Int /\ T * A \in Int /\ T * n \in Int
    BY <1>1
  <1>12. G < A + 1
    <2>1. T * G < T * (A + 1)
      BY <1>1, <1>10, <1>11
    <2> QED  BY <1>1, <2>1, Cancel
  <1>13. A < G + n
    <2>1. PICK x \in Int, y \in Int, z \in Int : x = T * G /\ y = T * A /\ z = T * n
      BY <1>11
    <2>2. y <= x + (z - n)
      BY <1>10, <1>11, <2>1
    <2>3. y < x + z
      BY <1>1, <2>2
    <2>4. T * A < T * (G + n)
      BY <1>11, <2>1, <2>3
    <2> QED  BY <1>1, <2>4, Cancel
  <1> QED  BY <1>1, <1>5, <1>9, <1>12, <1>13 DEF n

\* So the last loop goes round once at most, over the first shares.
LEMMA ExtraUnit ==
  ASSUME NEW t \in Int, NEW r \in Seq(Int), ~Refused(r), NEW i \in 1..Len(r)
  PROVE  Extra(t, r, i) = IF i <= Remainder(t, r) THEN 1 ELSE 0
  <1>1. PICK n \in Nat \ {0}, R \in Int : n = Len(r) /\ R = Remainder(t, r)
    BY Accepted, LeftOver
  <1>2. R \in 0..(n - 1) /\ i \in 1..n
    BY <1>1, LeftOver
  <1>3. PICK a \in Nat : a = R + n - i
    BY <1>2
  <1> DEFINE q == a \div n
  <1>4. q \in Int /\ n * q <= a /\ a < n * q + n /\ n * q \in Int
    <2>1. q \in Int /\ n * q <= a /\ a < n * q + n
      BY Division
    <2> HIDE DEF q
    <2> QED  BY <2>1
  <1>5. Extra(t, r, i) = q
    BY <1>1, <1>3 DEF Extra
  <1> HIDE DEF q
  <1>6. PICK two \in Int, one \in Int, zero \in Int, less \in Int :
               two = 2 /\ one = 1 /\ zero = 0 /\ less = -1
    OBVIOUS
  <1>7. n * two = n + n /\ n * one = n /\ n * zero = 0 /\ n * less = -n
    BY <1>6
  <1>8. CASE i <= R
    <2>1. n * zero < n * q /\ n * q < n * two
      BY <1>2, <1>3, <1>4, <1>7, <1>8
    <2>2. zero < q /\ q < two
      BY <1>4, <2>1, Cancel
    <2> QED  BY <1>1, <1>4, <1>5, <1>6, <1>8, <2>2
  <1>9. CASE ~(i <= R)
    <2>1. n * less < n * q /\ n * q < n * one
      BY <1>2, <1>3, <1>4, <1>7, <1>9
    <2>2. less < q /\ q < one
      BY <1>4, <2>1, Cancel
    <2> QED  BY <1>1, <1>4, <1>5, <1>6, <1>9, <2>2
  <1> QED  BY <1>8, <1>9

Sign(n) == IF n < 0 THEN -1 ELSE 1

\* What allocate answers, share by share.
LEMMA AllocateAnswers ==
  ASSUME NEW m \in Moneys, NEW r \in Seq(Int), ~Refused(r)
  PROVE  /\ allocate(m, r) \in Seq(Moneys) /\ Len(allocate(m, r)) = Len(r)
         /\ \A i \in 1..Len(r) :
              allocate(m, r)[i] =
                money(Sign(m.amount) * (Shares(m.amount, r)[i]
                                          + (IF i <= Remainder(m.amount, r) THEN 1 ELSE 0)),
                      m.currency)
  <1> DEFINE n == Len(r)
             R == Remainder(m.amount, r)
             sign == Sign(m.amount)
             share(i) == Shares(m.amount, r)[i]
             extra(i) == Extra(m.amount, r, i)
  <1>1. /\ m.amount \in Int /\ m.currency \in Currencies /\ n \in Nat \ {0} /\ DOMAIN r = 1..n
        /\ sign \in {-1, 1}
    BY Accepted DEF Moneys, Sign
  <1>2. \A i \in 1..n : share(i) \in Nat
    BY <1>1, SharesAre
  <1>3. \A i \in 1..n : extra(i) = IF i <= R THEN 1 ELSE 0
    BY <1>1, ExtraUnit
  <1>4. allocate(m, r) = [i \in 1..n |-> money(sign * (share(i) + extra(i)), m.currency)]
    BY <1>1 DEF allocate, Sign
  <1> HIDE DEF n, R, sign, share, extra
  <1>5. ASSUME NEW i \in 1..n PROVE money(sign * (share(i) + extra(i)), m.currency) \in Moneys
    <2>1. sign * (share(i) + extra(i)) \in Int
      BY <1>1, <1>2, <1>3
    <2> QED  BY <1>1, <2>1 DEF money, Moneys
  <1>6. allocate(m, r) \in Seq(Moneys) /\ Len(allocate(m, r)) = n
    BY <1>1, <1>4, <1>5
  <1>7. \A i \in 1..n :
          allocate(m, r)[i] = money(sign * (share(i) + (IF i <= R THEN 1 ELSE 0)), m.currency)
    BY <1>3, <1>4
  <1> QED  BY <1>6, <1>7 DEF n, R, sign, share

\* The shares add up to the total.
LEMMA SharesAddUp ==
  ASSUME NEW m \in Moneys, NEW r \in Seq(Int), ~Refused(r)
  PROVE  sum(m.currency, allocate(m, r)) = m
  <1> DEFINE a == allocate(m, r)
             s == Shares(m.amount, r)
             R == Remainder(m.amount, r)
             n == Len(r)
             sign == Sign(m.amount)
  <1>1. /\ m.amount \in Int /\ m.currency \in Currencies /\ n \in Nat \ {0}
        /\ sign \in {-1, 1} /\ m.amount = sign * Abs(m.amount) /\ Abs(m.amount) \in Nat
    BY Accepted DEF Moneys, Abs, Sign
  <1>2. s \in Seq(Int) /\ Len(s) = n /\ \A i \in 1..n : s[i] \in Nat
    BY <1>1, SharesAre
  <1>3. R \in 0..(n - 1) /\ R = Abs(m.amount) - SumOf(s)
    BY <1>1, LeftOver DEF Remainder
  <1>4. /\ a \in Seq(Moneys) /\ Len(a) = n
        /\ \A i \in 1..n : a[i] = money(sign * (s[i] + (IF i <= R THEN 1 ELSE 0)), m.currency)
    BY AllocateAnswers
  <1> HIDE DEF a, s, R, n, sign
  <1>5. PICK g \in [0..n -> Int] : /\ g[0] = 0 /\ g[n] = SumOf(s)
                                   /\ \A k \in 1..n : g[k] = g[k - 1] + s[k]
    <2>1. \E g \in [0..Len(s) -> Int] : /\ g[0] = 0 /\ g[Len(s)] = SumOf(s)
                                        /\ \A k \in 1..Len(s) : g[k] = g[k - 1] + s[k]
      BY <1>2, RunningSum
    <2> QED  BY <1>2, <2>1
  <1> DEFINE handed(k) == IF k <= R THEN k ELSE R
             f == [k \in 0..n |-> sign * (g[k] + handed(k))]
  <1>6. \A k \in 0..n : handed(k) \in Int /\ f[k] = sign * (g[k] + handed(k)) /\ f[k] \in Int
    <2>1. ASSUME NEW k \in 0..n
          PROVE  handed(k) \in Int /\ f[k] = sign * (g[k] + handed(k)) /\ f[k] \in Int
      <3>1. handed(k) \in Int /\ g[k] \in Int
        BY <1>1, <1>3, <1>5
      <3>2. f[k] = sign * (g[k] + handed(k))
        OBVIOUS
      <3> HIDE DEF f, handed
      <3>3. sign * (g[k] + handed(k)) \in Int
        BY <1>1, <3>1
      <3> QED  BY <3>1, <3>2, <3>3
    <2> QED  BY <2>1
  <1>7. ASSUME NEW k \in 1..n PROVE f[k] = f[k - 1] + a[k].amount /\ a[k].currency = m.currency
    <2>1. PICK e \in {0, 1} : e = IF k <= R THEN 1 ELSE 0
      OBVIOUS
    <2>2. k - 1 \in 0..n /\ k \in 0..n
      BY <1>1
    <2>3. handed(k) = handed(k - 1) + e
      BY <1>1, <1>3, <2>1
    <2> HIDE DEF handed
    <2>4. a[k].amount = sign * (s[k] + e) /\ a[k].currency = m.currency
      BY <1>4, <2>1 DEF money
    <2>5. g[k] = g[k - 1] + s[k] /\ g[k - 1] \in Int /\ s[k] \in Int
      <3>1. g[k - 1] \in Int
        BY <1>5, <2>2
      <3>2. s[k] \in Int
        BY <1>2
      <3> QED  BY <1>5, <3>1, <3>2
    <2>6. f[k] = sign * (g[k] + handed(k)) /\ f[k - 1] = sign * (g[k - 1] + handed(k - 1))
      BY <1>6, <2>2
    <2>7. handed(k - 1) \in Int
      BY <1>6, <2>2
    <2> HIDE DEF f
    <2>8. PICK x \in Int, y \in Int, z \in Int : x = g[k - 1] /\ y = handed(k - 1) /\ z = s[k]
      BY <2>5, <2>7
    <2>9. /\ f[k] = sign * ((x + z) + (y + e)) /\ f[k - 1] = sign * (x + y)
          /\ a[k].amount = sign * (z + e)
      BY <2>3, <2>4, <2>5, <2>6, <2>8
    <2>10. sign * ((x + z) + (y + e)) = sign * (x + y) + sign * (z + e)
      BY <1>1
    <2> QED  BY <2>4, <2>9, <2>10
  <1>8. f[n] = m.amount /\ f[0] = 0
    <2>1. handed(n) = R /\ handed(0) = 0 /\ n \in 0..n /\ 0 \in 0..n
      BY <1>1, <1>3
    <2>2. f[n] = sign * (g[n] + R) /\ f[0] = sign * (g[0] + 0)
      BY <1>6, <2>1
    <2>3. g[n] \in Int /\ g[n] + R = Abs(m.amount)
      BY <1>1, <1>3, <1>5
    <2> HIDE DEF f
    <2> QED  BY <1>1, <1>5, <2>2, <2>3
  <1>9. f \in [0..n -> Int]
    BY <1>6
  <1> HIDE DEF f
  <1>10. sum(m.currency, a) = money(f[Len(a)], m.currency)
    BY <1>1, <1>4, <1>7, <1>8, <1>9, MoneySum
  <1>11. m = money(m.amount, m.currency)
    BY DEF money, Moneys
  <1> QED  BY <1>4, <1>8, <1>10, <1>11 DEF a

\* No share is a unit away from its exact part, and earlier ones come first.
LEMMA SharesFair ==
  ASSUME NEW m \in Moneys, NEW r \in Seq(Int), ~Refused(r)
  PROVE  /\ \A i \in 1..Len(r) :
              Abs(allocate(m, r)[i].amount * SumOf(r) - m.amount * r[i]) <= SumOf(r)
         /\ \A i, j \in 1..Len(r) :
              i < j /\ r[i] = r[j] => Abs(allocate(m, r)[i].amount) >= Abs(allocate(m, r)[j].amount)
  <1> DEFINE a == allocate(m, r)
             s == Shares(m.amount, r)
             R == Remainder(m.amount, r)
             n == Len(r)
             T == SumOf(r)
             A == Abs(m.amount)
             sign == Sign(m.amount)
  <1>1. /\ m.amount \in Int /\ n \in Nat \ {0} /\ DOMAIN r = 1..n /\ T \in Nat \ {0}
        /\ sign \in {-1, 1} /\ m.amount = sign * A /\ A \in Nat
        /\ \A i \in 1..n : r[i] \in Nat
    BY Accepted DEF Moneys, Abs, Sign
  <1>2. \A i \in 1..n : s[i] \in Nat /\ T * s[i] <= A * r[i] /\ A * r[i] < T * s[i] + T
    BY <1>1, SharesAre
  <1>3. \A i \in 1..n : s[i] = (A * r[i]) \div T
    BY <1>1 DEF Shares
  <1>4. R \in 0..(n - 1)
    BY <1>1, LeftOver
  <1>5. \A i \in 1..n : a[i].amount = sign * (s[i] + (IF i <= R THEN 1 ELSE 0))
    <2>1. \A x, c : money(x, c).amount = x
      BY DEF money
    <2> QED  BY <2>1, AllocateAnswers
  <1> HIDE DEF a, s, R, n, T, A, sign
  <1>6. ASSUME NEW i \in 1..n
        PROVE  Abs(a[i].amount * T - m.amount * r[i]) <= T
    <2>1. PICK e \in {0, 1} : a[i].amount = sign * (s[i] + e)
      BY <1>5
    <2>2. PICK x \in Nat, p \in Nat : x = s[i] /\ p = r[i]
      BY <1>1, <1>2
    <2>3. PICK u \in Int, v \in Int : u = T * x /\ v = A * p
      BY <1>1
    <2>4. u <= v /\ v < u + T
      BY <1>2, <2>2, <2>3
    <2>5. (sign * (x + e)) * T = sign * (u + e * T)
      BY <1>1, <2>3
    <2>6. (sign * A) * p = sign * v
      BY <1>1, <2>3
    <2>7. a[i].amount * T - m.amount * r[i] = sign * (u + e * T) - sign * v
      BY <1>1, <2>1, <2>2, <2>5, <2>6
    <2>8. sign * (u + e * T) - sign * v \in {u - v, v - u, u + T - v, v - u - T}
      BY <1>1
    <2>9. PICK d \in Int : d = a[i].amount * T - m.amount * r[i] /\ d <= T /\ -d <= T
      BY <1>1, <2>4, <2>7, <2>8
    <2> QED  BY <2>9 DEF Abs
  <1>7. ASSUME NEW i \in 1..n, NEW j \in 1..n, i < j, r[i] = r[j]
        PROVE  Abs(a[i].amount) >= Abs(a[j].amount)
    <2>1. PICK e \in {0, 1} : e = (IF i <= R THEN 1 ELSE 0) /\ a[i].amount = sign * (s[i] + e)
      BY <1>5
    <2>2. PICK d \in {0, 1} : d = (IF j <= R THEN 1 ELSE 0) /\ a[j].amount = sign * (s[j] + d)
      BY <1>5
    <2>3. PICK x \in Nat : x = s[i] /\ x = s[j]
      BY <1>2, <1>3, <1>7
    <2>4. d <= e
      BY <1>1, <1>4, <1>7, <2>1, <2>2
    <2>5. a[i].amount = sign * (x + e) /\ a[j].amount = sign * (x + d)
      BY <2>1, <2>2, <2>3
    <2> QED  BY <1>1, <2>4, <2>5 DEF Abs
  <1> QED  BY <1>6, <1>7 DEF a, n, T

-----------------------------------------------------------------------------
(* Decimal strings *)

LEMMA MinorDigits ==
  /\ minorUnitDigits("USD") = 2
  /\ \A cur : minorUnitDigits(cur) \in Nat
  <1>1. DOMAIN MINOR_UNIT_DIGITS = {"JPY", "BHD"}
    BY DEF MINOR_UNIT_DIGITS
  <1>2. MINOR_UNIT_DIGITS["JPY"] = 0 /\ MINOR_UNIT_DIGITS["BHD"] = 3
    BY DEF MINOR_UNIT_DIGITS
  <1> QED  BY <1>1, <1>2 DEF minorUnitDigits

\* Whatever half parseFloat leaves, the amount is one of the nearest.
LEMMA ParsedNearest ==
  ASSUME NEW d \in DecimalStrings, NEW cur, NEW n \in Parsed(d, cur)
  PROVE  2 * Abs(Pow10[d.places] * n - Signed(d) * Pow10[minorUnitDigits(cur)]) <= Pow10[d.places]
  <1>1. PICK scale \in Nat \ {0}, exact \in Int :
             scale = Pow10[d.places] /\ exact = Signed(d) * Pow10[minorUnitDigits(cur)]
    <2>1. d.places \in Nat /\ Signed(d) \in Int
      BY DEF DecimalStrings, Signed
    <2>2. Pow10[d.places] \in Nat \ {0} /\ Pow10[minorUnitDigits(cur)] \in Int
      BY <2>1, MinorDigits, PowersPositive
    <2> QED  BY <2>1, <2>2
  <1>2. \/ n = Round(exact, scale)
        \/ n = Round(exact, scale) - 1 /\ (2 * Abs(exact)) % (2 * scale) = scale
    BY <1>1 DEF Parsed
  <1>3. 2 * Abs(scale * n - exact) <= scale
    BY <1>2, RoundedOnce, HalfRoundedDown
  <1> QED  BY <1>1, <1>3

\* Two decimals printed and read again are two decimals.
LEMMA DollarsReturn ==
  ASSUME NEW m \in Moneys, m.currency = "USD"
  PROVE  parseUsdAmount(toDecimalString(m)) = {<<m>>}
  <1> DEFINE d == toDecimalString(m)
  <1>1. m.amount \in Int /\ m = money(m.amount, "USD")
    BY DEF Moneys, money
  <1>2. d = Decimal(m.amount < 0, Abs(m.amount), 2)
    BY MinorDigits DEF toDecimalString
  <1>3. d.places = 2 /\ Signed(d) = m.amount
    <2> HIDE DEF d
    <2>1. d.places = 2 /\ d.digits = Abs(m.amount) /\ d.negative = (m.amount < 0)
      BY <1>2 DEF Decimal
    <2>2. CASE m.amount < 0
      <3>1. d.negative
        BY <2>1, <2>2, Zenon
      <3>2. Signed(d) = -Abs(m.amount)
        BY <2>1, <3>1 DEF Signed
      <3> QED  BY <1>1, <2>1, <2>2, <3>2 DEF Abs
    <2>3. CASE ~(m.amount < 0)
      BY <1>1, <2>1, <2>3 DEF Signed, Abs
    <2> QED  BY <1>1, <2>2, <2>3
  <1>4. d # Malformed
    BY <1>3 DEF Malformed, Decimal
  <1>5. Pow10[2] = 100
    <2>1. Pow10[0] = 1 /\ Pow10[1] = 10 * Pow10[0] /\ Pow10[2] = 10 * Pow10[1]
      BY PowersStep
    <2> QED  BY <2>1
  <1> HIDE DEF d
  <1>6. Parsed(d, "USD") = {m.amount}
    <2>1. Round(m.amount * 100, 100) = m.amount
      BY <1>1 DEF Round
    <2>2. (2 * Abs(m.amount * 100)) % (2 * 100) # 100
      BY <1>1 DEF Abs
    <2> QED  BY <1>3, <1>5, <2>1, <2>2, MinorDigits DEF Parsed
  <1>7. fromDecimalString(d, "USD") = {<<money(m.amount, "USD")>>}
    BY <1>4, <1>6 DEF fromDecimalString
  <1> QED  BY <1>1, <1>7 DEF parseUsdAmount, d

-----------------------------------------------------------------------------
(* The calls *)

\* An answer is what its function returns.
CallInv ==
  /\ call \in Calls
  /\ answer # <<>> =>
       /\ call.name = "allocate" => answer = allocate(call.of, call.ratios)
       /\ call.name = "percentageBps" => answer = <<percentageBps(call.of, call.bps)>>
       /\ call.name = "fromDecimalString" => answer \in fromDecimalString(call.typed, call.currency)
       /\ call.name = "markInvoicePaidAction" => answer \in parseUsdAmount(toDecimalString(call.of))

LEMMA CallInvariant == Spec => []CallInv
  <1>1. Init => CallInv
    BY DEF Init, CallInv
  <1>2. CallInv /\ [Next]_vars => CallInv'
    BY DEF CallInv, Next, Total, Percentage, Allocate, Parse, PayTheRest, Return, vars
  <1> QED  BY <1>1, <1>2, PTL DEF Spec

\* The arguments a call comes with.
LEMMA Arguments ==
  ASSUME CallInv
  PROVE  /\ call.name = "allocate" => call.of \in Moneys /\ call.ratios \in Seq(Int)
         /\ call.name = "percentageBps" => call.of \in Moneys /\ call.bps \in Int
         /\ call.name = "fromDecimalString" => call.typed \in DecimalStrings \cup {Malformed}
         /\ call.name = "markInvoicePaidAction" => call.of \in Moneys
  BY MoneyAssumption DEF CallInv

\* Whatever the amount and however many ratios, the shares of allocate add up to
\* the total, none is a unit away from its exact part, and the units left over
\* go to the first (the loop over the remainder goes round once).
THEOREM SharesAreExact == Spec => []SplitsExactly
  <1>1. CallInv => SplitsExactly
    <2> SUFFICES ASSUME CallInv, Answered("allocate") PROVE SplitsExactly
      BY DEF SplitsExactly
    <2>1. call.of \in Moneys /\ call.ratios \in Seq(Int)
      BY Arguments DEF Answered
    <2>2. answer = allocate(call.of, call.ratios)
      BY DEF CallInv, Answered
    <2>3. ~Refused(call.ratios)
      BY <2>2 DEF allocate, Answered
    <2>4. DOMAIN call.ratios = 1..Len(call.ratios)
      BY <2>1
    <2> QED  BY <2>1, <2>2, <2>3, <2>4, SharesAddUp, SharesFair DEF SplitsExactly
  <1> QED  BY <1>1, CallInvariant, PTL

\* A percentage and an amount typed into a form are rounded once, to the nearest
\* unit, and dollars printed into the payment form come back as they were
\* (percentageBps, fromDecimalString, toDecimalString).
THEOREM FractionsRoundedOnce == Spec => []RoundsOnce
  <1>1. CallInv => RoundsOnce
    <2> SUFFICES ASSUME CallInv PROVE RoundsOnce
      OBVIOUS
    <2>1. ASSUME Answered("percentageBps")
          PROVE  2 * Abs(10000 * answer[1].amount - call.of.amount * call.bps) <= 10000
      <3>1. call.of.amount \in Int /\ call.bps \in Int
        BY <2>1, Arguments DEF Answered, Moneys
      <3>2. answer = <<percentageBps(call.of, call.bps)>>
        BY <2>1 DEF CallInv, Answered
      <3>3. answer[1] = money(Round(call.of.amount * call.bps, 10000), call.of.currency)
        BY <2>1, <3>2 DEF percentageBps, Answered
      <3>4. PICK n \in Int : n = call.of.amount * call.bps
        BY <3>1
      <3>5. answer[1].amount = Round(n, 10000)
        BY <3>3, <3>4 DEF money
      <3> QED  BY <3>4, <3>5, RoundedOnce
    <2>2. ASSUME Answered("fromDecimalString")
          PROVE  2 * Abs(Pow10[call.typed.places] * answer[1].amount
                           - Signed(call.typed) * Pow10[minorUnitDigits(call.currency)])
                   <= Pow10[call.typed.places]
      <3>1. answer \in fromDecimalString(call.typed, call.currency)
        BY <2>2 DEF CallInv, Answered
      <3>2. call.typed # Malformed
        BY <2>2, <3>1 DEF fromDecimalString, Answered
      <3>3. call.typed \in DecimalStrings
        BY <2>2, <3>2, Arguments DEF Answered
      <3>4. PICK n \in Parsed(call.typed, call.currency) : answer = <<money(n, call.currency)>>
        BY <3>1, <3>2 DEF fromDecimalString
      <3>5. answer[1].amount = n
        BY <3>4 DEF money
      <3> QED  BY <3>3, <3>5, ParsedNearest
    <2>3. ASSUME Answered("markInvoicePaidAction"), call.of.currency = "USD"
          PROVE  answer = <<call.of>>
      BY <2>3, Arguments, DollarsReturn DEF CallInv, Answered
    <2> QED  BY <2>1, <2>2, <2>3 DEF RoundsOnce
  <1> QED  BY <1>1, CallInvariant, PTL
=============================================================================
