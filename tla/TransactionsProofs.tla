-------------------------- MODULE TransactionsProofs --------------------------
(***************************************************************************)
(* Proofs about blocks of transactions (module Transactions), for any      *)
(* accounts, amounts, prices, stakes and recovery window.                  *)
(***************************************************************************)
EXTENDS Transactions, NatFacts, SequenceTheorems, TLAPS

-----------------------------------------------------------------------------
(* The energy arithmetic.                                                  *)

\* The recovery window has at least one slot.
LEMMA WindowPositive == Window \in Nat \ {0}
<1>1. StoredWindow \in Nat /\ WindowSizePrecision \in Nat \ {0} /\ DefaultEnergyWindow \in Nat \ {0}
  BY TransactionsAssumption, EnergyAssumption
<1>2. StoredWindow >= WindowSizePrecision => StoredWindow \div WindowSizePrecision >= 1
  <2>1. ASSUME StoredWindow >= WindowSizePrecision PROVE 1 <= StoredWindow \div WindowSizePrecision
    BY <1>1, <2>1, DivGreatest
  <2>2. QED
    BY <1>1, <2>1, DivNat
<1>3. StoredWindow \div WindowSizePrecision \in Nat
  BY <1>1, DivNat
<1>4. QED
  BY <1>1, <1>2, <1>3 DEF Window, EnergyWindow

\* A quotient rounded up is enough.
LEMMA CeilCovers ==
    ASSUME NEW a \in Nat, NEW b \in Nat \ {0}
    PROVE  DivideCeil(a, b) \in Nat /\ DivideCeil(a, b) * b >= a
<1> DEFINE q == a \div b
           r == a % b
<1>1. q \in Nat /\ r \in 0 .. b - 1 /\ a = q * b + r
  <2>1. a \in Int /\ q \in Nat
    BY DivNat
  <2>2. a = q * b + r /\ r \in 0 .. b - 1
    BY <2>1, DivMod
  <2>3. QED
    BY <2>1, <2>2
<1>2. DivideCeil(a, b) = q + (IF r > 0 THEN 1 ELSE 0)
  BY DEF DivideCeil
<1> HIDE DEF q, r
<1>3. CASE r > 0
  <2>1. DivideCeil(a, b) = q + 1
    BY <1>2, <1>3
  <2>2. (q + 1) * b = q * b + b
    BY <1>1
  <2>3. q * b \in Nat
    BY <1>1, MulNat
  <2>4. QED
    BY <1>1, <2>1, <2>2, <2>3
<1>4. CASE ~(r > 0)
  <2>1. DivideCeil(a, b) = q /\ r = 0
    BY <1>1, <1>2, <1>4
  <2>2. q * b \in Nat
    BY <1>1, MulNat
  <2>3. QED
    BY <1>1, <2>1, <2>2
<1>5. QED
  BY <1>3, <1>4

\* A decayed average is a natural number.
LEMMA DecayedNat ==
    ASSUME NEW n \in Nat, NEW d \in Int, NEW w \in Nat \ {0}
    PROVE  Decayed(n, d, w) \in Nat
<1>1. CASE d = 0 \/ d >= w
  BY <1>1 DEF Decayed
<1>2. CASE ~(d = 0 \/ d >= w)
  <2> DEFINE m == 2 * n
             k == w - d
             p == m * k
  <2>1. m \in Nat /\ k \in Nat
    BY <1>2
  <2> HIDE DEF m, k
  <2>2. p \in Nat
    BY <2>1, MulNat
  <2> HIDE DEF p
  <2>3. p + w \in Nat /\ 2 * w \in Nat \ {0}
    BY <2>2
  <2>4. (p + w) \div (2 * w) \in Nat
    BY <2>3, DivNat
  <2>5. Decayed(n, d, w) = (p + w) \div (2 * w)
    BY <1>2 DEF Decayed, p, m, k
  <2>6. QED
    BY <2>4, <2>5
<1>3. QED
  BY <1>1, <1>2

\* Usage over a recovery and a use: what is used is added in full, and the
\* rounding of the next recovery does not lose any of it.
LEMMA UsageGrows ==
    ASSUME NEW usage \in Nat, NEW add \in Nat, NEW last \in Int, NEW now \in Int,
           NEW w \in Nat \ {0}
    PROVE  LET recovered == RecoverEnergyUsage(usage, last, now, w)
               increased == IncreaseEnergyUsage(usage, add, last, now, w)
           IN  /\ recovered \in Nat /\ increased \in Nat
               /\ increased >= recovered + add
               /\ RecoverEnergyUsage(increased, now, now, w) \in Nat
               /\ RecoverEnergyUsage(increased, now, now, w) >= increased
<1> DEFINE P == UsagePrecision
           up == usage * P
           ap == add * P
           d == Decayed(DivideCeil(up, w), now - last, w)
           s == DivideCeil(ap, w)
           r == (d * w) \div P
           i == ((d + s) * w) \div P
           ip == i * P
           j == DivideCeil(ip, w)
           t == (j * w) \div P
<1>1. P \in Nat \ {0}
  BY EnergyAssumption
<1>2. up \in Nat /\ ap \in Nat
  BY <1>1, MulNat
<1> HIDE DEF P, up, ap
<1>3. d \in Nat /\ s \in Nat /\ s * w >= ap
  <2> DEFINE c == DivideCeil(up, w)
             e == now - last
  <2>1. c \in Nat /\ s \in Nat /\ s * w >= ap
    BY <1>2, CeilCovers
  <2>2. e \in Int
    OBVIOUS
  <2> HIDE DEF c, e
  <2>3. Decayed(c, e, w) \in Nat
    BY <2>1, <2>2, DecayedNat
  <2>4. QED
    BY <2>1, <2>3 DEF c, e
<1> HIDE DEF d, s
<1>4. d * w \in Nat /\ s * w \in Nat /\ (d + s) * w = d * w + s * w /\ (d + s) * w \in Nat
  BY <1>3, MulNat
<1>5. r \in Nat /\ r * P <= d * w
  BY <1>1, <1>4, DivBounds, DivNat
<1>6. i \in Nat
  BY <1>1, <1>4, DivNat
<1>7. i >= r + add
  <2>1. (r + add) * P = r * P + ap
    BY <1>1, <1>5 DEF ap
  <2>2. (r + add) * P <= (d + s) * w
    BY <1>1, <1>2, <1>3, <1>4, <1>5, <2>1, MulNat
  <2>3. r + add \in Int /\ (d + s) * w \in Int
    BY <1>4, <1>5
  <2> HIDE DEF r
  <2>4. r + add <= i
    BY <1>1, <2>2, <2>3, DivGreatest
  <2>5. QED
    BY <1>5, <1>6, <2>4
<1> HIDE DEF r, i
<1>8. ip \in Nat /\ ip = i * P
  BY <1>1, <1>6, MulNat
<1> HIDE DEF ip
<1>9. j \in Nat /\ j * w >= ip
  BY <1>8, CeilCovers
<1> HIDE DEF j
<1>10. j * w \in Nat
  BY <1>9, MulNat
<1>11. t \in Nat /\ i <= t
  BY <1>1, <1>6, <1>8, <1>9, <1>10, DivGreatest, DivNat
<1> HIDE DEF t
<1>12. DivideCeil(0, w) = 0
  <2>1. 0 \div w = 0 /\ 0 % w = 0
    OBVIOUS
  <2>2. QED
    BY <2>1 DEF DivideCeil
<1>13. 0 * P = 0 /\ d + 0 = d /\ j + 0 = j /\ now - now = 0
  BY <1>1, <1>3, <1>9
<1>14. RecoverEnergyUsage(usage, last, now, w) = r
  BY <1>12, <1>13 DEF RecoverEnergyUsage, IncreaseEnergyUsage, r, d, up, P
<1>15. IncreaseEnergyUsage(usage, add, last, now, w) = i
  BY DEF IncreaseEnergyUsage, i, s, d, up, ap, P
<1>16. Decayed(j, 0, w) = j
  BY DEF Decayed
<1>17. RecoverEnergyUsage(i, now, now, w) = t
  BY <1>12, <1>13, <1>16 DEF RecoverEnergyUsage, IncreaseEnergyUsage, t, j, ip, P
<1>18. QED
  BY <1>5, <1>6, <1>7, <1>11, <1>14, <1>15, <1>17

\* A quotient rounded up is less than one too much.
LEMMA CeilTight ==
    ASSUME NEW a \in Nat, NEW b \in Nat \ {0}
    PROVE  DivideCeil(a, b) * b < a + b
<1> DEFINE q == a \div b
           r == a % b
<1>1. q \in Nat /\ r \in 0 .. b - 1 /\ a = q * b + r
  <2>1. a \in Int /\ q \in Nat
    BY DivNat
  <2>2. a = q * b + r /\ r \in 0 .. b - 1
    BY <2>1, DivMod
  <2>3. QED
    BY <2>1, <2>2
<1>2. DivideCeil(a, b) = q + (IF r > 0 THEN 1 ELSE 0)
  BY DEF DivideCeil
<1> HIDE DEF q, r
<1>3. q * b \in Nat
  BY <1>1, MulNat
<1>4. CASE r > 0
  <2>1. DivideCeil(a, b) = q + 1
    BY <1>2, <1>4
  <2>2. (q + 1) * b = q * b + b
    BY <1>1
  <2>3. QED
    BY <1>1, <1>3, <1>4, <2>1, <2>2
<1>5. CASE ~(r > 0)
  <2>1. DivideCeil(a, b) = q /\ r = 0
    BY <1>1, <1>2, <1>5
  <2>2. QED
    BY <1>1, <1>3, <2>1
<1>6. QED
  BY <1>4, <1>5

\* A decayed average is not above the average, and at most a half below its
\* exact value.
LEMMA DecayedBounds ==
    ASSUME NEW n \in Nat, NEW d \in Nat, NEW w \in Nat \ {0}
    PROVE  /\ Decayed(n, d, w) <= n
           /\ d < w => 2 * (n * (w - d)) <= 2 * (Decayed(n, d, w) * w) + w
<1>1. CASE d = 0
  <2>1. Decayed(n, d, w) = n /\ w - d = w
    BY <1>1 DEF Decayed
  <2>2. n * w \in Nat
    BY MulNat
  <2>3. QED
    BY <2>1, <2>2
<1>2. CASE d # 0 /\ d >= w
  <2>1. Decayed(n, d, w) = 0
    BY <1>2 DEF Decayed
  <2>2. QED
    BY <1>2, <2>1
<1>3. CASE d # 0 /\ d < w
  <2> DEFINE k == w - d
             p == n * k
             x == 2 * p + w
             D == x \div (2 * w)
  <2>1. k \in Nat /\ k <= w
    BY <1>3
  <2>2. 2 * n * k = 2 * (n * k)
    BY <2>1
  <2>3. Decayed(n, d, w) = D
    BY <1>3, <2>2 DEF Decayed
  <2> HIDE DEF k
  <2>4. p \in Nat /\ n * w \in Nat
    BY <2>1, MulNat
  <2>5. p <= n * w
    <3>1. k * n <= w * n
      BY <2>1, MulMono
    <3>2. QED
      BY <2>1, <3>1
  <2> HIDE DEF p
  <2>6. x \in Nat /\ 2 * w \in Nat \ {0}
    BY <2>4
  <2>7. D \in Int /\ D * (2 * w) <= x /\ x < D * (2 * w) + 2 * w
    <3> DEFINE m == 2 * w
    <3>1. x \in Int /\ m \in Nat \ {0}
      BY <2>6
    <3> HIDE DEF x, m
    <3>2. x \div m \in Int /\ (x \div m) * m <= x /\ x < (x \div m) * m + m
      BY <3>1, DivBounds
    <3>3. QED
      BY <3>2 DEF m
  <2> HIDE DEF D
  <2>8. D * (2 * w) = 2 * (D * w) /\ D * w \in Int
    BY <2>7
  <2>9. D <= n
    <3>1. (n + 1) * (2 * w) = 2 * (n * w) + 2 * w
      BY <2>4
    <3>2. D * (2 * w) < (n + 1) * (2 * w)
      BY <2>4, <2>5, <2>7, <2>8, <3>1
    <3>3. n + 1 \in Int
      OBVIOUS
    <3>4. D < n + 1
      BY <2>6, <2>7, <3>2, <3>3, CancelLess
    <3>5. QED
      BY <2>7, <3>4
  <2>10. 2 * p <= 2 * (D * w) + w
    BY <2>4, <2>7, <2>8
  <2>11. QED
    BY <2>3, <2>9, <2>10 DEF p, k
<1>4. QED
  BY <1>1, <1>2, <1>3

\* The usage after a recovery and a use, up to rounding: no more than a unit
\* above what was left and what is added, and, unless time moved back, at most
\* one and a half units below what the slots that passed leave of it.
LEMMA UsageBounds ==
    ASSUME NEW usage \in Nat, NEW add \in Nat, NEW last \in Int, NEW now \in Int,
           NEW w \in Nat \ {0}, w <= UsagePrecision
    PROVE  LET recovered == RecoverEnergyUsage(usage, last, now, w)
               increased == IncreaseEnergyUsage(usage, add, last, now, w)
           IN  /\ recovered \in Nat /\ increased \in Nat
               /\ increased <= recovered + add + 1
               /\ last <= now => recovered <= usage
               /\ last = now => usage <= recovered
               /\ last <= now /\ now - last < w =>
                     2 * (usage * (w - (now - last))) + 2 * (add * w)
                        <= 2 * (increased * w) + 3 * w
<1> DEFINE P == UsagePrecision
           e == now - last
           up == usage * P
           ap == add * P
           c == DivideCeil(up, w)
           d == Decayed(c, e, w)
           s == DivideCeil(ap, w)
           r == (d * w) \div P
           i == ((d + s) * w) \div P
<1>1. P \in Nat \ {0} /\ w <= P
  BY EnergyAssumption
<1>2. up \in Nat /\ ap \in Nat /\ e \in Int
  BY <1>1, MulNat
<1>3. (0 * P) = 0 /\ DivideCeil(0, w) = 0
  <2>1. 0 \div w = 0 /\ 0 % w = 0
    OBVIOUS
  <2>2. QED
    BY <1>1, <2>1 DEF DivideCeil
<1>4. IncreaseEnergyUsage(usage, add, last, now, w) = i
  BY DEF IncreaseEnergyUsage
<1> HIDE DEF P, up, ap, e
<1>5. c \in Nat /\ c * w >= up /\ c * w < up + w /\ s \in Nat /\ s * w >= ap /\ s * w < ap + w
  BY <1>2, CeilCovers, CeilTight
<1> HIDE DEF c, s
<1>6. /\ d \in Nat
      /\ e >= 0 => d <= c /\ (e < w => 2 * (c * (w - e)) <= 2 * (d * w) + w)
  <2>1. d \in Nat
    BY <1>2, <1>5, DecayedNat
  <2>2. ASSUME e >= 0
        PROVE  d <= c /\ (e < w => 2 * (c * (w - e)) <= 2 * (d * w) + w)
    <3>1. e \in Nat
      BY <1>2, <2>2
    <3>2. QED
      BY <1>5, <3>1, DecayedBounds
  <2>3. QED
    BY <2>1, <2>2
<1>7. e = 0 => d = c
  BY DEF d, Decayed
<1> HIDE DEF d
<1>8. RecoverEnergyUsage(usage, last, now, w) = r
  <2>1. d + 0 = d
    BY <1>6
  <2>2. QED
    BY <1>3, <2>1 DEF RecoverEnergyUsage, IncreaseEnergyUsage, r, d, e, c, up, P
<1>9. d * w \in Nat /\ s * w \in Nat /\ c * w \in Nat /\ (d + s) * w = d * w + s * w
  BY <1>5, <1>6, MulNat
<1>10. (d + s) * w \in Nat
  BY <1>9
<1>11. r \in Nat /\ r * P <= d * w /\ d * w < r * P + P
  <2> DEFINE x == d * w
  <2>1. x \in Nat /\ x \in Int
    BY <1>9
  <2> HIDE DEF x
  <2>2. x \div P \in Nat /\ (x \div P) * P <= x /\ x < (x \div P) * P + P
    BY <1>1, <2>1, DivBounds, DivNat
  <2>3. QED
    BY <2>2 DEF x
<1>12. i \in Nat /\ i * P <= (d + s) * w /\ (d + s) * w < i * P + P
  <2> DEFINE x == (d + s) * w
  <2>1. x \in Nat /\ x \in Int
    BY <1>10
  <2> HIDE DEF x
  <2>2. x \div P \in Nat /\ (x \div P) * P <= x /\ x < (x \div P) * P + P
    BY <1>1, <2>1, DivBounds, DivNat
  <2>3. QED
    BY <2>2 DEF x
<1> HIDE DEF r, i
<1>13. r * P \in Nat /\ i * P \in Nat
  BY <1>1, <1>11, <1>12, MulNat
<1>14. ASSUME last <= now PROVE r <= usage
  <2>a. e >= 0
    BY <1>14 DEF e
  <2>1. d * w <= c * w
    BY <1>5, <1>6, <2>a, MulMono
  <2>2. r * P < up + P
    BY <1>1, <1>2, <1>5, <1>9, <1>11, <1>13, <2>1
  <2>3. (usage + 1) * P = up + P
    BY <1>1 DEF up
  <2>4. r < usage + 1
    BY <1>1, <1>11, <2>2, <2>3, CancelLess
  <2>5. QED
    BY <1>11, <2>4
<1>15. i <= r + add + 1
  <2>1. i * P < r * P + ap + P + P
    BY <1>1, <1>2, <1>5, <1>9, <1>11, <1>12, <1>13
  <2>2. (r + add + 2) * P = r * P + ap + P + P
    BY <1>1, <1>11 DEF ap
  <2>3. i < r + add + 2
    <3>1. r + add + 2 \in Int
      BY <1>11
    <3>2. QED
      BY <1>1, <1>12, <2>1, <2>2, <3>1, CancelLess
  <2>4. QED
    BY <1>11, <1>12, <2>3
<1>16. ASSUME last = now PROVE usage <= r
  <2>1. e = 0 /\ d = c
    BY <1>7, <1>16 DEF e
  <2>2. usage * P <= d * w
    BY <1>5, <2>1 DEF up
  <2>3. usage <= r
    BY <1>1, <1>9, <2>2, DivGreatest DEF r
  <2>4. QED
    BY <2>3
<1>17. ASSUME e >= 0, e < w
       PROVE  2 * (usage * (w - e)) + 2 * (add * w) <= 2 * (i * w) + 3 * w
  <2> DEFINE k == w - e
             A == usage * k
             B == add * w
             I == i * w
             lhs == 2 * A + 2 * B
             rhs == 2 * I + 3 * w
  <2>1. k \in Nat
    BY <1>2, <1>17
  <2> HIDE DEF k
  <2>2. A \in Nat /\ B \in Nat /\ I \in Nat
    BY <1>12, <2>1, MulNat
  <2>3. A * P <= (c * k) * w
    <3>1. up * k <= (c * w) * k
      BY <1>2, <1>5, <1>9, <2>1, MulMono
    <3>2. up * k = A * P
      BY <1>1, <2>1 DEF up
    <3>3. (c * w) * k = (c * k) * w
      BY <1>5, <2>1
    <3>4. QED
      BY <3>1, <3>2, <3>3
  <2>4. 2 * ((c * k) * w) <= 2 * ((d * w) * w) + w * w
    <3> DEFINE x == c * k
               y == d * w
    <3>1. x \in Nat /\ y \in Nat
      BY <1>5, <1>9, <2>1, MulNat
    <3>2. 2 * x <= 2 * y + w
      BY <1>6, <1>17 DEF k
    <3> HIDE DEF x, y
    <3>3. (2 * x) * w <= (2 * y + w) * w
      BY <3>1, <3>2, MulMono
    <3>4. (2 * x) * w = 2 * (x * w) /\ (2 * y + w) * w = 2 * (y * w) + w * w
      BY <3>1
    <3>5. QED
      BY <3>3, <3>4 DEF x, y
  <2>5. B * P <= (s * w) * w
    <3>1. ap * w <= (s * w) * w
      BY <1>2, <1>5, <1>9, MulMono
    <3>2. ap * w = B * P
      BY <1>1 DEF ap
    <3>3. QED
      BY <3>1, <3>2
  <2>6. (d * w) * w + (s * w) * w <= I * P + P * w
    <3>1. ((d + s) * w) * w <= (i * P + P) * w
      <4>1. i * P + P \in Int /\ (d + s) * w <= i * P + P
        BY <1>1, <1>10, <1>12, <1>13
      <4>2. QED
        BY <1>10, <4>1, MulMono
    <3>2. (i * P + P) * w = I * P + P * w
      BY <1>1, <1>12
    <3>3. ((d + s) * w) * w = (d * w) * w + (s * w) * w
      BY <1>9
    <3>4. QED
      BY <3>1, <3>2, <3>3
  <2>7. w * w <= P * w
    BY <1>1, MulMono
  <2>8. /\ (d * w) * w \in Int /\ (s * w) * w \in Int /\ (c * k) * w \in Int
        /\ w * w \in Int /\ P * w \in Int /\ A * P \in Int /\ B * P \in Int /\ I * P \in Int
    <3>1. c * k \in Int
      BY <1>5, <2>1
    <3>2. QED
      BY <1>1, <1>9, <2>2, <3>1
  <2>9. 2 * (A * P) + 2 * (B * P) <= 2 * (I * P) + 3 * (P * w)
    BY <2>3, <2>4, <2>5, <2>6, <2>7, <2>8
  <2>10. P * lhs = 2 * (A * P) + 2 * (B * P) /\ P * rhs = 2 * (I * P) + 3 * (P * w)
    BY <1>1, <2>2
  <2>11. lhs \in Int /\ rhs \in Int
    BY <2>2
  <2>12. P * lhs <= P * rhs
    BY <2>9, <2>10
  <2> HIDE DEF lhs, rhs
  <2>13. lhs <= rhs
    BY <1>1, <2>11, <2>12, CancelLeq
  <2>14. QED
    BY <2>13 DEF lhs, rhs, A, B, I, k
<1>18. ASSUME last <= now PROVE e >= 0
  BY <1>18 DEF e
<1>19. QED
  BY <1>4, <1>8, <1>11, <1>12, <1>14, <1>15, <1>16, <1>17, <1>18 DEF e

-----------------------------------------------------------------------------
(* Views: what the stores hold.                                            *)

Ages == 0 .. Window - 1
View == [exists : SUBSET Accounts, balance : [Accounts -> Int], stake : Stakes, usage : Nat,
         last : Int, now : Int, minted : Int, uncovered : SUBSET Accounts, drawn : [Ages -> Int]]

(* The balances are what was there at first and what was minted, less the  *)
(* fees burned; and none is negative without a reason.                     *)
Covered(v) == \A a \in Accounts : v.balance[a] < 0 => a \in v.uncovered
AddsUp(v, fees) == Total(v.balance) = Total(InitialBalance) + v.minted - fees

(* w keeps what the staked energy depends on.                              *)
SameEnergy(v, w) ==
    /\ w.stake = v.stake /\ w.usage = v.usage /\ w.last = v.last /\ w.now = v.now
    /\ w.drawn = v.drawn

\* The fields of a view.
LEMMA ViewFields ==
    ASSUME NEW v \in View
    PROVE  /\ v.exists \in SUBSET Accounts /\ v.balance \in [Accounts -> Int]
           /\ v.stake \in Stakes /\ v.usage \in Nat /\ v.last \in Int /\ v.now \in Int
           /\ v.minted \in Int /\ v.uncovered \in SUBSET Accounts /\ v.drawn \in [Ages -> Int]
BY DEF View

\* The total of balances is an integer; it follows one balance that changes.
LEMMA TotalUpdate ==
    ASSUME NEW f \in [Accounts -> Int], NEW a \in Accounts, NEW n \in Int
    PROVE  /\ Total(f) \in Int
           /\ [f EXCEPT ![a] = n] \in [Accounts -> Int]
           /\ Total([f EXCEPT ![a] = n]) = Total(f) - f[a] + n
<1> DEFINE g == [f EXCEPT ![a] = n]
<1>1. IsFiniteSet(Accounts)
  BY TransactionsAssumption
<1>2. /\ g \in [Accounts -> Int] /\ g[a] = n /\ \A b \in Accounts \ {a} : f[b] = g[b]
      /\ DOMAIN g = Accounts /\ DOMAIN f = Accounts
  OBVIOUS
<1> HIDE DEF g
<1>3. \A b \in Accounts : f[b] \in Int /\ g[b] \in Int
  BY <1>2
<1>4. SumFunctionOnSet(g, Accounts) = SumFunctionOnSet(f, Accounts) - f[a] + g[a]
  BY <1>1, <1>2, <1>3, SumUpdate
<1>5. SumFunctionOnSet(f, Accounts) \in Int
  BY <1>1, <1>3, SumInt
<1>6. QED
  BY <1>2, <1>4, <1>5 DEF Total, SumFunction, g

\* The accounts that exist at first hold everything.
LEMMA InitialTotal ==
    ASSUME NEW s \in Stakes
    PROVE  /\ InitialView(s) \in View /\ Covered(InitialView(s)) /\ AddsUp(InitialView(s), 0)
<1> DEFINE v == InitialView(s)
           f == [a \in Accounts |-> IF a \in DOMAIN InitialBalance THEN InitialBalance[a] ELSE 0]
           D == DOMAIN InitialBalance
<1>1. /\ IsFiniteSet(Accounts) /\ D \in SUBSET Accounts /\ \A a \in D : InitialBalance[a] \in Nat
  BY TransactionsAssumption
<1>2. f \in [Accounts -> Int] /\ \A a \in Accounts : f[a] \in Nat
  BY <1>1
<1>3. /\ \A a \in D : f[a] = InitialBalance[a]
      /\ \A a \in Accounts \ D : f[a] = 0
  BY <1>1
<1>4. /\ v.exists = D /\ v.balance = f /\ v.stake = s /\ v.usage = 0 /\ v.last = 0 /\ v.now = 0
      /\ v.minted = 0 /\ v.uncovered = {} /\ v.drawn = [age \in Ages |-> 0]
      /\ v = [exists |-> D, balance |-> f, stake |-> s, usage |-> 0, last |-> 0, now |-> 0,
              minted |-> 0, uncovered |-> {}, drawn |-> [age \in Ages |-> 0]]
  BY DEF InitialView, NothingDrawn, Ages
<1> HIDE DEF f, D, v
<1>5. v \in View
  BY <1>1, <1>2, <1>4 DEF View
<1>6. Covered(v)
  BY <1>2, <1>4 DEF Covered
<1>7. IsFiniteSet(D)
  BY <1>1, FS_Subset
<1>8. SumFunctionOnSet(f, D) = SumFunctionOnSet(InitialBalance, D)
  BY <1>3, <1>7, SumSame
<1>9. SumFunctionOnSet(f, D) = SumFunctionOnSet(f, Accounts)
  BY <1>1, <1>2, <1>3, SumWiden
<1>10. SumFunctionOnSet(f, Accounts) \in Int
  BY <1>1, <1>2, SumInt
<1>11. AddsUp(v, 0)
  <2>1. Total(v.balance) = SumFunctionOnSet(f, Accounts)
    BY <1>2, <1>4 DEF Total, SumFunction
  <2>2. Total(InitialBalance) = SumFunctionOnSet(InitialBalance, D)
    BY DEF Total, SumFunction, D
  <2>3. Total(v.balance) = Total(InitialBalance) /\ Total(InitialBalance) \in Int
    BY <1>8, <1>9, <1>10, <2>1, <2>2
  <2>4. v.minted = 0
    BY <1>4
  <2>5. QED
    BY <2>3, <2>4 DEF AddsUp
<1>12. QED
  BY <1>5, <1>6, <1>11 DEF v

\* The initial total is an integer.
LEMMA InitialInt == Total(InitialBalance) \in Int
<1> DEFINE D == DOMAIN InitialBalance
<1>1. IsFiniteSet(Accounts) /\ D \in SUBSET Accounts /\ \A a \in D : InitialBalance[a] \in Int
  BY TransactionsAssumption
<1>2. IsFiniteSet(D)
  BY <1>1, FS_Subset
<1> HIDE DEF D
<1>3. SumFunctionOnSet(InitialBalance, D) \in Int
  BY <1>1, <1>2, SumInt
<1>4. QED
  BY <1>3 DEF D, Total, SumFunction

(* The view with the balance of a set to n, and three other fields set.    *)
Set(v, a, n, m, E, U) ==
    [v EXCEPT !.exists = E, !.balance = [v.balance EXCEPT ![a] = n], !.minted = m,
              !.uncovered = U]

IsSet(w, v, a, n, m, E, U) ==
    /\ w \in View /\ SameEnergy(v, w)
    /\ w.exists = E /\ w.balance[a] = n /\ w.minted = m /\ w.uncovered = U
    /\ \A b \in Accounts \ {a} : w.balance[b] = v.balance[b]
    /\ Total(v.balance) \in Int
    /\ Total(w.balance) = Total(v.balance) - v.balance[a] + n

\* A view with one balance set, something minted and an account made.
LEMMA SetBalance ==
    ASSUME NEW v \in View, NEW a \in Accounts, NEW n \in Int, NEW m \in Int,
           NEW E \in SUBSET Accounts, NEW U \in SUBSET Accounts,
           NEW w, w = Set(v, a, n, m, E, U)
    PROVE  IsSet(w, v, a, n, m, E, U)
<1> DEFINE g == [v.balance EXCEPT ![a] = n]
<1>1. v.balance \in [Accounts -> Int] /\ v.minted \in Int
  BY ViewFields
<1>2. /\ g \in [Accounts -> Int] /\ Total(g) = Total(v.balance) - v.balance[a] + n
      /\ Total(v.balance) \in Int
  BY <1>1, TotalUpdate
<1>3. g[a] = n /\ \A b \in Accounts \ {a} : g[b] = v.balance[b]
  BY <1>1
<1> HIDE DEF g
<1>4. w = [v EXCEPT !.exists = E, !.balance = g, !.minted = m, !.uncovered = U]
  BY DEF g, Set
<1>5. /\ w \in View /\ w.exists = E /\ w.balance = g /\ w.minted = m /\ w.uncovered = U
      /\ SameEnergy(v, w)
  BY <1>2, <1>4 DEF View, SameEnergy
<1>6. QED
  BY <1>1, <1>2, <1>3, <1>5 DEF IsSet

-----------------------------------------------------------------------------
(* Transfers.                                                              *)

\* Provisioning mints what it gives and makes no balance negative.
LEMMA ProvisionedSound ==
    ASSUME NEW v \in View, Covered(v), NEW fees \in Int, AddsUp(v, fees),
           NEW a \in Accounts, NEW n \in Int, NEW w, w = Provisioned(v, a, n)
    PROVE  w \in View /\ Covered(w) /\ AddsUp(w, fees) /\ SameEnergy(v, w)
<1>1. CASE ~lenient \/ v.balance[a] >= n
  BY <1>1 DEF Provisioned, SameEnergy
<1>2. CASE ~(~lenient \/ v.balance[a] >= n)
  <2> DEFINE m == v.minted + n - v.balance[a]
             E == v.exists \cup {a}
             U == v.uncovered
  <2>1. /\ v.exists \in SUBSET Accounts /\ v.balance \in [Accounts -> Int] /\ v.minted \in Int
        /\ U \in SUBSET Accounts /\ v.balance[a] \in Int
    BY ViewFields
  <2>2. m \in Int /\ E \in SUBSET Accounts
    BY <2>1
  <2>3. w = Set(v, a, n, m, E, U)
    BY <1>2 DEF Provisioned, View, Set
  <2>4. m = v.minted + n - v.balance[a] /\ U = v.uncovered
    OBVIOUS
  <2> HIDE DEF m, E, U
  <2>5. IsSet(w, v, a, n, m, E, U)
    BY <2>1, <2>2, <2>3, SetBalance
  <2>6. AddsUp(w, fees)
    BY <2>1, <2>4, <2>5, InitialInt DEF AddsUp, IsSet
  <2>7. Covered(w)
    BY <1>2, <2>1, <2>4, <2>5 DEF Covered, IsSet
  <2>8. QED
    BY <2>5, <2>6, <2>7 DEF IsSet
<1>3. QED
  BY <1>1, <1>2

\* A transfer moves what its owner has.
LEMMA MovedSound ==
    ASSUME NEW v \in View, Covered(v), NEW fees \in Int, AddsUp(v, fees),
           NEW a \in Accounts, NEW b \in Accounts, NEW n \in Int, CanTransfer(v, a, b, n),
           NEW w, w = Moved(v, a, b, n)
    PROVE  w \in View /\ Covered(w) /\ AddsUp(w, fees) /\ SameEnergy(v, w)
<1> DEFINE m == v.minted
           E == v.exists
           U == v.uncovered
           x == v.balance[a] - n
           u == Set(v, a, x, m, E, U)
           F == E \cup {b}
           y == u.balance[b] + n
<1>1. /\ E \in SUBSET Accounts /\ v.balance \in [Accounts -> Int] /\ m \in Int
      /\ U \in SUBSET Accounts /\ v.balance[a] \in Int /\ x \in Int /\ v.balance[b] \in Int
  BY ViewFields
<1>2. a # b /\ n > 0 /\ v.balance[a] >= n
  BY DEF CanTransfer
<1>3. w = Set(u, b, y, m, F, U)
  BY <1>1, <1>2 DEF Moved, View, Set
<1> HIDE DEF m, E, U, x, u
<1>4. IsSet(u, v, a, x, m, E, U)
  BY <1>1, SetBalance DEF u
<1>5. y \in Int /\ F \in SUBSET Accounts /\ y = v.balance[b] + n
  BY <1>1, <1>2, <1>4 DEF IsSet
<1> HIDE DEF y, F
<1>6. IsSet(w, u, b, y, m, F, U)
  <2>1. u \in View
    BY <1>4 DEF IsSet
  <2>2. QED
    BY <1>1, <1>3, <1>5, <2>1, SetBalance
<1>7. AddsUp(w, fees)
  BY <1>1, <1>2, <1>4, <1>5, <1>6, InitialInt DEF AddsUp, IsSet, x, m
<1>8. Covered(w)
  BY <1>1, <1>2, <1>4, <1>5, <1>6 DEF Covered, IsSet, x, U
<1>9. SameEnergy(v, w)
  BY <1>4, <1>6 DEF SameEnergy, IsSet
<1>10. QED
  BY <1>6, <1>7, <1>8, <1>9 DEF IsSet

-----------------------------------------------------------------------------
(* Contract calls.                                                         *)

\* The limit of a stake and the energy it has left are natural numbers.
LEMMA LimitNat == ASSUME NEW s \in Stakes PROVE LimitOf(s) \in Nat
<1> DEFINE x == s[1]
           y == s[2]
           L == TotalEnergyCurrentLimit
           a == x * L
           b == TrxPrecision * y
           h == x \div TrxPrecision
           c == h * L
<1>1. x \in Nat /\ y \in Nat /\ L \in Nat /\ TrxPrecision \in Nat \ {0}
  BY TransactionsAssumption, EnergyAssumption
<1>2. LimitOf(s) = IF y <= 0 THEN 0 ELSE IF SupportUnfreezeDelay THEN a \div b ELSE c \div y
  BY DEF LimitOf, GlobalEnergyLimit
<1> HIDE DEF x, y, L
<1>3. h \in Nat
  BY <1>1, DivNat
<1> HIDE DEF h
<1>4. a \in Nat /\ b \in Nat /\ c \in Nat
  BY <1>1, <1>3, MulNat
<1>5. y > 0 => b \in Nat \ {0}
  <2>1. ASSUME y > 0 PROVE b > 0
    BY <1>1, <2>1
  <2>2. QED
    BY <1>4, <2>1
<1> HIDE DEF a, b, c
<1>6. CASE y <= 0
  BY <1>2, <1>6
<1>7. CASE y > 0
  <2>1. a \div b \in Nat /\ c \div y \in Nat
    BY <1>1, <1>4, <1>5, <1>7, DivNat
  <2>2. QED
    BY <1>2, <2>1
<1>8. QED
  BY <1>1, <1>6, <1>7

\* What the staker has left in a view, and after a use.
LEMMA StakerEnergy ==
    ASSUME NEW v \in View
    PROVE  LET r == RecoverEnergyUsage(v.usage, v.last, v.now, Window)
           IN  /\ r \in Nat /\ LimitOf(v.stake) \in Nat
               /\ CallerEnergy(v, Staker) = Max({LimitOf(v.stake) - r, 0})
               /\ CallerEnergy(v, Staker) \in Nat
<1> DEFINE r == RecoverEnergyUsage(v.usage, v.last, v.now, Window)
           L == LimitOf(v.stake)
<1>1. v.usage \in Nat /\ v.last \in Int /\ v.now \in Int /\ v.stake \in Stakes /\ 0 \in Nat
  BY ViewFields
<1>2. r \in Nat
  BY <1>1, WindowPositive, UsageGrows
<1>3. L \in Nat
  BY <1>1, LimitNat
<1>4. CallerEnergy(v, Staker) = Max({L - r, 0})
  BY DEF CallerEnergy, AvailableStakedEnergy
<1> HIDE DEF r, L
<1>5. L - r \in Int
  BY <1>2, <1>3
<1>6. Max({L - r, 0}) \in Nat
  BY <1>5, Max2
<1>7. QED
  BY <1>2, <1>3, <1>4, <1>6 DEF r, L

\* Every account's staked energy is a natural number.
LEMMA CallerEnergyNat ==
    ASSUME NEW v \in View, NEW owner
    PROVE  CallerEnergy(v, owner) \in Nat
<1>1. CASE owner = Staker
  BY <1>1, StakerEnergy
<1>2. CASE owner # Staker
  BY <1>2 DEF CallerEnergy
<1>3. QED
  BY <1>1, <1>2

\* What is taken from the stake is gone, whatever is rounded on the way.
LEMMA ChargeCosts ==
    ASSUME NEW v \in View, NEW add \in Nat, add <= CallerEnergy(v, Staker),
           NEW w \in View, w.stake = v.stake, w.now = v.now, w.last = v.now,
           w.usage = IncreaseEnergyUsage(v.usage, add, v.last, v.now, Window)
    PROVE  CallerEnergy(w, Staker) <= CallerEnergy(v, Staker) - add
<1> DEFINE r == RecoverEnergyUsage(v.usage, v.last, v.now, Window)
           q == RecoverEnergyUsage(w.usage, v.now, v.now, Window)
           L == LimitOf(v.stake)
<1>1. v.usage \in Nat /\ v.last \in Int /\ v.now \in Int
  BY ViewFields
<1>2. /\ r \in Nat /\ L \in Nat /\ CallerEnergy(v, Staker) = Max({L - r, 0})
      /\ CallerEnergy(v, Staker) \in Nat
  BY StakerEnergy
<1>3. CallerEnergy(w, Staker) = Max({L - q, 0}) /\ q \in Nat
  BY StakerEnergy
<1>4. w.usage >= r + add /\ q >= w.usage /\ w.usage \in Nat
  <2> DEFINE x == v.usage
             l == v.last
             n == v.now
             i == IncreaseEnergyUsage(x, add, l, n, Window)
  <2>1. x \in Nat /\ l \in Int /\ n \in Int
    BY <1>1
  <2> HIDE DEF x, l, n
  <2>2. /\ i \in Nat /\ i >= RecoverEnergyUsage(x, l, n, Window) + add
        /\ RecoverEnergyUsage(i, n, n, Window) >= i
    BY <2>1, WindowPositive, UsageGrows
  <2>3. w.usage = i
    BY DEF i, x, l, n
  <2> HIDE DEF i
  <2>4. QED
    BY <2>2, <2>3 DEF x, l, n
<1> HIDE DEF r, q, L
<1>5. q >= r + add
  BY <1>2, <1>3, <1>4
<1>6. L - q \in Int /\ L - r \in Int
  BY <1>2, <1>3
<1>7. Max({L - q, 0}) = (IF L - q >= 0 THEN L - q ELSE 0)
  BY <1>6, Max2
<1>8. Max({L - r, 0}) = (IF L - r >= 0 THEN L - r ELSE 0)
  BY <1>6, Max2
<1>9. QED
  BY <1>2, <1>3, <1>5, <1>7, <1>8

\* A view's staked energy depends on the fields SameEnergy lists.
LEMMA SameEnergyCosts ==
    ASSUME NEW v, NEW w, NEW owner, SameEnergy(v, w)
    PROVE  CallerEnergy(w, owner) = CallerEnergy(v, owner)
BY DEF SameEnergy, CallerEnergy

-----------------------------------------------------------------------------
(* The rate at which the stake pays.                                       *)

Slope == 2 * PeakUsage + 3 * Window

(* Of the last k slots, the current one included: those since the last use *)
(* paid nothing; all of them no more than is still used, and what each     *)
(* slot between the first of them and the last use let recover.            *)
Within(v, k) ==
    LET idle == v.now - v.last
        paid == Row(v.drawn, 0, k)
    IN  IF k <= idle THEN paid = 0
        ELSE 2 * (paid * Window) <= 2 * (v.usage * Window) + (k - 1 - idle) * Slope

Rate(v) == v.usage <= PeakUsage /\ v.last <= v.now /\ \A k \in 1 .. Window : Within(v, k)

(* Once time has moved back, the last use may lie ahead and the usage be   *)
(* any; but then nothing counts as drawn before the next use.              *)
Untouched(v) == \A age \in Ages : v.drawn[age] = 0
Steady(v) == Rate(v) \/ Untouched(v)

\* PeakUsage is above every limit.
LEMMA PeakAbove ==
    ASSUME NEW s \in Stakes
    PROVE  PeakUsage \in Nat /\ LimitOf(s) + 1 <= PeakUsage /\ Slope \in Nat
<1> DEFINE f == [k \in Stakes |-> LimitOf(k)]
           L == {LimitOf(k) : k \in Stakes}
<1>1. IsFiniteSet(Stakes) /\ \A k \in Stakes : f[k] = LimitOf(k) /\ f[k] \in Nat
  BY TransactionsAssumption, LimitNat
<1>2. \A k \in Stakes : f[k] \in Int
  BY <1>1
<1> HIDE DEF f
<1>3. PICK m \in Stakes : \A y \in Stakes : f[y] <= f[m]
  BY <1>1, <1>2, GreatestValue
<1>4. f[m] \in L /\ \A y \in L : f[m] >= y /\ y \in Nat
  BY <1>1, <1>3
<1>5. Max(L) \in L /\ \A y \in L : Max(L) >= y
  <2> HIDE DEF L
  <2>1. \E x \in L : \A y \in L : x >= y
    BY <1>4
  <2>2. QED
    BY <2>1 DEF Max
<1>6. Max(L) \in Nat /\ LimitOf(s) <= Max(L) /\ LimitOf(s) \in Nat
  BY <1>4, <1>5, LimitNat
<1>7. PeakUsage = Max(L) + 1
  BY DEF PeakUsage
<1> HIDE DEF L
<1>8. QED
  BY <1>6, <1>7, WindowPositive DEF Slope

\* What is drawn is a row of integers.
LEMMA DrawnRow ==
    ASSUME NEW v \in View, NEW k \in 0 .. Window
    PROVE  IntRow(v.drawn, 0, k) /\ Row(v.drawn, 0, k) \in Int
<1>1. v.drawn \in [Ages -> Int] /\ Window \in Nat
  BY ViewFields, WindowPositive
<1>2. IntRow(v.drawn, 0, k)
  BY <1>1 DEF IntRow, Ages
<1>3. QED
  BY <1>2, RowSum

\* Nothing is drawn at first.
LEMMA RateInitial ==
    ASSUME NEW s \in Stakes, NEW v, v = InitialView(s)
    PROVE  Rate(v)
<1>1. /\ v.usage = 0 /\ v.last = 0 /\ v.now = 0 /\ Window \in Nat \ {0}
      /\ v.drawn = [age \in 0 .. Window - 1 |-> 0]
  BY WindowPositive DEF InitialView, NothingDrawn
<1>2. PeakUsage \in Nat /\ Slope \in Nat
  BY PeakAbove
<1>3. ASSUME NEW k \in 1 .. Window PROVE Within(v, k)
  <2>1. Row(v.drawn, 0, k) = 0
    <3>1. \A c \in 0 .. k - 1 : v.drawn[c] = 0
      BY <1>1
    <3>2. 0 \in Int /\ k \in Int
      OBVIOUS
    <3>3. QED
      BY <3>1, <3>2, RowZero
  <2>2. k - 1 - 0 \in Nat /\ ~(k <= 0 - 0) /\ v.now - v.last = 0
    BY <1>1
  <2>3. (k - 1 - 0) * Slope \in Nat
    BY <1>2, <2>2, MulNat
  <2>4. QED
    BY <1>1, <2>1, <2>2, <2>3 DEF Within
<1>4. QED
  BY <1>1, <1>2, <1>3 DEF Rate

\* Slots pass.
LEMMA RateAges ==
    ASSUME NEW v \in View, Rate(v), NEW p \in Nat, NEW w \in View,
           w.usage = v.usage, w.last = v.last, w.now = v.now + p,
           w.drawn = [age \in Ages |-> IF age < p THEN 0 ELSE v.drawn[age - p]]
    PROVE  Rate(w)
<1>1. /\ Window \in Nat \ {0} /\ v.drawn \in [Ages -> Int] /\ v.usage \in Nat /\ v.last \in Int
      /\ v.now \in Int /\ v.last <= v.now /\ v.usage <= PeakUsage
  BY WindowPositive, ViewFields DEF Rate
<1>2. ASSUME NEW k \in 1 .. Window PROVE Within(w, k)
  <2> DEFINE idle == v.now - v.last
  <2>1. w.now - w.last = idle + p /\ idle \in Nat
    BY <1>1
  <2>2. CASE k <= p
    <3>1. Row(w.drawn, 0, k) = 0
      <4>1. \A c \in 0 .. k - 1 : w.drawn[c] = 0
        BY <1>1, <2>2 DEF Ages
      <4>2. 0 \in Int /\ k \in Int
        OBVIOUS
      <4>3. QED
        BY <4>1, <4>2, RowZero
    <3>2. k <= idle + p
      BY <2>1, <2>2
    <3>3. QED
      BY <2>1, <3>1, <3>2 DEF Within
  <2>3. CASE p < k
    <3> DEFINE n == k - p
    <3>1. n \in 1 .. Window /\ n \in 0 .. Window /\ n \in Nat /\ p + n = k
      BY <1>1, <2>3
    <3>2. IntRow(v.drawn, 0, n)
      BY <3>1, DrawnRow
    <3>3. MovedRow(w.drawn, v.drawn, p, n)
      <4>1. \A c \in 0 .. p - 1 : w.drawn[c] = 0
        BY <1>1, <2>3 DEF Ages
      <4>2. ASSUME NEW c \in 0 .. n - 1 PROVE w.drawn[p + c] = v.drawn[c]
        <5>1. p + c \in Ages /\ ~(p + c < p) /\ (p + c) - p = c
          BY <1>1, <3>1 DEF Ages
        <5>2. QED
          BY <5>1
      <4>3. QED
        BY <4>1, <4>2 DEF MovedRow
    <3>4. Within(v, n)
      BY <3>1 DEF Rate
    <3> HIDE DEF n
    <3>5. Row(w.drawn, 0, k) = Row(v.drawn, 0, n)
      BY <3>1, <3>2, <3>3, RowShift
    <3>6. (k <= idle + p <=> n <= idle) /\ k - 1 - (idle + p) = n - 1 - idle
      BY <2>1, <3>1
    <3> HIDE DEF idle
    <3>7. QED
      BY <2>1, <3>4, <3>5, <3>6 DEF Within, idle
  <2>4. QED
    BY <2>2, <2>3
<1>3. w.last <= w.now /\ w.usage <= PeakUsage
  BY <1>1
<1>4. QED
  BY <1>2, <1>3 DEF Rate

\* Whatever the usage and the time of the last use, a use leaves no more usage
\* than the limit and the rounding.
LEMMA UseWithinPeak ==
    ASSUME NEW v \in View, NEW add \in Nat, add > 0, add <= CallerEnergy(v, Staker),
           NEW i, i = IncreaseEnergyUsage(v.usage, add, v.last, v.now, Window)
    PROVE  i \in Nat /\ i <= PeakUsage /\ add <= i
<1> DEFINE u == v.usage
           l == v.last
           n == v.now
           W == Window
           r == RecoverEnergyUsage(u, l, n, W)
           L == LimitOf(v.stake)
<1>1. /\ u \in Nat /\ l \in Int /\ n \in Int /\ W \in Nat \ {0} /\ W <= UsagePrecision
      /\ v.stake \in Stakes
  BY ViewFields, WindowPositive, TransactionsAssumption
<1>2. PeakUsage \in Nat /\ L + 1 <= PeakUsage /\ L \in Nat
  BY <1>1, PeakAbove, LimitNat
<1>3. i = IncreaseEnergyUsage(u, add, l, n, W)
  OBVIOUS
<1>4. CallerEnergy(v, Staker) = Max({L - r, 0})
  BY StakerEnergy
<1> HIDE DEF u, l, n, W, L
<1>5. r \in Nat /\ i \in Nat /\ i <= r + add + 1 /\ i >= r + add
  <2> DEFINE j == IncreaseEnergyUsage(u, add, l, n, W)
  <2>1. r \in Nat /\ j \in Nat /\ j <= r + add + 1
    BY <1>1, UsageBounds
  <2>2. j >= r + add
    BY <1>1, UsageGrows
  <2>3. i = j
    BY <1>3
  <2> HIDE DEF r, j
  <2>4. QED
    BY <2>1, <2>2, <2>3
<1> HIDE DEF r
<1>6. add <= L - r
  <2>1. L - r \in Int
    BY <1>2, <1>5
  <2>2. Max({L - r, 0}) = IF L - r >= 0 THEN L - r ELSE 0
    BY <2>1, Max2
  <2>3. QED
    BY <1>4, <2>1, <2>2
<1>7. QED
  BY <1>2, <1>5, <1>6

\* A use: what the slots since the last one let recover, and the use, are
\* within the new usage.
LEMMA UsageKeepsRate ==
    ASSUME NEW v \in View, Rate(v), NEW add \in Nat, add <= CallerEnergy(v, Staker),
           NEW i, i = IncreaseEnergyUsage(v.usage, add, v.last, v.now, Window)
    PROVE  /\ i \in Nat /\ i <= PeakUsage /\ add <= i
           /\ v.now - v.last < Window =>
                 2 * ((v.usage + add) * Window) <= 2 * (i * Window) + (v.now - v.last) * Slope
<1> DEFINE u == v.usage
           l == v.last
           n == v.now
           W == Window
           r == RecoverEnergyUsage(u, l, n, W)
           e == n - l
<1>1. /\ u \in Nat /\ l \in Int /\ n \in Int /\ W \in Nat \ {0} /\ W <= UsagePrecision /\ l <= n
      /\ u <= PeakUsage /\ v.stake \in Stakes
  BY ViewFields, WindowPositive, TransactionsAssumption DEF Rate
<1>2. PeakUsage \in Nat /\ Slope \in Nat
  BY <1>1, PeakAbove
<1>3. i = IncreaseEnergyUsage(u, add, l, n, W)
  OBVIOUS
<1>4. add > 0 => i <= PeakUsage
  BY UseWithinPeak
<1> HIDE DEF u, l, n, W
<1>5. /\ r \in Nat /\ i \in Nat /\ r <= u /\ i <= r + add + 1 /\ (l = n => u <= r)
      /\ e < W => 2 * (u * (W - e)) + 2 * (add * W) <= 2 * (i * W) + 3 * W
      /\ i >= r + add
  <2> DEFINE j == IncreaseEnergyUsage(u, add, l, n, W)
             k == 2 * (u * (W - e)) + 2 * (add * W)
             m == 2 * (j * W) + 3 * W
  <2>1. /\ r \in Nat /\ j \in Nat /\ j <= r + add + 1
        /\ l <= n => r <= u
        /\ l = n => u <= r
        /\ l <= n /\ e < W => k <= m
    BY <1>1, UsageBounds
  <2>2. j >= r + add
    BY <1>1, UsageGrows
  <2>3. i = j
    BY <1>3
  <2>4. m = 2 * (i * W) + 3 * W
    BY <2>3
  <2> HIDE DEF r, j, k, m, e
  <2>5. /\ r \in Nat /\ i \in Nat /\ r <= u /\ i <= r + add + 1 /\ (l = n => u <= r)
        /\ e < W => k <= m
        /\ i >= r + add
    BY <1>1, <2>1, <2>2, <2>3
  <2>6. QED
    BY <2>4, <2>5 DEF k
<1>6. i >= r + add
  BY <1>5
<1> HIDE DEF r
<1>8. add <= i
  BY <1>5, <1>6
<1>9. i <= PeakUsage
  <2>1. CASE add # 0
    BY <1>4, <2>1
  <2>2. CASE add = 0
    <3>1. i = r
      BY <1>3, <2>2 DEF r, RecoverEnergyUsage
    <3>2. QED
      BY <1>1, <1>2, <1>5, <3>1
  <2>3. QED
    BY <2>1, <2>2
<1>10. ASSUME e < W PROVE 2 * ((u + add) * W) <= 2 * (i * W) + e * Slope
  <2>1. e \in Nat
    BY <1>1
  <2>2. CASE e = 0
    <3>1. u + add <= i
      BY <1>1, <1>5, <1>6, <2>2
    <3>2. (u + add) * W <= i * W
      <4>1. u + add \in Int /\ i \in Int /\ W \in Nat
        BY <1>1, <1>5
      <4>2. QED
        BY <3>1, <4>1, MulMono
    <3>3. e * Slope = 0 /\ (u + add) * W \in Int /\ i * W \in Int
      BY <1>1, <1>2, <1>5, <2>2
    <3>4. QED
      BY <3>2, <3>3
  <2>3. CASE e # 0
    <3> HIDE DEF e
    <3> DEFINE P == PeakUsage
    <3>1. P \in Nat /\ u <= P /\ Slope = 2 * P + 3 * W
      BY <1>1, <1>2 DEF Slope, W
    <3> HIDE DEF P
    <3>2. u * e <= P * e
      BY <1>1, <2>1, <3>1, MulMono
    <3>3. W <= e * W
      <4>1. 1 <= e
        BY <2>1, <2>3
      <4>2. 1 * W <= e * W
        BY <1>1, <2>1, <4>1, MulMono
      <4>3. QED
        BY <1>1, <4>2
    <3>4. e * (2 * P + 3 * W) = 2 * (P * e) + 3 * (e * W)
      BY <1>1, <2>1, <3>1
    <3>5. u * (W - e) = u * W - u * e /\ (u + add) * W = u * W + add * W
      BY <1>1, <2>1
    <3>6. /\ u * W \in Int /\ u * e \in Int /\ P * e \in Int /\ e * W \in Int /\ add * W \in Int
          /\ i * W \in Int
      BY <1>1, <1>5, <2>1, <3>1
    <3>7. 2 * (u * (W - e)) + 2 * (add * W) <= 2 * (i * W) + 3 * W
      BY <1>5, <1>10
    <3> DEFINE a == u * W
               b == u * e
               c == P * e
               d == e * W
               f == add * W
               g == i * W
    <3>8. /\ a \in Int /\ b \in Int /\ c \in Int /\ d \in Int /\ f \in Int /\ g \in Int
          /\ b <= c /\ W <= d /\ 2 * (a - b) + 2 * f <= 2 * g + 3 * W
      BY <3>2, <3>3, <3>5, <3>6, <3>7
    <3>9. 2 * ((u + add) * W) = 2 * (a + f) /\ e * Slope = 2 * c + 3 * d
      BY <3>1, <3>4, <3>5
    <3> HIDE DEF a, b, c, d, f
    <3>10. 2 * (a + f) <= 2 * g + (2 * c + 3 * d)
      <4> HIDE DEF g
      <4>1. QED
        BY <1>1, <3>8
    <3>11. QED
      BY <3>9, <3>10
  <2>4. QED
    BY <2>2, <2>3
<1>11. QED
  BY <1>5, <1>8, <1>9, <1>10 DEF u, l, n, W

\* A use of the stake keeps the rate.
LEMMA RateDraws ==
    ASSUME NEW v \in View, Rate(v), NEW add \in Nat, add <= CallerEnergy(v, Staker),
           NEW w \in View, w.now = v.now, w.last = v.now,
           w.usage = IncreaseEnergyUsage(v.usage, add, v.last, v.now, Window),
           w.drawn = [v.drawn EXCEPT ![0] = @ + add]
    PROVE  Rate(w)
<1> DEFINE i == w.usage
           idle == v.now - v.last
           W == Window
           u == v.usage
<1>1. /\ W \in Nat \ {0} /\ v.drawn \in [Ages -> Int] /\ u \in Nat /\ idle \in Nat
      /\ v.now \in Int /\ Slope \in Nat /\ 0 \in Ages
  <2>1. /\ W \in Nat \ {0} /\ v.drawn \in [Ages -> Int] /\ u \in Nat
        /\ v.now \in Int /\ v.last \in Int /\ v.stake \in Stakes /\ v.last <= v.now
    BY WindowPositive, ViewFields DEF Rate
  <2>2. Slope \in Nat
    BY <2>1, PeakAbove
  <2>3. 0 \in Ages
    BY <2>1 DEF Ages
  <2>4. idle \in Nat
    BY <2>1
  <2>5. QED
    BY <2>1, <2>2, <2>3, <2>4
<1>2. /\ i \in Nat /\ i <= PeakUsage /\ add <= i
      /\ idle < W => 2 * ((u + add) * W) <= 2 * (i * W) + idle * Slope
  BY UsageKeepsRate
<1>3. ASSUME NEW k \in 1 .. W PROVE Within(w, k)
  <2> DEFINE R == Row(v.drawn, 0, k)
             Q == Row(w.drawn, 0, k)
  <2>1. IntRow(v.drawn, 0, k) /\ IntRow(w.drawn, 0, k) /\ R \in Int /\ Q \in Int
    <3>1. k \in 0 .. Window
      BY <1>1
    <3>2. QED
      BY <3>1, DrawnRow
  <2>2. Q = R + add
    <3>1. /\ \A c \in (0 .. k - 1) \ {0} : v.drawn[c] = w.drawn[c]
          /\ w.drawn[0] = v.drawn[0] + add /\ v.drawn[0] \in Int
      BY <1>1 DEF Ages
    <3>2. AgreeBut(v.drawn, w.drawn, 0, 0, k)
      BY <3>1 DEF AgreeBut
    <3> DEFINE f == v.drawn
               g == w.drawn
    <3>3. IntRow(f, 0, k) /\ IntRow(g, 0, k) /\ AgreeBut(f, g, 0, 0, k)
      BY <2>1, <3>2
    <3> HIDE DEF f, g
    <3>4. Row(g, 0, k) = Row(f, 0, k) - f[0] + g[0]
      BY ONLY <3>3, RowUpdate
    <3>5. QED
      BY <2>1, <3>1, <3>4 DEF f, g
  <2>3. w.now - w.last = 0 /\ ~(k <= 0) /\ k - 1 - 0 = k - 1
    BY <1>1
  <2>4. Within(v, k)
    BY DEF Rate
  <2>5. (k - 1) * Slope \in Nat
    <3>1. k - 1 \in Nat
      OBVIOUS
    <3>2. QED
      BY <1>1, <3>1, MulNat
  <2>6. 2 * (Q * W) <= 2 * (i * W) + (k - 1) * Slope
    <3>1. CASE k <= idle
      <4>1. R = 0
        BY <2>4, <3>1 DEF Within
      <4>2. Q * W <= i * W
        <5>1. Q = add /\ add \in Int /\ i \in Int /\ W \in Nat
          BY <1>1, <1>2, <2>1, <2>2, <4>1
        <5>2. add * W <= i * W
          BY <1>2, <5>1, MulMono
        <5>3. QED
          BY <5>1, <5>2
      <4>3. Q * W \in Int /\ i * W \in Int
        BY <1>1, <1>2, <2>1
      <4>4. QED
        BY <2>5, <4>2, <4>3
    <3>2. CASE ~(k <= idle)
      <4> DEFINE m == k - 1 - idle
      <4>1. 2 * (R * W) <= 2 * (u * W) + m * Slope
        BY <2>4, <3>2 DEF Within
      <4>2. idle < W /\ m \in Nat /\ k - 1 = m + idle
        BY <1>1, <3>2
      <4>3. 2 * ((u + add) * W) <= 2 * (i * W) + idle * Slope
        BY <1>2, <4>2
      <4> HIDE DEF m, idle, u, W, i
      <4>4. /\ (R + add) * W = R * W + add * W /\ (u + add) * W = u * W + add * W
            /\ (m + idle) * Slope = m * Slope + idle * Slope
        BY <1>1, <2>1, <4>2
      <4>5. /\ R * W \in Int /\ add * W \in Int /\ u * W \in Int /\ m * Slope \in Int
            /\ idle * Slope \in Int /\ i * W \in Int
        BY <1>1, <1>2, <2>1, <4>2
      <4>6. 2 * (R * W) + 2 * (add * W) <= 2 * (i * W) + (m * Slope + idle * Slope)
        BY <4>1, <4>3, <4>4, <4>5
      <4>7. Q * W = R * W + add * W /\ (k - 1) * Slope = m * Slope + idle * Slope
        BY <2>2, <4>2, <4>4
      <4>8. QED
        BY <4>5, <4>6, <4>7
    <3>3. QED
      BY <3>1, <3>2
  <2>7. QED
    BY <2>3, <2>6 DEF Within
<1>4. QED
  BY <1>1, <1>2, <1>3 DEF Rate

\* A use of a stake of which nothing counts as drawn.
LEMMA RateStarts ==
    ASSUME NEW v \in View, Untouched(v), NEW add \in Nat, add <= CallerEnergy(v, Staker),
           NEW w \in View, w.now = v.now, w.last = v.now,
           w.usage = IncreaseEnergyUsage(v.usage, add, v.last, v.now, Window),
           w.drawn = [v.drawn EXCEPT ![0] = @ + add]
    PROVE  Steady(w)
<1> DEFINE i == w.usage
           W == Window
<1>1. /\ W \in Nat \ {0} /\ v.drawn \in [Ages -> Int] /\ v.now \in Int /\ Slope \in Nat
      /\ 0 \in Ages /\ Ages = 0 .. W - 1
  BY WindowPositive, ViewFields, PeakAbove DEF Ages
<1>2. \A age \in Ages : w.drawn[age] = (IF age = 0 THEN add ELSE 0)
  BY <1>1 DEF Untouched
<1>3. CASE add = 0
  BY <1>2, <1>3 DEF Steady, Untouched
<1>4. CASE add # 0
  <2>1. i \in Nat /\ i <= PeakUsage /\ add <= i
    BY <1>4, UseWithinPeak
  <2>2. ASSUME NEW k \in 1 .. W PROVE Within(w, k)
    <3> DEFINE Q == Row(w.drawn, 0, k)
               zero == [age \in Ages |-> 0]
    <3>1. IntRow(w.drawn, 0, k) /\ IntRow(zero, 0, k)
      <4>1. k \in 0 .. Window
        BY <1>1
      <4>2. IntRow(w.drawn, 0, k)
        BY <4>1, DrawnRow
      <4>3. QED
        BY <1>1, <4>2 DEF IntRow
    <3>2. \A c \in 0 .. k - 1 : c \in Ages /\ zero[c] = 0
      BY <1>1
    <3>3. AgreeBut(zero, w.drawn, 0, 0, k)
      BY <1>2, <3>2 DEF AgreeBut
    <3>4. Row(zero, 0, k) = 0
      <4>1. 0 \in Int /\ k \in Int
        OBVIOUS
      <4>2. QED
        BY <3>2, <4>1, RowZero
    <3>5. zero[0] = 0 /\ w.drawn[0] = add
      BY <1>1, <1>2
    <3> DEFINE g == w.drawn
    <3> HIDE DEF zero, g
    <3>6. Row(g, 0, k) = Row(zero, 0, k) - zero[0] + g[0]
      <4>1. IntRow(zero, 0, k) /\ IntRow(g, 0, k) /\ AgreeBut(zero, g, 0, 0, k)
        BY <3>1, <3>3 DEF g
      <4>2. QED
        BY ONLY <4>1, RowUpdate
    <3>7. Q = add
      BY <3>4, <3>5, <3>6 DEF g
    <3>8. add * W <= i * W
      <4>1. add \in Int /\ i \in Int /\ W \in Nat
        BY <1>1, <2>1
      <4> HIDE DEF W, i
      <4>2. QED
        BY <2>1, <4>1, MulMono
    <3>9. (k - 1) * Slope \in Nat
      <4>1. k - 1 \in Nat
        OBVIOUS
      <4>2. QED
        BY <1>1, <4>1, MulNat
    <3>10. w.now - w.last = 0 /\ ~(k <= 0) /\ k - 1 - 0 = k - 1
      BY <1>1
    <3>11. add * W \in Int /\ i * W \in Int
      BY <1>1, <2>1
    <3>12. 2 * (Q * W) <= 2 * (i * W) + (k - 1) * Slope
      BY <3>7, <3>8, <3>9, <3>11
    <3>13. QED
      BY <3>10, <3>12 DEF Within
  <2>3. QED
    BY <1>1, <2>1, <2>2 DEF Steady, Rate
<1>5. QED
  BY <1>3, <1>4

\* A view that keeps the rate has not paid out more than the stake gives in one
\* window.
LEMMA RateBounds ==
    ASSUME NEW v \in View, Steady(v)
    PROVE  Total(v.drawn) <= PeakUsage + ((Window - 1) * Slope) \div (2 * Window)
<1> DEFINE W == Window
           P == PeakUsage
           R == Row(v.drawn, 0, W)
           x == (W - 1) * Slope
           y == 2 * W
           q == x \div y
<1>1. /\ W \in Nat \ {0} /\ P \in Nat /\ Slope \in Nat /\ v.drawn \in [Ages -> Int]
      /\ v.usage \in Nat /\ v.last \in Int /\ v.now \in Int
  BY WindowPositive, PeakAbove, ViewFields
<1>2. W \in 1 .. W /\ W \in 0 .. W /\ W - 1 \in Nat
  BY <1>1
<1>3. R \in Int
  BY <1>2, DrawnRow
<1>4. Total(v.drawn) = R
  <2>1. [c \in 0 .. W - 1 |-> v.drawn[c]] = v.drawn
    BY <1>1 DEF Ages
  <2>2. QED
    BY <2>1 DEF Row, Total
<1>5. x \in Nat /\ y \in Nat \ {0}
  BY <1>1, <1>2, MulNat
<1>6. CASE Untouched(v)
  <2>1. R = 0
    <3>1. \A c \in 0 .. W - 1 : v.drawn[c] = 0
      BY <1>6 DEF Untouched, Ages
    <3>2. 0 \in Int /\ W \in Int
      BY <1>1
    <3>3. QED
      BY <3>1, <3>2, RowZero
  <2> HIDE DEF W, P, R, x, y
  <2>2. q \in Nat
    BY <1>5, DivNat
  <2>3. QED
    BY <1>1, <1>4, <2>1, <2>2 DEF q, x, y, W, P
<1>7. CASE Rate(v)
  <2>1. (R - P) * y <= x \/ R = 0
    <3> DEFINE idle == v.now - v.last
               u == v.usage
               m == W - 1 - idle
    <3>1. Within(v, W) /\ v.last <= v.now /\ u <= P
      BY <1>2, <1>7 DEF Rate
    <3>2. CASE W <= idle
      BY <3>1, <3>2 DEF Within
    <3>3. CASE ~(W <= idle)
      <4>1. 2 * (R * W) <= 2 * (u * W) + m * Slope
        BY <3>1, <3>3 DEF Within
      <4>2. m \in Int /\ m <= W - 1 /\ u \in Int /\ u <= P /\ W \in Nat /\ W - 1 \in Int
        BY <1>1, <1>2, <3>1
      <4> HIDE DEF m, W, P, R, u, idle
      <4>3. u * W <= P * W
        BY <1>1, <4>2, MulMono
      <4>4. m * Slope <= (W - 1) * Slope
        BY <1>1, <4>2, MulMono
      <4>5. (R - P) * (2 * W) = 2 * (R * W) - 2 * (P * W)
        BY <1>1, <1>3
      <4>6. /\ R * W \in Int /\ P * W \in Int /\ u * W \in Int /\ m * Slope \in Int
            /\ (W - 1) * Slope \in Int
        BY <1>1, <1>3, <4>2
      <4>7. QED
        BY <4>1, <4>3, <4>4, <4>5, <4>6
    <3>4. QED
      BY <3>2, <3>3
  <2> HIDE DEF W, P, R, x, y
  <2>2. q \in Nat
    BY <1>5, DivNat
  <2>3. R <= P + q
    <3>1. CASE R = 0
      BY <1>1, <2>2, <3>1
    <3>2. CASE (R - P) * y <= x
      <4>1. R - P \in Int /\ x \in Int
        BY <1>1, <1>3, <1>5
      <4>2. R - P <= q
        BY <1>5, <3>2, <4>1, DivGreatest
      <4>3. QED
        BY <1>1, <1>3, <2>2, <4>2
    <3>3. QED
      BY <2>1, <3>1, <3>2
  <2>4. QED
    BY <1>4, <2>3 DEF q, x, y, W, P
<1>8. QED
  BY <1>6, <1>7 DEF Steady

-----------------------------------------------------------------------------
(* The bill of a contract call, and what contracts leave.                  *)

BillOf(used, energy) ==
    Compute([energyUsed |-> used, callerEnergy |-> energy, originEnergy |-> 0,
             callerIsOrigin |-> FALSE, consumeUserPercent |-> 100, originEnergyLimit |-> 0,
             energyPrice |-> EnergyFee])

\* The bill: stake first, the rest at the energy price.
LEMMA BillPays ==
    ASSUME NEW used \in Nat, NEW energy \in Nat, NEW bill, bill = BillOf(used, energy)
    PROVE  /\ bill.energyUsage \in Nat /\ bill.energyUsage <= energy /\ bill.energyUsage <= used
           /\ bill.energyUsage = used \/ bill.energyUsage = energy
           /\ bill.energyFee \in Nat
           /\ bill.energyFee = (used - bill.energyUsage) * EnergyPrice(EnergyFee)
           /\ EnergyPrice(EnergyFee) \in Nat \ {0}
<1> DEFINE price == EnergyPrice(EnergyFee)
           b == [energyUsed |-> used, callerEnergy |-> energy, originEnergy |-> 0,
                 callerIsOrigin |-> FALSE, consumeUserPercent |-> 100, originEnergyLimit |-> 0,
                 energyPrice |-> EnergyFee]
<1>1. price \in Nat \ {0}
  BY TransactionsAssumption, EnergyAssumption DEF EnergyPrice
<1>2. /\ b.energyUsed = used /\ b.callerEnergy = energy /\ b.energyPrice = EnergyFee
      /\ b.originEnergy = 0 /\ b.consumeUserPercent = 100 /\ b.originEnergyLimit = 0
      /\ ~b.callerIsOrigin
  OBVIOUS
<1>3. bill = Compute(b)
  BY DEF BillOf
<1> HIDE DEF b, price
<1>4. CASE used = 0
  <2>1. bill = NoBill
    BY <1>2, <1>3, <1>4 DEF Compute
  <2>2. QED
    BY <1>1, <1>4, <2>1 DEF NoBill, price
<1>5. CASE used # 0
  <2>1. OriginUsage(b) = 0
    <3>1. Max({100 - b.consumeUserPercent, 0}) = 0
      BY <1>2, Max2
    <3>2. (b.energyUsed * 0) \div 100 = 0
      BY <1>2
    <3>3. Min({0, 0}) = 0
      BY Min2
    <3>4. QED
      BY <1>2, <3>1, <3>2, <3>3 DEF OriginUsage
  <2> DEFINE staked == Min({energy, used})
  <2>2. staked \in Nat /\ staked <= used /\ staked <= energy /\ (staked = used \/ staked = energy)
    BY Min2
  <2>3. bill.energyUsage = staked /\ bill.energyFee = (used - staked) * price
    BY <1>2, <1>3, <1>5, <2>1 DEF Compute, price
  <2> HIDE DEF staked
  <2>4. used - staked \in Nat
    BY <2>2
  <2>5. (used - staked) * price \in Nat
    BY <1>1, <2>4, MulNat
  <2>6. QED
    BY <1>1, <2>2, <2>3, <2>5 DEF price
<1>6. QED
  BY <1>4, <1>5

\* The fee never exceeds what is left of the balance after the call value.
LEMMA FeeCovered ==
    ASSUME NEW used \in Nat, NEW energy \in Nat, NEW balance \in Int, NEW value \in Int,
           NEW limit \in Int, NEW bill, bill = BillOf(used, energy),
           used <= Max({AccountEnergyLimit(energy, balance, value, limit, EnergyFee), 0})
    PROVE  bill.energyFee <= (IF balance >= value THEN balance - value ELSE 0)
<1> DEFINE price == EnergyPrice(EnergyFee)
           spend == IF balance >= value THEN balance - value ELSE 0
           n == spend \div price
           m == limit \div price
           u == bill.energyUsage
<1>1. /\ u \in Nat /\ u <= energy /\ u <= used /\ (u = used \/ u = energy)
      /\ bill.energyFee = (used - u) * price /\ price \in Nat \ {0}
  BY BillPays
<1>2. spend \in Nat
  OBVIOUS
<1>3. Max({balance - value, 0}) = spend
  <2>1. balance - value \in Int
    OBVIOUS
  <2>2. Max({balance - value, 0}) = (IF balance - value >= 0 THEN balance - value ELSE 0)
    BY <2>1, Max2
  <2>3. QED
    BY <2>2
<1>4. AccountEnergyLimit(energy, balance, value, limit, EnergyFee) = Min({energy + n, m})
  BY <1>3 DEF AccountEnergyLimit
<1> HIDE DEF price, spend, u
<1>5. n \in Nat /\ m \in Int /\ n * price <= spend
  BY <1>1, <1>2, DivNat, DivBounds
<1> HIDE DEF n, m
<1>6. used <= energy + n
  <2> DEFINE k == Min({energy + n, m})
  <2>1. energy + n \in Int
    BY <1>5
  <2>2. k \in Int /\ k <= energy + n
    <3>1. k = (IF energy + n <= m THEN energy + n ELSE m)
      BY <1>5, <2>1, Min2
    <3>2. QED
      BY <1>5, <3>1
  <2> HIDE DEF k
  <2>3. Max({k, 0}) = (IF k >= 0 THEN k ELSE 0)
    BY <2>2, Max2
  <2>4. used <= Max({k, 0})
    BY <1>4 DEF k
  <2>5. QED
    BY <1>5, <2>2, <2>3, <2>4
<1>7. used - u \in Int /\ used - u <= n
  BY <1>1, <1>5, <1>6
<1>8. (used - u) * price <= n * price
  BY <1>1, <1>5, <1>7, MulMono
<1>9. (used - u) * price \in Int /\ n * price \in Int
  BY <1>1, <1>5, <1>7
<1>10. QED
  BY <1>1, <1>2, <1>5, <1>8, <1>9 DEF spend

(* Nobody has less in w than in v, but a by what moves.                    *)
Shift(w, v, a, n) ==
    /\ w \in View /\ SameEnergy(v, w) /\ w.uncovered = v.uncovered
    /\ \A c \in Accounts :
          /\ w.balance[c] \in Int /\ w.balance[c] >= v.balance[c] - n
          /\ c # a \/ n = 0 => w.balance[c] >= v.balance[c]

\* What moves leaves one account and reaches another, or none.
LEMMA ShiftedSound ==
    ASSUME NEW v \in View, NEW fees \in Int, AddsUp(v, fees), NEW a \in Accounts,
           NEW b \in Accounts, NEW n \in Int, NEW w, w = Shifted(v, a, b, n)
    PROVE  AddsUp(w, fees) /\ Shift(w, v, a, IF n > 0 THEN n ELSE 0)
<1>1. /\ v.exists \in SUBSET Accounts /\ v.balance \in [Accounts -> Int] /\ v.minted \in Int
      /\ v.uncovered \in SUBSET Accounts /\ \A c \in Accounts : v.balance[c] \in Int
  BY ViewFields
<1>2. CASE n <= 0
  <2>1. w = v
    BY <1>2 DEF Shifted
  <2>2. QED
    BY <1>1, <1>2, <2>1 DEF Shift, SameEnergy
<1>3. CASE ~(n <= 0)
  <2> DEFINE m == v.minted
             E == v.exists \cup {a, b}
             U == v.uncovered
             x == v.balance[a] - n
             u == Set(v, a, x, m, E, U)
             y == u.balance[b] + n
  <2>1. E \in SUBSET Accounts /\ U \in SUBSET Accounts /\ m \in Int /\ x \in Int
    BY <1>1
  <2>2. u = [v EXCEPT !.exists = E, !.balance[a] = @ - n]
    BY <1>1 DEF Set, View
  <2> HIDE DEF m, E, U, x, u
  <2>3. IsSet(u, v, a, x, m, E, U)
    BY <2>1, SetBalance DEF u
  <2>4. u \in View /\ u.balance \in [Accounts -> Int] /\ u.balance[b] \in Int /\ y \in Int
    BY <2>3, ViewFields DEF IsSet
  <2>5. w = Set(u, b, y, m, E, U)
    <3>1. w = [u EXCEPT !.balance = [u.balance EXCEPT ![b] = y]]
      <4>1. w = [u EXCEPT !.balance[b] = @ + n]
        BY <1>3, <2>2 DEF Shifted, E
      <4>2. QED
        BY <2>4, <4>1 DEF View
    <3>2. u.minted = m /\ u.exists = E /\ u.uncovered = U
      BY <2>3 DEF IsSet
    <3> HIDE DEF y
    <3>3. QED
      BY <2>4, <3>1, <3>2 DEF Set, View
  <2>6. y = u.balance[b] + n
    OBVIOUS
  <2> HIDE DEF y
  <2>7. IsSet(w, u, b, y, m, E, U)
    BY <2>1, <2>4, <2>5, SetBalance
  <2>8. AddsUp(w, fees)
    BY <1>1, <2>1, <2>3, <2>4, <2>6, <2>7, InitialInt DEF AddsUp, IsSet, x, m
  <2>9. w \in View /\ SameEnergy(v, w) /\ w.uncovered = v.uncovered
    BY <2>3, <2>7 DEF SameEnergy, IsSet, U
  <2>10. ASSUME NEW c \in Accounts
         PROVE  /\ w.balance[c] \in Int /\ w.balance[c] >= v.balance[c] - n
                /\ c # a => w.balance[c] >= v.balance[c]
    <3>1. u.balance[c] \in Int /\ w.balance[c] \in Int /\ v.balance[c] \in Int
      BY <1>1, <2>4, <2>9, ViewFields
    <3>2. w.balance[c] >= u.balance[c]
      BY <1>3, <2>4, <2>6, <2>7, <3>1 DEF IsSet
    <3>3. u.balance[c] = (IF c = a THEN v.balance[c] - n ELSE v.balance[c])
      BY <2>3 DEF IsSet, x
    <3>4. QED
      BY <1>3, <3>1, <3>2, <3>3
  <2>11. Shift(w, v, a, n)
    BY <1>3, <2>9, <2>10 DEF Shift
  <2>12. QED
    BY <1>3, <2>8, <2>11
<1>4. QED
  BY <1>2, <1>3

(* The view when the run starts, and after it, before the bill.            *)
Paid(owner, contract, value, run) ==
    IF run.reverted THEN view ELSE Shifted(view, owner, contract, value)
Ran(owner, contract, value, run) ==
    [Shifted(Paid(owner, contract, value, run), run.from, run.to, run.sent) EXCEPT
        !.uncovered = @ \cup {a \in {owner} : Uncovers(owner, value, run)}]

(* What the owner can spend on energy.                                     *)
Spendable(owner, value) ==
    IF view.balance[owner] >= value THEN view.balance[owner] - value ELSE 0

\* The run moves TRX and leaves its owner what it can spend on energy, unless
\* the call Uncovers it.
LEMMA RunSound ==
    ASSUME view \in View, Covered(view), NEW fees \in Int, AddsUp(view, fees),
           NEW owner \in Accounts, NEW contract \in Accounts, NEW value \in Int,
           NEW run \in Runs, NEW ran, ran = Ran(owner, contract, value, run),
           Paid(owner, contract, value, run).balance[run.from] \notin 0 .. run.sent - 1
    PROVE  /\ ran \in View /\ Covered(ran) /\ AddsUp(ran, fees) /\ SameEnergy(view, ran)
           /\ ran.balance[owner] >= Spendable(owner, value) \/ owner \in ran.uncovered
<1> DEFINE paid == Paid(owner, contract, value, run)
           from == run.from
           s == run.sent
           k == IF run.reverted \/ value <= 0 THEN 0 ELSE value
           u == Shifted(paid, from, run.to, s)
           X == {a \in {owner} : Uncovers(owner, value, run)}
           U == view.uncovered \cup X
<1>1. /\ from \in Accounts /\ run.to \in Accounts /\ s \in Nat /\ run.reverted \in BOOLEAN
      /\ run.reverted => s = 0
  BY TransactionsAssumption DEF Runs
<1>2. /\ view.uncovered \in SUBSET Accounts /\ \A a \in Accounts : view.balance[a] \in Int
  BY ViewFields
<1>3. AddsUp(paid, fees) /\ Shift(paid, view, owner, k) /\ k \in Nat
  <2>1. CASE run.reverted
    <3>1. paid = view /\ k = 0
      BY <2>1 DEF Paid
    <3> HIDE DEF paid, k
    <3>2. QED
      BY <1>2, <3>1 DEF Shift, SameEnergy
  <2>2. CASE ~run.reverted
    <3>1. paid = Shifted(view, owner, contract, value) /\ k = (IF value > 0 THEN value ELSE 0)
          /\ k \in Nat
      BY <2>2 DEF Paid
    <3> HIDE DEF paid, k
    <3>2. QED
      BY <3>1, ShiftedSound
  <2>3. QED
    BY <2>1, <2>2
<1>4. paid.balance[from] \notin 0 .. s - 1
  OBVIOUS
<1>5. ran = [u EXCEPT !.uncovered = @ \cup X]
  BY DEF Ran
<1> HIDE DEF paid, from, s
<1>6. AddsUp(u, fees) /\ Shift(u, paid, from, s)
  <2>1. paid \in View /\ s = (IF s > 0 THEN s ELSE 0)
    BY <1>1, <1>3 DEF Shift
  <2>2. s \in Int
    BY <1>1
  <2> HIDE DEF u
  <2>3. AddsUp(u, fees) /\ Shift(u, paid, from, IF s > 0 THEN s ELSE 0)
    BY <1>1, <1>3, <2>1, <2>2, ShiftedSound DEF u
  <2>4. QED
    BY <2>1, <2>3
<1> HIDE DEF u
<1>7. u \in View /\ u.uncovered = view.uncovered
  BY <1>3, <1>6 DEF Shift
<1>8. X \subseteq {owner} /\ (Uncovers(owner, value, run) => owner \in X)
  OBVIOUS
<1> HIDE DEF X
<1>9. U \in SUBSET Accounts /\ ran = [u EXCEPT !.uncovered = U]
  BY <1>2, <1>5, <1>7, <1>8 DEF View
<1>10. /\ view.uncovered \subseteq U /\ X \subseteq U
  OBVIOUS
<1> HIDE DEF U
<1>11. /\ ran \in View /\ ran.balance = u.balance /\ ran.minted = u.minted /\ ran.uncovered = U
       /\ SameEnergy(u, ran)
  BY <1>7, <1>9 DEF View, SameEnergy
<1>12. AddsUp(ran, fees) /\ SameEnergy(view, ran)
  BY <1>3, <1>6, <1>11 DEF AddsUp, SameEnergy, Shift
<1>13. ASSUME NEW a \in Accounts
       PROVE  /\ paid.balance[a] \in Int /\ ran.balance[a] \in Int /\ view.balance[a] \in Int
              /\ paid.balance[a] >= view.balance[a] - k /\ ran.balance[a] >= paid.balance[a] - s
              /\ a # owner \/ k = 0 => paid.balance[a] >= view.balance[a]
              /\ a # from \/ s = 0 => ran.balance[a] >= paid.balance[a]
  BY <1>2, <1>3, <1>6, <1>11 DEF Shift
<1>14. ASSUME owner \notin U
       PROVE  /\ value >= 0 /\ view.balance[owner] >= 0
              /\ run.reverted \/ (value <= view.balance[owner] /\ (s = 0 \/ from # owner))
  <2>1. ~Uncovers(owner, value, run) /\ owner \notin view.uncovered
    BY <1>8, <1>10, <1>14
  <2>2. ~(view.balance[owner] < 0)
    BY <2>1 DEF Covered
  <2>3. QED
    BY <1>1, <1>2, <2>1, <2>2 DEF Uncovers, s, from
<1>15. ASSUME owner \notin U
       PROVE  ran.balance[owner] >= Spendable(owner, value) /\ ran.balance[owner] >= 0
  <2>1. CASE run.reverted
    <3>1. k = 0 /\ s = 0
      BY <1>1, <2>1
    <3>2. ran.balance[owner] >= view.balance[owner]
      BY <1>13, <3>1
    <3>3. QED
      BY <1>13, <1>14, <1>15, <3>2 DEF Spendable
  <2>2. CASE ~run.reverted
    <3>1. k = value /\ value <= view.balance[owner] /\ (s = 0 \/ from # owner)
      BY <1>14, <1>15, <2>2
    <3> HIDE DEF k
    <3>2. ran.balance[owner] >= view.balance[owner] - value
      BY <1>13, <3>1
    <3>3. QED
      BY <1>13, <1>14, <1>15, <3>1, <3>2 DEF Spendable
  <2>3. QED
    BY <1>1, <2>1, <2>2
<1>16. Covered(ran)
  <2> SUFFICES ASSUME NEW a \in Accounts, ran.balance[a] < 0, a \notin U PROVE FALSE
    BY <1>11 DEF Covered
  <2>1. CASE a = owner
    BY <1>13, <1>15, <2>1
  <2>2. CASE a # owner
    <3>1. view.balance[a] >= 0
      BY <1>10, <1>13 DEF Covered
    <3>2. paid.balance[a] >= 0
      BY <1>13, <2>2, <3>1
    <3>3. CASE a = from /\ s # 0
      <4>1. paid.balance[a] >= s
        BY <1>1, <1>4, <1>13, <3>2, <3>3
      <4>2. QED
        BY <1>1, <1>13, <4>1
    <3>4. CASE ~(a = from /\ s # 0)
      BY <1>13, <3>2, <3>4
    <3>5. QED
      BY <3>3, <3>4
  <2>3. QED
    BY <2>1, <2>2
<1>17. QED
  BY <1>11, <1>12, <1>15, <1>16

Billed(paid, owner, bill) ==
    [paid EXCEPT !.balance[owner] = @ - bill.energyFee, !.drawn[0] = @ + bill.energyUsage]

\* The fee is burned and its owner can pay it; the stake's part is drawn.
LEMMA BilledSound ==
    ASSUME NEW paid \in View, Covered(paid), NEW fees \in Int, AddsUp(paid, fees),
           NEW owner \in Accounts, NEW bill, bill.energyFee \in Nat, bill.energyUsage \in Nat,
           paid.balance[owner] >= bill.energyFee \/ owner \in paid.uncovered,
           NEW w, w = Billed(paid, owner, bill)
    PROVE  /\ w \in View /\ Covered(w) /\ AddsUp(w, fees + bill.energyFee)
           /\ w.stake = paid.stake /\ w.usage = paid.usage /\ w.last = paid.last
           /\ w.now = paid.now /\ w.drawn = [paid.drawn EXCEPT ![0] = @ + bill.energyUsage]
<1> DEFINE m == paid.minted
           E == paid.exists
           U == paid.uncovered
           fee == bill.energyFee
           x == paid.balance[owner] - fee
           u == Set(paid, owner, x, m, E, U)
           d == paid.drawn[0] + bill.energyUsage
           D == [paid.drawn EXCEPT ![0] = d]
<1>1. /\ E \in SUBSET Accounts /\ U \in SUBSET Accounts /\ m \in Int
      /\ paid.balance \in [Accounts -> Int] /\ paid.drawn \in [Ages -> Int]
      /\ \A a \in Accounts : paid.balance[a] \in Int
  BY ViewFields
<1>2. x \in Int /\ fee \in Nat
  BY <1>1
<1>3. 0 \in Ages
  BY WindowPositive DEF Ages
<1>4. D \in [Ages -> Int] /\ D = [paid.drawn EXCEPT ![0] = @ + bill.energyUsage]
  BY <1>1, <1>3
<1>5. w = [paid EXCEPT !.balance = [paid.balance EXCEPT ![owner] = x], !.drawn = D]
  BY <1>1 DEF Billed, View
<1>6. u = [paid EXCEPT !.balance = [paid.balance EXCEPT ![owner] = x]]
  BY DEF Set, View
<1>7. w = [u EXCEPT !.drawn = D]
  <2> DEFINE B == [paid.balance EXCEPT ![owner] = x]
  <2> HIDE DEF D, u, x, B
  <2>1. w = [paid EXCEPT !.balance = B, !.drawn = D] /\ u = [paid EXCEPT !.balance = B]
    BY <1>5, <1>6 DEF B
  <2>2. QED
    BY <2>1 DEF View
<1> HIDE DEF m, E, U, fee, x, u, d, D
<1>8. IsSet(u, paid, owner, x, m, E, U)
  BY <1>1, <1>2, SetBalance DEF u
<1>9. u \in View
  BY <1>8 DEF IsSet
<1>10. /\ w \in View /\ w.balance = u.balance /\ w.minted = u.minted /\ w.uncovered = u.uncovered
       /\ w.stake = u.stake /\ w.usage = u.usage /\ w.last = u.last /\ w.now = u.now
       /\ w.drawn = D
  BY <1>4, <1>7, <1>9 DEF View
<1>11. AddsUp(w, fees + fee)
  BY <1>1, <1>2, <1>8, <1>10, InitialInt DEF AddsUp, IsSet, x, m
<1>12. Covered(w)
  <2> SUFFICES ASSUME NEW a \in Accounts, w.balance[a] < 0 PROVE a \in w.uncovered
    BY DEF Covered
  <2>1. w.uncovered = paid.uncovered
    BY <1>8, <1>10 DEF IsSet, U
  <2>2. CASE a = owner
    <3>1. w.balance[a] = paid.balance[owner] - fee
      BY <1>8, <1>10, <2>2 DEF IsSet, x
    <3>2. ~(paid.balance[owner] >= fee)
      BY <1>1, <1>2, <3>1
    <3>3. QED
      BY <2>1, <2>2, <3>2 DEF fee
  <2>3. CASE a # owner
    BY <1>8, <1>10, <2>1, <2>3 DEF IsSet, Covered
  <2>4. QED
    BY <2>2, <2>3
<1>13. QED
  BY <1>4, <1>8, <1>10, <1>11, <1>12 DEF IsSet, SameEnergy, fee

(* w draws on what v's stake has, or keeps what v has drawn.               *)
Draws(v, w) ==
    \/ w.usage = v.usage /\ w.last = v.last /\ w.drawn = v.drawn
    \/ /\ w.last = v.now
       /\ \E add \in Nat : /\ add <= CallerEnergy(v, Staker)
                           /\ w.usage = IncreaseEnergyUsage(v.usage, add, v.last, v.now, Window)
                           /\ w.drawn = [v.drawn EXCEPT ![0] = @ + add]

\* Either way the rate is kept.
LEMMA DrawsKeepRate ==
    ASSUME NEW v \in View, NEW w \in View, Steady(v), Draws(v, w), w.now = v.now
    PROVE  Steady(w)
<1>1. CASE w.usage = v.usage /\ w.last = v.last /\ w.drawn = v.drawn
  BY <1>1 DEF Steady, Untouched, Rate, Within
<1>2. CASE /\ w.last = v.now
           /\ \E add \in Nat : /\ add <= CallerEnergy(v, Staker)
                               /\ w.usage = IncreaseEnergyUsage(v.usage, add, v.last, v.now, Window)
                               /\ w.drawn = [v.drawn EXCEPT ![0] = @ + add]
  <2>1. CASE Rate(v)
    BY <1>2, <2>1, RateDraws DEF Steady
  <2>2. CASE Untouched(v)
    BY <1>2, <2>2, RateStarts
  <2>3. QED
    BY <2>1, <2>2 DEF Steady
<1>3. QED
  BY <1>1, <1>2 DEF Draws

(* What a step of a block does to the view: next is what the contract      *)
(* leaves, and fee what it burned.                                         *)
Leaves(next, fees, fee) ==
    /\ next \in View /\ Covered(next) /\ AddsUp(next, fees + fee) /\ next.now = view.now
    /\ next.stake = view.stake =>
          CallerEnergy(next, Staker) <= CallerEnergy(view, Staker) - (next.drawn[0] - view.drawn[0])
    /\ Draws(view, next)

\* A view with the same staked energy leaves the staker what it had.
LEMMA LeavesSame ==
    ASSUME view \in View, NEW next \in View, Covered(next), NEW fees \in Int, AddsUp(next, fees),
           SameEnergy(view, next)
    PROVE  Leaves(next, fees, 0)
<1>1. CallerEnergy(next, Staker) = CallerEnergy(view, Staker) /\ CallerEnergy(view, Staker) \in Nat
  BY SameEnergyCosts, CallerEnergyNat
<1>2. next.drawn = view.drawn /\ view.drawn[0] \in Int
  BY ViewFields, WindowPositive DEF SameEnergy, Ages
<1>3. fees + 0 = fees
  OBVIOUS
<1>4. QED
  BY <1>1, <1>2, <1>3 DEF Leaves, SameEnergy, Draws

\* A contract call.
LEMMA ContractLeaves ==
    ASSUME view \in View, Covered(view), NEW fees \in Int, AddsUp(view, fees),
           NEW owner \in Accounts, NEW contract \in Accounts, NEW value \in CallValues,
           NEW limit \in FeeLimits, NEW used \in Uses, NEW run \in Runs,
           ExecuteContract(owner, contract, value, limit, used, run)
    PROVE  \E next \in View, fee \in Nat :
              Executed(next, [count |-> 1, fees |-> fee]) /\ Leaves(next, fees, fee)
<1> DEFINE energy == CallerEnergy(view, owner)
           bill == BillOf(used, energy)
           paid == Paid(owner, contract, value, run)
           ran == Ran(owner, contract, value, run)
           billed == Billed(ran, owner, bill)
           next == ChargeCallerEnergy(billed, owner, bill.energyUsage)
           balance == view.balance[owner]
<1>1. /\ used <= Max({AccountEnergyLimit(energy, balance, value, limit, EnergyFee), 0})
      /\ paid.balance[run.from] \notin 0 .. run.sent - 1
      /\ Executed(next, [count |-> 1, fees |-> bill.energyFee])
  BY DEF ExecuteContract, Budget, Paid, Ran, Billed, BillOf
<1>2. used \in Nat /\ value \in Int /\ limit \in Int /\ energy \in Nat /\ balance \in Int
  BY TransactionsAssumption, CallerEnergyNat, ViewFields
<1> HIDE DEF energy, bill, paid, ran, billed, balance
<1>3. /\ bill.energyUsage \in Nat /\ bill.energyUsage <= energy /\ bill.energyFee \in Nat
  BY <1>2, BillPays DEF bill
<1>4. bill.energyFee <= Spendable(owner, value) /\ Spendable(owner, value) \in Int
  <2>1. bill.energyFee <= (IF balance >= value THEN balance - value ELSE 0)
    <3>1. bill = BillOf(used, energy)
      BY DEF bill
    <3>2. QED
      BY <1>1, <1>2, <3>1, FeeCovered
  <2>2. Spendable(owner, value) = (IF balance >= value THEN balance - value ELSE 0)
    BY DEF Spendable, balance
  <2>3. QED
    BY <1>2, <2>1, <2>2
<1>5. /\ ran \in View /\ Covered(ran) /\ AddsUp(ran, fees) /\ SameEnergy(view, ran)
      /\ ran.balance[owner] >= Spendable(owner, value) \/ owner \in ran.uncovered
  BY <1>1, <1>2, RunSound DEF paid, ran
<1>6. ran.balance[owner] >= bill.energyFee \/ owner \in ran.uncovered
  <2>1. ran.balance[owner] \in Int
    BY <1>5, ViewFields
  <2>2. QED
    BY <1>3, <1>4, <1>5, <2>1
<1>7. /\ billed \in View /\ Covered(billed) /\ AddsUp(billed, fees + bill.energyFee)
      /\ billed.stake = ran.stake /\ billed.usage = ran.usage /\ billed.last = ran.last
      /\ billed.now = ran.now
      /\ billed.drawn = [ran.drawn EXCEPT ![0] = @ + bill.energyUsage]
  BY <1>3, <1>5, <1>6, BilledSound DEF billed
<1>8. /\ billed.stake = view.stake /\ billed.usage = view.usage /\ billed.last = view.last
      /\ billed.now = view.now /\ billed.drawn = [view.drawn EXCEPT ![0] = @ + bill.energyUsage]
      /\ view.drawn \in [Ages -> Int] /\ 0 \in Ages
  BY <1>5, <1>7, ViewFields, WindowPositive DEF SameEnergy, Ages
<1>9. CASE owner # Staker
  <2>1. next = billed
    BY <1>9 DEF ChargeCallerEnergy
  <2>2. bill.energyUsage = 0
    BY <1>2, <1>3, <1>9 DEF energy, CallerEnergy
  <2>3. CallerEnergy(next, Staker) = CallerEnergy(view, Staker)
        /\ CallerEnergy(view, Staker) \in Nat
    BY <1>8, <2>1, CallerEnergyNat DEF CallerEnergy
  <2>4. next.drawn = view.drawn /\ view.drawn[0] \in Int
    BY <1>8, <2>1, <2>2
  <2>5. Draws(view, next)
    BY <1>8, <2>1, <2>4 DEF Draws
  <2>6. Leaves(next, fees, bill.energyFee)
    BY <1>7, <1>8, <2>1, <2>3, <2>4, <2>5 DEF Leaves
  <2>7. QED
    BY <1>1, <1>3, <1>7, <2>1, <2>6
<1>10. CASE owner = Staker
  <2> DEFINE i == IncreaseEnergyUsage(view.usage, bill.energyUsage, view.last, view.now, Window)
  <2>1. next = [billed EXCEPT !.usage = i, !.last = view.now]
    BY <1>8, <1>10 DEF ChargeCallerEnergy
  <2>2. i \in Nat
    <3> DEFINE x == view.usage
               l == view.last
               n == view.now
               a == bill.energyUsage
    <3>1. x \in Nat /\ l \in Int /\ n \in Int /\ a \in Nat
      BY <1>3, ViewFields
    <3> HIDE DEF x, l, n, a
    <3>2. IncreaseEnergyUsage(x, a, l, n, Window) \in Nat
      BY <3>1, WindowPositive, UsageGrows
    <3>3. QED
      BY <3>2 DEF x, l, n, a
  <2>3. view.now \in Int
    BY ViewFields
  <2> HIDE DEF i
  <2>4. /\ next \in View /\ next.balance = billed.balance /\ next.minted = billed.minted
        /\ next.uncovered = billed.uncovered /\ next.stake = billed.stake
        /\ next.now = billed.now /\ next.usage = i /\ next.last = view.now
        /\ next.drawn = billed.drawn
    BY <1>7, <2>1, <2>2, <2>3 DEF View
  <2> HIDE DEF next
  <2>5. CallerEnergy(next, Staker) <= CallerEnergy(view, Staker) - bill.energyUsage
    BY <1>3, <1>8, <1>10, <2>4, ChargeCosts DEF i, energy
  <2>6. next.drawn[0] - view.drawn[0] = bill.energyUsage
    BY <1>3, <1>8, <2>4
  <2>7. Covered(next) /\ AddsUp(next, fees + bill.energyFee)
    BY <1>7, <2>4 DEF Covered, AddsUp
  <2>8. Draws(view, next)
    <3>1. bill.energyUsage <= CallerEnergy(view, Staker)
      BY <1>3, <1>10 DEF energy
    <3>2. next.usage = i /\ next.last = view.now
          /\ next.drawn = [view.drawn EXCEPT ![0] = @ + bill.energyUsage]
      BY <1>8, <2>4
    <3>3. QED
      BY <1>3, <3>1, <3>2 DEF Draws, i
  <2>9. Leaves(next, fees, bill.energyFee)
    BY <1>8, <2>4, <2>5, <2>6, <2>7, <2>8 DEF Leaves
  <2>10. QED
    BY <1>1, <1>3, <2>4, <2>9
<1>11. QED
  BY <1>9, <1>10

\* A transfer, with the provisioning before it.
LEMMA TransferLeaves ==
    ASSUME view \in View, Covered(view), NEW fees \in Int, AddsUp(view, fees),
           NEW owner \in Accounts, NEW to \in Accounts, NEW amount \in Amounts,
           Transfer(owner, to, amount)
    PROVE  \E next \in View : Executed(next, NoReceipts) /\ Leaves(next, fees, 0)
<1> DEFINE v == Provisioned(view, owner, amount)
           next == Moved(v, owner, to, amount)
<1>1. CanTransfer(v, owner, to, amount) /\ Executed(next, NoReceipts)
  BY DEF Transfer
<1>2. amount \in Int
  BY TransactionsAssumption
<1> HIDE DEF v, next
<1>3. v \in View /\ Covered(v) /\ AddsUp(v, fees) /\ SameEnergy(view, v)
  BY <1>2, ProvisionedSound DEF v
<1>4. next \in View /\ Covered(next) /\ AddsUp(next, fees) /\ SameEnergy(v, next)
  BY <1>1, <1>2, <1>3, MovedSound DEF next
<1>5. SameEnergy(view, next)
  BY <1>3, <1>4 DEF SameEnergy
<1>6. Leaves(next, fees, 0)
  BY <1>4, <1>5, LeavesSame
<1>7. QED
  BY <1>1, <1>4, <1>6

-----------------------------------------------------------------------------
(* The inductive invariant.                                                *)

Receipts == [count : Nat, fees : Nat]
Sessions == [below : View, time : Nat, block : Blocks, receipts : Receipts]
Works == [time : Nat \ {0}, block : Blocks, receipts : Receipts]
Given == [number : Int, receipts : Receipts, time : Nat, repeats : BOOLEAN]

TypeInv ==
    /\ lenient \in BOOLEAN
    /\ view \in View
    /\ sessions \in Seq(Sessions)
    /\ work = NoBlock \/ work \in Works
    /\ steps \in Nat
    /\ sink \in Seq(Given)
    /\ completed \subseteq Nat

(* The session of the block being processed is the innermost, and has no   *)
(* receipts yet.                                                           *)
Processing ==
    work # NoBlock =>
        /\ sessions # <<>>
        /\ sessions[Len(sessions)].receipts = NoReceipts
        /\ sessions[Len(sessions)].time = work.time
        /\ sessions[Len(sessions)].block = work.block

(* The fees burned by the blocks of the first m sessions.                  *)
Fees(ss, m) == SumFunctionOnSet([k \in DOMAIN ss |-> ss[k].receipts.fees], 1 .. m)
WorkFees == IF work = NoBlock THEN 0 ELSE work.receipts.fees

(* Every view a revocation can come back to is in order, too.              *)
Books ==
    /\ Covered(view) /\ AddsUp(view, Fees(sessions, Len(sessions)) + WorkFees)
    /\ \A k \in DOMAIN sessions :
          Covered(sessions[k].below) /\ AddsUp(sessions[k].below, Fees(sessions, k - 1))

IInv == TypeInv /\ Processing /\ Books /\ SinkHoldsApplied

\* The fields of a session.
LEMMA SessionFields ==
    ASSUME NEW ss \in Seq(Sessions), NEW k \in DOMAIN ss
    PROVE  /\ ss[k] \in Sessions /\ ss[k].below \in View /\ ss[k].time \in Nat
           /\ ss[k].block \in Blocks /\ ss[k].receipts \in Receipts
           /\ ss[k].receipts.count \in Nat /\ ss[k].receipts.fees \in Nat
<1>1. ss[k] \in Sessions
  OBVIOUS
<1>2. QED
  BY <1>1 DEF Sessions, Receipts

\* The fields of the block being processed.
LEMMA WorkFields ==
    ASSUME TypeInv
    PROVE  /\ WorkFees \in Nat
           /\ work # NoBlock => /\ work \in Works /\ work.time \in Nat \ {0}
                                /\ work.block \in Blocks
                                /\ work.receipts \in Receipts /\ work.receipts.count \in Nat
                                /\ work.receipts.fees \in Nat
<1>1. work # NoBlock => work \in Works
  BY DEF TypeInv
<1>2. QED
  BY <1>1 DEF Works, Receipts, WorkFees

\* The receipts of a prefix decide its fees.
LEMMA FeesSame ==
    ASSUME NEW ss \in Seq(Sessions), NEW tt \in Seq(Sessions), NEW m \in Nat,
           m <= Len(ss), m <= Len(tt), \A k \in 1 .. m : ss[k].receipts = tt[k].receipts
    PROVE  Fees(ss, m) = Fees(tt, m)
<1> DEFINE f == [k \in DOMAIN ss |-> ss[k].receipts.fees]
           g == [k \in DOMAIN tt |-> tt[k].receipts.fees]
           D == 1 .. m
<1>1. \A k \in D : f[k] = g[k]
  OBVIOUS
<1>2. IsFiniteSet(D)
  BY FS_Interval
<1>3. Fees(ss, m) = SumFunctionOnSet(f, D) /\ Fees(tt, m) = SumFunctionOnSet(g, D)
  BY DEF Fees
<1> HIDE DEF f, g, D
<1>4. QED
  BY <1>1, <1>2, <1>3, SumSame

\* Each session adds its own fees.
LEMMA FeesNext ==
    ASSUME NEW ss \in Seq(Sessions), NEW m \in Nat, m < Len(ss)
    PROVE  /\ Fees(ss, m) \in Int /\ Fees(ss, m + 1) \in Int
           /\ Fees(ss, m + 1) = Fees(ss, m) + ss[m + 1].receipts.fees
<1> DEFINE f == [k \in DOMAIN ss |-> ss[k].receipts.fees]
<1>1. \A k \in 1 .. m + 1 : f[k] \in Int
  <2>1. \A k \in 1 .. m + 1 : k \in DOMAIN ss
    OBVIOUS
  <2>2. QED
    BY <2>1, SessionFields
<1>2. /\ Fees(ss, m) = SumFunctionOnSet(f, 1 .. m)
      /\ Fees(ss, m + 1) = SumFunctionOnSet(f, 1 .. m + 1)
  BY DEF Fees
<1>3. f[m + 1] = ss[m + 1].receipts.fees
  OBVIOUS
<1> HIDE DEF f
<1>4. SumFunctionOnSet(f, 1 .. m + 1) = SumFunctionOnSet(f, 1 .. m) + f[m + 1]
  BY <1>1, SumExtend
<1>5. SumFunctionOnSet(f, 1 .. m) \in Int
  <2> DEFINE D == 1 .. m
  <2>1. IsFiniteSet(D) /\ \A k \in D : f[k] \in Int
    BY <1>1, FS_Interval
  <2> HIDE DEF D
  <2>2. SumFunctionOnSet(f, D) \in Int
    BY <2>1, SumInt
  <2>3. QED
    BY <2>2 DEF D
<1>6. f[m + 1] \in Int
  BY <1>1
<1>7. QED
  BY <1>2, <1>3, <1>4, <1>5, <1>6

\* All the fees are an integer; without sessions there are none.
LEMMA FeesInt ==
    ASSUME NEW ss \in Seq(Sessions)
    PROVE  Fees(ss, Len(ss)) \in Int /\ Fees(<<>>, 0) = 0
<1>1. Fees(ss, Len(ss)) \in Int
  <2> DEFINE f == [k \in DOMAIN ss |-> ss[k].receipts.fees]
             D == 1 .. Len(ss)
  <2>1. IsFiniteSet(D) /\ D = DOMAIN ss
    BY FS_Interval
  <2>a. \A k \in D : f[k] \in Int
    BY <2>1, SessionFields
  <2>2. Fees(ss, Len(ss)) = SumFunctionOnSet(f, D)
    BY DEF Fees
  <2> HIDE DEF f, D
  <2>3. QED
    BY <2>1, <2>a, <2>2, SumInt
<1>2. Fees(<<>>, 0) = 0
  <2>1. 1 .. 0 = {}
    OBVIOUS
  <2>2. QED
    BY <2>1, SumEmpty DEF Fees
<1>3. QED
  BY <1>1, <1>2

-----------------------------------------------------------------------------
(* The steps.                                                              *)

\* The invariant holds at the start.
LEMMA InitInv == Init => IInv
<1> SUFFICES ASSUME Init PROVE IInv
  OBVIOUS
<1>1. PICK s \in Stakes : view = InitialView(s)
  BY DEF Init
<1>2. view \in View /\ Covered(view) /\ AddsUp(view, 0)
  BY <1>1, InitialTotal
<1>3. /\ sessions = <<>> /\ work = NoBlock /\ steps = 0 /\ sink = <<>> /\ completed = {}
      /\ lenient \in BOOLEAN
  BY DEF Init
<1>4. TypeInv /\ Processing
  BY <1>2, <1>3 DEF TypeInv, Processing
<1>5. Books
  <2>1. Fees(sessions, Len(sessions)) = 0 /\ WorkFees = 0 /\ DOMAIN sessions = {}
    <3>1. <<>> \in Seq(Sessions) /\ Len(<<>>) = 0 /\ DOMAIN <<>> = {}
      OBVIOUS
    <3>2. Fees(<<>>, 0) = 0
      BY <3>1, FeesInt
    <3>3. QED
      BY <1>3, <3>1, <3>2 DEF WorkFees
  <2>2. 0 + 0 = 0
    OBVIOUS
  <2>3. QED
    BY <1>2, <2>1, <2>2 DEF Books
<1>6. SinkHoldsApplied
  BY <1>3 DEF SinkHoldsApplied
<1>7. QED
  BY <1>4, <1>5, <1>6 DEF IInv

\* A block is opened over the view.
LEMMA OpenInv ==
    ASSUME IInv, NEW b \in Blocks, OpenBlock(b)
    PROVE  IInv'
<1> DEFINE t == steps + 1
           s == [below |-> view, time |-> t, block |-> b, receipts |-> NoReceipts]
           l == Len(sessions)
<1>1. /\ work = NoBlock /\ steps' = t
      /\ work' = [time |-> t, block |-> b, receipts |-> NoReceipts]
      /\ sessions' = Append(sessions, s)
      /\ UNCHANGED <<lenient, view, sink, completed>>
  BY DEF OpenBlock
<1>2. /\ view \in View /\ t \in Nat \ {0}
      /\ sessions \in Seq(Sessions) /\ l \in Nat /\ completed \subseteq Nat
      /\ sink \in Seq(Given) /\ lenient \in BOOLEAN
  BY DEF IInv, TypeInv
<1>3. NoReceipts \in Receipts /\ NoReceipts.count = 0 /\ NoReceipts.fees = 0
  BY DEF NoReceipts, Receipts
<1> HIDE DEF t
<1>4. s \in Sessions /\ s.receipts = NoReceipts /\ s.below = view /\ s.time = t /\ s.block = b
  BY <1>2, <1>3 DEF Sessions
<1> HIDE DEF s, l
<1>5. /\ sessions' \in Seq(Sessions) /\ Len(sessions') = l + 1 /\ sessions' # <<>>
      /\ DOMAIN sessions' = 1 .. l + 1 /\ DOMAIN sessions = 1 .. l
      /\ sessions'[l + 1] = s /\ \A k \in 1 .. l : sessions'[k] = sessions[k]
  BY <1>1, <1>2, <1>4 DEF l
<1>6. /\ work' \in Works /\ work'.receipts = NoReceipts /\ work'.time = t
      /\ work'.block = b
  BY <1>1, <1>2, <1>3 DEF Works
<1>7. work' # NoBlock /\ WorkFees' = 0
  <2>1. work' # NoBlock
    BY <1>2, <1>6 DEF NoBlock
  <2>2. QED
    BY <1>3, <1>6, <2>1 DEF WorkFees
<1>8. TypeInv'
  BY <1>1, <1>2, <1>5, <1>6 DEF TypeInv
<1>9. Processing'
  BY <1>1, <1>2, <1>4, <1>5, <1>6 DEF Processing
<1>10. Books'
  <2>1. \A k \in 0 .. l : Fees(sessions', k) = Fees(sessions, k)
    <3> TAKE k \in 0 .. l
    <3>1. \A i \in 1 .. k : sessions'[i].receipts = sessions[i].receipts
      BY <1>2, <1>5
    <3>2. QED
      BY <1>2, <1>5, <3>1, FeesSame DEF l
  <2>2. Fees(sessions', l + 1) = Fees(sessions', l) + 0 /\ Fees(sessions', l) \in Int
    BY <1>2, <1>3, <1>4, <1>5, FeesNext
  <2>3. Fees(sessions', l) = Fees(sessions, l)
    BY <1>2, <2>1
  <2>4. /\ Fees(sessions', Len(sessions')) + WorkFees' = Fees(sessions, l)
        /\ Fees(sessions, Len(sessions)) + WorkFees = Fees(sessions, l)
    BY <1>1, <1>5, <1>7, <2>2, <2>3 DEF WorkFees, l
  <2>5. Covered(view') /\ AddsUp(view', Fees(sessions', Len(sessions')) + WorkFees')
        /\ AddsUp(view, Fees(sessions, l)) /\ Covered(view)
    BY <1>1, <2>4 DEF IInv, Books
  <2>6. ASSUME NEW k \in DOMAIN sessions'
        PROVE  Covered(sessions'[k].below) /\ AddsUp(sessions'[k].below, Fees(sessions', k - 1))
    <3>1. CASE k = l + 1
      <4>1. k - 1 = l
        BY <1>2, <3>1
      <4>2. QED
        BY <1>4, <1>5, <2>3, <2>5, <3>1, <4>1
    <3>2. CASE k # l + 1
      <4>1. k \in DOMAIN sessions /\ sessions'[k] = sessions[k] /\ k - 1 \in 0 .. l
        BY <1>2, <1>5, <3>2
      <4>2. Fees(sessions', k - 1) = Fees(sessions, k - 1)
        BY <2>1, <4>1
      <4>3. QED
        BY <4>1, <4>2 DEF IInv, Books
    <3>3. QED
      BY <3>1, <3>2
  <2>7. QED
    BY <2>5, <2>6 DEF Books
<1>11. SinkHoldsApplied'
  <2>1. SinkHoldsApplied /\ sink' = sink /\ completed' = completed
    BY <1>1 DEF IInv
  <2>2. ASSUME NEW k \in DOMAIN sessions', sessions'[k].receipts.count > 0
        PROVE  k \in DOMAIN sessions /\ sessions'[k] = sessions[k]
    <3>1. k # l + 1
      BY <1>3, <1>4, <1>5, <2>2
    <3>2. QED
      BY <1>2, <1>5, <3>1
  <2>3. QED
    BY <2>1, <2>2 DEF SinkHoldsApplied
<1>12. QED
  BY <1>8, <1>9, <1>10, <1>11 DEF IInv

\* A contract of the block is executed.
LEMMA ExecutedInv ==
    ASSUME IInv, work # NoBlock, NEW next, NEW r \in Receipts, Executed(next, r),
           Leaves(next, Fees(sessions, Len(sessions)) + WorkFees, r.fees)
    PROVE  IInv'
<1> DEFINE w == [count |-> work.receipts.count + r.count, fees |-> work.receipts.fees + r.fees]
<1>1. /\ view' = next /\ work' = [work EXCEPT !.receipts = w] /\ steps' = steps + 1
      /\ UNCHANGED <<lenient, sessions, sink, completed>>
  BY DEF Executed
<1>2. /\ work \in Works /\ work.receipts.count \in Nat /\ work.receipts.fees \in Nat
      /\ work.time \in Nat \ {0}
  BY WorkFields DEF IInv
<1>3. r.count \in Nat /\ r.fees \in Nat
  BY DEF Receipts
<1>4. w \in Receipts /\ w.fees = work.receipts.fees + r.fees
  <2> DEFINE a == work.receipts.count + r.count
             b == work.receipts.fees + r.fees
  <2>1. a \in Nat /\ b \in Nat /\ w = [count |-> a, fees |-> b]
    <3>1. w = [count |-> a, fees |-> b]
      OBVIOUS
    <3> HIDE DEF w
    <3>2. QED
      BY <1>2, <1>3, <3>1
  <2>2. b = work.receipts.fees + r.fees
    OBVIOUS
  <2> HIDE DEF a, b, w
  <2>3. QED
    BY <2>1, <2>2 DEF Receipts
<1> HIDE DEF w
<1>5. /\ work' \in Works /\ work'.receipts = w /\ work'.time = work.time
      /\ work'.block = work.block
  BY <1>1, <1>2, <1>4 DEF Works
<1>6. work' # NoBlock
  BY <1>2, <1>5 DEF NoBlock
<1>7. WorkFees' = WorkFees + r.fees
  BY <1>4, <1>5, <1>6 DEF WorkFees
<1>8. next \in View /\ Covered(next) /\ next.now = view.now
      /\ AddsUp(next, (Fees(sessions, Len(sessions)) + WorkFees) + r.fees)
  BY DEF Leaves
<1>9. TypeInv'
  BY <1>1, <1>5, <1>8 DEF IInv, TypeInv
<1>10. Processing'
  BY <1>1, <1>5, <1>8 DEF IInv, Processing
<1>11. Books'
  <2>1. Fees(sessions, Len(sessions)) \in Int /\ WorkFees \in Nat
    BY FeesInt, WorkFields DEF IInv, TypeInv
  <2>2. (Fees(sessions, Len(sessions)) + WorkFees) + r.fees
           = Fees(sessions, Len(sessions)) + WorkFees'
    BY <1>3, <1>7, <2>1
  <2>3. Covered(view') /\ AddsUp(view', Fees(sessions', Len(sessions')) + WorkFees')
    BY <1>1, <1>8, <2>2
  <2>4. QED
    BY <1>1, <2>3 DEF IInv, Books
<1>12. SinkHoldsApplied'
  BY <1>1 DEF IInv, SinkHoldsApplied
<1>13. QED
  BY <1>9, <1>10, <1>11, <1>12 DEF IInv

\* A session is revoked, by a block that fails or a fork switch.
LEMMA RevokedInv ==
    ASSUME IInv, sessions # <<>>, view' = Last(sessions).below, sessions' = Front(sessions),
           work' = NoBlock, UNCHANGED <<lenient, steps, sink, completed>>
    PROVE  IInv'
<1> DEFINE l == Len(sessions)
<1>1. sessions \in Seq(Sessions) /\ l \in Nat /\ l > 0 /\ l \in DOMAIN sessions
  BY DEF IInv, TypeInv
<1>2. view' = sessions[l].below /\ view' \in View
  BY <1>1, SessionFields DEF Last
<1>3. /\ sessions' \in Seq(Sessions) /\ Len(sessions') = l - 1
      /\ DOMAIN sessions' = 1 .. l - 1 /\ DOMAIN sessions = 1 .. l
      /\ \A k \in 1 .. l - 1 : sessions'[k] = sessions[k]
  <2> DEFINE m == l - 1
  <2>1. m \in Nat /\ m <= Len(sessions) /\ sessions' = SubSeq(sessions, 1, m)
    BY <1>1 DEF Front
  <2>2. DOMAIN sessions = 1 .. l
    BY <1>1
  <2> HIDE DEF m, l
  <2>3. /\ sessions' \in Seq(Sessions) /\ Len(sessions') = m
        /\ \A k \in 1 .. m : sessions'[k] = sessions[k]
    BY <1>1, <2>1
  <2>4. DOMAIN sessions' = 1 .. m
    BY <2>3
  <2>5. QED
    BY <2>2, <2>3, <2>4 DEF m
<1> HIDE DEF l
<1>4. TypeInv' /\ Processing'
  BY <1>2, <1>3 DEF IInv, TypeInv, Processing
<1>5. Books'
  <2>1. \A k \in 0 .. l - 1 : Fees(sessions', k) = Fees(sessions, k)
    <3> TAKE k \in 0 .. l - 1
    <3>1. \A i \in 1 .. k : sessions'[i].receipts = sessions[i].receipts
      BY <1>1, <1>3
    <3>2. QED
      BY <1>1, <1>3, <3>1, FeesSame DEF l
  <2>2. Covered(sessions[l].below) /\ AddsUp(sessions[l].below, Fees(sessions, l - 1))
    BY <1>1 DEF IInv, Books
  <2>3. Fees(sessions', l - 1) + WorkFees' = Fees(sessions, l - 1)
    <3>1. l - 1 \in Nat /\ l - 1 < Len(sessions) /\ l - 1 \in 0 .. l - 1
      BY <1>1 DEF l
    <3>2. Fees(sessions, l - 1) \in Int
      BY <1>1, <3>1, FeesNext
    <3>3. WorkFees' = 0
      BY DEF WorkFees
    <3>4. QED
      BY <2>1, <3>1, <3>2, <3>3
  <2>4. Covered(view') /\ AddsUp(view', Fees(sessions', Len(sessions')) + WorkFees')
    BY <1>2, <1>3, <2>2, <2>3
  <2>5. ASSUME NEW k \in DOMAIN sessions'
        PROVE  Covered(sessions'[k].below) /\ AddsUp(sessions'[k].below, Fees(sessions', k - 1))
    <3>1. k \in DOMAIN sessions /\ sessions'[k] = sessions[k] /\ k - 1 \in 0 .. l - 1
      BY <1>1, <1>3
    <3>2. Fees(sessions', k - 1) = Fees(sessions, k - 1)
      BY <2>1, <3>1
    <3>3. QED
      BY <3>1, <3>2 DEF IInv, Books
  <2>6. QED
    BY <2>4, <2>5 DEF Books
<1>6. SinkHoldsApplied'
  <2>1. \A k \in DOMAIN sessions' : k \in DOMAIN sessions /\ sessions'[k] = sessions[k]
    BY <1>1, <1>3
  <2>2. QED
    BY <2>1 DEF IInv, SinkHoldsApplied
<1>7. QED
  BY <1>4, <1>5, <1>6 DEF IInv

\* What was drawn ages to a row of integers, whichever way time moves.
LEMMA AgedType ==
    ASSUME NEW d \in [Ages -> Int], NEW passed \in Int
    PROVE  Aged(d, passed) \in [Ages -> Int]
<1>1. Window \in Nat
  BY WindowPositive
<1>2. CASE passed < 0
  BY <1>2 DEF Aged, NothingDrawn, Ages
<1>3. CASE ~(passed < 0)
  <2>1. \A age \in Ages : ~(age < passed) => age - passed \in Ages
    BY <1>1, <1>3 DEF Ages
  <2>2. Aged(d, passed) = [age \in Ages |-> IF age < passed THEN 0 ELSE d[age - passed]]
    BY <1>3 DEF Aged, Ages
  <2>3. QED
    BY <2>1, <2>2
<1>4. QED
  BY <1>2, <1>3

\* A block is closed: its receipts go to its session and to the sink.
LEMMA CloseInv ==
    ASSUME IInv, CloseBlock
    PROVE  IInv'
<1> DEFINE l == Len(sessions)
           now == Slot[work.block]
           number == Number[work.block]
           aged == Aged(view.drawn, now - view.now)
           repeats == \E k \in 1 .. l - 1 : Number[sessions[k].block] = number
           top == [sessions[l] EXCEPT !.receipts = work.receipts]
           given == [number |-> number, receipts |-> work.receipts, time |-> work.time,
                     repeats |-> repeats]
<1>1. /\ work # NoBlock /\ view' = [view EXCEPT !.now = now, !.drawn = aged]
      /\ sink' = (IF work.receipts = NoReceipts THEN sink ELSE Append(sink, given))
      /\ completed' = completed \cup {work.time} /\ work' = NoBlock
      /\ UNCHANGED <<lenient, steps>>
  BY DEF CloseBlock, Delivered
<1>2. /\ sessions \in Seq(Sessions) /\ sessions # <<>> /\ l \in Nat /\ l > 0
      /\ DOMAIN sessions = 1 .. l /\ l \in DOMAIN sessions
      /\ sink \in Seq(Given) /\ steps \in Nat /\ completed \subseteq Nat
      /\ sessions[l].receipts = NoReceipts /\ sessions[l].time = work.time
      /\ sessions[l].block = work.block /\ Len(sessions) = l
  BY <1>1 DEF IInv, TypeInv, Processing
<1>3. /\ work.block \in Blocks /\ work.time \in Nat /\ work.receipts \in Receipts
      /\ work.receipts.count \in Nat /\ work.receipts.fees \in Nat
  BY <1>1, WorkFields DEF IInv
<1>a. now \in Int /\ number \in Int /\ repeats \in BOOLEAN
  BY <1>3, TransactionsAssumption
<1>b. \A k \in 1 .. l - 1 : Number[sessions[k].block] = number => repeats
  OBVIOUS
<1> HIDE DEF l, now, number, repeats
<1>4. /\ view \in View /\ view.now \in Int /\ view.drawn \in [Ages -> Int]
  BY ViewFields DEF IInv, TypeInv
<1>5. aged \in [Ages -> Int]
  BY <1>4, <1>a, AgedType
<1> HIDE DEF aged
<1>6. /\ view' \in View /\ view'.balance = view.balance /\ view'.minted = view.minted
      /\ view'.uncovered = view.uncovered
  BY <1>1, <1>4, <1>5, <1>a DEF View
<1>7. /\ top \in Sessions /\ top.receipts = work.receipts /\ top.block = work.block
      /\ top.time = work.time /\ top.below = sessions[l].below
  <2>1. sessions[l] \in Sessions
    BY <1>2, SessionFields
  <2>2. QED
    BY <1>2, <1>3, <2>1 DEF Sessions
<1>8. sessions' = [sessions EXCEPT ![l] = top]
  BY <1>1, <1>2 DEF CloseBlock, l
<1> HIDE DEF top
<1>9. /\ sessions' \in Seq(Sessions) /\ Len(sessions') = l /\ sessions'[l] = top
      /\ DOMAIN sessions' = 1 .. l
      /\ \A k \in 1 .. l : k # l => sessions'[k] = sessions[k]
  <2>1. sessions \in [1 .. l -> Sessions]
    BY <1>2
  <2>2. /\ sessions' \in [1 .. l -> Sessions] /\ sessions'[l] = top
        /\ \A k \in 1 .. l : k # l => sessions'[k] = sessions[k]
    BY <1>2, <1>7, <1>8, <2>1
  <2>3. sessions' \in Seq(Sessions) /\ DOMAIN sessions' = 1 .. l
    BY <1>2, <2>2, SeqDef
  <2>4. Len(sessions') = l
    BY <1>2, <2>3
  <2>5. QED
    BY <2>2, <2>3, <2>4
<1>10. given \in Given /\ given.number = number /\ given.time = work.time
       /\ given.receipts = work.receipts /\ given.repeats = repeats
  BY <1>3, <1>a DEF Given
<1> HIDE DEF given
<1>11. TypeInv'
  <2>1. sink' \in Seq(Given)
    BY <1>1, <1>2, <1>10
  <2>2. completed' \subseteq Nat
    BY <1>1, <1>2, <1>3
  <2>3. QED
    BY <1>1, <1>6, <1>9, <2>1, <2>2 DEF IInv, TypeInv
<1>12. Processing'
  BY <1>1 DEF Processing
<1>13. Books'
  <2> DEFINE m == l - 1
  <2>1. m \in Nat /\ m < Len(sessions) /\ m < Len(sessions') /\ m + 1 = l
    BY <1>2, <1>9
  <2>2. \A k \in 0 .. m : Fees(sessions', k) = Fees(sessions, k)
    <3> TAKE k \in 0 .. m
    <3>1. \A i \in 1 .. k : sessions'[i].receipts = sessions[i].receipts
      BY <1>2, <1>9, <2>1
    <3>2. k \in Nat /\ k <= Len(sessions) /\ k <= Len(sessions')
      BY <2>1
    <3>3. QED
      BY <1>2, <1>9, <3>1, <3>2, FeesSame
  <2>3. Fees(sessions', m) = Fees(sessions, m) /\ Fees(sessions, m) \in Int
    BY <1>2, <2>1, <2>2, FeesNext
  <2>4. Fees(sessions, m + 1) = Fees(sessions, m) + sessions[m + 1].receipts.fees
    BY <1>2, <2>1, FeesNext
  <2>5. Fees(sessions', m + 1) = Fees(sessions', m) + sessions'[m + 1].receipts.fees
    BY <1>9, <2>1, FeesNext
  <2>6. sessions[m + 1].receipts.fees = 0 /\ sessions'[m + 1].receipts.fees = work.receipts.fees
    BY <1>2, <1>7, <1>9, <2>1 DEF NoReceipts
  <2>7. WorkFees = work.receipts.fees /\ WorkFees' = 0
    BY <1>1 DEF WorkFees
  <2> HIDE DEF m
  <2>8. Fees(sessions', Len(sessions')) + WorkFees' = Fees(sessions, Len(sessions)) + WorkFees
    BY <1>2, <1>3, <1>9, <2>1, <2>3, <2>4, <2>5, <2>6, <2>7
  <2>9. Covered(view') /\ AddsUp(view', Fees(sessions', Len(sessions')) + WorkFees')
    BY <1>6, <2>8 DEF IInv, Books, Covered, AddsUp
  <2>10. ASSUME NEW k \in DOMAIN sessions'
         PROVE  Covered(sessions'[k].below) /\ AddsUp(sessions'[k].below, Fees(sessions', k - 1))
    <3>1. k \in DOMAIN sessions /\ k - 1 \in 0 .. m
      BY <1>2, <1>9, <2>1
    <3>2. sessions'[k].below = sessions[k].below
      BY <1>2, <1>7, <1>9
    <3>3. Fees(sessions', k - 1) = Fees(sessions, k - 1)
      BY <2>2, <3>1
    <3>4. QED
      BY <3>1, <3>2, <3>3 DEF IInv, Books
  <2>11. QED
    BY <2>9, <2>10 DEF Books
<1>14. SinkHoldsApplied'
  <2>1. /\ \A i \in DOMAIN sink : sink[i].time \in completed
        /\ \A k \in DOMAIN sessions : sessions[k].receipts.count > 0 =>
              \E i \in DOMAIN sink :
                 /\ sink[i].time = sessions[k].time
                 /\ sink[i].number = Number[sessions[k].block]
                 /\ sink[i].receipts = sessions[k].receipts
                 /\ \A j \in i + 1 .. Len(sink) :
                       sink[j].number = sink[i].number => sink[j].repeats
    BY DEF IInv, SinkHoldsApplied
  <2>2. CASE work.receipts = NoReceipts
    <3>1. sink' = sink
      BY <1>1, <2>2
    <3>2. ASSUME NEW k \in DOMAIN sessions', sessions'[k].receipts.count > 0
          PROVE  k \in DOMAIN sessions /\ sessions'[k] = sessions[k]
      <4>1. k # l
        BY <1>7, <1>9, <2>2, <3>2 DEF NoReceipts
      <4>2. QED
        BY <1>2, <1>9, <4>1
    <3>3. completed \subseteq completed'
      BY <1>1
    <3>4. QED
      BY <2>1, <3>1, <3>2, <3>3 DEF SinkHoldsApplied
  <2>3. CASE work.receipts # NoReceipts
    <3> DEFINE n == Len(sink) + 1
    <3>1. /\ n \in Nat /\ DOMAIN sink' = 1 .. n /\ Len(sink') = n /\ sink'[n] = given
          /\ DOMAIN sink = 1 .. n - 1 /\ Len(sink) = n - 1
          /\ \A i \in DOMAIN sink : sink'[i] = sink[i]
          /\ \A i \in DOMAIN sink' : i = n \/ i \in DOMAIN sink
      BY <1>1, <1>2, <1>10, <2>3
    <3> HIDE DEF n
    <3>2. \A i \in DOMAIN sink' : sink'[i].time \in completed'
      BY <1>1, <1>10, <2>1, <3>1
    <3>3. ASSUME NEW k \in DOMAIN sessions', sessions'[k].receipts.count > 0
          PROVE  \E i \in DOMAIN sink' :
                    /\ sink'[i].time = sessions'[k].time
                    /\ sink'[i].number = Number[sessions'[k].block]
                    /\ sink'[i].receipts = sessions'[k].receipts
                    /\ \A j \in i + 1 .. Len(sink') :
                          sink'[j].number = sink'[i].number => sink'[j].repeats
      <4>1. CASE k = l
        <5>1. /\ sink'[n].time = sessions'[k].time
              /\ sink'[n].number = Number[sessions'[k].block]
              /\ sink'[n].receipts = sessions'[k].receipts
          BY <1>7, <1>9, <1>10, <3>1, <4>1 DEF number
        <5>2. n \in DOMAIN sink' /\ n + 1 .. Len(sink') = {}
          BY <3>1
        <5>3. QED
          BY <5>1, <5>2
      <4>2. CASE k # l
        <5>1. k \in DOMAIN sessions /\ sessions'[k] = sessions[k] /\ k \in 1 .. l - 1
          BY <1>2, <1>9, <4>2
        <5>2. PICK i \in DOMAIN sink :
                 /\ sink[i].time = sessions[k].time
                 /\ sink[i].number = Number[sessions[k].block]
                 /\ sink[i].receipts = sessions[k].receipts
                 /\ \A j \in i + 1 .. Len(sink) :
                       sink[j].number = sink[i].number => sink[j].repeats
          BY <2>1, <3>3, <5>1
        <5>3. i \in DOMAIN sink' /\ sink'[i] = sink[i]
          BY <3>1
        <5>4. ASSUME NEW j \in i + 1 .. Len(sink'), sink'[j].number = sink'[i].number
              PROVE  sink'[j].repeats
          <6>1. CASE j = n
            <7>1. Number[sessions[k].block] = number
              BY <1>10, <3>1, <5>2, <5>3, <5>4, <6>1
            <7>2. repeats
              BY <1>b, <5>1, <7>1
            <7>3. sink'[n].repeats = repeats
              BY <1>10, <3>1
            <7>4. QED
              BY <6>1, <7>2, <7>3
          <6>2. CASE j # n
            <7>1. j \in i + 1 .. Len(sink) /\ j \in DOMAIN sink
              BY <3>1, <5>4, <6>2
            <7>2. sink'[j] = sink[j]
              BY <3>1, <7>1
            <7>3. QED
              BY <5>2, <5>3, <5>4, <7>1, <7>2
          <6>3. QED
            BY <6>1, <6>2
        <5>5. QED
          BY <5>1, <5>2, <5>3, <5>4
      <4>3. QED
        BY <4>1, <4>2
    <3>4. QED
      BY <3>2, <3>3 DEF SinkHoldsApplied
  <2>4. QED
    BY <2>2, <2>3
<1>15. QED
  BY <1>11, <1>12, <1>13, <1>14 DEF IInv

\* What is true of a step in which the block goes on or is opened.
NoGain ==
    work' # NoBlock /\ view'.stake = view.stake
        => CallerEnergy(view', Staker)
               <= CallerEnergy(view, Staker) - (view'.drawn[0] - view.drawn[0])

\* ... and of a step in which the block goes on.
OnlyDraws ==
    work' # NoBlock => Draws(view, view') /\ view'.now = view.now

\* Every step keeps the invariant, and gains no staked energy.
LEMMA StepInv ==
    ASSUME IInv, Next
    PROVE  IInv' /\ NoGain /\ OnlyDraws
<1> DEFINE fees == Fees(sessions, Len(sessions)) + WorkFees
<1>1. /\ view \in View /\ Covered(view) /\ AddsUp(view, fees) /\ fees \in Int
      /\ sessions \in Seq(Sessions)
  <2>1. Fees(sessions, Len(sessions)) \in Int /\ WorkFees \in Nat
    BY FeesInt, WorkFields DEF IInv, TypeInv
  <2>2. QED
    BY <2>1 DEF IInv, TypeInv, Books
<1>2. NoReceipts \in Receipts /\ NoReceipts.fees = 0
  BY DEF NoReceipts, Receipts
<1>3. work # NoBlock => sessions # <<>>
  BY DEF IInv, Processing
<1> HIDE DEF fees
<1>4. ASSUME NEW next, NEW r \in Receipts, work # NoBlock, Executed(next, r),
             Leaves(next, fees, r.fees)
      PROVE  IInv' /\ NoGain /\ OnlyDraws
  <2>1. IInv'
    BY <1>4, ExecutedInv DEF fees
  <2>2. view' = next
    BY <1>4 DEF Executed
  <2>3. QED
    BY <1>4, <2>1, <2>2 DEF Leaves, NoGain, OnlyDraws
<1>5. ASSUME work # NoBlock, FailBlock PROVE IInv' /\ NoGain /\ OnlyDraws
  <2>1. IInv'
    BY <1>3, <1>5, RevokedInv DEF FailBlock
  <2>2. QED
    BY <1>5, <2>1 DEF FailBlock, NoGain, OnlyDraws
<1>6. CASE \E b \in Blocks : OpenBlock(b)
  <2>1. IInv' /\ view' = view
    BY <1>6, OpenInv DEF OpenBlock
  <2>2. CallerEnergy(view, Staker) \in Nat /\ view.drawn[0] \in Int
    BY <1>1, CallerEnergyNat, ViewFields, WindowPositive DEF Ages
  <2>3. QED
    BY <2>1, <2>2 DEF NoGain, OnlyDraws, Draws
<1>7. ASSUME NEW owner \in Accounts, NEW to \in Accounts, NEW amount \in Amounts,
             Transfer(owner, to, amount)
      PROVE  IInv' /\ NoGain /\ OnlyDraws
  <2>1. PICK next \in View : Executed(next, NoReceipts) /\ Leaves(next, fees, 0)
    BY <1>1, <1>7, TransferLeaves
  <2>2. work # NoBlock
    BY <1>7 DEF Transfer, Busy
  <2>3. QED
    BY <1>2, <1>4, <2>1, <2>2
<1>8. ASSUME NEW owner \in Accounts, NEW to \in Accounts, NEW amount \in Amounts,
             TransferFails(owner, to, amount)
      PROVE  IInv' /\ NoGain /\ OnlyDraws
  BY <1>5, <1>8 DEF TransferFails, Busy
<1>9. CASE Unhandled
  <2>1. work # NoBlock
    BY <1>9 DEF Unhandled, Busy
  <2>2. CASE lenient
    <3>1. Executed(view, NoReceipts)
      BY <1>9, <2>2 DEF Unhandled
    <3>2. Leaves(view, fees, 0)
      BY <1>1, LeavesSame DEF SameEnergy
    <3>3. QED
      BY <1>2, <1>4, <2>1, <3>1, <3>2
  <2>3. CASE ~lenient
    BY <1>5, <1>9, <2>1, <2>3 DEF Unhandled
  <2>4. QED
    BY <2>2, <2>3
<1>10. ASSUME NEW s \in Stakes, Restake(s) PROVE IInv' /\ NoGain /\ OnlyDraws
  <2> DEFINE next == [view EXCEPT !.stake = s]
  <2>1. work # NoBlock /\ s # view.stake /\ Executed(next, NoReceipts)
    BY <1>10 DEF Restake, Busy
  <2>2. /\ next \in View /\ next.stake = s /\ next.balance = view.balance
        /\ next.minted = view.minted /\ next.uncovered = view.uncovered /\ next.now = view.now
        /\ next.usage = view.usage /\ next.last = view.last /\ next.drawn = view.drawn
    BY <1>1 DEF View
  <2> HIDE DEF next
  <2>3. fees + 0 = fees
    BY <1>1
  <2>4. Leaves(next, fees, 0)
    BY <1>1, <2>1, <2>2, <2>3 DEF Leaves, Covered, AddsUp, Draws
  <2>5. QED
    BY <1>2, <1>4, <2>1, <2>4
<1>11. ASSUME NEW owner \in Accounts, NEW contract \in Accounts, NEW value \in CallValues,
              NEW limit \in FeeLimits, NEW used \in Uses, NEW run \in Runs,
              ExecuteContract(owner, contract, value, limit, used, run)
       PROVE  IInv' /\ NoGain /\ OnlyDraws
  <2>1. PICK next \in View, fee \in Nat :
           Executed(next, [count |-> 1, fees |-> fee]) /\ Leaves(next, fees, fee)
    BY <1>1, <1>11, ContractLeaves
  <2> DEFINE r == [count |-> 1, fees |-> fee]
  <2>2. r \in Receipts /\ r.fees = fee /\ Executed(next, r)
    BY <2>1 DEF Receipts
  <2>3. work # NoBlock
    BY <1>11 DEF ExecuteContract, Busy
  <2> HIDE DEF r
  <2>4. QED
    BY <1>4, <2>1, <2>2, <2>3
<1>12. CASE CloseBlock
  BY <1>12, CloseInv DEF CloseBlock, NoGain, OnlyDraws
<1>13. CASE RevokeTip
  <2>1. IInv'
    BY <1>13, RevokedInv DEF RevokeTip
  <2>2. work' = NoBlock
    BY <1>13 DEF RevokeTip
  <2>3. QED
    BY <2>1, <2>2 DEF NoGain, OnlyDraws
<1>14. QED
  BY <1>6, <1>7, <1>8, <1>9, <1>10, <1>11, <1>12, <1>13 DEF Next

\* IInv is an invariant: it holds at the start and every step keeps it.
THEOREM InductiveInvariant == Spec => []IInv
<1>1. IInv /\ UNCHANGED vars => IInv'
  <2> SUFFICES ASSUME IInv, UNCHANGED vars PROVE IInv'
    OBVIOUS
  <2>1. /\ lenient' = lenient /\ view' = view /\ sessions' = sessions /\ work' = work
        /\ steps' = steps /\ sink' = sink /\ completed' = completed
    BY DEF vars
  <2>2. QED
    BY <2>1 DEF IInv, TypeInv, Processing, Books, WorkFees, SinkHoldsApplied
<1>2. IInv /\ [Next]_vars => IInv'
  BY <1>1, StepInv
<1>3. QED
  BY InitInv, <1>2, PTL DEF Spec

\* TRX is only burned as the receipts of the applied blocks say, and only
\* minted by replay provisioning.
THEOREM BurnTheorem == Spec => []BurnMatchesReceipts
<1>1. IInv => BurnMatchesReceipts
  <2> SUFFICES ASSUME IInv PROVE BurnMatchesReceipts
    OBVIOUS
  <2> DEFINE f == [k \in DOMAIN sessions |-> sessions[k].receipts.fees]
  <2>1. DOMAIN f = 1 .. Len(sessions)
    BY DEF IInv, TypeInv
  <2>2. Total(f) = Fees(sessions, Len(sessions))
    BY <2>1 DEF Total, SumFunction, Fees
  <2>3. Burned = Fees(sessions, Len(sessions)) + WorkFees
    BY <2>2 DEF Burned, WorkFees
  <2>4. QED
    BY <2>3 DEF IInv, Books, AddsUp, BurnMatchesReceipts
<1>2. QED
  BY <1>1, InductiveInvariant, PTL

\* No balance is negative unless its account made a call that Uncovers: with a
\* negative value, more than its balance, or one whose run sends its own TRX.
THEOREM OverdrawnTheorem == Spec => []OverdrawnOnlyUncovered
<1>1. IInv => OverdrawnOnlyUncovered
  BY DEF IInv, Books, Covered, OverdrawnOnlyUncovered
<1>2. QED
  BY <1>1, InductiveInvariant, PTL

\* The receipts of the applied blocks are in what the sink was given, and are
\* the last of their number but for blocks above them that repeat it.
THEOREM SinkTheorem == Spec => []SinkHoldsApplied
<1>1. IInv => SinkHoldsApplied
  BY DEF IInv
<1>2. QED
  BY <1>1, InductiveInvariant, PTL

\* Paying from the stake costs the stake.
THEOREM EnergyTheorem == Spec => NoFreeEnergy
<1>1. IInv /\ [Next]_vars => [NoGain]_vars
  BY StepInv
<1>2. QED
  BY <1>1, InductiveInvariant, PTL DEF Spec, NoFreeEnergy, NoGain

-----------------------------------------------------------------------------
(* Every view a revocation can come back to pays at that rate.             *)

Rates == Steady(view) /\ \A k \in DOMAIN sessions : Steady(sessions[k].below)

\* It does at the start.
LEMMA InitRates == Init => Rates
<1> SUFFICES ASSUME Init PROVE Rates
  OBVIOUS
<1>1. PICK s \in Stakes : view = InitialView(s)
  BY DEF Init
<1>2. Steady(view)
  BY <1>1, RateInitial DEF Steady
<1>3. DOMAIN sessions = {}
  BY DEF Init
<1>4. QED
  BY <1>2, <1>3 DEF Rates

\* What is revoked brings back a view kept below.
LEMMA RevokedRates ==
    ASSUME IInv, Rates, sessions # <<>>, view' = Last(sessions).below,
           sessions' = Front(sessions)
    PROVE  Rates'
<1> DEFINE l == Len(sessions)
           m == l - 1
<1>1. sessions \in Seq(Sessions) /\ l \in Nat /\ l > 0 /\ l \in DOMAIN sessions
  BY DEF IInv, TypeInv
<1>2. view' = sessions[l].below
  BY <1>1 DEF Last
<1>3. m \in Nat /\ m <= Len(sessions) /\ sessions' = SubSeq(sessions, 1, m)
  BY <1>1 DEF Front
<1> HIDE DEF m, l
<1>4. Len(sessions') = m /\ \A k \in 1 .. m : sessions'[k] = sessions[k]
  BY <1>1, <1>3
<1>5. DOMAIN sessions' = 1 .. m /\ 1 .. m \subseteq DOMAIN sessions
  BY <1>1, <1>3, <1>4
<1>6. Steady(view')
  BY <1>1, <1>2 DEF Rates
<1>7. \A k \in DOMAIN sessions' : Steady(sessions'[k].below)
  BY <1>4, <1>5 DEF Rates
<1>8. QED
  BY <1>6, <1>7 DEF Rates

\* Closing a block lets slots pass, or takes time back.
LEMMA CloseRates ==
    ASSUME IInv, Rates, CloseBlock
    PROVE  Rates'
<1> DEFINE l == Len(sessions)
           passed == Slot[work.block] - view.now
           aged == Aged(view.drawn, passed)
           w == view'
<1>1. /\ work # NoBlock /\ w = [view EXCEPT !.now = Slot[work.block], !.drawn = aged]
      /\ sessions' = [sessions EXCEPT ![l].receipts = work.receipts]
  BY DEF CloseBlock
<1>2. /\ sessions \in Seq(Sessions) /\ l \in Nat /\ DOMAIN sessions = 1 .. l
      /\ view \in View /\ Steady(view) /\ w \in View
  BY <1>1, CloseInv DEF IInv, TypeInv, Rates
<1>3. passed \in Int /\ Slot[work.block] = view.now + passed
  <2>1. Slot[work.block] \in Int
    BY <1>1, WorkFields, TransactionsAssumption DEF IInv
  <2>2. view.now \in Int
    BY <1>2, ViewFields
  <2>3. QED
    BY <2>1, <2>2
<1>4. /\ w.drawn = aged /\ w.now = view.now + passed /\ w.usage = view.usage
      /\ w.last = view.last
  BY <1>1, <1>2, <1>3 DEF View
<1> HIDE DEF w, passed
<1>5. Steady(w)
  <2>1. CASE passed < 0
    <3>1. aged = [age \in Ages |-> 0]
      BY <2>1 DEF Aged, NothingDrawn, Ages
    <3>2. QED
      BY <1>4, <3>1 DEF Steady, Untouched
  <2>2. CASE ~(passed < 0)
    <3>1. aged = [age \in Ages |-> IF age < passed THEN 0 ELSE view.drawn[age - passed]]
      BY <2>2 DEF Aged, Ages
    <3>2. passed \in Nat
      BY <1>3, <2>2
    <3> HIDE DEF aged
    <3>3. CASE Rate(view)
      BY <1>2, <1>4, <3>1, <3>2, <3>3, RateAges DEF Steady
    <3>4. CASE Untouched(view)
      <4>1. \A age \in Ages : ~(age < passed) => age - passed \in Ages
        BY <3>2, WindowPositive DEF Ages
      <4>2. \A age \in Ages : w.drawn[age] = 0
        BY <1>4, <3>1, <3>4, <4>1 DEF Untouched
      <4>3. QED
        BY <4>2 DEF Steady, Untouched
    <3>5. QED
      BY <1>2, <3>3, <3>4 DEF Steady
  <2>3. QED
    BY <2>1, <2>2
<1>6. \A k \in DOMAIN sessions' : k \in DOMAIN sessions /\ sessions'[k].below = sessions[k].below
  <2> SUFFICES ASSUME NEW k \in DOMAIN sessions'
               PROVE  k \in DOMAIN sessions /\ sessions'[k].below = sessions[k].below
    OBVIOUS
  <2>1. k \in DOMAIN sessions
    BY <1>1
  <2>2. sessions[k] \in Sessions
    BY <1>2, <2>1, SessionFields
  <2>3. QED
    BY <1>1, <2>1, <2>2 DEF Sessions
<1>7. QED
  BY <1>5, <1>6 DEF Rates, w

\* Every step keeps the rate of every view.
LEMMA StepRates ==
    ASSUME IInv, Rates, Next
    PROVE  Rates'
<1>1. IInv' /\ OnlyDraws
  BY StepInv
<1>2. view \in View /\ view' \in View /\ sessions \in Seq(Sessions)
  BY <1>1 DEF IInv, TypeInv
<1>3. ASSUME work' # NoBlock PROVE Steady(view')
  BY <1>1, <1>2, <1>3, DrawsKeepRate DEF OnlyDraws, Rates
<1>4. ASSUME work' # NoBlock, sessions' = sessions PROVE Rates'
  BY <1>3, <1>4 DEF Rates
<1>5. ASSUME NEW next, NEW r, Executed(next, r), work # NoBlock PROVE Rates'
  <2>1. sessions' = sessions
    BY <1>5 DEF Executed
  <2>2. work' # NoBlock
    <3>1. work \in Works /\ work.time \in Nat \ {0}
      BY <1>5, WorkFields DEF IInv
    <3>2. work'.time = work.time
      BY <1>5, <3>1 DEF Executed, Works
    <3>3. NoBlock.time = 0
      BY DEF NoBlock
    <3>4. QED
      BY <3>1, <3>2, <3>3
  <2>3. QED
    BY <1>4, <2>1, <2>2
<1>6. ASSUME work # NoBlock, FailBlock PROVE Rates'
  <2>1. sessions # <<>>
    BY <1>6 DEF IInv, Processing
  <2>2. QED
    BY <1>6, <2>1, RevokedRates DEF FailBlock
<1>7. ASSUME NEW b \in Blocks, OpenBlock(b) PROVE Rates'
  <2> DEFINE s == [below |-> view, time |-> steps + 1, block |-> b, receipts |-> NoReceipts]
             l == Len(sessions)
  <2>1. sessions' = Append(sessions, s) /\ view' = view /\ s.below = view
    BY <1>7 DEF OpenBlock
  <2> HIDE DEF s
  <2>2. /\ DOMAIN sessions' = 1 .. l + 1 /\ DOMAIN sessions = 1 .. l /\ l \in Nat
        /\ sessions'[l + 1] = s /\ \A k \in 1 .. l : sessions'[k] = sessions[k]
    BY <1>2, <2>1
  <2>3. ASSUME NEW k \in DOMAIN sessions' PROVE Steady(sessions'[k].below)
    <3>1. CASE k = l + 1
      BY <2>1, <2>2, <3>1 DEF Rates
    <3>2. CASE k # l + 1
      <4>1. k \in 1 .. l
        BY <2>2, <3>2
      <4>2. QED
        BY <2>2, <4>1 DEF Rates
    <3>3. QED
      BY <3>1, <3>2
  <2>4. Steady(view')
    BY <2>1 DEF Rates
  <2>5. QED
    BY <2>3, <2>4 DEF Rates
<1>8. CASE \E owner, to \in Accounts, amount \in Amounts :
              Transfer(owner, to, amount) \/ TransferFails(owner, to, amount)
  BY <1>5, <1>6, <1>8 DEF Transfer, TransferFails, Busy
<1>9. CASE Unhandled
  BY <1>5, <1>6, <1>9 DEF Unhandled, Busy
<1>10. CASE \E s \in Stakes : Restake(s)
  BY <1>5, <1>10 DEF Restake, Busy
<1>11. CASE \E owner, contract \in Accounts, value \in CallValues, feeLimit \in FeeLimits,
               used \in Uses, run \in Runs :
                   ExecuteContract(owner, contract, value, feeLimit, used, run)
  BY <1>5, <1>11 DEF ExecuteContract, Busy
<1>12. CASE CloseBlock
  BY <1>12, CloseRates
<1>13. CASE RevokeTip
  BY <1>13, RevokedRates DEF RevokeTip
<1>14. QED
  BY <1>7, <1>8, <1>9, <1>10, <1>11, <1>12, <1>13 DEF Next

\* A stake is a rate, not a well: no window in which time does not move back
\* pays out more than a full limit and what of it recovers before the window
\* is over, whatever the limits, the window, the usage it starts with and the
\* order of blocks, revocations and stake changes.
THEOREM RateTheorem == Spec => []WindowDrawBounded
<1>1. IInv /\ Rates /\ [Next]_vars => Rates'
  <2> SUFFICES ASSUME IInv, Rates, [Next]_vars PROVE Rates'
    OBVIOUS
  <2>1. CASE UNCHANGED vars
    BY <2>1 DEF vars, Rates
  <2>2. QED
    BY <2>1, StepRates
<1>2. IInv /\ Rates => WindowDrawBounded
  <2> SUFFICES ASSUME IInv, Rates PROVE WindowDrawBounded
    OBVIOUS
  <2>1. view \in View /\ Steady(view)
    BY DEF IInv, TypeInv, Rates
  <2>2. QED
    BY <2>1, RateBounds DEF WindowDrawBounded, Slope
<1>3. QED
  BY <1>1, <1>2, InitRates, InductiveInvariant, PTL DEF Spec

=============================================================================
