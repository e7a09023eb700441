---------------------------- MODULE RewardsProofs ----------------------------
(***************************************************************************)
(* Proofs about Rewards: what an account has been credited or could settle *)
(* is its share of every closed cycle, up to the rounding of the index,    *)
(* and the voters together never earn more than was paid into the pools.   *)
(***************************************************************************)
EXTENDS Rewards, NatFacts, TLAPS

N == NewAlgoCycle
D == DecimalOfViReward
K == Cardinality(Witnesses)

(* What account a was credited for its votes so far.                       *)
Paid(a) == allowance[a] + balance[a] - brokered[a]

(* Cycle c's price of n votes for w, times D: the old share, or the step   *)
(* of the index.                                                           *)
Unit(c, w, n) == IF c < N THEN D * Share(c, w, n) ELSE n * (Vi(c, w) - Vi(c - 1, w))

(* What account a should get in each cycle, in sun and times D.            *)
SharesOf(a) == [w \in Witnesses |-> [c \in Cycles |-> Share(c, w, effective[c][a][w])]]
UnitsOf(a) == [w \in Witnesses |-> [c \in Cycles |-> Unit(c, w, effective[c][a][w])]]

(* ... and in all the cycles of [b, e).                                    *)
AllShares(a, b, e) == Grid(SharesOf(a), Witnesses, b, e)
AllUnits(a, b, e) == Grid(UnitsOf(a), Witnesses, b, e)

(* The cycles of [b, e) the index is for, and the rounding they allow.     *)
Indexed(b, e) == IF e <= N THEN 0 ELSE IF b <= N THEN e - N ELSE e - b
Slack(b, e) == IF Indexed(b, e) > 0 THEN Indexed(b, e) - 1 ELSE 0
Loss(b, e) == IF IndexExact THEN 0 ELSE Indexed(b, e)

(* amount is fair pay for these shares and units of the cycles of [b, e).  *)
Fair(shares, units, amount, b, e) ==
    /\ amount \in Nat
    /\ amount <= shares + K * Slack(b, e)
    /\ shares <= amount + K * Loss(b, e)
    /\ D * amount <= units

(* ... for a's votes in the cycles of [b, e).                              *)
FairPay(a, amount, b, e) == Fair(AllShares(a, b, e), AllUnits(a, b, e), amount, b, e)

-----------------------------------------------------------------------------
(* The inductive invariant.                                                *)

(* The cycles before this one are paid.                                    *)
PaidUpTo(a) == IF cursor[a].begin <= cycle THEN cursor[a].begin ELSE cycle

(* A snapshot of the votes at the cursor.                                  *)
Snapped(a) == cursor[a].end = cursor[a].begin + 1

(* Cursors and snapshots tell the votes of the cycles yet to be paid.  (The *)
(* votes of cycle 0 count for nothing.)                                    *)
Tracks(a) ==
    LET b == cursor[a].begin IN
    /\ b <= cycle + 1 /\ cursor[a].end <= cycle + 1
    /\ \A c \in Cycles : c > b \/ (c = b /\ ~Snapped(a)) => accountVote[c][a] = NoEntry
    /\ Snapped(a) =>
          /\ b <= cycle /\ accountVote[b][a] \in Ballots
          /\ b > 0 => effective[b][a] = accountVote[b][a]
          /\ \A c \in (b + 1)..cycle : effective[c][a] = votes[a]
    /\ ~Snapped(a) => \A c \in b..cycle : c > 0 => effective[c][a] = votes[a]
    /\ b > cycle /\ cycle > 0 => effective[cycle][a] = NoVotes

(* Before CHANGE_DELEGATION nothing moves.                                 *)
OffAtFirst ==
    ~changeDelegation =>
        cycle = 0 /\ \A a \in Accounts : cursor[a] = [begin |-> 0, end |-> RemarkNoVote]

(* The votes that a witness's count includes: the old ones of a pending    *)
(* entry.                                                                  *)
Counted(a, w) == IF entry[a] = NoEntry THEN votes[a][w] ELSE entry[a].old[w]

CountsCoverVotes ==
    /\ \A w \in Witnesses : SumFunction([a \in Accounts |-> Counted(a, w)]) <= voteCount[w]
    /\ \A a \in Accounts : entry[a] # NoEntry =>
          \A w \in Witnesses : votes[a][w] <= entry[a].new[w]

(* The count of a cycle covers the votes it began with.                    *)
SnapshotsCoverVotes ==
    /\ \A w \in Witnesses : witnessVote[0][w] = RemarkNoVote
    /\ \A c \in 1..cycle, w \in Witnesses :
          /\ witnessVote[c][w] \in 0..MaxVoteCount
          /\ SumFunction([a \in Accounts |-> effective[c][a][w]]) <= witnessVote[c][w]
    /\ cycle > 0 => witnessVote[cycle] = voteCount

(* The index of a closed cycle.                                            *)
IndexAdds ==
    NewAlgoCycle # Disabled =>
        \A c \in 1..(cycle - 1), w \in Witnesses :
            Vi(c, w) = Vi(c - 1, w) + (IF reward[c][w] = 0 \/ witnessVote[c][w] = 0 THEN 0
                                          ELSE (reward[c][w] * D) \div witnessVote[c][w])

(* What the types rest on: a vote count stays above what is taken from it. *)
Base == TypeOK /\ CountsCoverVotes

(* What the prices of the closed cycles rest on.                           *)
Ledger == TypeOK /\ SnapshotsCoverVotes /\ IndexAdds

(* One account: its cursors, and its pay so far.                           *)
Account(a) == Tracks(a) /\ FairPay(a, Paid(a), 0, PaidUpTo(a))

IInv == Base /\ Ledger /\ OffAtFirst /\ \A a \in Accounts : Account(a)

-----------------------------------------------------------------------------
(* One cycle.                                                              *)

(* The assumptions on the constants that the arithmetic needs.             *)
Constants ==
    /\ N \in Nat /\ D \in Nat \ {0} /\ MaxCycle \in Nat /\ MaxVoteCount \in Nat
    /\ IsFiniteSet(Witnesses) /\ IsFiniteSet(Accounts) /\ Witnesses \subseteq Accounts
    /\ K \in Nat

\* The constants are what RewardsAssumption says.
LEMMA ConstantsOK == Constants
<1>1. IsFiniteSet(Witnesses)
  BY RewardsAssumption, FS_Subset
<1>2. QED
  BY <1>1, RewardsAssumption, FS_CardinalityType DEF Constants, N, D, K

\* The index step v for n votes out of m, against the share q of the pool r:
\* it loses at most one unit, and gains less than one.
LEMMA CellBounds ==
    ASSUME NEW d \in Nat \ {0}, NEW m \in Nat \ {0}, NEW r \in Nat, NEW n \in Nat, n <= d,
           NEW v, NEW q, v = (r * d) \div m, q = (n * r) \div m
    PROVE  /\ v \in Nat /\ q \in Nat
           /\ d * (q - 1) <= n * v
           /\ n * v + 1 <= d * (q + 1)
           /\ d % m = 0 => d * q <= n * v
           /\ (n * v) * m <= (d * r) * n
<1> DEFINE x == v * m
           y == q * m
<1>1. r * d \in Nat /\ n * r \in Nat
  BY MulNat
<1>2. v \in Nat /\ x <= r * d /\ r * d < x + m
  BY <1>1, DivBounds, DivNat
<1>3. q \in Nat /\ y <= n * r /\ n * r < y + m
  BY <1>1, DivBounds, DivNat
<1>4. x \in Nat /\ y \in Nat /\ n * v \in Nat /\ n * x \in Nat /\ d * y \in Nat
  BY <1>2, <1>3, MulNat
<1>5. n * x = (n * v) * m /\ d * y = (d * q) * m /\ n * (r * d) = (d * r) * n /\ d * (n * r) = (d * r) * n
  BY <1>2, <1>3
<1> HIDE DEF x, y
<1>6. n * x <= n * (r * d)
  BY <1>1, <1>2, <1>4, MulMono
<1>7. n * (r * d) <= n * x + n * (m - 1)
  <2>1. r * d <= x + (m - 1) /\ m - 1 \in Int /\ x + (m - 1) \in Int
    BY <1>1, <1>2, <1>4
  <2>2. n * (r * d) <= n * (x + (m - 1))
    BY <1>1, <2>1, MulMono
  <2>3. QED
    BY <1>4, <2>1, <2>2, Distrib
<1>8. d * y <= d * (n * r) /\ d * (n * r) <= d * y + d * (m - 1)
  <2>1. n * r <= y + (m - 1) /\ m - 1 \in Int /\ y + (m - 1) \in Int /\ y <= n * r
    BY <1>1, <1>3, <1>4
  <2>2. d * (n * r) <= d * (y + (m - 1)) /\ d * y <= d * (n * r)
    BY <1>1, <1>4, <2>1, MulMono
  <2>3. QED
    BY <1>4, <2>1, <2>2, Distrib
<1>9. n * (m - 1) <= d * (m - 1) /\ d * (m - 1) = d * m - d /\ d * m \in Nat /\ n * (m - 1) \in Int
  <2>1. m - 1 \in Nat
    OBVIOUS
  <2>2. QED
    BY <2>1, MulMono, MulNat
<1> DEFINE z == (d * r) * n
<1>10. z \in Nat
  BY MulNat
<1>11. /\ (n * v) * m \in Int /\ (d * q) * m \in Int /\ d * q \in Int
  BY <1>2, <1>3, <1>4, MulNat
<1>12. (n * v) * m <= z
  BY <1>5, <1>6
<1> DEFINE nv == n * v
           dq == d * q
           dm == d * m
           nx == nv * m
           qx == dq * m
<1>13. z <= nx + (dm - d) /\ qx <= z /\ z <= qx + (dm - d)
  BY <1>4, <1>5, <1>7, <1>8, <1>9, <1>10, <1>11
<1> HIDE DEF z
<1>14. nv \in Nat /\ dq \in Nat /\ dm \in Nat /\ nx \in Int /\ qx \in Int
  BY <1>3, <1>4, <1>9, <1>11, MulNat
<1>15. d * (q - 1) = dq - d /\ d * (q + 1) = dq + d
  BY <1>3
<1>16. (dq - d) * m = qx - dm /\ (dq + d) * m = qx + dm
  BY <1>14
<1> HIDE DEF nv, dq, dm, nx, qx
<1>17. dq - d <= nv
  <2>1. (dq - d) * m < (nv + 1) * m
    <3>1. (nv + 1) * m = nx + m
      BY <1>14 DEF nx
    <3>2. qx - dm < nx + m
      BY <1>10, <1>13, <1>14
    <3>3. QED
      BY <1>16, <3>1, <3>2
  <2>2. dq - d < nv + 1
    BY <1>14, <2>1, CancelLess
  <2>3. QED
    BY <1>14, <2>2
<1>18. nv + 1 <= dq + d
  <2>1. nv * m < (dq + d) * m
    BY <1>10, <1>12, <1>13, <1>14, <1>16 DEF nx, nv
  <2>2. nv < dq + d
    BY <1>14, <2>1, CancelLess
  <2>3. QED
    BY <1>14, <2>2
<1>19. ASSUME d % m = 0 PROVE dq <= nv
  <2>1. d = (d \div m) * m /\ d \div m \in Nat
    BY <1>19, DivMod, DivNat
  <2> DEFINE k == d \div m
  <2>2. r * d = (r * k) * m /\ r * k \in Nat
    BY <2>1, MulNat
  <2> HIDE DEF k
  <2>3. r * k <= v
    BY <1>1, <2>2, DivGreatest
  <2>4. (r * k) * m <= x
    BY <1>2, <2>2, <2>3, MulMono DEF x
  <2>5. x = r * d
    BY <1>1, <1>2, <1>4, <2>2, <2>4
  <2>6. nx = z
    BY <1>5, <2>5 DEF nx, nv, z
  <2>7. qx < (nv + 1) * m
    <3>1. (nv + 1) * m = nx + m
      BY <1>14 DEF nx
    <3>2. QED
      BY <1>10, <1>13, <1>14, <2>6, <3>1
  <2>8. dq < nv + 1
    BY <1>14, <2>7, CancelLess DEF qx
  <2>9. QED
    BY <1>14, <2>8
<1>20. QED
  BY <1>2, <1>3, <1>12, <1>15, <1>17, <1>18, <1>19 DEF nv, dq, z

(* What a cycle may lose to the truncation of the index.                   *)
CellLoss == IF IndexExact THEN 0 ELSE 1

(* The share and the price of one cell, and how they are related.          *)
Cell(c, w, n) ==
    LET q == Share(c, w, n)
        u == Unit(c, w, n)
        m == witnessVote[c][w]
    IN  /\ q \in Nat /\ u \in Nat
        /\ c < N => u = D * q
        /\ c >= N => D * (q - CellLoss) <= u /\ u + 1 <= D * (q + 1)
        /\ m > 0 => u * m <= (D * reward[c][w]) * n
        /\ m <= 0 => q = 0 /\ u = 0

\* No ballot gives a witness more votes than the index has decimals.
LEMMA BallotType ==
    ASSUME NEW ballot \in BallotsOrNone, NEW w \in Witnesses
    PROVE  ballot[w] \in Nat /\ ballot[w] <= D
<1>1. CASE ballot = NoVotes
  BY <1>1, ConstantsOK DEF NoVotes, Constants
<1>2. CASE ballot \in Ballots
  BY <1>2, RewardsAssumption DEF D
<1>3. QED
  BY <1>1, <1>2 DEF BallotsOrNone

\* What TypeOK says of one closed cycle and witness.
LEMMA CellTypes ==
    ASSUME Ledger, NEW c \in Cycles, NEW w \in Witnesses
    PROVE  /\ c \in Nat /\ c <= MaxCycle /\ cycle \in Nat /\ cycle <= MaxCycle
           /\ reward[c][w] \in Nat /\ vi[c][w] \in Nat
           /\ witnessVote[c][w] \in Nat \cup {RemarkNoVote}
<1>1. /\ cycle \in Cycles /\ reward \in [Cycles -> [Witnesses -> Nat]]
      /\ vi \in [Cycles -> [Witnesses -> Nat]]
      /\ witnessVote \in [Cycles -> [Witnesses -> Nat \cup {RemarkNoVote}]]
  BY DEF Ledger, TypeOK
<1>2. MaxCycle \in Nat
  BY ConstantsOK DEF Constants
<1>3. QED
  BY <1>1, <1>2 DEF Cycles

\* One cell of the ledger: n votes for w in the closed cycle c.
LEMMA CellFair ==
    ASSUME Ledger, N > 0, NEW c \in 0..(cycle - 1), NEW w \in Witnesses,
           NEW n \in Nat, n <= D
    PROVE  Cell(c, w, n)
<1>1. N \in Nat /\ D \in Nat \ {0} /\ MaxVoteCount \in Nat /\ cycle \in Cycles /\ MaxCycle \in Nat
  BY ConstantsOK DEF Constants, Ledger, TypeOK
<1>2. c \in Cycles /\ c \in Nat
  BY <1>1 DEF Cycles
<1> DEFINE m == witnessVote[c][w]
           r == reward[c][w]
           v == (r * D) \div m
           q == Share(c, w, n)
           u == Unit(c, w, n)
<1>3. r \in Nat /\ vi[c][w] \in Nat /\ m \in Nat \cup {RemarkNoVote} /\ cycle <= MaxCycle
  BY <1>2, CellTypes
<1>4. CellLoss \in {0, 1}
  BY DEF CellLoss
<1>5. ASSUME m > 0
      PROVE  /\ m \in Nat \ {0} /\ m <= MaxVoteCount /\ c > 0
             /\ q = (n * r) \div m
  <2>1. m \in Nat \ {0}
    BY <1>3, <1>5 DEF RemarkNoVote
  <2>2. c > 0
    BY <1>2, <1>5 DEF Ledger, SnapshotsCoverVotes, RemarkNoVote
  <2>3. c \in 1..cycle
    BY <1>1, <1>2, <1>3, <2>2 DEF Cycles
  <2>4. m \in 0..MaxVoteCount
    BY <2>3 DEF Ledger, SnapshotsCoverVotes
  <2>5. QED
    BY <1>1, <2>1, <2>2, <2>4 DEF Share, RemarkNoVote
<1>6. ASSUME m <= 0 PROVE q = 0
  BY <1>3, <1>6 DEF Share, RemarkNoVote
<1>7. ASSUME c >= N
      PROVE  /\ m \in Nat
             /\ m > 0 => u = n * v
             /\ m <= 0 => u = 0
  <2>1. c > 0 /\ c \in 1..(cycle - 1) /\ c \in 1..cycle /\ ~(c < N)
    BY <1>1, <1>2, <1>7 DEF Cycles
  <2>2. N # Disabled
    BY <1>1, <1>2, <1>3, <1>7, RewardsAssumption DEF N
  <2>3. Vi(c, w) = Vi(c - 1, w) + (IF r = 0 \/ m = 0 THEN 0 ELSE v)
    BY <2>1, <2>2 DEF Ledger, IndexAdds, N
  <2>4. m \in Nat
    <3>1. m \in 0..MaxVoteCount
      BY <2>1 DEF Ledger, SnapshotsCoverVotes
    <3>2. QED
      BY <1>1, <3>1
  <2>5. Vi(c - 1, w) \in Nat
    <3>1. c - 1 \in Cycles /\ c - 1 \in Nat
      BY <1>1, <1>2, <2>1 DEF Cycles
    <3>2. vi[c - 1][w] \in Nat
      BY <3>1, CellTypes
    <3>3. QED
      BY <3>1, <3>2 DEF Vi
  <2>6. u = n * (Vi(c, w) - Vi(c - 1, w))
    BY <2>1 DEF Unit
  <2>7. ASSUME m > 0 PROVE u = n * v
    <3>1. r = 0 => v = 0
      BY <1>1, <2>4, <2>7
    <3>2. v \in Int
      BY <1>1, <1>3, <2>4, <2>7, MulNat, DivNat
    <3> HIDE DEF v
    <3>3. Vi(c, w) - Vi(c - 1, w) = v
      BY <2>3, <2>4, <2>5, <2>7, <3>1, <3>2
    <3>4. QED
      BY <2>6, <3>3
  <2>8. ASSUME m <= 0 PROVE u = 0
    <3> HIDE DEF v
    <3>1. Vi(c, w) - Vi(c - 1, w) = 0
      BY <2>3, <2>4, <2>5, <2>8
    <3>2. QED
      BY <2>6, <3>1
  <2>9. QED
    BY <2>4, <2>7, <2>8
<1>8. ASSUME c < N PROVE u = D * q
  BY <1>8 DEF Unit
<1>9. CASE m <= 0
  <2>1. q = 0
    BY <1>6, <1>9
  <2>2. u = 0
    <3>1. CASE c < N
      BY <1>1, <1>8, <2>1, <3>1
    <3>2. CASE c >= N
      BY <1>7, <1>9, <3>2
    <3>3. QED
      BY <1>1, <1>2, <3>1, <3>2
  <2>3. D * (0 - CellLoss) <= 0 /\ 0 + 1 <= D * (0 + 1) /\ D * 0 = 0
    BY <1>1, <1>4
  <2>4. ~(m > 0)
    BY <1>3, <1>9 DEF RemarkNoVote
  <2> HIDE DEF m, q, u
  <2>5. QED
    BY <2>1, <2>2, <2>3, <2>4 DEF Cell, m, q, u
<1>10. CASE m > 0
  <2>1. m \in Nat \ {0} /\ m <= MaxVoteCount /\ q = (n * r) \div m
    BY <1>5, <1>10
  <2>0. v = (r * D) \div m
    OBVIOUS
  <2> HIDE DEF m, r, u, v, q
  <2>2. /\ v \in Nat /\ q \in Nat
        /\ D * (q - 1) <= n * v
        /\ n * v + 1 <= D * (q + 1)
        /\ D % m = 0 => D * q <= n * v
        /\ (n * v) * m <= (D * r) * n
    BY <1>1, <1>3, <2>0, <2>1, CellBounds
  <2>3. IndexExact => D % m = 0
    <3>1. m \in 1..MaxVoteCount
      BY <1>1, <2>1
    <3>2. QED
      BY <3>1 DEF IndexExact, D
  <2>4. n * v \in Nat /\ D * q \in Nat
    BY <1>1, <2>2, MulNat
  <2>5. CASE c < N
    <3>1. u = D * q
      BY <1>8, <2>5 DEF u, q
    <3>2. (D * q) * m <= (D * r) * n
      <4>1. n * r \in Nat
        BY <1>3, MulNat
      <4>2. q * m <= n * r
        BY <2>1, <4>1, DivBounds
      <4>3. q * m \in Nat
        BY <2>1, <2>2, MulNat
      <4>4. (q * m) * D <= (n * r) * D
        BY <1>1, <4>1, <4>2, <4>3, MulMono
      <4>5. (q * m) * D = (D * q) * m /\ (n * r) * D = (D * r) * n
        BY <1>1, <1>3, <2>1, <2>2
      <4>6. QED
        BY <4>4, <4>5
    <3>3. ~(c >= N) /\ ~(m <= 0)
      BY <1>1, <1>2, <2>1, <2>5
    <3>4. QED
      BY <2>2, <2>4, <2>5, <3>1, <3>2, <3>3 DEF Cell, m, q, r, u
  <2>6. CASE c >= N
    <3>1. u = n * v
      BY <1>7, <1>10, <2>6 DEF m, v, u, r
    <3>2. D * (q - CellLoss) <= u
      <4>1. CASE IndexExact
        <5>1. q - CellLoss = q
          BY <2>2, <4>1 DEF CellLoss
        <5>2. QED
          BY <2>2, <2>3, <3>1, <4>1, <5>1
      <4>2. CASE ~IndexExact
        BY <2>2, <3>1, <4>2 DEF CellLoss
      <4>3. QED
        BY <4>1, <4>2
    <3>3. ~(c < N) /\ ~(m <= 0)
      BY <1>1, <1>2, <2>1, <2>6
    <3>4. QED
      BY <2>2, <2>4, <2>6, <3>1, <3>2, <3>3 DEF Cell, m, q, r, u
  <2>7. QED
    BY <1>1, <1>2, <2>5, <2>6
<1>11. QED
  BY <1>3, <1>9, <1>10 DEF RemarkNoVote

-----------------------------------------------------------------------------
(* Spans of closed cycles.                                                 *)

Span(b, e) == b \in Nat /\ e \in Nat /\ b <= e /\ e <= cycle

(* a entered each cycle of [b, e) with this ballot; the votes of cycle 0   *)
(* count for nothing.                                                      *)
Follows(a, ballot, b, e) == \A c \in b..(e - 1) : c > 0 => effective[c][a] = ballot

(* The entries of a's tables.                                              *)
Entry(a, c, w) ==
    /\ SharesOf(a)[w][c] = Share(c, w, effective[c][a][w])
    /\ UnitsOf(a)[w][c] = Unit(c, w, effective[c][a][w])
    /\ SharesOf(a)[w][c] \in Nat /\ UnitsOf(a)[w][c] \in Nat
    /\ effective[c][a][w] \in Nat /\ effective[c][a][w] <= D
    /\ Cell(c, w, effective[c][a][w])

\* The entries for the closed cycles.
LEMMA EntryFair ==
    ASSUME Ledger, N > 0, NEW a \in Accounts, NEW c \in 0..(cycle - 1), NEW w \in Witnesses
    PROVE  Entry(a, c, w)
<1>1. cycle \in Cycles /\ MaxCycle \in Nat /\ effective \in [Cycles -> [Accounts -> BallotsOrNone]]
  BY ConstantsOK DEF Constants, Ledger, TypeOK
<1>2. c \in Cycles
  BY <1>1 DEF Cycles
<1>3. effective[c][a] \in BallotsOrNone
  BY <1>1, <1>2
<1>4. effective[c][a][w] \in Nat /\ effective[c][a][w] <= D
  BY <1>3, BallotType
<1>5. Cell(c, w, effective[c][a][w])
  BY <1>4, CellFair
<1>6. /\ SharesOf(a)[w][c] = Share(c, w, effective[c][a][w])
      /\ UnitsOf(a)[w][c] = Unit(c, w, effective[c][a][w])
  BY <1>2 DEF SharesOf, UnitsOf
<1>7. QED
  BY <1>4, <1>5, <1>6 DEF Cell, Entry

\* The tables are integers in the closed cycles.
LEMMA TablesInt ==
    ASSUME Ledger, N > 0, NEW a \in Accounts, NEW b, NEW e, Span(b, e)
    PROVE  /\ IntGrid(SharesOf(a), Witnesses, b, e)
           /\ IntGrid(UnitsOf(a), Witnesses, b, e)
           /\ AllShares(a, b, e) \in Int /\ AllUnits(a, b, e) \in Int
           /\ \A c \in b..(e - 1), w \in Witnesses : Entry(a, c, w)
<1>1. IsFiniteSet(Witnesses) /\ cycle \in Nat /\ b \in Int /\ e \in Int
  BY ConstantsOK DEF Constants, Ledger, TypeOK, Span, Cycles
<1>2. \A c \in b..(e - 1) : c \in 0..(cycle - 1)
  BY <1>1 DEF Span
<1>3. \A c \in b..(e - 1), w \in Witnesses : Entry(a, c, w)
  BY <1>2, EntryFair
<1>4. /\ IntGrid(SharesOf(a), Witnesses, b, e)
      /\ IntGrid(UnitsOf(a), Witnesses, b, e)
  <2>1. \A w \in Witnesses, c \in b..(e - 1) :
           SharesOf(a)[w][c] \in Int /\ UnitsOf(a)[w][c] \in Int
    BY <1>3 DEF Entry
  <2>2. QED
    BY <1>1, <2>1 DEF IntGrid, IntRow
<1>5. QED
  BY <1>3, <1>4, GridSum DEF AllShares, AllUnits

\* Pay for two adjacent spans is pay for both together.
LEMMA FairJoin ==
    ASSUME Ledger, N > 0, NEW a \in Accounts, NEW b, NEW m, NEW e, NEW x, NEW y,
           Span(b, m), Span(m, e), FairPay(a, x, b, m), FairPay(a, y, m, e)
    PROVE  FairPay(a, x + y, b, e)
<1>1. Span(b, e) /\ b \in Nat /\ m \in Nat /\ e \in Nat /\ b <= m /\ m <= e
  BY DEF Span
<1>2. N \in Nat /\ D \in Nat /\ K \in Nat
  BY ConstantsOK DEF Constants
<1>3. /\ AllShares(a, b, e) = AllShares(a, b, m) + AllShares(a, m, e)
      /\ AllUnits(a, b, e) = AllUnits(a, b, m) + AllUnits(a, m, e)
  <2>1. IntGrid(SharesOf(a), Witnesses, b, e) /\ IntGrid(UnitsOf(a), Witnesses, b, e)
    BY <1>1, TablesInt
  <2>2. QED
    BY <1>1, <2>1, GridJoin DEF AllShares, AllUnits
<1>4. /\ AllShares(a, b, m) \in Int /\ AllShares(a, m, e) \in Int
      /\ AllUnits(a, b, m) \in Int /\ AllUnits(a, m, e) \in Int
  BY TablesInt
<1>5. /\ Slack(b, m) \in Nat /\ Slack(m, e) \in Nat /\ Slack(b, e) \in Nat
      /\ Slack(b, m) + Slack(m, e) <= Slack(b, e)
      /\ Loss(b, m) \in Nat /\ Loss(m, e) \in Nat
      /\ Loss(b, m) + Loss(m, e) = Loss(b, e)
  BY <1>1, <1>2 DEF Slack, Loss, Indexed
<1>6. /\ K * (Slack(b, m) + Slack(m, e)) = K * Slack(b, m) + K * Slack(m, e)
      /\ K * (Loss(b, m) + Loss(m, e)) = K * Loss(b, m) + K * Loss(m, e)
      /\ K * Slack(b, m) \in Int /\ K * Slack(m, e) \in Int
      /\ K * Loss(b, m) \in Int /\ K * Loss(m, e) \in Int
  BY <1>2, <1>5, Distrib
<1>7. K * (Slack(b, m) + Slack(m, e)) <= K * Slack(b, e) /\ K * Slack(b, e) \in Int
  BY <1>2, <1>5, MulMono
<1>8. x \in Nat /\ y \in Nat
  BY DEF FairPay, Fair
<1>9. D * (x + y) = D * x + D * y /\ D * x \in Int /\ D * y \in Int
  BY <1>2, <1>8, Distrib
<1>10. x + y \in Nat /\ D * (x + y) <= AllUnits(a, b, e)
  BY <1>3, <1>4, <1>8, <1>9 DEF FairPay, Fair
<1>11. x + y <= AllShares(a, b, e) + K * Slack(b, e)
  BY <1>3, <1>4, <1>6, <1>7, <1>8 DEF FairPay, Fair
<1>12. AllShares(a, b, e) <= (x + y) + K * Loss(b, e)
  BY <1>3, <1>4, <1>5, <1>6, <1>8 DEF FairPay, Fair
<1>13. QED
  BY <1>10, <1>11, <1>12 DEF FairPay, Fair

\* Rounding bounds that are never negative.
LEMMA RoundingNat ==
    ASSUME NEW b \in Nat, NEW e \in Nat, b <= e
    PROVE  /\ Slack(b, e) \in Nat /\ Loss(b, e) \in Nat
           /\ K * Slack(b, e) \in Nat /\ K * Loss(b, e) \in Nat
<1>1. N \in Nat /\ K \in Nat
  BY ConstantsOK DEF Constants
<1>2. Slack(b, e) \in Nat /\ Loss(b, e) \in Nat
  BY <1>1 DEF Slack, Loss, Indexed
<1>3. QED
  BY <1>1, <1>2, MulNat

\* No votes, no pay.
LEMMA FairZero ==
    ASSUME Ledger, N > 0, NEW a \in Accounts, NEW b, NEW e, Span(b, e), Follows(a, NoVotes, b, e)
    PROVE  FairPay(a, 0, b, e)
<1>1. N \in Nat /\ D \in Nat \ {0} /\ IsFiniteSet(Witnesses) /\ cycle \in Nat
  BY ConstantsOK DEF Constants, Ledger, TypeOK, Cycles
<1>2. ASSUME NEW w \in Witnesses, NEW c \in b..(e - 1)
      PROVE  SharesOf(a)[w][c] = 0 /\ UnitsOf(a)[w][c] = 0
  <2>1. Entry(a, c, w)
    BY TablesInt
  <2>2. CASE witnessVote[c][w] > 0
    <3>1. c \in Nat /\ c # 0
      BY <1>1, <2>2 DEF Ledger, SnapshotsCoverVotes, RemarkNoVote, Span
    <3>2. effective[c][a][w] = 0
      BY <3>1 DEF Follows, NoVotes
    <3>3. c \in Cycles
      BY <3>1, ConstantsOK DEF Constants, Span, Cycles, Ledger, TypeOK
    <3>4. reward[c][w] \in Nat /\ witnessVote[c][w] \in Nat \ {0}
      BY <2>2, <3>3, CellTypes DEF RemarkNoVote
    <3> DEFINE m == witnessVote[c][w]
               r == reward[c][w]
               q == Share(c, w, 0)
               u == Unit(c, w, 0)
    <3>5. q = (0 * r) \div m
      BY <3>4 DEF Share, RemarkNoVote
    <3>6. u \in Nat /\ u * m <= (D * r) * 0
      BY <2>1, <2>2, <3>2 DEF Entry, Cell
    <3>7. q = 0
      BY <3>4, <3>5
    <3> HIDE DEF u, m, r
    <3>8. u = 0
      <4>1. D * r \in Nat /\ (D * r) * 0 = 0
        BY <1>1, <3>4, MulNat DEF r
      <4>2. u * m < 1 * m
        BY <3>4, <3>6, <4>1 DEF m
      <4>3. u < 1
        BY <3>4, <3>6, <4>2, CancelLess DEF m
      <4>4. QED
        BY <3>6, <4>3
    <3>9. QED
      BY <2>1, <3>2, <3>7, <3>8 DEF Entry, u
  <2>3. CASE ~(witnessVote[c][w] > 0)
    <3>1. c \in Cycles
      BY <1>1, ConstantsOK DEF Constants, Span, Cycles, Ledger, TypeOK
    <3>2. witnessVote[c][w] <= 0
      BY <2>3, <3>1, CellTypes DEF RemarkNoVote
    <3>3. QED
      BY <2>1, <3>2 DEF Entry, Cell
  <2>4. QED
    BY <2>2, <2>3
<1>3. AllShares(a, b, e) = 0 /\ AllUnits(a, b, e) = 0
  <2>1. b \in Int /\ e \in Int
    BY DEF Span
  <2>2. QED
    BY <1>1, <1>2, <2>1, GridZero DEF AllShares, AllUnits
<1>4. K * Slack(b, e) \in Nat /\ K * Loss(b, e) \in Nat
  BY RoundingNat DEF Span
<1>5. QED
  BY <1>1, <1>3, <1>4 DEF FairPay, Fair

\* Votes the ballot has in a closed cycle, or none that count.
LEMMA BallotShares ==
    ASSUME Ledger, N > 0, NEW a \in Accounts, NEW b, NEW e, Span(b, e), NEW ballot,
           Follows(a, ballot, b, e), NEW w \in Witnesses, NEW c \in b..(e - 1)
    PROVE  Share(c, w, ballot[w]) = SharesOf(a)[w][c]
<1>1. Entry(a, c, w)
  BY TablesInt
<1>2. CASE c > 0
  BY <1>1, <1>2 DEF Follows, Entry
<1>3. CASE c = 0
  <2>1. \A n : Share(0, w, n) = 0
    BY DEF Ledger, SnapshotsCoverVotes, Share
  <2>2. QED
    BY <1>1, <1>3, <2>1 DEF Entry
<1>4. QED
  BY <1>2, <1>3 DEF Span

\* The old algorithm pays the shares exactly.
LEMMA FairOld ==
    ASSUME Ledger, N > 0, NEW a \in Accounts, NEW b, NEW e, Span(b, e), e <= N \/ b = e,
           NEW ballot, Follows(a, ballot, b, e)
    PROVE  FairPay(a, OldReward(b, e, ballot), b, e)
<1>1. N \in Nat /\ D \in Nat \ {0} /\ K \in Nat /\ b \in Nat /\ e \in Nat
  BY ConstantsOK DEF Constants, Span
<1>2. OldReward(b, e, ballot) = AllShares(a, b, e)
  <2>1. ASSUME NEW w \in Witnesses
        PROVE  [c \in b..(e - 1) |-> Share(c, w, ballot[w])]
                 = [c \in b..(e - 1) |-> SharesOf(a)[w][c]]
    BY BallotShares
  <2>2. QED
    BY <2>1 DEF OldReward, AllShares, Grid, Row
<1>3. AllUnits(a, b, e) = D * AllShares(a, b, e)
  <2>1. Multiple(UnitsOf(a), SharesOf(a), D, Witnesses, b, e)
    <3> SUFFICES ASSUME NEW w \in Witnesses, NEW c \in b..(e - 1)
                 PROVE  UnitsOf(a)[w][c] = D * SharesOf(a)[w][c]
      BY DEF Multiple
    <3>1. c < N
      BY <1>1
    <3>2. QED
      BY <3>1, TablesInt DEF Entry, Cell
  <2>2. D \in Int /\ IntGrid(SharesOf(a), Witnesses, b, e)
    BY <1>1, TablesInt
  <2>3. QED
    BY <2>1, <2>2, GridScale DEF AllShares, AllUnits
<1>4. AllShares(a, b, e) \in Nat
  <2>1. AllShares(a, b, e) \in Int
    BY TablesInt
  <2>2. ASSUME NEW w \in Witnesses PROVE Row(SharesOf(a)[w], b, e) \in Nat
    <3> DEFINE f == [c \in b..(e - 1) |-> SharesOf(a)[w][c]]
    <3>1. f \in [b..(e - 1) -> Nat]
      BY TablesInt DEF Entry
    <3>2. IsFiniteSet(b..(e - 1))
      BY <1>1, FS_Interval
    <3>3. SumFunction(f) \in Nat
      BY <3>1, <3>2, FunSumNat
    <3>4. QED
      BY <3>3 DEF Row
  <2> DEFINE g == [w \in Witnesses |-> Row(SharesOf(a)[w], b, e)]
  <2>3. g \in [Witnesses -> Nat] /\ IsFiniteSet(Witnesses)
    BY <2>2, ConstantsOK DEF Constants
  <2>4. SumFunction(g) \in Nat
    BY <2>3, FunSumNat
  <2>5. QED
    BY <2>4 DEF AllShares, Grid
<1>5. Slack(b, e) = 0 /\ Loss(b, e) = 0 /\ K * 0 = 0
  BY <1>1 DEF Slack, Loss, Indexed
<1>6. D * AllShares(a, b, e) \in Int
  BY <1>1, <1>4, MulNat
<1>7. QED
  BY <1>2, <1>3, <1>4, <1>5, <1>6 DEF FairPay, Fair

\* A truncated quotient of a bounded sum is bounded.
LEMMA QuotientFair ==
    ASSUME NEW d \in Nat \ {0}, NEW u \in Nat, NEW s \in Int, NEW k \in Nat \ {0}, NEW l \in {0, 1},
           d * (s - l * k) <= u, u + k <= d * (s + k), NEW r, r = u \div d
    PROVE  /\ r \in Nat /\ d * r <= u
           /\ r <= s + (k - 1)
           /\ s <= r + l * k
<1>1. r \in Nat /\ r * d <= u /\ r * d = d * r /\ d * r \in Nat
  BY DivBounds, DivNat, MulNat
<1>2. l * k \in Int /\ s - l * k \in Int /\ s + k \in Int
  OBVIOUS
<1>3. s - l * k <= r
  <2>1. (s - l * k) * d <= u
    BY <1>2
  <2>2. QED
    BY <1>2, <2>1, DivGreatest
<1>4. r < s + k
  <2>1. d * (s + k) = (s + k) * d /\ d * (s + k) \in Int
    BY <1>2
  <2>2. r * d < (s + k) * d
    BY <1>1, <2>1
  <2>3. QED
    BY <1>1, <1>2, <2>2, CancelLess
<1>5. QED
  BY <1>1, <1>2, <1>3, <1>4

\* The index pays one witness's votes fairly over a span.
LEMMA IndexRow ==
    ASSUME Ledger, N > 0, NEW a \in Accounts, NEW b, NEW e, Span(b, e), N <= b, b < e,
           NEW ballot \in BallotsOrNone, Follows(a, ballot, b, e), NEW w \in Witnesses
    PROVE  LET delta == Vi(e - 1, w) - Vi(b - 1, w)
               r == IF delta <= 0 THEN 0 ELSE (delta * ballot[w]) \div D
               s == Row(SharesOf(a)[w], b, e)
               u == Row(UnitsOf(a)[w], b, e)
           IN  /\ r \in Nat /\ s \in Int /\ u \in Int
               /\ D * r <= u
               /\ r <= s + ((e - b) - 1)
               /\ s <= r + CellLoss * (e - b)
<1>1. /\ N \in Nat /\ D \in Nat \ {0} /\ b \in Nat /\ e \in Nat /\ e <= cycle
      /\ cycle \in Nat /\ cycle <= MaxCycle /\ MaxCycle \in Nat
  BY ConstantsOK DEF Constants, Span, Ledger, TypeOK, Cycles
<1> DEFINE n == ballot[w]
           v == [c \in Int |-> Vi(c, w)]
           f == SharesOf(a)[w]
           g == UnitsOf(a)[w]
           delta == Vi(e - 1, w) - Vi(b - 1, w)
           s == Row(f, b, e)
           u == Row(g, b, e)
<1>2. n \in Nat
  BY BallotType
<1>3. ASSUME NEW c \in (b - 1)..(e - 1) PROVE v[c] \in Int /\ v[c] = Vi(c, w)
  <2>1. c \in Cycles /\ c \in Nat /\ c \in Int
    BY <1>1 DEF Cycles
  <2>2. vi[c][w] \in Nat
    BY <2>1, CellTypes
  <2>3. QED
    BY <2>1, <2>2 DEF Vi
<1>4. ASSUME NEW c \in b..(e - 1)
      PROVE  /\ Entry(a, c, w) /\ effective[c][a][w] = n
             /\ g[c] = n * (v[c] - v[c - 1])
  <2>1. Entry(a, c, w)
    BY TablesInt
  <2>2. c > 0 /\ ~(c < N) /\ c \in Int /\ c - 1 \in Int
    BY <1>1
  <2>3. effective[c][a][w] = n
    BY <2>2 DEF Follows
  <2>4. g[c] = n * (Vi(c, w) - Vi(c - 1, w))
    BY <2>1, <2>2, <2>3 DEF Entry, Unit
  <2>5. QED
    BY <2>1, <2>2, <2>3, <2>4
<1>5. IntRow(f, b, e) /\ IntRow(g, b, e)
  BY TablesInt DEF IntGrid
<1>6. s \in Int /\ u \in Int
  BY <1>5, RowSum
<1>7. u = n * delta
  <2>1. v[e - 1] = Vi(e - 1, w) /\ v[b - 1] = Vi(b - 1, w)
    BY <1>1
  <2>2. Differences(g, v, n, b, e)
    <3>1. \A c \in (b - 1)..(e - 1) : v[c] \in Int
      BY <1>3
    <3>2. \A c \in b..(e - 1) : g[c] = n * (v[c] - v[c - 1])
      BY <1>4
    <3>3. QED
      BY <3>1, <3>2 DEF Differences
  <2> HIDE DEF v, g, n
  <2>3. Row(g, b, e) = n * (v[e - 1] - v[b - 1])
    <3>1. n \in Int /\ b \in Int /\ e \in Int /\ b <= e
      BY <1>1, <1>2
    <3>2. QED
      BY <2>2, <3>1, RowTelescopes
  <2>4. QED
    BY <2>1, <2>3
<1>8. u \in Nat
  <2> DEFINE h == [c \in b..(e - 1) |-> g[c]]
  <2>1. \A c \in b..(e - 1) : g[c] \in Nat
    BY <1>4 DEF Entry
  <2>2. h \in [b..(e - 1) -> Nat]
    <3> HIDE DEF g
    <3> QED
      BY <2>1
  <2>3. IsFiniteSet(b..(e - 1))
    BY <1>1, FS_Interval
  <2>4. SumFunction(h) \in Nat
    BY <2>2, <2>3, FunSumNat
  <2>5. QED
    BY <2>4 DEF Row
<1>9. CellLoss \in {0, 1}
  BY DEF CellLoss
<1>10. /\ D * (s - CellLoss * (e - b)) <= u
       /\ u + (e - b) <= D * (s + (e - b))
  <2>1. ASSUME NEW c \in b..(e - 1)
        PROVE  D * (f[c] - CellLoss) <= g[c] /\ g[c] + 1 <= D * (f[c] + 1)
    <3>1. Entry(a, c, w) /\ c >= N
      BY <1>1, <1>4
    <3>2. QED
      BY <3>1 DEF Entry, Cell
  <2> HIDE DEF f, g
  <2>2. QED
    BY <1>1, <1>5, <1>9, <2>1, RowBounds
<1> DEFINE r == IF delta <= 0 THEN 0 ELSE (delta * n) \div D
<1>11. r = u \div D
  <2>1. delta \in Int
    BY <1>1, <1>3
  <2> HIDE DEF delta, n, u
  <2>2. CASE delta <= 0
    <3>1. u <= 0
      BY <1>2, <1>7, <2>1, <2>2
    <3>2. u = 0
      BY <1>8, <3>1
    <3>3. QED
      BY <1>1, <2>2, <3>2
  <2>3. CASE ~(delta <= 0)
    <3>1. delta * n = u
      BY <1>2, <1>7, <2>1
    <3>2. QED
      BY <2>3, <3>1
  <2>4. QED
    BY <2>2, <2>3
<1> HIDE DEF r, s, u, delta, n
<1>12. e - b \in Nat \ {0}
  BY <1>1
<1>13. /\ r \in Nat /\ D * r <= u
       /\ r <= s + ((e - b) - 1)
       /\ s <= r + CellLoss * (e - b)
  <2> DEFINE k == e - b
  <2>1. /\ k \in Nat \ {0}
        /\ D * (s - CellLoss * k) <= u /\ u + k <= D * (s + k)
    BY <1>10, <1>12
  <2> HIDE DEF k
  <2>2. /\ r \in Nat /\ D * r <= u
        /\ r <= s + (k - 1)
        /\ s <= r + CellLoss * k
    BY <1>1, <1>6, <1>8, <1>9, <1>11, <2>1, QuotientFair
  <2>3. QED
    BY <2>2 DEF k
<1>14. QED
  BY <1>6, <1>13 DEF r, s, u, delta, n

\* The index pays fairly over a span.
LEMMA FairIndex ==
    ASSUME Ledger, N > 0, NEW a \in Accounts, NEW b, NEW e, Span(b, e), N <= b, b < e,
           NEW ballot \in BallotsOrNone, Follows(a, ballot, b, e)
    PROVE  FairPay(a, ViReward(b, e, ballot), b, e)
<1>1. /\ N \in Nat /\ D \in Nat \ {0} /\ K \in Nat /\ IsFiniteSet(Witnesses)
      /\ b \in Nat /\ e \in Nat
  BY ConstantsOK DEF Constants, Span
<1> DEFINE W == Witnesses
           delta(w) == Vi(e - 1, w) - Vi(b - 1, w)
           r == [w \in W |-> IF delta(w) <= 0 THEN 0 ELSE (delta(w) * ballot[w]) \div D]
           s == [w \in W |-> Row(SharesOf(a)[w], b, e)]
           u == [w \in W |-> Row(UnitsOf(a)[w], b, e)]
           k == (e - b) - 1
           l == CellLoss * (e - b)
<1>2. CellLoss \in {0, 1} /\ k \in Nat /\ l \in Nat
  BY <1>1 DEF CellLoss
<1>3. ASSUME NEW w \in W
      PROVE  /\ r[w] \in Nat /\ s[w] \in Int /\ u[w] \in Int
             /\ D * r[w] <= u[w]
             /\ r[w] <= s[w] + k
             /\ s[w] <= r[w] + l
  BY IndexRow
<1>4. Summand(r, W) /\ Summand(s, W) /\ Summand(u, W) /\ r \in [W -> Nat]
  <2>1. (\A w \in W : r[w] \in Nat) /\ (\A w \in W : s[w] \in Int) /\ (\A w \in W : u[w] \in Int)
    BY <1>3
  <2>2. QED
    BY <1>1, <2>1 DEF Summand
<1>5. SumFunction(r) = ViReward(b, e, ballot)
  BY DEF ViReward, D
<1>6. SumFunction(s) = AllShares(a, b, e) /\ SumFunction(u) = AllUnits(a, b, e)
  BY DEF AllShares, AllUnits, Grid
<1>7. k = Slack(b, e) /\ l = Loss(b, e)
  BY <1>1 DEF Slack, Loss, Indexed, CellLoss
<1> HIDE DEF r, s, u, k, l
<1>8. SumFunction(r) \in Nat /\ SumFunction(s) \in Int /\ SumFunction(u) \in Int
  BY <1>1, <1>4, FunSum, FunSumNat
<1> DEFINE ks == [w \in W |-> k]
           ls == [w \in W |-> l]
           sk == [w \in W |-> s[w] + k]
           rl == [w \in W |-> r[w] + l]
           dr == [w \in W |-> D * r[w]]
<1>9. /\ \A w \in W : ks[w] = k /\ ls[w] = l
      /\ \A w \in W : sk[w] = s[w] + ks[w] /\ rl[w] = r[w] + ls[w] /\ dr[w] = D * r[w]
  OBVIOUS
<1>10. Summand(ks, W) /\ Summand(ls, W) /\ Summand(sk, W) /\ Summand(rl, W)
  BY <1>1, <1>2, <1>3 DEF Summand
<1>11. Summand(dr, W)
  <2>1. \A w \in W : D * r[w] \in Int
    BY <1>1, <1>3, MulNat
  <2>2. QED
    BY <1>1, <2>1 DEF Summand
<1> HIDE DEF ks, ls, sk, rl, dr
<1>12. SumFunction(ks) = k * K /\ SumFunction(ls) = l * K
  BY <1>2, <1>9, <1>10, FunSumConst DEF K
<1>13. /\ SumFunction(sk) = SumFunction(s) + SumFunction(ks)
       /\ SumFunction(rl) = SumFunction(r) + SumFunction(ls)
       /\ SumFunction(dr) = D * SumFunction(r)
  <2>1. SumFunction(sk) = SumFunction(s) + SumFunction(ks)
    BY <1>4, <1>9, <1>10, FunSumPlus
  <2>2. SumFunction(rl) = SumFunction(r) + SumFunction(ls)
    BY <1>4, <1>9, <1>10, FunSumPlus
  <2>3. SumFunction(dr) = D * SumFunction(r)
    BY <1>1, <1>4, <1>9, <1>11, FunSumScale
  <2>4. QED
    BY <2>1, <2>2, <2>3
<1>14. SumFunction(r) <= SumFunction(sk)
  BY <1>3, <1>4, <1>9, <1>10, FunSumMono DEF ks
<1>15. SumFunction(s) <= SumFunction(rl)
  BY <1>3, <1>4, <1>9, <1>10, FunSumMono DEF ls
<1>16. SumFunction(dr) <= SumFunction(u)
  BY <1>3, <1>4, <1>9, <1>11, FunSumMono
<1>17. k * K = K * Slack(b, e) /\ l * K = K * Loss(b, e)
  BY <1>1, <1>2, <1>7
<1>18. QED
  BY <1>5, <1>6, <1>8, <1>12, <1>13, <1>14, <1>15, <1>16, <1>17 DEF FairPay, Fair

\* computeReward pays fairly, whichever algorithms the span meets.
LEMMA FairCompute ==
    ASSUME Ledger, N > 0, NEW a \in Accounts, NEW b, NEW e, Span(b, e),
           NEW ballot \in BallotsOrNone, Follows(a, ballot, b, e)
    PROVE  FairPay(a, ComputeReward(b, e, ballot), b, e)
<1>1. N \in Nat /\ b \in Nat /\ e \in Nat /\ cycle \in Nat /\ b <= e /\ e <= cycle
  BY ConstantsOK DEF Constants, Span, Ledger, TypeOK, Cycles
<1>2. CASE b >= e
  <2>1. Follows(a, NoVotes, b, e)
    BY <1>1, <1>2 DEF Follows
  <2>2. ComputeReward(b, e, ballot) = 0
    BY <1>2 DEF ComputeReward
  <2>3. QED
    BY <2>1, <2>2, FairZero
<1>3. CASE b < e
  <2> DEFINE m == IF N < b THEN b ELSE IF N < e THEN N ELSE e
             x == OldReward(b, m, ballot)
             y == IF m < e THEN ViReward(m, e, ballot) ELSE 0
  <2>1. m \in Nat /\ b <= m /\ m <= e /\ (m <= N \/ b = m) /\ (m < e => N <= m)
    BY <1>1, <1>3
  <2>2. ComputeReward(b, e, ballot) = x + y
    BY <1>1, <1>3 DEF ComputeReward, N
  <2> HIDE DEF m
  <2>3. Span(b, m) /\ Span(m, e)
    BY <1>1, <2>1 DEF Span
  <2>4. Follows(a, ballot, b, m) /\ Follows(a, ballot, m, e)
    BY <1>1, <2>1 DEF Follows
  <2>5. FairPay(a, x, b, m)
    BY <2>1, <2>3, <2>4, FairOld
  <2>6. FairPay(a, y, m, e)
    <3>1. CASE m < e
      BY <2>1, <2>3, <2>4, <3>1, FairIndex
    <3>2. CASE ~(m < e)
      <4>1. Follows(a, NoVotes, m, e)
        BY <1>1, <2>1, <3>2 DEF Follows
      <4>2. QED
        BY <2>3, <3>2, <4>1, FairZero
    <3>3. QED
      BY <3>1, <3>2
  <2> HIDE DEF x, y
  <2>7. FairPay(a, x + y, b, e)
    BY <2>3, <2>5, <2>6, FairJoin
  <2>8. QED
    BY <2>2, <2>7
<1>4. QED
  BY <1>1, <1>2, <1>3

-----------------------------------------------------------------------------
(* Settlement.                                                             *)

\* What TypeOK says of one account.
LEMMA AccountTypes ==
    ASSUME TypeOK, NEW a \in Accounts
    PROVE  /\ cycle \in Nat /\ cycle <= MaxCycle /\ MaxCycle \in Nat /\ cycle \in Cycles
           /\ votes[a] \in BallotsOrNone
           /\ cursor[a] \in [begin : 0..(MaxCycle + 1), end : -1..(MaxCycle + 1)]
           /\ cursor[a].begin \in Nat /\ cursor[a].end \in Int
           /\ allowance[a] \in Nat /\ balance[a] \in Nat /\ brokered[a] \in Nat
<1>1. MaxCycle \in Nat
  BY ConstantsOK DEF Constants
<1>2. /\ cycle \in Cycles /\ votes[a] \in BallotsOrNone
      /\ cursor[a] \in [begin : 0..(MaxCycle + 1), end : -1..(MaxCycle + 1)]
      /\ allowance[a] \in Nat /\ balance[a] \in Nat /\ brokered[a] \in Nat
  BY DEF TypeOK
<1>3. cursor[a].begin \in 0..(MaxCycle + 1) /\ cursor[a].end \in -1..(MaxCycle + 1)
  BY <1>2
<1>4. QED
  BY <1>1, <1>2, <1>3 DEF Cycles

\* An account that is not up to date has no snapshot at the current cycle.
LEMMA NotUpToDate ==
    ASSUME TypeOK, NEW a \in Accounts, Tracks(a), ~UpToDate(a)
    PROVE  /\ changeDelegation
           /\ cursor[a].begin <= cycle
           /\ Snapped(a) => cursor[a].begin < cycle
           /\ SnapshotDue(a) <=> Snapped(a)
<1>1. cycle \in Nat /\ cursor[a].begin \in Nat /\ cursor[a].end \in Int
  BY AccountTypes
<1>2. changeDelegation /\ cursor[a].begin <= cycle
  BY <1>1 DEF UpToDate
<1>3. Snapped(a) => accountVote[cursor[a].begin][a] \in Ballots
  BY DEF Tracks
<1>4. Snapped(a) => cursor[a].begin # cycle
  BY <1>3, RewardsAssumption DEF UpToDate
<1>5. QED
  BY <1>1, <1>2, <1>4 DEF SnapshotDue, Snapped

\* What an account was paid and could settle now is fair pay for every closed
\* cycle: WithdrawReward and queryReward walk each cycle once.
LEMMA EarnedFair ==
    ASSUME Ledger, N > 0, OffAtFirst, NEW a \in Accounts, Account(a)
    PROVE  FairPay(a, Earned(a), 0, cycle)
<1>0. TypeOK
  BY DEF Ledger
<1>1. /\ cycle \in Nat /\ cursor[a].begin \in Nat /\ cursor[a].end \in Int
      /\ votes[a] \in BallotsOrNone
  BY <1>0, AccountTypes
<1> DEFINE b == cursor[a].begin
<1>2. Tracks(a) /\ FairPay(a, Paid(a), 0, PaidUpTo(a))
  BY DEF Account
<1>3. Paid(a) \in Nat
  BY <1>2 DEF FairPay, Fair
<1>4. CASE UpToDate(a)
  <2>1. Earned(a) = Paid(a)
    BY <1>3, <1>4 DEF Earned, Paid
  <2>2. PaidUpTo(a) = cycle
    <3>1. CASE ~changeDelegation
      BY <1>1, <3>1 DEF OffAtFirst, PaidUpTo
    <3>2. CASE cursor[a].begin >= cycle
      BY <1>1, <3>2 DEF PaidUpTo
    <3>3. QED
      BY <1>1, <1>4, <3>1, <3>2 DEF UpToDate
  <2>3. QED
    BY <1>2, <2>1, <2>2
<1>5. CASE ~UpToDate(a)
  <2>1. b <= cycle /\ (Snapped(a) => b < cycle) /\ (SnapshotDue(a) <=> Snapped(a))
    BY <1>0, <1>2, <1>5, NotUpToDate
  <2>2. PaidUpTo(a) = b /\ Span(0, b)
    BY <1>1, <2>1 DEF PaidUpTo, Span
  <2> DEFINE m == NextBegin(a)
             x == SnapshotReward(a)
             y == OpenReward(a)
  <2>3. m = IF Snapped(a) THEN b + 1 ELSE b
    BY <2>1 DEF NextBegin
  <2>4. Span(b, m) /\ Span(m, cycle) /\ Span(0, m)
    BY <1>1, <2>1, <2>3 DEF Span
  <2>5. FairPay(a, x, b, m)
    <3>1. CASE Snapped(a)
      <4> DEFINE av == accountVote[b][a]
      <4>1. av \in Ballots /\ (b > 0 => effective[b][a] = av)
        BY <1>2, <3>1 DEF Tracks
      <4>2. av # NoEntry /\ av \in BallotsOrNone
        BY <4>1, RewardsAssumption DEF BallotsOrNone
      <4>3. cursor[a].end = b + 1 /\ m = b + 1
        BY <2>3, <3>1 DEF Snapped
      <4>4. x = ComputeReward(b, b + 1, av)
        BY <2>1, <3>1, <4>2, <4>3 DEF SnapshotReward
      <4>5. Follows(a, av, b, b + 1)
        BY <1>1, <4>1 DEF Follows
      <4>6. Span(b, b + 1)
        BY <2>4, <4>3
      <4> HIDE DEF av, b, m, x
      <4>7. FairPay(a, ComputeReward(b, m, av), b, m)
        BY <2>4, <4>2, <4>3, <4>5, FairCompute
      <4>8. QED
        BY <4>3, <4>4, <4>7
    <3>2. CASE ~Snapped(a)
      <4>1. x = 0 /\ m = b
        BY <2>1, <2>3, <3>2 DEF SnapshotReward
      <4>2. Follows(a, NoVotes, b, b)
        BY <1>1 DEF Follows
      <4> HIDE DEF b, m, x
      <4>3. QED
        BY <2>4, <4>1, <4>2, FairZero
    <3>3. QED
      BY <3>1, <3>2
  <2>6. FairPay(a, y, m, cycle)
    <3>1. Follows(a, votes[a], m, cycle)
      <4>1. CASE Snapped(a)
        <5>1. \A c \in (b + 1)..cycle : effective[c][a] = votes[a]
          BY <1>2, <4>1 DEF Tracks
        <5>2. QED
          BY <1>1, <2>3, <4>1, <5>1 DEF Follows
      <4>2. CASE ~Snapped(a)
        <5>1. \A c \in b..cycle : c > 0 => effective[c][a] = votes[a]
          BY <1>2, <4>2 DEF Tracks
        <5>2. QED
          BY <1>1, <2>3, <4>2, <5>1 DEF Follows
      <4>3. QED
        BY <4>1, <4>2
    <3>2. CASE votes[a] = NoVotes
      <4>1. y = 0
        BY <3>2 DEF OpenReward
      <4> HIDE DEF m, y
      <4>2. QED
        BY <2>4, <3>1, <3>2, <4>1, FairZero
    <3>3. CASE votes[a] # NoVotes
      <4>1. y = ComputeReward(m, cycle, votes[a])
        BY <3>3 DEF OpenReward
      <4> HIDE DEF m, y
      <4>2. QED
        BY <1>1, <2>4, <3>1, <4>1, FairCompute
    <3>4. QED
      BY <3>2, <3>3
  <2>7. Earned(a) = (Paid(a) + x) + y
    <3>1. x \in Nat /\ y \in Nat
      BY <2>5, <2>6 DEF FairPay, Fair
    <3> HIDE DEF x, y
    <3>2. Earned(a) = Paid(a) + (x + y)
      BY <1>5 DEF Earned, Paid, x, y
    <3>3. QED
      BY <1>3, <3>1, <3>2
  <2> HIDE DEF m, x, y
  <2>8. FairPay(a, Paid(a), 0, b)
    BY <1>2, <2>2
  <2> HIDE DEF b
  <2>9. FairPay(a, Paid(a) + x, 0, m)
    BY <2>2, <2>4, <2>5, <2>8, FairJoin
  <2>10. FairPay(a, (Paid(a) + x) + y, 0, cycle)
    BY <2>4, <2>6, <2>9, FairJoin
  <2>11. QED
    BY <2>7, <2>10
<1>6. QED
  BY <1>4, <1>5

-----------------------------------------------------------------------------
(* Types.                                                                  *)

\* A share of a closed or open cycle is a natural number.
LEMMA ShareNat ==
    ASSUME TypeOK, NEW c \in Cycles, NEW w \in Witnesses, NEW n \in Nat
    PROVE  Share(c, w, n) \in Nat
<1>1. reward[c][w] \in Nat /\ witnessVote[c][w] \in Nat \cup {RemarkNoVote}
  BY DEF TypeOK
<1>2. CASE witnessVote[c][w] \in {RemarkNoVote, 0}
  BY <1>2 DEF Share
<1>3. CASE witnessVote[c][w] \notin {RemarkNoVote, 0}
  <2>1. n * reward[c][w] \in Nat /\ witnessVote[c][w] \in Nat \ {0}
    BY <1>1, <1>3, MulNat
  <2>2. QED
    BY <1>3, <2>1, DivNat DEF Share
<1>4. QED
  BY <1>2, <1>3

\* computeReward never takes from an account.
LEMMA ComputeNat ==
    ASSUME TypeOK, NEW b \in Nat, NEW e \in Nat, e <= cycle, NEW ballot \in BallotsOrNone
    PROVE  ComputeReward(b, e, ballot) \in Nat
<1>1. /\ cycle \in Nat /\ cycle <= MaxCycle /\ MaxCycle \in Nat /\ IsFiniteSet(Witnesses)
      /\ N \in Nat /\ D \in Nat \ {0}
  BY ConstantsOK DEF Constants, TypeOK, Cycles
<1>2. \A w \in Witnesses : ballot[w] \in Nat
  BY BallotType
<1>3. ASSUME NEW m \in Nat, m <= e PROVE OldReward(b, m, ballot) \in Nat
  <2>1. ASSUME NEW w \in Witnesses
        PROVE  SumFunction([c \in b..(m - 1) |-> Share(c, w, ballot[w])]) \in Nat
    <3> DEFINE f == [c \in b..(m - 1) |-> Share(c, w, ballot[w])]
    <3>1. \A c \in b..(m - 1) : c \in Cycles
      BY <1>1, <1>3 DEF Cycles
    <3>2. f \in [b..(m - 1) -> Nat]
      BY <1>2, <3>1, ShareNat
    <3>3. IsFiniteSet(b..(m - 1))
      BY FS_Interval
    <3>4. QED
      BY <3>2, <3>3, FunSumNat
  <2> DEFINE g == [w \in Witnesses |->
                     SumFunction([c \in b..(m - 1) |-> Share(c, w, ballot[w])])]
  <2>2. g \in [Witnesses -> Nat]
    BY <2>1
  <2>3. SumFunction(g) \in Nat
    BY <1>1, <2>2, FunSumNat
  <2>4. QED
    BY <2>3 DEF OldReward
<1>4. ASSUME NEW m \in Nat, m < e PROVE ViReward(m, e, ballot) \in Nat
  <2> DEFINE delta(w) == Vi(e - 1, w) - Vi(m - 1, w)
             h(w) == IF delta(w) <= 0 THEN 0 ELSE (delta(w) * ballot[w]) \div D
             g == [w \in Witnesses |-> h(w)]
  <2>1. ASSUME NEW w \in Witnesses PROVE h(w) \in Nat
    <3>1. Vi(e - 1, w) \in Int
      <4>1. e - 1 \in Cycles /\ ~(e - 1 < 0)
        BY <1>1, <1>4 DEF Cycles
      <4>2. QED
        BY <4>1 DEF TypeOK, Vi
    <3>2. Vi(m - 1, w) \in Int
      <4>1. m - 1 < 0 \/ m - 1 \in Cycles
        BY <1>1, <1>4 DEF Cycles
      <4>2. QED
        BY <4>1 DEF TypeOK, Vi
    <3>3. delta(w) \in Int
      BY <3>1, <3>2
    <3> HIDE DEF delta
    <3>4. CASE delta(w) <= 0
      BY <3>4
    <3>5. CASE ~(delta(w) <= 0)
      <4>1. delta(w) * ballot[w] \in Nat
        BY <1>2, <3>3, <3>5, MulNat
      <4>2. QED
        BY <1>1, <3>5, <4>1, DivNat
    <3>6. QED
      BY <3>4, <3>5
  <2>2. g \in [Witnesses -> Nat]
    <3> HIDE DEF h
    <3> QED
      BY <2>1
  <2>3. SumFunction(g) \in Nat
    BY <1>1, <2>2, FunSumNat
  <2>4. SumFunction(g) = ViReward(m, e, ballot)
    BY DEF ViReward, D
  <2>5. QED
    BY <2>3, <2>4
<1> DEFINE m == IF N < b THEN b ELSE IF N < e THEN N ELSE e
<1>5. CASE b >= e
  BY <1>5 DEF ComputeReward
<1>6. CASE b < e
  <2>1. m \in Nat /\ m <= e
    BY <1>1, <1>6
  <2>2. ComputeReward(b, e, ballot)
          = OldReward(b, m, ballot) + (IF m < e THEN ViReward(m, e, ballot) ELSE 0)
    BY <1>6 DEF ComputeReward, N
  <2> HIDE DEF m
  <2>3. OldReward(b, m, ballot) \in Nat /\ (m < e => ViReward(m, e, ballot) \in Nat)
    BY <1>3, <1>4, <2>1
  <2>4. QED
    BY <2>2, <2>3
<1>7. QED
  BY <1>1, <1>5, <1>6

\* Settlement never takes from an account.
LEMMA SettledNat ==
    ASSUME TypeOK, NEW a \in Accounts
    PROVE  /\ SettledAllowance(a) \in Nat
           /\ ~UpToDate(a) => /\ SnapshotReward(a) \in Nat /\ OpenReward(a) \in Nat
                              /\ SettledAllowance(a) = allowance[a] + (SnapshotReward(a) + OpenReward(a))
<1>1. /\ cycle \in Nat /\ cursor[a].begin \in Nat /\ cursor[a].end \in Int
      /\ votes[a] \in BallotsOrNone /\ allowance[a] \in Nat /\ cycle <= MaxCycle /\ MaxCycle \in Nat
  BY AccountTypes
<1>2. SnapshotReward(a) \in Nat
  <2> DEFINE b == cursor[a].begin
             av == accountVote[b][a]
  <2>1. CASE SnapshotDue(a) /\ av # NoEntry
    <3>1. b < cycle /\ cursor[a].end = b + 1 /\ b \in Cycles
      BY <1>1, <2>1 DEF SnapshotDue, Cycles
    <3>2. av \in Ballots \cup {NoEntry}
      BY <3>1 DEF TypeOK
    <3>3. av \in BallotsOrNone
      BY <2>1, <3>2 DEF BallotsOrNone
    <3> DEFINE e == cursor[a].end
    <3>4. e \in Nat /\ e <= cycle
      BY <1>1, <3>1
    <3>5. SnapshotReward(a) = ComputeReward(b, e, av)
      BY <2>1 DEF SnapshotReward
    <3> HIDE DEF e, b, av
    <3>6. b \in Nat
      BY <1>1 DEF b
    <3>7. QED
      BY <3>3, <3>4, <3>5, <3>6, ComputeNat
  <2>2. CASE ~(SnapshotDue(a) /\ av # NoEntry)
    BY <2>2 DEF SnapshotReward
  <2>3. QED
    BY <2>1, <2>2
<1>3. OpenReward(a) \in Nat
  <2>1. NextBegin(a) \in Nat /\ cycle <= cycle
    BY <1>1 DEF NextBegin
  <2>2. ComputeReward(NextBegin(a), cycle, votes[a]) \in Nat
    BY <1>1, <2>1, ComputeNat
  <2>3. QED
    BY <2>2 DEF OpenReward
<1>4. QED
  BY <1>1, <1>2, <1>3 DEF SettledAllowance

\* The cursors and snapshots keep their types.
LEMMA AdvanceTypes ==
    ASSUME TypeOK, NEW a \in Accounts, AdvanceCursor(a)
    PROVE  /\ cursor' \in [Accounts -> [begin : 0..(MaxCycle + 1), end : -1..(MaxCycle + 1)]]
           /\ accountVote' \in [Cycles -> [Accounts -> Ballots \cup {NoEntry}]]
<1>1. /\ cycle \in Nat /\ cycle <= MaxCycle /\ MaxCycle \in Nat /\ cycle \in Cycles
      /\ votes[a] \in BallotsOrNone
  BY AccountTypes
<1>2. cycle \in 0..(MaxCycle + 1) /\ cycle + 1 \in 0..(MaxCycle + 1) /\ cycle + 1 \in -1..(MaxCycle + 1)
  BY <1>1
<1> DEFINE T == [begin : 0..(MaxCycle + 1), end : -1..(MaxCycle + 1)]
<1>3. cursor \in [Accounts -> T] /\ accountVote \in [Cycles -> [Accounts -> Ballots \cup {NoEntry}]]
  BY DEF TypeOK
<1>4. CASE UpToDate(a)
  BY <1>3, <1>4 DEF AdvanceCursor
<1>5. CASE ~UpToDate(a) /\ votes[a] = NoVotes
  <2> DEFINE r == [cursor[a] EXCEPT !.begin = cycle + 1]
  <2>1. cursor' = [cursor EXCEPT ![a] = r] /\ accountVote' = accountVote
    BY <1>5 DEF AdvanceCursor
  <2>2. r \in T
    BY <1>2, <1>3
  <2> HIDE DEF r, T
  <2>3. cursor' \in [Accounts -> T]
    BY <1>3, <2>1, <2>2
  <2>4. QED
    BY <1>3, <2>1, <2>3 DEF T
<1>6. CASE ~UpToDate(a) /\ votes[a] # NoVotes
  <2> DEFINE r == [begin |-> cycle, end |-> cycle + 1]
  <2>1. /\ cursor' = [cursor EXCEPT ![a] = r]
        /\ accountVote' = [accountVote EXCEPT ![cycle][a] = votes[a]]
    BY <1>6 DEF AdvanceCursor
  <2>2. r \in T
    BY <1>2
  <2>3. votes[a] \in Ballots
    BY <1>1, <1>6 DEF BallotsOrNone
  <2> HIDE DEF r, T
  <2>4. cursor' \in [Accounts -> T]
    BY <1>3, <2>1, <2>2
  <2>5. accountVote' \in [Cycles -> [Accounts -> Ballots \cup {NoEntry}]]
    BY <1>1, <1>3, <2>1, <2>3
  <2>6. QED
    BY <2>4, <2>5 DEF T
<1>7. QED
  BY <1>4, <1>5, <1>6

\* A pending entry's votes, and what a witness's count includes of an account.
LEMMA CountedNat ==
    ASSUME TypeOK, NEW a \in Accounts, NEW w \in Witnesses
    PROVE  /\ Counted(a, w) \in Nat /\ votes[a][w] \in Nat
           /\ entry[a] # NoEntry =>
                 /\ entry[a] \in [old : BallotsOrNone, new : BallotsOrNone]
                 /\ entry[a].old[w] \in Nat /\ entry[a].new[w] \in Nat
<1>1. votes[a] \in BallotsOrNone
  BY DEF TypeOK
<1>2. votes[a][w] \in Nat
  BY <1>1, BallotType
<1>3. ASSUME entry[a] # NoEntry
      PROVE  /\ entry[a] \in [old : BallotsOrNone, new : BallotsOrNone]
             /\ entry[a].old[w] \in Nat /\ entry[a].new[w] \in Nat
  <2>1. entry[a] \in [old : BallotsOrNone, new : BallotsOrNone]
    BY <1>3 DEF TypeOK
  <2>2. entry[a].old \in BallotsOrNone /\ entry[a].new \in BallotsOrNone
    BY <2>1
  <2>3. QED
    BY <2>1, <2>2, BallotType
<1>4. QED
  BY <1>2, <1>3 DEF Counted

\* Where no count changes and no account's counted votes grow, the counts still
\* cover the votes.
LEMMA CountsKept ==
    ASSUME TypeOK, TypeOK', CountsCoverVotes, voteCount' = voteCount,
           \A a \in Accounts, w \in Witnesses : Counted(a, w)' <= Counted(a, w),
           \A a \in Accounts : entry'[a] # NoEntry =>
               \A w \in Witnesses : votes'[a][w] <= entry'[a].new[w]
    PROVE  CountsCoverVotes'
<1>1. ASSUME NEW w \in Witnesses
      PROVE  SumFunction([a \in Accounts |-> Counted(a, w)'] ) <= voteCount'[w]
  <2> DEFINE f == [a \in Accounts |-> Counted(a, w)]
             g == [a \in Accounts |-> Counted(a, w)']
  <2>1. \A a \in Accounts : Counted(a, w) \in Nat
    BY CountedNat
  <2>2. \A a \in Accounts : Counted(a, w)' \in Nat
    <3> SUFFICES ASSUME NEW a \in Accounts PROVE Counted(a, w)' \in Nat
      OBVIOUS
    <3>1. votes'[a] \in BallotsOrNone
      BY DEF TypeOK
    <3>2. CASE entry'[a] = NoEntry
      BY <3>1, <3>2, BallotType DEF Counted
    <3>3. CASE entry'[a] # NoEntry
      <4>1. entry'[a] \in [old : BallotsOrNone, new : BallotsOrNone]
        BY <3>3 DEF TypeOK
      <4>2. entry'[a].old \in BallotsOrNone
        BY <4>1
      <4>3. QED
        BY <3>3, <4>2, BallotType DEF Counted
    <3>4. QED
      BY <3>2, <3>3
  <2>3. IsFiniteSet(Accounts)
    BY ConstantsOK DEF Constants
  <2>4. Summand(f, Accounts)
    BY <2>1, <2>3 DEF Summand
  <2>5. Summand(g, Accounts)
    BY <2>2, <2>3 DEF Summand
  <2>6. \A a \in Accounts : g[a] <= f[a]
    OBVIOUS
  <2>7. SumFunction(f) <= voteCount[w] /\ voteCount[w] \in Nat
    BY DEF CountsCoverVotes, TypeOK
  <2> HIDE DEF f, g
  <2>8. SumFunction(g) <= SumFunction(f) /\ SumFunction(g) \in Int /\ SumFunction(f) \in Int
    BY <2>4, <2>5, <2>6, FunSumMono, FunSum
  <2>9. SumFunction(g) <= voteCount'[w]
    BY <2>7, <2>8
  <2>10. QED
    BY <2>9 DEF g
<1>2. QED
  BY <1>1 DEF CountsCoverVotes

\* VoteWitness.
LEMMA BaseVote ==
    ASSUME Base, NEW a \in Accounts, NEW ballot \in Ballots, VoteWitness(a, ballot)
    PROVE  Base'
<1>1. TypeOK /\ CountsCoverVotes
  BY DEF Base
<1>2. votes[a] \in BallotsOrNone /\ ballot \in BallotsOrNone
  BY <1>1 DEF TypeOK, BallotsOrNone
<1> DEFINE r == [old |-> IF entry[a] = NoEntry THEN votes[a] ELSE entry[a].old, new |-> ballot]
           E == [old : BallotsOrNone, new : BallotsOrNone]
<1>3. entry' = [entry EXCEPT ![a] = r] /\ votes' = [votes EXCEPT ![a] = ballot]
  BY DEF VoteWitness
<1>4. r \in E
  <2>1. entry[a] # NoEntry => entry[a] \in E
    BY <1>1 DEF TypeOK
  <2>2. entry[a] # NoEntry => entry[a].old \in BallotsOrNone
    BY <2>1
  <2>3. QED
    BY <1>2, <2>2
<1>5. entry \in [Accounts -> E \cup {NoEntry}] /\ votes \in [Accounts -> BallotsOrNone]
  BY <1>1 DEF TypeOK
<1>6. entry'[a] = r /\ \A x \in Accounts : x # a => entry'[x] = entry[x]
  <2> HIDE DEF r, E
  <2> QED
    BY <1>3, <1>5
<1>7. votes'[a] = ballot /\ \A x \in Accounts : x # a => votes'[x] = votes[x]
  BY <1>3, <1>5
<1>8. r.new = ballot /\ r # NoEntry
  BY <1>4, RewardsAssumption
<1>9. TypeOK'
  <2>1. entry' \in [Accounts -> E \cup {NoEntry}]
    <3> HIDE DEF r, E
    <3> QED
      BY <1>3, <1>4, <1>5
  <2>2. votes' \in [Accounts -> BallotsOrNone]
    BY <1>2, <1>3, <1>5
  <2>3. allowance' \in [Accounts -> Nat]
    BY <1>1, SettledNat DEF VoteWitness, TypeOK
  <2>4. AdvanceCursor(a)
    BY DEF VoteWitness
  <2>5. QED
    BY <1>1, <2>1, <2>2, <2>3, <2>4, AdvanceTypes DEF VoteWitness, TypeOK, store, aux
<1>10. ASSUME NEW x \in Accounts, NEW w \in Witnesses PROVE Counted(x, w)' <= Counted(x, w)
  <2>1. Counted(x, w) \in Nat
    BY <1>1, CountedNat
  <2>2. Counted(x, w)' = Counted(x, w)
    <3>1. CASE x # a
      BY <1>6, <1>7, <3>1 DEF Counted
    <3>2. CASE x = a
      <4>1. Counted(x, w)' = r.old[w]
        BY <1>6, <1>8, <3>2 DEF Counted
      <4>2. QED
        BY <3>2, <4>1 DEF Counted
    <3>3. QED
      BY <3>1, <3>2
  <2>3. QED
    BY <2>1, <2>2
<1>11. ASSUME NEW x \in Accounts, entry'[x] # NoEntry, NEW w \in Witnesses
       PROVE  votes'[x][w] <= entry'[x].new[w]
  <2>1. CASE x # a
    BY <1>1, <1>6, <1>7, <1>11, <2>1 DEF CountsCoverVotes
  <2>2. CASE x = a
    <3>1. ballot[w] \in Nat
      BY <1>2, BallotType
    <3>2. QED
      BY <1>6, <1>7, <1>8, <2>2, <3>1
  <2>3. QED
    BY <2>1, <2>2
<1>12. voteCount' = voteCount
  BY DEF VoteWitness
<1>13. CountsCoverVotes'
  BY <1>1, <1>9, <1>10, <1>11, <1>12, CountsKept
<1>14. QED
  BY <1>9, <1>13 DEF Base

\* Unfreeze.
LEMMA BaseUnfreeze ==
    ASSUME Base, NEW a \in Accounts, Unfreeze(a)
    PROVE  Base'
<1>1. TypeOK /\ CountsCoverVotes
  BY DEF Base
<1>2. votes \in [Accounts -> BallotsOrNone] /\ votes' = [votes EXCEPT ![a] = NoVotes]
  BY <1>1 DEF TypeOK, Unfreeze
<1>3. entry' = entry /\ voteCount' = voteCount
  BY DEF Unfreeze
<1>4. votes'[a] = NoVotes /\ \A x \in Accounts : x # a => votes'[x] = votes[x]
  BY <1>2
<1>5. TypeOK'
  <2>1. votes' \in [Accounts -> BallotsOrNone]
    BY <1>2 DEF BallotsOrNone
  <2>2. allowance' \in [Accounts -> Nat]
    BY <1>1, SettledNat DEF Unfreeze, TypeOK
  <2>3. AdvanceCursor(a)
    BY DEF Unfreeze
  <2>4. QED
    BY <1>1, <2>1, <2>2, <2>3, AdvanceTypes DEF Unfreeze, TypeOK, store, aux
<1>6. ASSUME NEW x \in Accounts, NEW w \in Witnesses PROVE Counted(x, w)' <= Counted(x, w)
  <2>1. Counted(x, w) \in Nat
    BY <1>1, CountedNat
  <2>2. CASE x = a /\ entry[x] = NoEntry
    <3>1. Counted(x, w)' = 0
      BY <1>3, <1>4, <2>2 DEF Counted, NoVotes
    <3>2. QED
      BY <2>1, <3>1
  <2>3. CASE ~(x = a /\ entry[x] = NoEntry)
    <3>1. Counted(x, w)' = Counted(x, w)
      BY <1>3, <1>4, <2>3 DEF Counted
    <3>2. QED
      BY <2>1, <3>1
  <2>4. QED
    BY <2>2, <2>3
<1>7. ASSUME NEW x \in Accounts, entry'[x] # NoEntry, NEW w \in Witnesses
      PROVE  votes'[x][w] <= entry'[x].new[w]
  <2>1. CASE x # a
    BY <1>1, <1>3, <1>4, <1>7, <2>1 DEF CountsCoverVotes
  <2>2. CASE x = a
    <3>1. votes'[x][w] = 0
      BY <1>4, <2>2 DEF NoVotes
    <3>2. entry[x].new[w] \in Nat
      BY <1>1, <1>3, <1>7, CountedNat
    <3>3. QED
      BY <1>3, <3>1, <3>2
  <2>3. QED
    BY <2>1, <2>2
<1>8. CountsCoverVotes'
  BY <1>1, <1>3, <1>5, <1>6, <1>7, CountsKept
<1>9. QED
  BY <1>5, <1>8 DEF Base

\* WithdrawBalance.
LEMMA BaseWithdraw ==
    ASSUME Base, NEW a \in Accounts, WithdrawBalance(a)
    PROVE  Base'
<1>1. TypeOK /\ CountsCoverVotes
  BY DEF Base
<1>2. entry' = entry /\ voteCount' = voteCount /\ votes' = votes
  BY DEF WithdrawBalance
<1>3. TypeOK'
  <2>1. SettledAllowance(a) \in Nat /\ balance[a] \in Nat
    BY <1>1, SettledNat DEF TypeOK
  <2>2. balance' \in [Accounts -> Nat]
    <3>1. balance[a] + SettledAllowance(a) \in Nat
      BY <2>1
    <3>2. QED
      BY <1>1, <3>1 DEF WithdrawBalance, TypeOK
  <2>3. allowance' \in [Accounts -> Nat]
    BY <1>1 DEF WithdrawBalance, TypeOK
  <2>4. AdvanceCursor(a)
    BY DEF WithdrawBalance
  <2>5. QED
    BY <1>1, <2>2, <2>3, <2>4, AdvanceTypes DEF WithdrawBalance, TypeOK, store, aux
<1>4. CountsCoverVotes'
  BY <1>1, <1>2 DEF CountsCoverVotes, Counted
<1>5. QED
  BY <1>3, <1>4 DEF Base

\* Activate.
LEMMA BaseActivate == ASSUME Base, Activate PROVE Base'
BY DEF Base, Activate, TypeOK, CountsCoverVotes, Counted, store, aux

\* The block reward.
LEMMA PayTypes ==
    ASSUME TypeOK, NEW w \in Witnesses, PayBlockReward(w)
    PROVE  /\ reward' \in [Cycles -> [Witnesses -> Nat]]
           /\ allowance' \in [Accounts -> Nat] /\ brokered' \in [Accounts -> Nat]
<1>1. BrokerageAmount \in Nat /\ VotersAmount \in Nat
  <2> DEFINE p == WitnessPayPerBlock
             x == Brokerage * p
  <2>1. p \in Nat /\ Brokerage \in Nat /\ Brokerage <= 100
    BY RewardsAssumption
  <2>2. x \in Nat /\ x <= 100 * p
    BY <2>1, MulNat, MulMono
  <2> HIDE DEF x, p
  <2>3. x \div 100 \in Nat /\ (x \div 100) * 100 <= x
    BY <2>2
  <2>4. x \div 100 <= p
    BY <2>1, <2>2, <2>3
  <2>5. BrokerageAmount = x \div 100 /\ VotersAmount = p - x \div 100
    BY DEF BrokerageAmount, VotersAmount, x, p
  <2>6. QED
    BY <2>1, <2>3, <2>4, <2>5
<1>2. w \in Accounts /\ cycle \in Cycles /\ reward \in [Cycles -> [Witnesses -> Nat]]
  BY ConstantsOK DEF Constants, TypeOK
<1>3. reward' \in [Cycles -> [Witnesses -> Nat]]
  <2>1. reward[cycle][w] + VotersAmount \in Nat
    BY <1>1, <1>2
  <2>2. reward' = reward \/ reward' = [reward EXCEPT ![cycle][w] = reward[cycle][w] + VotersAmount]
    BY DEF PayBlockReward, RewardAfterPay
  <2>3. QED
    BY <1>2, <2>1, <2>2
<1>4. /\ allowance' \in [Accounts -> Nat] /\ brokered' \in [Accounts -> Nat]
  <2>1. allowance \in [Accounts -> Nat] /\ brokered \in [Accounts -> Nat]
    BY DEF TypeOK
  <2>2. allowance[w] + BrokerageAmount \in Nat /\ brokered[w] + BrokerageAmount \in Nat
    BY <1>1, <1>2, <2>1
  <2>3. QED
    BY <1>2, <2>1, <2>2 DEF PayBlockReward
<1>5. QED
  BY <1>3, <1>4

\* EndBlock.
LEMMA BaseEndBlock ==
    ASSUME Base, NEW w \in Witnesses, EndBlock(w)
    PROVE  Base'
<1>1. TypeOK /\ CountsCoverVotes /\ PayBlockReward(w)
  BY DEF Base, EndBlock
<1>2. TypeOK'
  BY <1>1, PayTypes DEF EndBlock, TypeOK
<1>3. CountsCoverVotes'
  BY <1>1 DEF EndBlock, CountsCoverVotes, Counted
<1>4. QED
  BY <1>2, <1>3 DEF Base

\* The tally covers the votes the accounts hold.
LEMMA TallyCovers ==
    ASSUME Base, NEW w \in Witnesses
    PROVE  /\ SumFunction([a \in Accounts |-> votes[a][w]]) <= Tally[w]
           /\ Tally[w] \in Nat
<1>1. TypeOK /\ CountsCoverVotes /\ IsFiniteSet(Accounts)
  BY ConstantsOK DEF Base, Constants
<1> DEFINE d(a) == IF entry[a] = NoEntry THEN 0 ELSE entry[a].new[w] - entry[a].old[w]
           f == [a \in Accounts |-> Counted(a, w)]
           g == [a \in Accounts |-> d(a)]
           h == [a \in Accounts |-> Counted(a, w) + d(a)]
           v == [a \in Accounts |-> votes[a][w]]
<1>2. ASSUME NEW a \in Accounts
      PROVE  /\ f[a] \in Int /\ g[a] \in Int /\ v[a] \in Nat
             /\ h[a] = f[a] + g[a] /\ h[a] \in Int /\ v[a] <= h[a]
  <2>1. Counted(a, w) \in Nat /\ votes[a][w] \in Nat
    BY <1>1, CountedNat
  <2>2. CASE entry[a] = NoEntry
    <3>1. d(a) = 0 /\ Counted(a, w) = votes[a][w]
      BY <2>2 DEF Counted
    <3> HIDE DEF d
    <3>2. QED
      BY <2>1, <3>1
  <2>3. CASE entry[a] # NoEntry
    <3>1. entry[a].old[w] \in Nat /\ entry[a].new[w] \in Nat
      BY <1>1, <2>3, CountedNat
    <3>2. d(a) = entry[a].new[w] - entry[a].old[w] /\ Counted(a, w) = entry[a].old[w]
      BY <2>3 DEF Counted
    <3>3. votes[a][w] <= entry[a].new[w]
      BY <1>1, <2>3 DEF CountsCoverVotes
    <3> HIDE DEF d
    <3>4. QED
      BY <2>1, <3>1, <3>2, <3>3
  <2>4. QED
    BY <2>2, <2>3
<1>3. f \in [Accounts -> Int] /\ g \in [Accounts -> Int] /\ h \in [Accounts -> Int]
  <2>1. (\A a \in Accounts : f[a] \in Int) /\ (\A a \in Accounts : g[a] \in Int)
        /\ (\A a \in Accounts : h[a] \in Int)
    BY <1>2
  <2> HIDE DEF d
  <2>2. QED
    BY <2>1
<1>4. v \in [Accounts -> Nat]
  BY <1>2
<1>5. SumFunction(g) = Delta(w)
  BY DEF Delta
<1>6. SumFunction(f) <= voteCount[w] /\ voteCount[w] \in Nat
  BY <1>1 DEF CountsCoverVotes, TypeOK
<1>7. Tally[w] = voteCount[w] + Delta(w)
  BY DEF Tally
<1> HIDE DEF f, g, h, v
<1>8. Summand(f, Accounts) /\ Summand(g, Accounts) /\ Summand(h, Accounts) /\ Summand(v, Accounts)
  BY <1>1, <1>3, <1>4 DEF Summand
<1>9. SumFunction(h) = SumFunction(f) + SumFunction(g)
  BY <1>2, <1>8, FunSumPlus
<1>10. SumFunction(v) <= SumFunction(h)
  BY <1>2, <1>8, FunSumMono
<1>11. SumFunction(f) \in Int /\ SumFunction(g) \in Int /\ SumFunction(v) \in Nat
  BY <1>1, <1>4, <1>8, FunSum, FunSumNat
<1>12. SumFunction(v) <= Tally[w] /\ Tally[w] \in Nat
  BY <1>5, <1>6, <1>7, <1>9, <1>10, <1>11
<1>13. QED
  BY <1>12 DEF v

\* The index of the closing cycle is a natural number.
LEMMA ViTypes ==
    ASSUME TypeOK, reward' \in [Cycles -> [Witnesses -> Nat]], vi' = AccumulateWitnessVi(reward')
    PROVE  vi' \in [Cycles -> [Witnesses -> Nat]]
<1>1. /\ cycle \in Cycles /\ vi \in [Cycles -> [Witnesses -> Nat]] /\ voteCount \in [Witnesses -> Nat]
      /\ D \in Nat /\ MaxCycle \in Nat
  BY ConstantsOK DEF TypeOK, Constants
<1> DEFINE step(w) == Vi(cycle - 1, w) +
                      (IF reward'[cycle][w] = 0 \/ voteCount[w] = 0 THEN 0
                       ELSE (reward'[cycle][w] * D) \div voteCount[w])
           row == [w \in Witnesses |-> step(w)]
<1>2. ASSUME NEW w \in Witnesses PROVE step(w) \in Nat
  <2>1. Vi(cycle - 1, w) \in Nat
    <3>1. cycle - 1 < 0 \/ cycle - 1 \in Cycles
      BY <1>1 DEF Cycles
    <3>2. QED
      BY <1>1, <3>1 DEF Vi
  <2>2. reward'[cycle][w] \in Nat /\ voteCount[w] \in Nat
    BY <1>1
  <2>3. reward'[cycle][w] * D \in Nat
    BY <1>1, <2>2, MulNat
  <2>4. voteCount[w] # 0 => (reward'[cycle][w] * D) \div voteCount[w] \in Nat
    BY <2>2, <2>3, DivNat
  <2>5. QED
    BY <2>1, <2>4
<1>3. row \in [Witnesses -> Nat]
  <2> HIDE DEF step
  <2> QED
    BY <1>2
<1>4. vi' = vi \/ vi' = [vi EXCEPT ![cycle] = row]
  BY DEF AccumulateWitnessVi, D
<1>5. QED
  <2> HIDE DEF row
  <2> QED
    BY <1>1, <1>3, <1>4

\* EndBlockMaintenance.
LEMMA BaseMaintenance ==
    ASSUME Base, NEW w \in Witnesses, EndBlockMaintenance(w)
    PROVE  Base'
<1>1. TypeOK /\ PayBlockReward(w) /\ MaxCycle \in Nat
  BY ConstantsOK DEF Base, EndBlockMaintenance, Constants
<1>2. \A x \in Witnesses : Tally[x] \in Nat
  BY TallyCovers
<1>3. voteCount' = Tally /\ voteCount' \in [Witnesses -> Nat]
  <2>1. voteCount' = Tally
    BY DEF EndBlockMaintenance
  <2>2. Tally = [x \in Witnesses |-> Tally[x]]
    BY DEF Tally
  <2>3. [x \in Witnesses |-> Tally[x]] \in [Witnesses -> Nat]
    BY <1>2
  <2>4. QED
    BY <2>1, <2>2, <2>3
<1>4. entry' = [a \in Accounts |-> NoEntry] /\ votes' = votes
  BY DEF EndBlockMaintenance
<1>5. TypeOK'
  <2>1. /\ reward' \in [Cycles -> [Witnesses -> Nat]]
        /\ allowance' \in [Accounts -> Nat] /\ brokered' \in [Accounts -> Nat]
    BY <1>1, PayTypes
  <2>2. vi' \in [Cycles -> [Witnesses -> Nat]]
    BY <1>1, <2>1, ViTypes DEF EndBlockMaintenance
  <2>3. cycle + 1 \in Cycles /\ cycle \in Cycles
    BY <1>1 DEF EndBlockMaintenance, TypeOK, Cycles
  <2>4. cycle' \in Cycles
    BY <2>3 DEF EndBlockMaintenance, AdvanceCycle
  <2>5. witnessVote' \in [Cycles -> [Witnesses -> Nat \cup {RemarkNoVote}]]
    <3>1. voteCount' \in [Witnesses -> Nat \cup {RemarkNoVote}]
      BY <1>3
    <3>2. witnessVote' = witnessVote \/ witnessVote' = [witnessVote EXCEPT ![cycle + 1] = voteCount']
      BY DEF EndBlockMaintenance, AdvanceCycle
    <3>3. QED
      BY <1>1, <2>3, <3>1, <3>2 DEF TypeOK
  <2>6. effective' \in [Cycles -> [Accounts -> BallotsOrNone]]
    <3>1. effective' = effective \/ effective' = [effective EXCEPT ![cycle + 1] = votes]
      BY DEF EndBlockMaintenance, AdvanceCycle
    <3>2. QED
      BY <1>1, <2>3, <3>1 DEF TypeOK
  <2>7. /\ changeDelegation' = changeDelegation /\ accountVote' = accountVote
        /\ cursor' = cursor /\ balance' = balance
    BY DEF EndBlockMaintenance
  <2>8. QED
    BY <1>1, <1>3, <1>4, <2>1, <2>2, <2>4, <2>5, <2>6, <2>7 DEF TypeOK
<1>6. ASSUME NEW x \in Witnesses
      PROVE  SumFunction([a \in Accounts |-> Counted(a, x)'] ) <= voteCount'[x]
  <2>1. [a \in Accounts |-> Counted(a, x)'] = [a \in Accounts |-> votes[a][x]]
    BY <1>4 DEF Counted
  <2>2. SumFunction([a \in Accounts |-> votes[a][x]]) <= Tally[x]
    BY TallyCovers
  <2>3. QED
    BY <1>3, <2>1, <2>2
<1>7. CountsCoverVotes'
  BY <1>4, <1>6 DEF CountsCoverVotes
<1>8. QED
  BY <1>5, <1>7 DEF Base

\* Every step keeps the types and the counts.
LEMMA BaseStep == Base /\ [Next]_vars => Base'
<1> SUFFICES ASSUME Base, [Next]_vars PROVE Base'
  OBVIOUS
<1>1. Voters \subseteq Accounts
  BY RewardsAssumption
<1>2. ASSUME NEW a \in Voters, NEW ballot \in Ballots, VoteWitness(a, ballot) PROVE Base'
  BY <1>1, <1>2, BaseVote
<1>3. ASSUME NEW a \in Voters, Unfreeze(a) PROVE Base'
  BY <1>1, <1>3, BaseUnfreeze
<1>4. ASSUME NEW a \in Accounts, WithdrawBalance(a) PROVE Base'
  BY <1>4, BaseWithdraw
<1>5. CASE Activate
  BY <1>5, BaseActivate
<1>6. ASSUME NEW w \in Witnesses, EndBlock(w) PROVE Base'
  BY <1>6, BaseEndBlock
<1>7. ASSUME NEW w \in Witnesses, EndBlockMaintenance(w) PROVE Base'
  BY <1>7, BaseMaintenance
<1>8. CASE UNCHANGED vars
  BY <1>8 DEF Base, TypeOK, CountsCoverVotes, Counted, vars, store, aux
<1>9. QED
  BY <1>2, <1>3, <1>4, <1>5, <1>6, <1>7, <1>8 DEF Next

\* The types and the counts at the start.
LEMMA BaseInit == Init => Base
<1> SUFFICES ASSUME Init PROVE Base
  OBVIOUS
<1>1. /\ IsFiniteSet(Accounts) /\ MaxCycle \in Nat /\ GenesisVotes \in [Witnesses -> Nat]
  BY ConstantsOK, RewardsAssumption DEF Constants
<1>2. NoVotes \in [Witnesses -> Nat] /\ NoVotes \in BallotsOrNone
  BY DEF NoVotes, BallotsOrNone
<1>3. TypeOK
  <2>1. cycle \in Cycles /\ changeDelegation \in BOOLEAN
    <3>1. cycle = 0 /\ changeDelegation = FALSE
      BY DEF Init
    <3>2. 0 \in Cycles
      BY <1>1 DEF Cycles
    <3>3. QED
      BY <3>1, <3>2
  <2>2. /\ votes \in [Accounts -> BallotsOrNone] /\ voteCount \in [Witnesses -> Nat]
        /\ entry \in [Accounts -> [old : BallotsOrNone, new : BallotsOrNone] \cup {NoEntry}]
    BY <1>1, <1>2 DEF Init
  <2>3. reward \in [Cycles -> [Witnesses -> Nat]] /\ vi \in [Cycles -> [Witnesses -> Nat]]
    BY <1>2 DEF Init
  <2>4. /\ witnessVote \in [Cycles -> [Witnesses -> Nat \cup {RemarkNoVote}]]
        /\ accountVote \in [Cycles -> [Accounts -> Ballots \cup {NoEntry}]]
        /\ effective \in [Cycles -> [Accounts -> BallotsOrNone]]
    BY <1>2 DEF Init
  <2>5. cursor \in [Accounts -> [begin : 0..(MaxCycle + 1), end : -1..(MaxCycle + 1)]]
    <3>1. 0 \in 0..(MaxCycle + 1) /\ RemarkNoVote \in -1..(MaxCycle + 1)
      BY <1>1 DEF RemarkNoVote
    <3>2. QED
      BY <3>1 DEF Init
  <2>6. /\ allowance \in [Accounts -> Nat] /\ balance \in [Accounts -> Nat]
        /\ brokered \in [Accounts -> Nat]
    BY DEF Init
  <2>7. QED
    BY <2>1, <2>2, <2>3, <2>4, <2>5, <2>6 DEF TypeOK
<1>4. CountsCoverVotes
  <2>1. ASSUME NEW w \in Witnesses
        PROVE  SumFunction([a \in Accounts |-> Counted(a, w)]) <= voteCount[w]
    <3> DEFINE f == [a \in Accounts |-> Counted(a, w)]
               z == 0
    <3>1. \A a \in Accounts : Counted(a, w) = 0
      BY DEF Counted, Init, NoVotes
    <3>2. Summand(f, Accounts) /\ \A a \in Accounts : f[a] = z
      BY <1>1, <3>1 DEF Summand
    <3>3. z \in Int /\ Cardinality(Accounts) \in Nat
      BY <1>1, FS_CardinalityType
    <3> HIDE DEF f, z
    <3>4. SumFunction(f) = z * Cardinality(Accounts)
      BY <3>2, <3>3, FunSumConst
    <3>5. SumFunction(f) = 0 /\ voteCount[w] \in Nat
      BY <1>1, <3>3, <3>4 DEF z, Init
    <3>6. QED
      BY <3>5 DEF f
  <2>2. \A a \in Accounts : entry[a] = NoEntry
    BY DEF Init
  <2>3. QED
    BY <2>1, <2>2 DEF CountsCoverVotes
<1>5. QED
  BY <1>3, <1>4 DEF Base

\* The reward state keeps its shape: in particular no vote count goes negative
\* when the maintenance window applies the pending ballots, although unfreezing
\* clears an account's votes and leaves its entry behind.
THEOREM RewardsTypes == Spec => []TypeOK
<1>1. Init => Base
  BY BaseInit
<1>2. Base /\ [Next]_vars => Base'
  BY BaseStep
<1>3. Base => TypeOK
  BY DEF Base
<1>4. QED
  BY <1>1, <1>2, <1>3, PTL DEF Spec

\* queryReward and WithdrawReward agree: where WithdrawReward finds the account
\* up to date, the walk of queryReward is empty.
THEOREM QueryMatches == Spec => []QueryMatchesWithdraw
<1>1. TypeOK => QueryMatchesWithdraw
  <2> SUFFICES ASSUME TypeOK, changeDelegation, NEW a \in Accounts
               PROVE  QueryReward(a) = SettledAllowance(a)
    BY DEF QueryMatchesWithdraw
  <2>1. cycle \in Nat /\ cursor[a].begin \in Nat /\ allowance[a] \in Nat
    BY AccountTypes
  <2>2. CASE ~UpToDate(a)
    <3>1. ~(cursor[a].begin > cycle)
      BY <2>2 DEF UpToDate
    <3>2. QED
      BY <2>2, <3>1 DEF QueryReward, SettledAllowance
  <2>3. CASE cursor[a].begin > cycle
    BY <2>3 DEF QueryReward, SettledAllowance, UpToDate
  <2>4. CASE cursor[a].begin = cycle /\ UpToDate(a)
    <3>1. ~SnapshotDue(a)
      BY <2>1, <2>4 DEF SnapshotDue
    <3>2. SnapshotReward(a) = 0 /\ NextBegin(a) = cycle
      BY <2>4, <3>1 DEF SnapshotReward, NextBegin
    <3>3. OpenReward(a) = 0
      BY <2>1, <3>2 DEF OpenReward, ComputeReward
    <3>4. QueryReward(a) = allowance[a] + 0 + 0
      BY <2>1, <2>4, <3>2, <3>3 DEF QueryReward
    <3>5. QED
      BY <2>1, <2>4, <3>4 DEF SettledAllowance
  <2>5. QED
    BY <2>1, <2>2, <2>3, <2>4 DEF UpToDate
<1>2. QED
  BY <1>1, RewardsTypes, PTL

-----------------------------------------------------------------------------
(* Steps.                                                                  *)

(* Nothing about the closed cycles changes.                                *)
ClosedKept ==
    \A c \in 0..(cycle - 1) :
        /\ effective'[c] = effective[c] /\ vi'[c] = vi[c]
        /\ reward'[c] = reward[c] /\ witnessVote'[c] = witnessVote[c]

\* The prices of the closed cycles stay.
LEMMA TablesKept ==
    ASSUME TypeOK, ClosedKept, NEW a \in Accounts, NEW w \in Witnesses, NEW c \in 0..(cycle - 1)
    PROVE  /\ SharesOf(a)'[w][c] = SharesOf(a)[w][c]
           /\ UnitsOf(a)'[w][c] = UnitsOf(a)[w][c]
<1>1. cycle \in Nat /\ cycle <= MaxCycle /\ MaxCycle \in Nat
  BY AccountTypes
<1>2. c \in Cycles /\ c \in Nat
  BY <1>1 DEF Cycles
<1>3. /\ effective'[c] = effective[c] /\ vi'[c] = vi[c]
      /\ reward'[c] = reward[c] /\ witnessVote'[c] = witnessVote[c]
  BY DEF ClosedKept
<1> DEFINE n == effective[c][a][w]
<1>4. effective'[c][a][w] = n
  BY <1>3
<1>5. Share(c, w, effective[c][a][w])' = Share(c, w, n)
  BY <1>3 DEF Share
<1>6. Vi(c, w)' = Vi(c, w) /\ Vi(c - 1, w)' = Vi(c - 1, w)
  <2>1. c - 1 < 0 \/ c - 1 \in 0..(cycle - 1)
    BY <1>1, <1>2
  <2>2. c - 1 \in 0..(cycle - 1) => vi'[c - 1] = vi[c - 1]
    BY DEF ClosedKept
  <2>3. QED
    BY <1>3, <2>1, <2>2 DEF Vi
<1>7. Unit(c, w, effective[c][a][w])' = Unit(c, w, n)
  BY <1>4, <1>5, <1>6 DEF Unit, N, D
<1>8. /\ SharesOf(a)'[w][c] = Share(c, w, effective[c][a][w])'
      /\ SharesOf(a)[w][c] = Share(c, w, n)
      /\ UnitsOf(a)'[w][c] = Unit(c, w, effective[c][a][w])'
      /\ UnitsOf(a)[w][c] = Unit(c, w, n)
  BY <1>2 DEF SharesOf, UnitsOf
<1>9. QED
  BY <1>5, <1>7, <1>8

\* Fair pay for closed cycles stays fair.
LEMMA FairKept ==
    ASSUME TypeOK, ClosedKept, NEW a \in Accounts, NEW x, NEW e \in Nat, e <= cycle,
           FairPay(a, x, 0, e)
    PROVE  Fair(Grid(SharesOf(a)', Witnesses, 0, e), Grid(UnitsOf(a)', Witnesses, 0, e), x, 0, e)
<1>1. cycle \in Nat
  BY AccountTypes
<1>2. \A c \in 0..(e - 1) : c \in 0..(cycle - 1)
  BY <1>1
<1>3. /\ \A w \in Witnesses, c \in 0..(e - 1) : SharesOf(a)'[w][c] = SharesOf(a)[w][c]
      /\ \A w \in Witnesses, c \in 0..(e - 1) : UnitsOf(a)'[w][c] = UnitsOf(a)[w][c]
  BY <1>2, TablesKept
<1>4. Grid(SharesOf(a)', Witnesses, 0, e) = Grid(SharesOf(a), Witnesses, 0, e)
  BY <1>3, GridSame
<1>5. Grid(UnitsOf(a)', Witnesses, 0, e) = Grid(UnitsOf(a), Witnesses, 0, e)
  BY <1>3, GridSame
<1>6. QED
  BY <1>4, <1>5 DEF FairPay, AllShares, AllUnits

\* What an account was paid stays fair where the step pays it x for the cycles
\* before e.
LEMMA PayKept ==
    ASSUME TypeOK, ClosedKept, NEW a \in Accounts, NEW x, NEW e \in Nat, e <= cycle,
           FairPay(a, x, 0, e), Paid(a)' = x, PaidUpTo(a)' = e
    PROVE  FairPay(a, Paid(a), 0, PaidUpTo(a))'
<1>1. Fair(Grid(SharesOf(a)', Witnesses, 0, e), Grid(UnitsOf(a)', Witnesses, 0, e), x, 0, e)
  BY FairKept
<1>2. FairPay(a, Paid(a), 0, PaidUpTo(a))'
        <=> Fair(Grid(SharesOf(a)', Witnesses, 0, PaidUpTo(a)'),
                 Grid(UnitsOf(a)', Witnesses, 0, PaidUpTo(a)'), Paid(a)', 0, PaidUpTo(a)')
  BY DEF FairPay, AllShares, AllUnits, Fair, Slack, Loss, Indexed, IndexExact, K, N, D
<1>3. QED
  BY <1>1, <1>2

\* Where an account's cursors point.
LEMMA PaidUpToNat ==
    ASSUME TypeOK, NEW a \in Accounts
    PROVE  PaidUpTo(a) \in Nat /\ PaidUpTo(a) <= cycle /\ Span(0, PaidUpTo(a))
<1>1. cycle \in Nat /\ cursor[a].begin \in Nat
  BY AccountTypes
<1>2. QED
  BY <1>1 DEF PaidUpTo, Span

(* The step leaves the clock and the ledger alone.                         *)
LedgerKept == UNCHANGED <<changeDelegation, cycle, store, effective>>

\* A step that leaves an account alone.
LEMMA AccountKept ==
    ASSUME TypeOK, LedgerKept, NEW a \in Accounts, Account(a),
           votes'[a] = votes[a], cursor'[a] = cursor[a],
           \A c \in Cycles : accountVote'[c][a] = accountVote[c][a],
           Paid(a)' = Paid(a)
    PROVE  Account(a)'
<1>1. ClosedKept
  BY DEF LedgerKept, ClosedKept, store
<1>2. PaidUpTo(a)' = PaidUpTo(a) /\ cycle' = cycle /\ effective' = effective
  BY DEF PaidUpTo, LedgerKept
<1>3. FairPay(a, Paid(a), 0, PaidUpTo(a))'
  <2> DEFINE e == PaidUpTo(a)
             x == Paid(a)
  <2>1. FairPay(a, x, 0, e) /\ e \in Nat /\ e <= cycle /\ Paid(a)' = x /\ PaidUpTo(a)' = e
    BY <1>2, PaidUpToNat DEF Account
  <2> HIDE DEF e, x
  <2>2. QED
    BY <1>1, <2>1, PayKept
<1>4. Tracks(a)'
  <2>1. cursor[a].begin \in Nat /\ cycle \in Nat /\ MaxCycle \in Nat /\ cycle <= MaxCycle
    BY AccountTypes
  <2>2. Snapped(a)' <=> Snapped(a)
    BY DEF Snapped
  <2>3. Snapped(a) => accountVote'[cursor[a].begin][a] = accountVote[cursor[a].begin][a]
    BY <2>1 DEF Account, Tracks, Cycles
  <2>4. Tracks(a)
    BY DEF Account
  <2>5. QED
    BY <1>2, <2>2, <2>3, <2>4 DEF Tracks
<1>5. QED
  BY <1>3, <1>4 DEF Account

\* Settlement brings the cursors to the current cycle, whatever the account
\* votes then.
LEMMA SettleTracks ==
    ASSUME TypeOK, OffAtFirst, LedgerKept, NEW a \in Accounts, Tracks(a), AdvanceCursor(a),
           cursor' \in [Accounts -> [begin : 0..(MaxCycle + 1), end : -1..(MaxCycle + 1)]],
           \A x \in Accounts : x # a => votes'[x] = votes[x]
    PROVE  /\ Tracks(a)' /\ PaidUpTo(a)' = cycle
           /\ \A x \in Accounts : x # a =>
                 /\ cursor'[x] = cursor[x]
                 /\ \A c \in Cycles : accountVote'[c][x] = accountVote[c][x]
           /\ ~changeDelegation => cursor' = cursor
<1>1. /\ cycle \in Nat /\ cursor[a].begin \in Nat /\ cursor[a].end \in Int
      /\ cycle <= MaxCycle /\ MaxCycle \in Nat /\ cycle \in Cycles
      /\ cursor[a] \in [begin : 0..(MaxCycle + 1), end : -1..(MaxCycle + 1)]
      /\ votes[a] \in BallotsOrNone
  BY AccountTypes
<1>2. /\ DOMAIN cursor = Accounts
      /\ accountVote \in [Cycles -> [Accounts -> Ballots \cup {NoEntry}]]
  BY DEF TypeOK
<1>3. cycle' = cycle /\ effective' = effective /\ changeDelegation' = changeDelegation
  BY DEF LedgerKept
<1> DEFINE b == cursor[a].begin
<1>4. /\ b <= cycle + 1 /\ cursor[a].end <= cycle + 1
      /\ \A c \in Cycles : c > b \/ (c = b /\ ~Snapped(a)) => accountVote[c][a] = NoEntry
      /\ Snapped(a) => b <= cycle /\ accountVote[b][a] \in Ballots /\ (b > 0 => effective[b][a] = accountVote[b][a])
      /\ b > cycle /\ cycle > 0 => effective[cycle][a] = NoVotes
  BY DEF Tracks
<1>5. CASE UpToDate(a)
  <2>1. cursor' = cursor /\ accountVote' = accountVote
    BY <1>5 DEF AdvanceCursor
  <2>2. PaidUpTo(a)' = cycle /\ (Snapped(a)' <=> Snapped(a))
    <3>1. ~changeDelegation => b = cycle
      BY DEF OffAtFirst
    <3>2. b >= cycle
      BY <1>1, <1>5, <3>1 DEF UpToDate
    <3>3. QED
      BY <1>1, <1>3, <2>1, <3>2 DEF PaidUpTo, Snapped
  <2>3. CASE ~changeDelegation
    <3>1. cycle = 0 /\ b = 0 /\ ~Snapped(a)
      BY <2>3 DEF OffAtFirst, Snapped, RemarkNoVote
    <3>2. Tracks(a)'
      BY <1>1, <1>3, <1>4, <2>1, <2>2, <3>1 DEF Tracks
    <3>3. QED
      BY <2>1, <2>2, <3>2
  <2>4. CASE b > cycle
    <3>1. ~Snapped(a)
      BY <1>1, <1>4, <2>4
    <3>2. cursor'[a] = cursor[a] /\ ~Snapped(a)' /\ b = cycle + 1
      BY <1>1, <1>4, <2>1, <2>2, <2>4, <3>1
    <3>3. \A c \in Cycles : c > b \/ c = b => accountVote'[c][a] = NoEntry
      BY <1>4, <2>1, <3>1
    <3>4. \A c \in b..cycle : FALSE
      BY <1>1, <3>2
    <3>5. Tracks(a)'
      BY <1>3, <1>4, <3>2, <3>3, <3>4 DEF Tracks
    <3>6. QED
      BY <2>1, <2>2, <3>5
  <2>5. CASE b = cycle /\ accountVote[cycle][a] # NoEntry
    <3>1. Snapped(a)
      BY <1>1, <1>4, <2>5
    <3>2. Tracks(a)'
      BY <1>1, <1>3, <1>4, <2>1, <2>2, <2>5, <3>1 DEF Tracks
    <3>3. QED
      BY <2>1, <2>2, <3>2
  <2>6. QED
    BY <1>5, <2>3, <2>4, <2>5 DEF UpToDate
<1>6. ASSUME ~UpToDate(a)
      PROVE  b <= cycle /\ changeDelegation /\ (cycle > 0 => effective[cycle][a] = votes[a])
  <2>1. b <= cycle /\ changeDelegation /\ (Snapped(a) => b < cycle)
    BY <1>6, NotUpToDate
  <2>2. Snapped(a) => \A c \in (b + 1)..cycle : effective[c][a] = votes[a]
    BY DEF Tracks
  <2>3. ~Snapped(a) => \A c \in b..cycle : c > 0 => effective[c][a] = votes[a]
    BY DEF Tracks
  <2>4. QED
    BY <1>1, <2>1, <2>2, <2>3
<1>7. CASE ~UpToDate(a) /\ votes[a] = NoVotes
  <2>1. /\ cursor' = [cursor EXCEPT ![a].begin = cycle + 1]
        /\ accountVote' = accountVote
    BY <1>7 DEF AdvanceCursor
  <2>2. cursor'[a] = [cursor[a] EXCEPT !.begin = cycle + 1]
    BY <1>2, <2>1
  <2>3. cursor'[a].begin = cycle + 1 /\ cursor'[a].end = cursor[a].end
    BY <1>1, <2>2
  <2>4. ~Snapped(a)' /\ PaidUpTo(a)' = cycle
    BY <1>1, <1>3, <1>4, <2>3 DEF Snapped, PaidUpTo
  <2>5. \A c \in Cycles : c >= cycle + 1 => accountVote[c][a] = NoEntry
    BY <1>1, <1>4, <1>6, <1>7 DEF Cycles
  <2>6. cycle > 0 => effective[cycle][a] = NoVotes
    BY <1>6, <1>7
  <2>7. Tracks(a)'
    <3>1. cursor'[a].begin <= cycle + 1 /\ cursor'[a].end <= cycle + 1
      BY <1>1, <1>4, <2>3
    <3>2. \A c \in Cycles : c > cycle + 1 \/ c = cycle + 1 => accountVote'[c][a] = NoEntry
      BY <1>1, <2>1, <2>5 DEF Cycles
    <3>3. \A c \in (cycle + 1)..cycle : c > 0 => effective'[c][a] = votes'[a]
      BY <1>1
    <3>4. QED
      BY <1>3, <2>3, <2>4, <2>6, <3>1, <3>2, <3>3 DEF Tracks
  <2>8. \A x \in Accounts : x # a => cursor'[x] = cursor[x]
    BY <1>2, <2>1
  <2>9. QED
    BY <1>6, <1>7, <2>1, <2>4, <2>7, <2>8
<1>8. CASE ~UpToDate(a) /\ votes[a] # NoVotes
  <2>1. /\ cursor' = [cursor EXCEPT ![a] = [begin |-> cycle, end |-> cycle + 1]]
        /\ accountVote' = [accountVote EXCEPT ![cycle][a] = votes[a]]
    BY <1>8 DEF AdvanceCursor
  <2>2. cursor'[a].begin = cycle /\ cursor'[a].end = cycle + 1
    BY <1>2, <2>1
  <2>3. Snapped(a)' /\ PaidUpTo(a)' = cycle
    BY <1>1, <1>3, <2>2 DEF Snapped, PaidUpTo
  <2>4. accountVote'[cycle][a] = votes[a] /\ votes[a] \in Ballots
    BY <1>1, <1>2, <1>8, <2>1 DEF BallotsOrNone
  <2>5. \A c \in Cycles : c > cycle => accountVote'[c][a] = NoEntry
    <3> SUFFICES ASSUME NEW c \in Cycles, c > cycle PROVE accountVote'[c][a] = NoEntry
      OBVIOUS
    <3>1. c # cycle /\ c > b
      BY <1>1, <1>6, <1>8 DEF Cycles
    <3>2. accountVote'[c] = accountVote[c]
      BY <1>2, <2>1, <3>1
    <3>3. QED
      BY <1>4, <3>1, <3>2
  <2>6. Tracks(a)'
    <3>1. cursor'[a].begin <= cycle + 1 /\ cursor'[a].end <= cycle + 1 /\ cycle <= cycle
      BY <1>1, <2>2
    <3>2. cycle > 0 => effective'[cycle][a] = accountVote'[cycle][a]
      BY <1>3, <1>6, <1>8, <2>4
    <3>3. \A c \in (cycle + 1)..cycle : effective'[c][a] = votes'[a]
      BY <1>1
    <3>4. ~(cycle > cycle)
      BY <1>1
    <3>5. QED
      BY <1>3, <2>2, <2>3, <2>4, <2>5, <3>1, <3>2, <3>3, <3>4 DEF Tracks
  <2>7. \A x \in Accounts : x # a =>
            cursor'[x] = cursor[x] /\ \A c \in Cycles : accountVote'[c][x] = accountVote[c][x]
    BY <1>1, <1>2, <2>1
  <2>8. QED
    BY <1>6, <1>8, <2>3, <2>6, <2>7
<1>9. QED
  BY <1>5, <1>7, <1>8

\* The ledger is kept where its parts are.
LEMMA LedgerStays ==
    ASSUME Ledger, LedgerKept, TypeOK', voteCount' = voteCount
    PROVE  Ledger'
BY DEF Ledger, LedgerKept, SnapshotsCoverVotes, IndexAdds, Vi, store, D

\* A settlement by a, as the three transactions do it.
LEMMA SettleStep ==
    ASSUME IInv, N > 0, Base', LedgerKept, voteCount' = voteCount, NEW a \in Accounts,
           AdvanceCursor(a), \A x \in Accounts : x # a => votes'[x] = votes[x],
           \A x \in Accounts : x # a => Paid(x)' = Paid(x), Paid(a)' = Earned(a)
    PROVE  IInv'
<1>1. TypeOK /\ TypeOK' /\ Ledger /\ OffAtFirst /\ \A x \in Accounts : Account(x)
  BY DEF IInv, Base
<1>2. cursor' \in [Accounts -> [begin : 0..(MaxCycle + 1), end : -1..(MaxCycle + 1)]]
  BY <1>1 DEF TypeOK
<1>3. Tracks(a)
  BY <1>1 DEF Account
<1>4. /\ Tracks(a)' /\ PaidUpTo(a)' = cycle
      /\ \A x \in Accounts : x # a =>
            /\ cursor'[x] = cursor[x]
            /\ \A c \in Cycles : accountVote'[c][x] = accountVote[c][x]
      /\ ~changeDelegation => cursor' = cursor
  BY <1>1, <1>2, <1>3, SettleTracks
<1>5. ASSUME NEW x \in Accounts, x # a PROVE Account(x)'
  BY <1>1, <1>4, <1>5, AccountKept
<1>6. Account(a)'
  <2> DEFINE p == Earned(a)
             e == cycle
  <2>1. FairPay(a, p, 0, e)
    BY <1>1, EarnedFair
  <2>2. e \in Nat /\ e <= cycle
    BY <1>1, AccountTypes
  <2>3. ClosedKept
    BY DEF LedgerKept, ClosedKept, store
  <2>4. Paid(a)' = p /\ PaidUpTo(a)' = e
    BY <1>4
  <2> HIDE DEF p, e
  <2>5. FairPay(a, Paid(a), 0, PaidUpTo(a))'
    BY <1>1, <2>1, <2>2, <2>3, <2>4, PayKept
  <2>6. QED
    BY <1>4, <2>5 DEF Account
<1>7. Ledger'
  BY <1>1, LedgerStays
<1>8. OffAtFirst'
  BY <1>1, <1>4 DEF OffAtFirst, LedgerKept
<1>9. QED
  BY <1>5, <1>6, <1>7, <1>8 DEF IInv

\* Paid after a settlement that credits the allowance.
LEMMA EarnedIsSettled ==
    ASSUME TypeOK, NEW a \in Accounts
    PROVE  Earned(a) = (SettledAllowance(a) + balance[a]) - brokered[a]
<1>1. /\ allowance[a] \in Nat /\ balance[a] \in Nat /\ brokered[a] \in Nat
  BY AccountTypes
<1>2. CASE UpToDate(a)
  BY <1>1, <1>2 DEF Earned, SettledAllowance
<1>3. CASE ~UpToDate(a)
  <2> DEFINE x == SnapshotReward(a) + OpenReward(a)
  <2>1. x \in Nat /\ SettledAllowance(a) = allowance[a] + x
    BY <1>3, SettledNat
  <2>2. Earned(a) = allowance[a] + balance[a] - brokered[a] + x
    BY <1>3 DEF Earned
  <2> HIDE DEF x
  <2>3. QED
    BY <1>1, <2>1, <2>2
<1>4. QED
  BY <1>2, <1>3

\* VoteWitness.
LEMMA StepVote ==
    ASSUME IInv, N > 0, Base', NEW a \in Accounts, NEW ballot \in Ballots, VoteWitness(a, ballot)
    PROVE  IInv'
<1>1. TypeOK
  BY DEF IInv, Base
<1>2. LedgerKept /\ voteCount' = voteCount /\ AdvanceCursor(a)
  BY DEF VoteWitness, LedgerKept, aux
<1>3. \A x \in Accounts : x # a => votes'[x] = votes[x]
  BY <1>1 DEF VoteWitness, TypeOK
<1>4. \A x \in Accounts : x # a => Paid(x)' = Paid(x)
  BY <1>1 DEF VoteWitness, TypeOK, Paid, aux
<1>5. Paid(a)' = Earned(a)
  <2>1. allowance'[a] = SettledAllowance(a) /\ balance' = balance /\ brokered' = brokered
    BY <1>1 DEF VoteWitness, TypeOK, aux
  <2>2. Paid(a)' = (SettledAllowance(a) + balance[a]) - brokered[a]
    BY <1>1, <2>1, SettledNat, AccountTypes DEF Paid
  <2>3. QED
    BY <1>1, <2>2, EarnedIsSettled
<1>6. QED
  BY <1>2, <1>3, <1>4, <1>5, SettleStep

\* Unfreeze.
LEMMA StepUnfreeze ==
    ASSUME IInv, N > 0, Base', NEW a \in Accounts, Unfreeze(a)
    PROVE  IInv'
<1>1. TypeOK
  BY DEF IInv, Base
<1>2. LedgerKept /\ voteCount' = voteCount /\ AdvanceCursor(a)
  BY DEF Unfreeze, LedgerKept, aux
<1>3. \A x \in Accounts : x # a => votes'[x] = votes[x]
  BY <1>1 DEF Unfreeze, TypeOK
<1>4. \A x \in Accounts : x # a => Paid(x)' = Paid(x)
  BY <1>1 DEF Unfreeze, TypeOK, Paid, aux
<1>5. Paid(a)' = Earned(a)
  <2>1. allowance'[a] = SettledAllowance(a) /\ balance' = balance /\ brokered' = brokered
    BY <1>1 DEF Unfreeze, TypeOK, aux
  <2>2. Paid(a)' = (SettledAllowance(a) + balance[a]) - brokered[a]
    BY <1>1, <2>1, SettledNat, AccountTypes DEF Paid
  <2>3. QED
    BY <1>1, <2>2, EarnedIsSettled
<1>6. QED
  BY <1>2, <1>3, <1>4, <1>5, SettleStep

\* WithdrawBalance.
LEMMA StepWithdraw ==
    ASSUME IInv, N > 0, Base', NEW a \in Accounts, WithdrawBalance(a)
    PROVE  IInv'
<1>1. TypeOK
  BY DEF IInv, Base
<1>2. LedgerKept /\ voteCount' = voteCount /\ AdvanceCursor(a)
  BY DEF WithdrawBalance, LedgerKept, aux
<1>3. \A x \in Accounts : x # a => votes'[x] = votes[x]
  BY DEF WithdrawBalance
<1>4. \A x \in Accounts : x # a => Paid(x)' = Paid(x)
  BY <1>1 DEF WithdrawBalance, TypeOK, Paid, aux
<1>5. Paid(a)' = Earned(a)
  <2>1. allowance'[a] = 0 /\ balance'[a] = balance[a] + SettledAllowance(a) /\ brokered' = brokered
    BY <1>1 DEF WithdrawBalance, TypeOK, aux
  <2>2. SettledAllowance(a) \in Nat /\ balance[a] \in Nat /\ brokered[a] \in Nat
    BY <1>1, SettledNat, AccountTypes
  <2>3. Paid(a)' = (SettledAllowance(a) + balance[a]) - brokered[a]
    BY <2>1, <2>2 DEF Paid
  <2>4. QED
    BY <1>1, <2>3, EarnedIsSettled
<1>6. QED
  BY <1>2, <1>3, <1>4, <1>5, SettleStep

\* Activate: nothing is settled, nothing is owed.
LEMMA StepActivate ==
    ASSUME IInv, N > 0, Base', Activate
    PROVE  IInv'
<1>1. TypeOK /\ TypeOK' /\ Ledger /\ OffAtFirst /\ \A x \in Accounts : Account(x)
  BY DEF IInv, Base
<1>2. UNCHANGED <<cycle, store, effective, votes, accountVote, cursor, allowance, balance, brokered, voteCount>>
  BY DEF Activate, aux
<1>3. Ledger'
  BY <1>1, <1>2 DEF Ledger, SnapshotsCoverVotes, IndexAdds, Vi, store, D
<1>4. OffAtFirst'
  BY DEF Activate, OffAtFirst
<1>5. ASSUME NEW x \in Accounts PROVE Account(x)'
  <2>1. Tracks(x)'
    BY <1>1, <1>2 DEF Account, Tracks, Snapped
  <2>2. Paid(x)' = Paid(x) /\ PaidUpTo(x)' = PaidUpTo(x) /\ ClosedKept
    BY <1>2 DEF Paid, PaidUpTo, ClosedKept, store
  <2> DEFINE e == PaidUpTo(x)
             p == Paid(x)
  <2>3. FairPay(x, p, 0, e) /\ e \in Nat /\ e <= cycle /\ Paid(x)' = p /\ PaidUpTo(x)' = e
    BY <1>1, <2>2, PaidUpToNat DEF Account
  <2> HIDE DEF e, p
  <2>4. FairPay(x, Paid(x), 0, PaidUpTo(x))'
    BY <1>1, <2>2, <2>3, PayKept
  <2>5. QED
    BY <2>1, <2>4 DEF Account
<1>6. QED
  BY <1>3, <1>4, <1>5 DEF IInv

\* The block reward touches only the open cycle's pool, and no one's pay for
\* votes.
LEMMA PayKeeps ==
    ASSUME TypeOK, NEW w \in Witnesses, PayBlockReward(w), balance' = balance
    PROVE  /\ \A c \in 0..(cycle - 1) : reward'[c] = reward[c]
           /\ \A a \in Accounts : Paid(a)' = Paid(a)
<1>1. /\ cycle \in Cycles /\ reward \in [Cycles -> [Witnesses -> Nat]] /\ cycle \in Nat
      /\ cycle <= MaxCycle /\ MaxCycle \in Nat
  <2>1. cycle \in Cycles /\ reward \in [Cycles -> [Witnesses -> Nat]]
    BY DEF TypeOK
  <2>2. MaxCycle \in Nat
    BY ConstantsOK DEF Constants
  <2>3. QED
    BY <2>1, <2>2 DEF Cycles
<1>2. ASSUME NEW c \in 0..(cycle - 1) PROVE reward'[c] = reward[c]
  <2>1. c # cycle /\ c \in Cycles
    BY <1>1 DEF Cycles
  <2>2. QED
    BY <1>1, <2>1 DEF PayBlockReward, RewardAfterPay
<1>3. ASSUME NEW a \in Accounts PROVE Paid(a)' = Paid(a)
  <2>1. allowance[a] \in Nat /\ balance[a] \in Nat /\ brokered[a] \in Nat
    BY AccountTypes
  <2>2. allowance \in [Accounts -> Nat] /\ brokered \in [Accounts -> Nat]
    BY DEF TypeOK
  <2>3. allowance' \in [Accounts -> Nat] /\ brokered' \in [Accounts -> Nat]
    BY PayTypes
  <2>4. CASE ~changeDelegation \/ a # w
    <3>1. allowance'[a] = allowance[a] /\ brokered'[a] = brokered[a]
      BY <2>2, <2>4 DEF PayBlockReward
    <3>2. QED
      BY <3>1 DEF Paid
  <2>5. CASE changeDelegation /\ a = w
    <3> DEFINE z == BrokerageAmount
    <3>1. allowance'[a] = allowance[a] + z /\ brokered'[a] = brokered[a] + z
      BY <2>2, <2>5 DEF PayBlockReward
    <3>2. z \in Int
      BY RewardsAssumption DEF BrokerageAmount
    <3> HIDE DEF z
    <3>3. QED
      BY <2>1, <3>1, <3>2 DEF Paid
  <2>6. QED
    BY <2>4, <2>5
<1>4. QED
  BY <1>2, <1>3

\* EndBlock.
LEMMA StepEndBlock ==
    ASSUME IInv, N > 0, Base', NEW w \in Witnesses, EndBlock(w)
    PROVE  IInv'
<1>1. TypeOK /\ TypeOK' /\ Ledger /\ OffAtFirst /\ \A x \in Accounts : Account(x)
  BY DEF IInv, Base
<1>2. /\ UNCHANGED <<changeDelegation, cycle, effective, votes, accountVote, cursor, vi, witnessVote, voteCount>>
      /\ balance' = balance /\ PayBlockReward(w)
  BY DEF EndBlock
<1>3. /\ \A c \in 0..(cycle - 1) : reward'[c] = reward[c]
      /\ \A a \in Accounts : Paid(a)' = Paid(a)
  BY <1>1, <1>2, PayKeeps
<1>4. cycle \in Nat
  BY <1>1, ConstantsOK DEF TypeOK, Constants, Cycles
<1>5. Ledger'
  <2>1. SnapshotsCoverVotes'
    BY <1>1, <1>2 DEF Ledger, SnapshotsCoverVotes
  <2>2. \A c \in 1..(cycle - 1) : reward'[c] = reward[c]
    BY <1>3, <1>4
  <2>3. IndexAdds'
    BY <1>1, <1>2, <2>2 DEF Ledger, IndexAdds, Vi, D
  <2>4. QED
    BY <1>1, <2>1, <2>3 DEF Ledger
<1>6. OffAtFirst'
  BY <1>1, <1>2 DEF OffAtFirst
<1>7. ASSUME NEW x \in Accounts PROVE Account(x)'
  <2>1. Tracks(x)'
    BY <1>1, <1>2 DEF Account, Tracks, Snapped
  <2>2. Paid(x)' = Paid(x) /\ PaidUpTo(x)' = PaidUpTo(x) /\ ClosedKept
    BY <1>2, <1>3 DEF PaidUpTo, ClosedKept
  <2> DEFINE e == PaidUpTo(x)
             p == Paid(x)
  <2>3. FairPay(x, p, 0, e) /\ e \in Nat /\ e <= cycle /\ Paid(x)' = p /\ PaidUpTo(x)' = e
    BY <1>1, <2>2, PaidUpToNat DEF Account
  <2> HIDE DEF e, p
  <2>4. FairPay(x, Paid(x), 0, PaidUpTo(x))'
    BY <1>1, <2>2, <2>3, PayKept
  <2>5. QED
    BY <2>1, <2>4 DEF Account
<1>8. QED
  BY <1>5, <1>6, <1>7 DEF IInv

\* One more cycle that prices to nothing.
LEMMA FairPad ==
    ASSUME NEW s \in Int, NEW u, NEW x, NEW e \in Nat, Fair(s, u, x, 0, e)
    PROVE  Fair(s, u, x, 0, e + 1)
<1>1. N \in Nat /\ K \in Nat /\ x \in Nat
  BY ConstantsOK DEF Constants, Fair
<1>2. /\ Slack(0, e) \in Nat /\ Slack(0, e + 1) \in Nat /\ Slack(0, e) <= Slack(0, e + 1)
      /\ Loss(0, e) \in Nat /\ Loss(0, e + 1) \in Nat /\ Loss(0, e) <= Loss(0, e + 1)
  BY <1>1 DEF Slack, Loss, Indexed
<1>3. /\ K * Slack(0, e) <= K * Slack(0, e + 1) /\ K * Loss(0, e) <= K * Loss(0, e + 1)
      /\ K * Slack(0, e) \in Nat /\ K * Slack(0, e + 1) \in Nat
      /\ K * Loss(0, e) \in Nat /\ K * Loss(0, e + 1) \in Nat
  BY <1>1, <1>2, MulMono, MulNat
<1>4. QED
  BY <1>1, <1>3 DEF Fair

\* The maintenance window, reward subsystem off: nothing is counted yet.
LEMMA StepMaintenanceOff ==
    ASSUME IInv, N > 0, Base', NEW w \in Witnesses, EndBlockMaintenance(w), ~changeDelegation
    PROVE  IInv'
<1>1. TypeOK /\ TypeOK' /\ Ledger /\ OffAtFirst /\ \A x \in Accounts : Account(x)
  BY DEF IInv, Base
<1>2. /\ UNCHANGED <<changeDelegation, cycle, witnessVote, effective, votes, accountVote, cursor>>
      /\ balance' = balance /\ PayBlockReward(w)
  BY DEF EndBlockMaintenance, AdvanceCycle
<1>3. cycle = 0
  BY <1>1 DEF OffAtFirst
<1>4. \A a \in Accounts : Paid(a)' = Paid(a)
  BY <1>1, <1>2, PayKeeps
<1>5. Ledger'
  <2>1. ~(cycle' > 0) /\ 1..cycle' = {} /\ 1..(cycle' - 1) = {}
    BY <1>2, <1>3
  <2>2. SnapshotsCoverVotes'
    BY <1>1, <1>2, <2>1 DEF Ledger, SnapshotsCoverVotes
  <2>3. IndexAdds'
    BY <2>1 DEF IndexAdds
  <2>4. QED
    BY <1>1, <2>2, <2>3 DEF Ledger
<1>6. OffAtFirst'
  BY <1>1, <1>2 DEF OffAtFirst
<1>7. ASSUME NEW x \in Accounts PROVE Account(x)'
  <2>1. Tracks(x)'
    BY <1>1, <1>2 DEF Account, Tracks, Snapped
  <2>2. Paid(x)' = Paid(x) /\ PaidUpTo(x)' = PaidUpTo(x)
    BY <1>2, <1>4 DEF PaidUpTo
  <2>3. ClosedKept
    BY <1>3 DEF ClosedKept
  <2> DEFINE e == PaidUpTo(x)
             p == Paid(x)
  <2>4. FairPay(x, p, 0, e) /\ e \in Nat /\ e <= cycle /\ Paid(x)' = p /\ PaidUpTo(x)' = e
    BY <1>1, <2>2, PaidUpToNat DEF Account
  <2> HIDE DEF e, p
  <2>5. FairPay(x, Paid(x), 0, PaidUpTo(x))'
    BY <1>1, <2>3, <2>4, PayKept
  <2>6. QED
    BY <2>1, <2>5 DEF Account
<1>8. QED
  BY <1>5, <1>6, <1>7 DEF IInv

\* The maintenance window, reward subsystem on: what it writes.
LEMMA MaintenanceWrites ==
    ASSUME Base, NEW w \in Witnesses, EndBlockMaintenance(w), changeDelegation
    PROVE  /\ cycle \in Nat /\ cycle' = cycle + 1 /\ cycle + 1 \in Cycles /\ cycle \in Cycles
           /\ witnessVote'[cycle + 1] = Tally /\ voteCount' = Tally
           /\ effective'[cycle + 1] = votes
           /\ \A c \in Cycles : c # cycle + 1 =>
                 witnessVote'[c] = witnessVote[c] /\ effective'[c] = effective[c]
           /\ \A c \in Cycles : c # cycle => vi'[c] = vi[c]
           /\ N # Disabled => \A x \in Witnesses : vi'[cycle][x] = Vi(cycle - 1, x) +
                 (IF reward'[cycle][x] = 0 \/ voteCount[x] = 0 THEN 0
                  ELSE (reward'[cycle][x] * D) \div voteCount[x])
           /\ ClosedKept
           /\ \A a \in Accounts : Paid(a)' = Paid(a)
           /\ votes' = votes /\ cursor' = cursor /\ accountVote' = accountVote
           /\ changeDelegation' = changeDelegation
<1>1. /\ TypeOK /\ cycle \in Cycles /\ MaxCycle \in Nat
  BY ConstantsOK DEF Base, TypeOK, Constants
<1>2. cycle \in Nat /\ cycle <= MaxCycle /\ cycle + 1 \in Cycles
  BY <1>1 DEF EndBlockMaintenance, Cycles
<1>3. /\ voteCount' = Tally /\ cycle' = cycle + 1
      /\ witnessVote' = [witnessVote EXCEPT ![cycle + 1] = voteCount']
      /\ effective' = [effective EXCEPT ![cycle + 1] = votes]
      /\ vi' = AccumulateWitnessVi(reward') /\ PayBlockReward(w) /\ balance' = balance
      /\ votes' = votes /\ cursor' = cursor /\ accountVote' = accountVote
      /\ changeDelegation' = changeDelegation
  BY DEF EndBlockMaintenance, AdvanceCycle
<1>4. /\ witnessVote'[cycle + 1] = Tally /\ effective'[cycle + 1] = votes
      /\ \A c \in Cycles : c # cycle + 1 =>
            witnessVote'[c] = witnessVote[c] /\ effective'[c] = effective[c]
  BY <1>1, <1>2, <1>3 DEF TypeOK
<1>5. /\ \A c \in Cycles : c # cycle => vi'[c] = vi[c]
      /\ N # Disabled => \A x \in Witnesses : vi'[cycle][x] = Vi(cycle - 1, x) +
            (IF reward'[cycle][x] = 0 \/ voteCount[x] = 0 THEN 0
             ELSE (reward'[cycle][x] * D) \div voteCount[x])
  BY <1>1, <1>3 DEF TypeOK, AccumulateWitnessVi, N, D
<1>6. /\ \A c \in 0..(cycle - 1) : reward'[c] = reward[c]
      /\ \A a \in Accounts : Paid(a)' = Paid(a)
  BY <1>1, <1>3, PayKeeps
<1>7. ClosedKept
  <2> SUFFICES ASSUME NEW c \in 0..(cycle - 1)
               PROVE  /\ effective'[c] = effective[c] /\ vi'[c] = vi[c]
                      /\ reward'[c] = reward[c] /\ witnessVote'[c] = witnessVote[c]
    BY DEF ClosedKept
  <2>1. c \in Cycles /\ c # cycle /\ c # cycle + 1
    BY <1>1, <1>2 DEF Cycles
  <2>2. QED
    BY <1>4, <1>5, <1>6, <2>1
<1>8. QED
  BY <1>1, <1>2, <1>3, <1>4, <1>5, <1>6, <1>7

\* The closing cycle enters the ledger.
LEMMA LedgerGrows ==
    ASSUME Base, Base', Ledger, NEW w \in Witnesses, EndBlockMaintenance(w), changeDelegation
    PROVE  Ledger'
<1>1. /\ TypeOK /\ TypeOK' /\ SnapshotsCoverVotes /\ IndexAdds /\ MaxCycle \in Nat /\ MaxVoteCount \in Nat
  BY ConstantsOK DEF Base, Ledger, Constants
<1>2. /\ cycle \in Nat /\ cycle' = cycle + 1 /\ cycle + 1 \in Cycles /\ cycle \in Cycles
      /\ witnessVote'[cycle + 1] = Tally /\ voteCount' = Tally
      /\ effective'[cycle + 1] = votes
      /\ \A c \in Cycles : c # cycle + 1 =>
            witnessVote'[c] = witnessVote[c] /\ effective'[c] = effective[c]
      /\ \A c \in Cycles : c # cycle => vi'[c] = vi[c]
      /\ N # Disabled => \A x \in Witnesses : vi'[cycle][x] = Vi(cycle - 1, x) +
            (IF reward'[cycle][x] = 0 \/ voteCount[x] = 0 THEN 0
             ELSE (reward'[cycle][x] * D) \div voteCount[x])
      /\ ClosedKept
  BY MaintenanceWrites
<1>3. SnapshotsCoverVotes'
  <2>1. \A x \in Witnesses : witnessVote'[0][x] = RemarkNoVote
    <3>1. 0 \in Cycles /\ 0 # cycle + 1
      BY <1>1, <1>2 DEF Cycles
    <3>2. QED
      BY <1>1, <1>2, <3>1 DEF SnapshotsCoverVotes
  <2>2. ASSUME NEW c \in 1..(cycle + 1), NEW x \in Witnesses
        PROVE  /\ witnessVote'[c][x] \in 0..MaxVoteCount
               /\ SumFunction([a \in Accounts |-> effective'[c][a][x]]) <= witnessVote'[c][x]
    <3>1. CASE c = cycle + 1
      <4>1. Tally[x] <= MaxVoteCount
        BY DEF EndBlockMaintenance
      <4>2. Tally[x] \in Nat /\ SumFunction([a \in Accounts |-> votes[a][x]]) <= Tally[x]
        BY TallyCovers
      <4>3. QED
        BY <1>1, <1>2, <3>1, <4>1, <4>2
    <3>2. CASE c # cycle + 1
      <4>1. c \in 1..cycle /\ c \in Cycles
        BY <1>1, <1>2, <3>2 DEF Cycles
      <4>2. witnessVote'[c] = witnessVote[c] /\ effective'[c] = effective[c]
        BY <1>2, <3>2, <4>1
      <4>3. /\ witnessVote[c][x] \in 0..MaxVoteCount
            /\ SumFunction([a \in Accounts |-> effective[c][a][x]]) <= witnessVote[c][x]
        BY <1>1, <4>1 DEF SnapshotsCoverVotes
      <4>4. QED
        BY <4>2, <4>3
    <3>3. QED
      BY <3>1, <3>2
  <2>3. witnessVote'[cycle'] = voteCount'
    BY <1>2
  <2>4. QED
    BY <1>2, <2>1, <2>2, <2>3 DEF SnapshotsCoverVotes
<1>4. IndexAdds'
  <2> SUFFICES ASSUME NewAlgoCycle # Disabled, NEW c \in 1..cycle, NEW x \in Witnesses
               PROVE  Vi(c, x)' = Vi(c - 1, x)' +
                        (IF reward'[c][x] = 0 \/ witnessVote'[c][x] = 0 THEN 0
                         ELSE (reward'[c][x] * D) \div witnessVote'[c][x])
    <3>1. (cycle + 1) - 1 = cycle
      BY <1>2
    <3>2. QED
      BY <1>2, <3>1 DEF IndexAdds, D
  <2>1. c \in Cycles /\ c - 1 \in Cycles /\ c \in Nat /\ c - 1 \in Nat /\ c # cycle + 1 /\ c - 1 # cycle
        /\ c - 1 \in 0..(cycle - 1)
    BY <1>1, <1>2 DEF Cycles
  <2>2. witnessVote'[c] = witnessVote[c]
    BY <1>2, <2>1
  <2>3. Vi(c - 1, x)' = Vi(c - 1, x)
    BY <1>2, <2>1 DEF Vi
  <2>4. CASE c = cycle
    <3>1. Vi(c, x)' = vi'[cycle][x]
      BY <2>1, <2>4 DEF Vi
    <3>2. witnessVote[cycle] = voteCount
      BY <1>1, <2>1, <2>4 DEF SnapshotsCoverVotes
    <3>3. QED
      BY <1>2, <2>2, <2>3, <2>4, <3>1, <3>2 DEF N
  <2>5. CASE c # cycle
    <3>1. c \in 1..(cycle - 1) /\ c \in 0..(cycle - 1)
      BY <1>2, <2>5
    <3>2. reward'[c] = reward[c]
      BY <1>2, <3>1 DEF ClosedKept
    <3>3. Vi(c, x)' = Vi(c, x)
      BY <1>2, <2>1, <2>5 DEF Vi
    <3>4. Vi(c, x) = Vi(c - 1, x) + (IF reward[c][x] = 0 \/ witnessVote[c][x] = 0 THEN 0
                                     ELSE (reward[c][x] * D) \div witnessVote[c][x])
      BY <1>1, <3>1 DEF IndexAdds
    <3>5. QED
      BY <2>2, <2>3, <3>2, <3>3, <3>4
  <2>6. QED
    BY <2>4, <2>5
<1>5. QED
  BY <1>1, <1>3, <1>4 DEF Ledger

\* The cursors survive a cycle's end.
LEMMA TracksOn ==
    ASSUME Base, NEW w \in Witnesses, EndBlockMaintenance(w), changeDelegation,
           NEW a \in Accounts, Tracks(a)
    PROVE  Tracks(a)'
<1>1. /\ cycle \in Nat /\ cycle' = cycle + 1 /\ cycle + 1 \in Cycles /\ cycle \in Cycles
      /\ effective'[cycle + 1] = votes
      /\ \A c \in Cycles : c # cycle + 1 => effective'[c] = effective[c]
      /\ votes' = votes /\ cursor' = cursor /\ accountVote' = accountVote
  BY MaintenanceWrites
<1>2. cursor[a].begin \in Nat /\ cursor[a].end \in Int /\ MaxCycle \in Nat /\ cycle <= MaxCycle
  BY AccountTypes DEF Base
<1> DEFINE b == cursor[a].begin
<1>3. Snapped(a)' <=> Snapped(a)
  BY <1>1 DEF Snapped
<1>4. /\ b <= cycle + 1 /\ cursor[a].end <= cycle + 1
      /\ \A c \in Cycles : c > b \/ (c = b /\ ~Snapped(a)) => accountVote[c][a] = NoEntry
  BY DEF Tracks
<1>5. ASSUME Snapped(a)
      PROVE  /\ b <= cycle' /\ accountVote[b][a] \in Ballots
             /\ b > 0 => effective'[b][a] = accountVote[b][a]
             /\ \A c \in (b + 1)..cycle' : effective'[c][a] = votes[a]
  <2>1. /\ b <= cycle /\ accountVote[b][a] \in Ballots
        /\ b > 0 => effective[b][a] = accountVote[b][a]
        /\ \A c \in (b + 1)..cycle : effective[c][a] = votes[a]
    BY <1>5 DEF Tracks
  <2>2. b \in Cycles /\ b # cycle + 1
    BY <1>1, <1>2, <2>1 DEF Cycles
  <2>3. effective'[b] = effective[b] /\ b <= cycle'
    BY <1>1, <1>2, <2>1, <2>2
  <2>4. ASSUME NEW c \in (b + 1)..cycle' PROVE effective'[c][a] = votes[a]
    <3>1. CASE c = cycle + 1
      BY <1>1, <3>1
    <3>2. CASE c # cycle + 1
      <4>1. c \in (b + 1)..cycle /\ c \in Cycles
        BY <1>1, <1>2, <3>2 DEF Cycles
      <4>2. QED
        BY <1>1, <2>1, <3>2, <4>1
    <3>3. QED
      BY <3>1, <3>2
  <2>5. QED
    BY <2>1, <2>3, <2>4
<1>6. ASSUME ~Snapped(a), NEW c \in b..cycle', c > 0 PROVE effective'[c][a] = votes[a]
  <2>1. \A d \in b..cycle : d > 0 => effective[d][a] = votes[a]
    BY <1>6 DEF Tracks
  <2>2. CASE c = cycle + 1
    BY <1>1, <2>2
  <2>3. CASE c # cycle + 1
    <3>1. c \in b..cycle /\ c \in Cycles
      BY <1>1, <1>2, <2>3 DEF Cycles
    <3>2. QED
      BY <1>1, <1>6, <2>1, <2>3, <3>1
  <2>4. QED
    BY <2>2, <2>3
<1>7. b <= cycle' + 1 /\ cursor[a].end <= cycle' + 1 /\ ~(b > cycle')
  BY <1>1, <1>2, <1>4
<1>8. QED
  BY <1>1, <1>3, <1>4, <1>5, <1>6, <1>7 DEF Tracks

\* In cycle 0, and without votes, nothing is owed: in the next state.
LEMMA ZeroCell ==
    ASSUME TypeOK', N > 0, NEW a \in Accounts, NEW y \in Witnesses, NEW c \in Cycles,
           (c = 0 /\ witnessVote'[c][y] = RemarkNoVote) \/ (c > 0 /\ effective'[c][a] = NoVotes)
    PROVE  SharesOf(a)'[y][c] = 0 /\ UnitsOf(a)'[y][c] = 0
<1>1. N \in Nat /\ D \in Nat /\ MaxCycle \in Nat
  BY ConstantsOK DEF Constants
<1> DEFINE n == effective'[c][a][y]
           m == witnessVote'[c][y]
           r == reward'[c][y]
           d == Vi(c, y)' - Vi(c - 1, y)'
<1>2. SharesOf(a)'[y][c] = IF m \in {RemarkNoVote, 0} THEN 0 ELSE (n * r) \div m
  BY DEF SharesOf, Share
<1>3. UnitsOf(a)'[y][c] = IF c < N THEN D * SharesOf(a)'[y][c] ELSE n * d
  BY DEF SharesOf, UnitsOf, Unit, N, D
<1>4. r \in Nat /\ m \in Nat \cup {RemarkNoVote}
  BY DEF TypeOK
<1>5. d \in Int
  <2>1. c \in Nat /\ (c - 1 < 0 \/ c - 1 \in Cycles)
    BY <1>1 DEF Cycles
  <2>2. Vi(c, y)' \in Int
    BY <2>1 DEF Vi, TypeOK
  <2>3. Vi(c - 1, y)' \in Int
    BY <2>1 DEF Vi, TypeOK
  <2>4. QED
    BY <2>2, <2>3
<1> HIDE DEF d, r, m, n
<1>6. CASE c = 0 /\ m = RemarkNoVote
  BY <1>1, <1>2, <1>3, <1>6
<1>7. CASE n = 0
  <2>1. SharesOf(a)'[y][c] = 0
    <3>1. CASE m \in {RemarkNoVote, 0}
      BY <1>2, <3>1
    <3>2. CASE m \notin {RemarkNoVote, 0}
      <4>1. m \in Nat \ {0} /\ n * r = 0
        BY <1>4, <1>7, <3>2
      <4>2. QED
        BY <1>2, <3>2, <4>1
    <3>3. QED
      BY <3>1, <3>2
  <2>2. n * d = 0 /\ D * 0 = 0
    BY <1>1, <1>5, <1>7
  <2>3. QED
    BY <1>3, <2>1, <2>2
<1>8. n = 0 \/ (c = 0 /\ m = RemarkNoVote)
  BY DEF n, m, NoVotes
<1>9. QED
  BY <1>6, <1>7, <1>8

\* Pay is still fair when one more cycle has closed.
LEMMA PayOn ==
    ASSUME Base, Ledger', N > 0, NEW w \in Witnesses, EndBlockMaintenance(w), changeDelegation,
           NEW a \in Accounts, Account(a), Ledger
    PROVE  FairPay(a, Paid(a), 0, PaidUpTo(a))'
<1>1. /\ cycle \in Nat /\ cycle' = cycle + 1 /\ cycle + 1 \in Cycles /\ cycle \in Cycles
      /\ \A c \in Cycles : c # cycle + 1 =>
            witnessVote'[c] = witnessVote[c] /\ effective'[c] = effective[c]
      /\ \A c \in Cycles : c # cycle => vi'[c] = vi[c]
      /\ ClosedKept /\ Paid(a)' = Paid(a) /\ cursor' = cursor
  BY MaintenanceWrites
<1>2. /\ TypeOK /\ cursor[a].begin \in Nat /\ MaxCycle \in Nat /\ cycle <= MaxCycle
      /\ Tracks(a) /\ FairPay(a, Paid(a), 0, PaidUpTo(a))
  BY AccountTypes DEF Base, Account
<1> DEFINE b == cursor[a].begin
           x == Paid(a)
<1>3. b <= cycle + 1
  BY <1>2 DEF Tracks
<1>4. CASE b <= cycle
  <2> DEFINE e == PaidUpTo(a)
  <2>1. e \in Nat /\ e <= cycle /\ PaidUpTo(a)' = e
    BY <1>1, <1>2, <1>4 DEF PaidUpTo
  <2>2. FairPay(a, x, 0, e) /\ Paid(a)' = x
    BY <1>1, <1>2
  <2> HIDE DEF e, x
  <2>3. QED
    BY <1>1, <1>2, <2>1, <2>2, PayKept
<1>5. CASE b = cycle + 1
  <2>1. PaidUpTo(a) = cycle /\ PaidUpTo(a)' = cycle + 1
    BY <1>1, <1>5 DEF PaidUpTo
  <2> DEFINE t == SharesOf(a)'
             u == UnitsOf(a)'
             e == cycle
             f == e + 1
             W == Witnesses
  <2>2. Fair(Grid(t, W, 0, e), Grid(u, W, 0, e), x, 0, e)
    <3>1. FairPay(a, x, 0, e) /\ e \in Nat /\ e <= cycle
      BY <1>1, <1>2, <2>1
    <3> HIDE DEF x, e
    <3>2. QED
      BY <1>1, <1>2, <3>1, FairKept
  <2>3. ASSUME NEW y \in W PROVE t[y][e] = 0 /\ u[y][e] = 0
    <3>1. cycle # cycle + 1 /\ (cycle = 0 \/ cycle > 0)
      BY <1>1
    <3>2. cycle = 0 => witnessVote'[cycle][y] = RemarkNoVote
      BY DEF Ledger, SnapshotsCoverVotes
    <3>3. cycle > 0 => effective'[cycle][a] = NoVotes
      <4>1. b > cycle
        BY <1>1, <1>5
      <4>2. cycle > 0 => effective[cycle][a] = NoVotes
        BY <1>2, <4>1 DEF Tracks
      <4>3. QED
        BY <1>1, <3>1, <4>2
    <3>4. TypeOK' /\ e \in Cycles
      BY <1>1 DEF Ledger
    <3>5. (e = 0 /\ witnessVote'[e][y] = RemarkNoVote) \/ (e > 0 /\ effective'[e][a] = NoVotes)
      BY <3>1, <3>2, <3>3
    <3> HIDE DEF e
    <3>6. QED
      BY <3>4, <3>5, ZeroCell
  <2>4. /\ IntGrid(SharesOf(a), W, 0, e) /\ IntGrid(UnitsOf(a), W, 0, e) /\ Span(0, e)
    <3>1. Span(0, e)
      BY <1>1 DEF Span
    <3> HIDE DEF e
    <3>2. QED
      BY <3>1, TablesInt
  <2>5. ASSUME NEW y \in W, NEW c \in 0..(e - 1) PROVE t[y][c] \in Int /\ u[y][c] \in Int
    <3>1. SharesOf(a)[y][c] \in Int /\ UnitsOf(a)[y][c] \in Int
      BY <2>4 DEF IntGrid, IntRow
    <3>2. t[y][c] = SharesOf(a)[y][c] /\ u[y][c] = UnitsOf(a)[y][c]
      BY <1>1, <1>2, TablesKept
    <3>3. QED
      BY <3>1, <3>2
  <2>6. e \in Nat /\ e <= f /\ 0 <= e /\ f \in Int /\ f - 1 = e
    BY <1>1
  <2>7. Fair(Grid(t, W, 0, f), Grid(u, W, 0, f), x, 0, f)
    <3>1. IsFiniteSet(W)
      BY ConstantsOK DEF Constants
    <3>2. f = e + 1
      OBVIOUS
    <3> HIDE DEF t, u, e, f, W, x
    <3>3. \A y \in W, c \in 0..(f - 1) : t[y][c] \in Int /\ u[y][c] \in Int
      <4> SUFFICES ASSUME NEW y \in W, NEW c \in 0..(f - 1)
                   PROVE  t[y][c] \in Int /\ u[y][c] \in Int
        OBVIOUS
      <4>1. c = e \/ c \in 0..(e - 1)
        BY <2>6
      <4>2. QED
        BY <2>3, <2>5, <4>1
    <3>4. IntGrid(t, W, 0, f) /\ IntGrid(u, W, 0, f)
      BY <2>6, <3>1, <3>3 DEF IntGrid, IntRow
    <3>5. \A y \in W, c \in e..(f - 1) : t[y][c] = 0 /\ u[y][c] = 0
      <4>1. \A c \in e..(f - 1) : c = e
        BY <2>6
      <4>2. QED
        BY <2>3, <4>1
    <3>6. Grid(t, W, e, f) = 0 /\ Grid(u, W, e, f) = 0
      BY <2>6, <3>1, <3>5, GridZero
    <3>7. /\ Grid(t, W, 0, f) = Grid(t, W, 0, e) + Grid(t, W, e, f)
          /\ Grid(u, W, 0, f) = Grid(u, W, 0, e) + Grid(u, W, e, f)
          /\ IntGrid(t, W, 0, e) /\ IntGrid(u, W, 0, e)
      BY <2>6, <3>4, GridJoin
    <3>8. Grid(t, W, 0, e) \in Int /\ Grid(u, W, 0, e) \in Int
      BY <3>7, GridSum
    <3>9. Grid(t, W, 0, f) = Grid(t, W, 0, e) /\ Grid(u, W, 0, f) = Grid(u, W, 0, e)
      BY <3>6, <3>7, <3>8
    <3>10. Fair(Grid(t, W, 0, e), Grid(u, W, 0, e), x, 0, e + 1)
      BY <2>2, <2>6, <3>8, FairPad
    <3>11. QED
      BY <3>2, <3>9, <3>10
  <2>8. FairPay(a, Paid(a), 0, PaidUpTo(a))'
          <=> Fair(Grid(SharesOf(a)', Witnesses, 0, PaidUpTo(a)'),
                   Grid(UnitsOf(a)', Witnesses, 0, PaidUpTo(a)'), Paid(a)', 0, PaidUpTo(a)')
    BY DEF FairPay, AllShares, AllUnits, Fair, Slack, Loss, Indexed, IndexExact, K, N, D
  <2>9. QED
    BY <1>1, <2>1, <2>7, <2>8
<1>6. QED
  BY <1>1, <1>2, <1>3, <1>4, <1>5

\* EndBlockMaintenance.
LEMMA StepMaintenance ==
    ASSUME IInv, N > 0, Base', NEW w \in Witnesses, EndBlockMaintenance(w)
    PROVE  IInv'
<1>1. Base /\ Ledger /\ OffAtFirst /\ \A x \in Accounts : Account(x)
  BY DEF IInv
<1>2. CASE changeDelegation
  <2>1. Ledger'
    BY <1>1, <1>2, LedgerGrows
  <2>2. \A x \in Accounts : Tracks(x)'
    BY <1>1, <1>2, TracksOn DEF Account
  <2>3. \A x \in Accounts : FairPay(x, Paid(x), 0, PaidUpTo(x))'
    BY <1>1, <1>2, <2>1, PayOn
  <2>4. OffAtFirst'
    BY <1>2 DEF EndBlockMaintenance, OffAtFirst
  <2>5. QED
    BY <2>1, <2>2, <2>3, <2>4 DEF IInv, Account
<1>3. CASE ~changeDelegation
  BY <1>3, StepMaintenanceOff
<1>4. QED
  BY <1>2, <1>3

-----------------------------------------------------------------------------
(* The invariant, and what it says.                                        *)

\* The invariant at the start.
LEMMA InitInv == ASSUME N > 0 PROVE Init => IInv
<1> SUFFICES ASSUME Init PROVE IInv
  OBVIOUS
<1>1. Base /\ TypeOK /\ MaxCycle \in Nat
  BY BaseInit, ConstantsOK DEF Base, Constants
<1>2. cycle = 0 /\ 0 \in Cycles
  BY <1>1 DEF Init, Cycles
<1>3. Ledger
  <2>1. 1..cycle = {} /\ 1..(cycle - 1) = {} /\ ~(cycle > 0)
    BY <1>2
  <2>2. \A w \in Witnesses : witnessVote[0][w] = RemarkNoVote
    BY <1>2 DEF Init
  <2>3. QED
    BY <1>1, <2>1, <2>2 DEF Ledger, SnapshotsCoverVotes, IndexAdds
<1>4. OffAtFirst
  BY DEF Init, OffAtFirst
<1>5. ASSUME NEW a \in Accounts PROVE Account(a)
  <2>1. cursor[a].begin = 0 /\ cursor[a].end = -1 /\ ~Snapped(a)
    BY DEF Init, Snapped, RemarkNoVote
  <2>2. Tracks(a)
    <3>1. \A c \in Cycles : accountVote[c][a] = NoEntry
      BY DEF Init
    <3>2. \A c \in 0..0 : ~(c > 0)
      OBVIOUS
    <3>3. QED
      BY <1>2, <2>1, <3>1, <3>2 DEF Tracks
  <2>3. Paid(a) = 0 /\ PaidUpTo(a) = 0
    BY <1>2, <2>1 DEF Paid, PaidUpTo, Init
  <2> DEFINE z == 0
  <2>4. Span(z, z) /\ Follows(a, NoVotes, z, z)
    BY <1>2 DEF Span, Follows
  <2>5. FairPay(a, 0, z, z)
    <3> HIDE DEF z
    <3> QED
      BY <1>3, <2>4, FairZero
  <2>6. QED
    BY <2>2, <2>3, <2>5 DEF Account
<1>6. QED
  BY <1>1, <1>3, <1>4, <1>5 DEF IInv

\* Every step keeps it.
LEMMA StepInv == ASSUME N > 0 PROVE IInv /\ [Next]_vars => IInv'
<1> SUFFICES ASSUME IInv, [Next]_vars PROVE IInv'
  OBVIOUS
<1>1. Base' /\ Voters \subseteq Accounts
  BY BaseStep, RewardsAssumption DEF IInv
<1>2. ASSUME NEW a \in Voters, NEW ballot \in Ballots, VoteWitness(a, ballot) PROVE IInv'
  BY <1>1, <1>2, StepVote
<1>3. ASSUME NEW a \in Voters, Unfreeze(a) PROVE IInv'
  BY <1>1, <1>3, StepUnfreeze
<1>4. ASSUME NEW a \in Accounts, WithdrawBalance(a) PROVE IInv'
  BY <1>1, <1>4, StepWithdraw
<1>5. CASE Activate
  BY <1>1, <1>5, StepActivate
<1>6. ASSUME NEW w \in Witnesses, EndBlock(w) PROVE IInv'
  BY <1>1, <1>6, StepEndBlock
<1>7. ASSUME NEW w \in Witnesses, EndBlockMaintenance(w) PROVE IInv'
  BY <1>1, <1>7, StepMaintenance
<1>8. CASE UNCHANGED vars
  <2>1. TypeOK /\ TypeOK' /\ Ledger /\ OffAtFirst /\ \A x \in Accounts : Account(x)
    BY <1>1 DEF IInv, Base
  <2>2. /\ LedgerKept /\ voteCount' = voteCount
        /\ UNCHANGED <<votes, accountVote, cursor, allowance, balance, brokered>>
    BY <1>8 DEF vars, aux, LedgerKept
  <2>3. Ledger'
    BY <2>1, <2>2, LedgerStays
  <2>4. OffAtFirst'
    BY <2>1, <2>2 DEF OffAtFirst, LedgerKept
  <2>5. ASSUME NEW x \in Accounts PROVE Account(x)'
    <3>1. Paid(x)' = Paid(x)
      BY <2>2 DEF Paid
    <3>2. QED
      BY <2>1, <2>2, <3>1, AccountKept
  <2>6. QED
    BY <1>1, <2>3, <2>4, <2>5 DEF IInv
<1>9. QED
  BY <1>2, <1>3, <1>4, <1>5, <1>6, <1>7, <1>8 DEF Next

\* The invariant says that every account has its votes' pay.
LEMMA InvEarns == ASSUME N > 0, IInv PROVE EarnsItsVotes
<1>1. Ledger /\ TypeOK /\ OffAtFirst /\ N \in Nat /\ K \in Nat
  BY ConstantsOK DEF IInv, Base, Constants
<1> SUFFICES ASSUME NEW a \in Accounts
             PROVE  /\ Owed(a) <= Earned(a) + Cardinality(Witnesses) * IndexLoss
                    /\ Earned(a) <= Owed(a) + Cardinality(Witnesses) * IndexSlack
  BY DEF EarnsItsVotes
<1>2. cycle \in Nat /\ Span(0, cycle)
  BY <1>1, AccountTypes DEF Span
<1>3. FairPay(a, Earned(a), 0, cycle)
  BY <1>1, EarnedFair DEF IInv
<1>4. Owed(a) = AllShares(a, 0, cycle)
  <2>1. \A w \in Witnesses, c \in 0..(cycle - 1) :
           SharesOf(a)[w][c] = Share(c, w, effective[c][a][w])
    BY <1>1, EntryFair DEF Entry
  <2>2. ASSUME NEW w \in Witnesses
        PROVE  [c \in 0..(cycle - 1) |-> Share(c, w, effective[c][a][w])]
                 = [c \in 0..(cycle - 1) |-> SharesOf(a)[w][c]]
    BY <2>1
  <2>3. QED
    BY <2>2 DEF Owed, AllShares, Grid, Row
<1>5. Slack(0, cycle) = IndexSlack /\ Loss(0, cycle) = IndexLoss
  BY <1>1, <1>2 DEF Slack, Loss, Indexed, IndexSlack, IndexLoss, IndexCycles, N
<1>6. QED
  BY <1>3, <1>4, <1>5 DEF FairPay, Fair, K

\* One pool of a closed cycle covers what its voters get of it.
LEMMA CellSolvent ==
    ASSUME N > 0, Ledger, NEW c \in 0..(cycle - 1), NEW w \in Witnesses
    PROVE  LET pool == IF witnessVote[c][w] > 0 THEN reward[c][w] ELSE 0
               f == [a \in Accounts |-> UnitsOf(a)[w][c]]
           IN  Summand(f, Accounts) /\ pool \in Nat /\ SumFunction(f) <= D * pool
<1>1. /\ IsFiniteSet(Accounts) /\ D \in Nat \ {0} /\ MaxCycle \in Nat /\ cycle \in Nat
      /\ cycle <= MaxCycle
  BY ConstantsOK DEF Constants, Ledger, TypeOK, Cycles
<1> DEFINE m == witnessVote[c][w]
           r == reward[c][w]
           n(a) == effective[c][a][w]
           f == [a \in Accounts |-> UnitsOf(a)[w][c]]
           g == [a \in Accounts |-> n(a)]
<1>2. c \in Cycles /\ c \in Nat
  BY <1>1 DEF Cycles
<1>3. r \in Nat /\ m \in Nat \cup {RemarkNoVote}
  BY <1>2, CellTypes
<1>4. ASSUME NEW a \in Accounts
      PROVE  /\ n(a) \in Nat /\ f[a] \in Nat /\ f[a] = Unit(c, w, n(a))
             /\ m > 0 => f[a] * m <= (D * r) * n(a)
             /\ m <= 0 => f[a] = 0
  <2>1. Entry(a, c, w)
    BY EntryFair
  <2>2. QED
    BY <2>1 DEF Entry, Cell
<1>5. Summand(f, Accounts) /\ Summand(g, Accounts)
  <2>1. (\A a \in Accounts : f[a] \in Int) /\ (\A a \in Accounts : n(a) \in Int)
    BY <1>4
  <2>2. f \in [Accounts -> Int] /\ g \in [Accounts -> Int]
    BY <2>1
  <2>3. QED
    BY <1>1, <2>2 DEF Summand
<1>6. \A a \in Accounts : g[a] = n(a)
  OBVIOUS
<1>7. CASE m > 0
  <2>1. m \in Nat \ {0} /\ c # 0
    BY <1>3, <1>7 DEF RemarkNoVote, Ledger, SnapshotsCoverVotes
  <2>2. SumFunction(g) <= m
    <3>1. c \in 1..cycle
      BY <1>1, <1>2, <2>1
    <3>2. QED
      BY <3>1 DEF Ledger, SnapshotsCoverVotes
  <2> DEFINE k == D * r
             fm == [a \in Accounts |-> m * f[a]]
             gk == [a \in Accounts |-> k * g[a]]
  <2>3. k \in Nat
    BY <1>1, <1>3, MulNat
  <2>4. ASSUME NEW a \in Accounts
        PROVE  m * f[a] \in Int /\ k * g[a] \in Int /\ m * f[a] <= k * g[a]
    <3>1. f[a] \in Nat /\ n(a) \in Nat /\ f[a] * m <= k * n(a)
      BY <1>4, <1>7
    <3> HIDE DEF f, k, m
    <3>2. m * f[a] = f[a] * m /\ m * f[a] \in Int /\ k * n(a) \in Int
      BY <2>1, <2>3, <3>1, MulNat
    <3>3. QED
      BY <1>6, <3>1, <3>2
  <2> HIDE DEF f, g, k, m, n
  <2>5. Summand(fm, Accounts) /\ Summand(gk, Accounts)
    BY <1>1, <2>4 DEF Summand
  <2>6. /\ \A a \in Accounts : fm[a] = m * f[a]
        /\ \A a \in Accounts : gk[a] = k * g[a]
        /\ \A a \in Accounts : fm[a] <= gk[a]
    BY <2>4
  <2> HIDE DEF fm, gk
  <2>7. SumFunction(fm) = m * SumFunction(f) /\ SumFunction(gk) = k * SumFunction(g)
    <3>1. SumFunction(fm) = m * SumFunction(f)
      BY <1>5, <2>1, <2>5, <2>6, FunSumScale
    <3>2. SumFunction(gk) = k * SumFunction(g)
      BY <1>5, <2>3, <2>5, <2>6, FunSumScale
    <3>3. QED
      BY <3>1, <3>2
  <2>8. SumFunction(fm) <= SumFunction(gk)
    BY <2>5, <2>6, FunSumMono
  <2>9. SumFunction(f) \in Int /\ SumFunction(g) \in Int
    BY <1>5, FunSum
  <2>10. k * SumFunction(g) <= k * m /\ k * m = m * k /\ k * m \in Int
    BY <2>1, <2>2, <2>3, <2>9, MulMono
  <2>11. m * SumFunction(f) <= m * k
    <3>1. m * SumFunction(f) \in Int /\ k * SumFunction(g) \in Int
      BY <2>1, <2>3, <2>9, Distrib
    <3>2. QED
      BY <2>7, <2>8, <2>10, <3>1
  <2>12. SumFunction(f) <= k
    BY <2>1, <2>3, <2>9, <2>11, CancelLeq
  <2>13. QED
    BY <1>3, <1>5, <1>7, <2>12 DEF f, k, m
<1>8. CASE ~(m > 0)
  <2> DEFINE z == 0
  <2>1. m <= 0
    BY <1>3, <1>8 DEF RemarkNoVote
  <2>2. z \in Int /\ \A a \in Accounts : f[a] = z
    BY <1>4, <2>1
  <2>3. SumFunction(f) = z * Cardinality(Accounts)
    <3> HIDE DEF z, f
    <3> QED
      BY <1>5, <2>2, FunSumConst
  <2>4. SumFunction(f) = 0 /\ D * 0 = 0
    BY <1>1, <2>3, FS_CardinalityType
  <2>5. QED
    BY <1>5, <1>8, <2>4
<1>9. QED
  BY <1>7, <1>8

(* What is paid into the pools that had votes to share them.               *)
Pools == [w \in Witnesses |-> [c \in Cycles |->
              IF witnessVote[c][w] > 0 THEN reward[c][w] ELSE 0]]

\* One witness's pools cover what its voters get of them.
LEMMA RowSolvent ==
    ASSUME N > 0, Ledger, NEW w \in Witnesses
    PROVE  LET f == [a \in Accounts |-> Row(UnitsOf(a)[w], 0, cycle)]
           IN  /\ Summand(f, Accounts) /\ Row(Pools[w], 0, cycle) \in Int
               /\ SumFunction(f) <= D * Row(Pools[w], 0, cycle)
<1>1. /\ IsFiniteSet(Accounts) /\ D \in Nat \ {0} /\ MaxCycle \in Nat /\ cycle \in Nat
      /\ cycle <= MaxCycle
  BY ConstantsOK DEF Constants, Ledger, TypeOK, Cycles
<1> DEFINE I == 0..(cycle - 1)
           f == [a \in Accounts |-> Row(UnitsOf(a)[w], 0, cycle)]
           m == [a \in Accounts |-> [c \in I |-> UnitsOf(a)[w][c]]]
           h == [c \in I |-> SumFunction([a \in Accounts |-> m[a][c]])]
           p == [c \in I |-> Pools[w][c]]
           q == [c \in I |-> D * Pools[w][c]]
<1>2. IsFiniteSet(I)
  BY <1>1, FS_Interval
<1>3. ASSUME NEW a \in Accounts, NEW c \in I PROVE UnitsOf(a)[w][c] \in Int
  BY EntryFair DEF Entry
<1>4. m \in [Accounts -> [I -> Int]]
  BY <1>3
<1>5. f = [a \in Accounts |-> SumFunction(m[a])]
  BY DEF Row
<1>6. SumFunction(f) = SumFunction(h)
  <2> HIDE DEF m, f, I
  <2>1. SumFunction([a \in Accounts |-> SumFunction(m[a])]) = SumFunction(h)
    BY <1>1, <1>2, <1>4, FunSumSwap
  <2>2. QED
    BY <1>5, <2>1
<1>7. ASSUME NEW c \in I
      PROVE  /\ h[c] \in Int /\ p[c] \in Nat /\ q[c] = D * p[c] /\ h[c] <= q[c]
  <2> DEFINE pool == IF witnessVote[c][w] > 0 THEN reward[c][w] ELSE 0
             g == [a \in Accounts |-> UnitsOf(a)[w][c]]
  <2>1. Summand(g, Accounts) /\ pool \in Nat /\ SumFunction(g) <= D * pool
    BY CellSolvent
  <2>2. [a \in Accounts |-> m[a][c]] = g
    OBVIOUS
  <2>3. c \in Cycles
    BY <1>1 DEF Cycles
  <2>4. Pools[w][c] = pool
    BY <2>3 DEF Pools
  <2> HIDE DEF g, pool
  <2>5. SumFunction(g) \in Int
    BY <2>1, FunSum
  <2>6. QED
    BY <2>1, <2>2, <2>4, <2>5
<1>8. Summand(f, Accounts)
  <2>1. ASSUME NEW a \in Accounts PROVE Row(UnitsOf(a)[w], 0, cycle) \in Int
    <3>1. IntRow(UnitsOf(a)[w], 0, cycle)
      BY <1>1, <1>3 DEF IntRow
    <3>2. QED
      BY <3>1, RowSum
  <2>2. QED
    BY <1>1, <2>1 DEF Summand
<1>9. SumFunction(p) = Row(Pools[w], 0, cycle)
  BY DEF Row
<1> HIDE DEF h, p, q, I, f
<1>10. Summand(h, I) /\ Summand(p, I) /\ Summand(q, I)
  <2>1. \A c \in I : h[c] \in Int /\ p[c] \in Int /\ q[c] \in Int
    BY <1>1, <1>7, MulNat
  <2>2. h \in [I -> Int] /\ p \in [I -> Int] /\ q \in [I -> Int]
    <3>1. DOMAIN h = I /\ DOMAIN p = I /\ DOMAIN q = I
      BY DEF h, p, q
    <3>2. h = [c \in I |-> h[c]] /\ p = [c \in I |-> p[c]] /\ q = [c \in I |-> q[c]]
      BY DEF h, p, q
    <3>3. QED
      BY <2>1, <3>1, <3>2
  <2>3. QED
    BY <1>2, <2>2 DEF Summand
<1>11. SumFunction(h) <= SumFunction(q)
  BY <1>7, <1>10, FunSumMono
<1>12. SumFunction(q) = D * SumFunction(p) /\ SumFunction(p) \in Int
  <2>1. D \in Int /\ \A c \in I : q[c] = D * p[c]
    BY <1>1, <1>7
  <2>2. QED
    BY <1>10, <2>1, FunSumScale, FunSum
<1>13. QED
  BY <1>6, <1>8, <1>9, <1>11, <1>12 DEF f

\* The invariant says that the pools cover what the voters earn.
LEMMA InvSolvent == ASSUME N > 0, IInv PROVE Solvent
<1>1. /\ Ledger /\ TypeOK /\ OffAtFirst /\ IsFiniteSet(Accounts) /\ IsFiniteSet(Witnesses)
      /\ D \in Nat \ {0} /\ MaxCycle \in Nat
  BY ConstantsOK DEF IInv, Base, Constants
<1>2. cycle \in Nat /\ cycle <= MaxCycle
  BY <1>1 DEF TypeOK, Cycles
<1> DEFINE W == Witnesses
           A == Accounts
           m == [a \in A |-> [w \in W |-> Row(UnitsOf(a)[w], 0, cycle)]]
           f == [a \in A |-> SumFunction(m[a])]
           g == [w \in W |-> SumFunction([a \in A |-> m[a][w]])]
           p == [w \in W |-> Row(Pools[w], 0, cycle)]
           q == [w \in W |-> D * p[w]]
           x == [a \in A |-> Earned(a)]
           y == [a \in A |-> D * x[a]]
<1>3. ASSUME NEW a \in A
      PROVE  /\ x[a] \in Nat /\ D * x[a] <= f[a] /\ f[a] \in Int
             /\ \A w \in W : Row(UnitsOf(a)[w], 0, cycle) \in Int
  <2>1. FairPay(a, Earned(a), 0, cycle)
    BY <1>1, EarnedFair DEF IInv
  <2>2. AllUnits(a, 0, cycle) = f[a]
    BY DEF AllUnits, Grid
  <2>3. Span(0, cycle)
    BY <1>2 DEF Span
  <2>4. AllUnits(a, 0, cycle) \in Int /\ IntGrid(UnitsOf(a), W, 0, cycle)
    BY <1>1, <2>3, TablesInt
  <2>5. \A w \in W : Row(UnitsOf(a)[w], 0, cycle) \in Int
    BY <2>4, RowSum DEF IntGrid
  <2>6. QED
    BY <2>1, <2>2, <2>4, <2>5 DEF FairPay, Fair
<1>4. m \in [A -> [W -> Int]]
  BY <1>3
<1>5. ASSUME NEW w \in W PROVE g[w] \in Int /\ p[w] \in Int /\ g[w] <= D * p[w]
  <2> DEFINE h == [a \in A |-> Row(UnitsOf(a)[w], 0, cycle)]
  <2>1. Summand(h, A) /\ p[w] \in Int /\ SumFunction(h) <= D * p[w]
    BY <1>1, RowSolvent
  <2>2. [a \in A |-> m[a][w]] = h
    OBVIOUS
  <2> HIDE DEF h
  <2>3. SumFunction(h) \in Int
    BY <2>1, FunSum
  <2>4. QED
    BY <2>1, <2>2, <2>3
<1>6. SumFunction(f) = SumFunction(g)
  <2> HIDE DEF m
  <2> QED
    BY <1>1, <1>4, FunSumSwap
<1>7. SumFunction(p) = SumFunction([w \in Witnesses |->
           SumFunction([c \in 0..(cycle - 1) |->
               IF witnessVote[c][w] > 0 THEN reward[c][w] ELSE 0])])
  <2>1. ASSUME NEW w \in W
        PROVE  [c \in 0..(cycle - 1) |-> Pools[w][c]]
                 = [c \in 0..(cycle - 1) |-> IF witnessVote[c][w] > 0 THEN reward[c][w] ELSE 0]
    <3>1. \A c \in 0..(cycle - 1) : c \in Cycles
      BY <1>1, <1>2 DEF Cycles
    <3>2. QED
      BY <3>1 DEF Pools
  <2>2. QED
    BY <2>1 DEF Row
<1>8. f \in [A -> Int] /\ x \in [A -> Int] /\ p \in [W -> Int] /\ g \in [W -> Int]
  <2>1. (\A a \in A : f[a] \in Int) /\ (\A a \in A : x[a] \in Int)
    <3> HIDE DEF f, x
    <3>1. QED
      BY <1>3
  <2>2. (\A w \in W : p[w] \in Int) /\ (\A w \in W : g[w] \in Int)
    BY <1>5
  <2>3. f \in [A -> Int] /\ x \in [A -> Int]
    BY <2>1
  <2>4. p \in [W -> Int] /\ g \in [W -> Int]
    BY <2>2
  <2>5. QED
    BY <2>3, <2>4
<1> HIDE DEF f, g, p, x
<1>9. /\ \A a \in A : y[a] = D * x[a] /\ y[a] \in Int
      /\ \A w \in W : q[w] = D * p[w] /\ q[w] \in Int
  BY <1>1, <1>8, Distrib
<1>10. y \in [A -> Int] /\ q \in [W -> Int]
  BY <1>9
<1> HIDE DEF y, q
<1>11. /\ Summand(f, A) /\ Summand(x, A) /\ Summand(y, A)
       /\ Summand(p, W) /\ Summand(q, W) /\ Summand(g, W)
  BY <1>1, <1>8, <1>10 DEF Summand
<1>12. SumFunction(y) = D * SumFunction(x) /\ SumFunction(q) = D * SumFunction(p)
  <2>1. D \in Int
    BY <1>1
  <2>2. SumFunction(y) = D * SumFunction(x)
    BY <1>9, <1>11, <2>1, FunSumScale
  <2>3. SumFunction(q) = D * SumFunction(p)
    BY <1>9, <1>11, <2>1, FunSumScale
  <2>4. QED
    BY <2>2, <2>3
<1>13. SumFunction(y) <= SumFunction(f)
  BY <1>3, <1>9, <1>11, FunSumMono
<1>14. SumFunction(g) <= SumFunction(q)
  BY <1>5, <1>9, <1>11, FunSumMono
<1>15. /\ SumFunction(x) \in Int /\ SumFunction(p) \in Int /\ SumFunction(f) \in Int
       /\ SumFunction(y) \in Int /\ SumFunction(q) \in Int
  BY <1>11, FunSum
<1>16. D * SumFunction(x) <= D * SumFunction(p)
  BY <1>6, <1>12, <1>13, <1>14, <1>15
<1>17. SumFunction(x) <= SumFunction(p)
  BY <1>1, <1>15, <1>16, CancelLeq
<1>18. QED
  BY <1>7, <1>17 DEF Solvent, x

\* The invariant holds of every behaviour of a chain that switches to the index
\* after cycle 0.
LEMMA InvHolds == ASSUME N > 0 PROVE Spec => []IInv
<1>1. Init => IInv
  BY InitInv
<1>2. IInv /\ [Next]_vars => IInv'
  BY StepInv
<1>3. QED
  BY <1>1, <1>2, PTL DEF Spec

\* However often an account votes, unfreezes or withdraws, WithdrawReward's
\* cursors pay it its share of every closed cycle once, across the switch from
\* the old algorithm to the index, up to the index's rounding.  A chain switches
\* to the index at a cycle after the current one, so never at cycle 0, whose
\* votes were not tallied.
THEOREM EarnsEveryCycleOnce == ASSUME NewAlgoCycle > 0 PROVE Spec => []EarnsItsVotes
<1>1. N > 0
  BY DEF N
<1>2. IInv => EarnsItsVotes
  BY <1>1, InvEarns
<1>3. Spec => []IInv
  BY <1>1, InvHolds
<1>4. QED
  BY <1>2, <1>3, PTL

\* The voters together never earn more than the blocks paid into the pools:
\* each cycle's vote snapshot covers the votes that share it, and every
\* truncation of computeReward is downwards.
THEOREM PoolsCoverRewards == ASSUME NewAlgoCycle > 0 PROVE Spec => []Solvent
<1>1. N > 0
  BY DEF N
<1>2. IInv => Solvent
  BY <1>1, InvSolvent
<1>3. Spec => []IInv
  BY <1>1, InvHolds
<1>4. QED
  BY <1>2, <1>3, PTL

=============================================================================
