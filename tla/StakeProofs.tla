------------------------------ MODULE StakeProofs ------------------------------
(***************************************************************************)
(* Proofs about staking (module Stake), for any accounts, amounts, times   *)
(* and proposals.  What accounts hold and lend are sums over resources and *)
(* entries; an action shifts a few of them, each by the amount it moves.   *)
(***************************************************************************)
EXTENDS Stake, NatFacts, SequenceTheorems, TLAPS

-----------------------------------------------------------------------------
(* Sums and how they shift.                                                *)

When(c, d) == IF c THEN d ELSE 0

\* What is summed over is finite.
LEMMA Finite ==
    /\ IsFiniteSet(Resources) /\ IsFiniteSet(Pairs)
    /\ \A a \in Accounts : /\ IsFiniteSet(EntriesOf(a)) /\ IsFiniteSet(EntriesTo(a))
                          /\ IsFiniteSet(EntriesOf(a) \X Resources)
<1>1. IsFiniteSet(Resources)
  <2>1. IsFiniteSet({"BANDWIDTH"} \cup {"ENERGY"})
    BY FS_Singleton, FS_AddElement
  <2>2. Resources \subseteq {"BANDWIDTH"} \cup {"ENERGY"}
    BY StakeAssumption
  <2>3. QED
    BY <2>1, <2>2, FS_Subset
<1>2. IsFiniteSet(Pairs)
  <2>1. IsFiniteSet(Accounts \X Accounts)
    BY StakeAssumption, FS_Product
  <2>2. QED
    BY <2>1, FS_Subset DEF Pairs
<1>3. ASSUME NEW a \in Accounts
      PROVE  /\ IsFiniteSet(EntriesOf(a)) /\ IsFiniteSet(EntriesTo(a))
             /\ IsFiniteSet(EntriesOf(a) \X Resources)
  <2>1. IsFiniteSet(EntriesOf(a)) /\ IsFiniteSet(EntriesTo(a))
    BY <1>2, FS_Subset DEF EntriesOf, EntriesTo
  <2>2. QED
    BY <1>1, <2>1, FS_Product
<1>4. QED
  BY <1>1, <1>2, <1>3

\* A sum of integers is an integer, of naturals a natural, and not below any
\* of them.
LEMMA SumTypes ==
    ASSUME NEW S, IsFiniteSet(S), NEW f
    PROVE  /\ f \in [S -> Int] => SumFunction(f) \in Int
           /\ f \in [S -> Nat] => SumFunction(f) \in Nat /\ \A x \in S : f[x] <= SumFunction(f)
<1>1. ASSUME f \in [S -> Int] PROVE SumFunction(f) \in Int
  BY <1>1, SumInt DEF SumFunction
<1>2. ASSUME f \in [S -> Nat] PROVE SumFunction(f) \in Nat
  BY <1>2, SumNat DEF SumFunction
<1>3. ASSUME f \in [S -> Nat], NEW x \in S PROVE f[x] <= SumFunction(f)
  <2>1. IsFiniteSet(S \ {x})
    BY FS_Subset
  <2>2. SumFunctionOnSet(f, S \ {x}) \in Nat
    BY <1>3, <2>1, SumNat
  <2>3. SumFunctionOnSet(f, S) = f[x] + SumFunctionOnSet(f, S \ {x})
    BY <1>3, SumRemove
  <2>4. SumFunction(f) = SumFunctionOnSet(f, S)
    BY <1>3 DEF SumFunction
  <2>5. f[x] \in Nat
    BY <1>3
  <2>6. QED
    BY <2>2, <2>3, <2>4, <2>5
<1>4. QED
  BY <1>1, <1>2, <1>3

\* The sum of zeros is zero.
LEMMA SumZero ==
    ASSUME NEW S, IsFiniteSet(S), NEW f \in [S -> Int], \A x \in S : f[x] = 0
    PROVE  SumFunction(f) = 0
<1>1. SumFunctionOnSet(f, {}) = SumFunctionOnSet(f, S)
  BY SumWiden
<1>2. QED
  BY <1>1, SumEmpty DEF SumFunction

(* g is f, with d more at x if x is in S.                                  *)
Shifted(S, f, g, x, d) ==
    /\ f \in [S -> Int] /\ g \in [S -> Int]
    /\ \A y \in S : g[y] = f[y] + When(y = x, d)

\* Terms that differ by d at x only make sums that differ by d.
LEMMA SumShift ==
    ASSUME NEW S, IsFiniteSet(S), NEW f, NEW g, NEW x, NEW d \in Int, Shifted(S, f, g, x, d)
    PROVE  SumFunction(g) = SumFunction(f) + When(x \in S, d)
<1> USE DEF Shifted
<1>1. /\ SumFunction(g) = SumFunctionOnSet(g, S) /\ SumFunction(f) = SumFunctionOnSet(f, S)
      /\ SumFunctionOnSet(f, S) \in Int
  BY SumInt DEF SumFunction
<1>2. CASE x \in S
  <2>1. \A y \in S \ {x} : f[y] = g[y]
    BY DEF When
  <2>2. SumFunctionOnSet(g, S) = SumFunctionOnSet(f, S) - f[x] + g[x]
    BY <1>2, <2>1, SumUpdate
  <2>3. f[x] \in Int /\ g[x] = f[x] + d
    BY <1>2 DEF When
  <2>4. QED
    BY <1>1, <1>2, <2>2, <2>3 DEF When
<1>3. CASE x \notin S
  <2>1. \A y \in S : f[y] = g[y]
    BY <1>3 DEF When
  <2>2. SumFunctionOnSet(f, S) = SumFunctionOnSet(g, S)
    BY <2>1, SumSame
  <2>3. QED
    BY <1>1, <1>3, <2>2 DEF When
<1>4. QED
  BY <1>2, <1>3

(* g is f but for v at x and r.                                            *)
IsCell(X, V, f, g, x, r, v) ==
    /\ g \in [X -> [Resources -> V]]
    /\ \A y \in X, s \in Resources : g[y][s] = IF y = x /\ s = r THEN v ELSE f[y][s]

\* What an update of one cell does.
LEMMA Cell ==
    ASSUME NEW X, NEW V, NEW f \in [X -> [Resources -> V]], NEW x \in X, NEW r \in Resources,
           NEW v \in V, NEW g, g = [f EXCEPT ![x][r] = v]
    PROVE  IsCell(X, V, f, g, x, r, v)
BY DEF IsCell

-----------------------------------------------------------------------------
(* What an account has.                                                    *)

\* Everything kept per account or entry is a natural number.
LEMMA Naturals ==
    ASSUME TypeOK
    PROVE  /\ \A x \in Accounts : /\ balance[x] \in Nat /\ votes[x] \in Nat
                                  /\ unfrozenV2[x] \in Seq(Entry)
           /\ \A x \in Accounts, s \in Resources :
                 /\ frozen[x][s].amount \in Nat /\ frozen[x][s].expire \in Nat
                 /\ out[x][s] \in Nat /\ acquired[x][s] \in Nat
                 /\ frozenV2[x][s] \in Nat /\ outV2[x][s] \in Nat /\ acquiredV2[x][s] \in Nat
           /\ \A p \in Pairs, s \in Resources :
                 /\ delegated[p][s].amount \in Nat /\ delegated[p][s].expire \in Nat
                 /\ delegatedV2[p][s] \in Nat
BY DEF TypeOK, Entry, Held

\* What an account has is made of integers.
LEMMA HeldInt ==
    ASSUME TypeOK, NEW x \in Accounts
    PROVE  /\ balance[x] \in Nat /\ Staked(x) \in Nat /\ LentOut(x) \in Nat /\ Waiting(x) \in Nat
           /\ TronPower(x) \in Nat
<1>1. balance[x] \in Nat
  BY Naturals
<1>2. Staked(x) \in Nat
  <2> DEFINE f == [s \in Resources |-> frozen[x][s].amount + frozenV2[x][s]]
  <2>1. f \in [Resources -> Nat]
    BY Naturals
  <2> HIDE DEF f
  <2>2. SumFunction(f) \in Nat
    BY <2>1, Finite, SumTypes
  <2>3. QED
    BY <2>2 DEF f, Staked
<1>3. LentOut(x) \in Nat
  <2> DEFINE S == EntriesOf(x) \X Resources
             f == [e \in S |-> delegated[e[1]][e[2]].amount + delegatedV2[e[1]][e[2]]]
  <2>1. \A e \in S : e[1] \in Pairs /\ e[2] \in Resources
    BY DEF EntriesOf
  <2>2. IsFiniteSet(S)
    BY Finite
  <2>3. LentOut(x) = SumFunction(f)
    BY DEF LentOut
  <2> HIDE DEF S
  <2>4. f \in [S -> Nat]
    BY <2>1, Naturals
  <2> HIDE DEF f
  <2>5. QED
    BY <2>2, <2>3, <2>4, SumTypes
<1>4. Waiting(x) \in Nat
  <2> DEFINE us == unfrozenV2[x]
             D == DOMAIN us
             f == [i \in D |-> us[i].amount]
  <2>1. us \in Seq(Entry)
    BY Naturals
  <2>2. Waiting(x) = SumFunction(f)
    BY DEF Waiting
  <2> HIDE DEF us
  <2>3. D = 1 .. Len(us) /\ Len(us) \in Nat /\ \A i \in D : us[i] \in Entry
    BY <2>1
  <2>4. IsFiniteSet(D) /\ \A i \in D : us[i].amount \in Nat
    BY <2>3, FS_Interval DEF Entry
  <2> HIDE DEF D
  <2>5. f \in [D -> Nat]
    BY <2>4
  <2> HIDE DEF f
  <2>6. QED
    BY <2>2, <2>4, <2>5, SumTypes
<1>5. TronPower(x) \in Nat
  <2> DEFINE f == [s \in Resources |-> frozen[x][s].amount + out[x][s]
                                          + frozenV2[x][s] + outV2[x][s]]
  <2>1. f \in [Resources -> Nat]
    BY Naturals
  <2> HIDE DEF f
  <2>2. SumFunction(f) \in Nat
    BY <2>1, Finite, SumTypes
  <2>3. QED
    BY <2>2 DEF f, TronPower
<1>6. QED
  BY <1>1, <1>2, <1>3, <1>4, <1>5

(* The step moves d into a's own stake.                                    *)
StakeMoves(a, r, d) ==
    \A x \in Accounts, s \in Resources :
        frozen'[x][s].amount + frozenV2'[x][s]
            = frozen[x][s].amount + frozenV2[x][s] + When(x = a /\ s = r, d)

\* The stake of a shifts by what one of its amounts does.
LEMMA StakedShift ==
    ASSUME TypeOK, TypeOK', NEW a \in Accounts, NEW r \in Resources, NEW d \in Int,
           StakeMoves(a, r, d)
    PROVE  \A x \in Accounts : Staked(x)' = Staked(x) + When(x = a, d)
<1> SUFFICES ASSUME NEW x \in Accounts PROVE Staked(x)' = Staked(x) + When(x = a, d)
  OBVIOUS
<1> DEFINE f == [s \in Resources |-> frozen[x][s].amount + frozenV2[x][s]]
           g == [s \in Resources |-> frozen'[x][s].amount + frozenV2'[x][s]]
           e == When(x = a, d)
<1>1. f \in [Resources -> Int] /\ g \in [Resources -> Int]
  <2>1. \A s \in Resources : frozen[x][s].amount \in Nat /\ frozenV2[x][s] \in Nat
    BY Naturals
  <2>2. \A s \in Resources : frozen'[x][s].amount \in Nat /\ frozenV2'[x][s] \in Nat
    BY DEF TypeOK, Entry, Held
  <2>3. QED
    BY <2>1, <2>2
<1>2. \A s \in Resources : g[s] = f[s] + When(s = r, e)
  BY DEF When, StakeMoves
<1>3. e \in Int
  BY DEF When
<1>4. Staked(x) = SumFunction(f) /\ Staked(x)' = SumFunction(g)
  BY DEF Staked
<1> HIDE DEF f, g, e
<1>5. SumFunction(g) = SumFunction(f) + When(r \in Resources, e)
  <2>1. Shifted(Resources, f, g, r, e)
    BY <1>1, <1>2 DEF Shifted
  <2>2. QED
    BY <1>3, <2>1, Finite, SumShift
<1>6. SumFunction(g) = SumFunction(f) + e
  BY <1>5 DEF When
<1>7. QED
  BY <1>4, <1>6 DEF e

(* The step moves d into what gives a its power.                           *)
PowerMoves(a, r, d) ==
    \A x \in Accounts, s \in Resources :
        frozen'[x][s].amount + out'[x][s] + frozenV2'[x][s] + outV2'[x][s]
            = frozen[x][s].amount + out[x][s] + frozenV2[x][s] + outV2[x][s]
                  + When(x = a /\ s = r, d)

\* The power of a shifts by what one of its amounts does.
LEMMA PowerShift ==
    ASSUME TypeOK, TypeOK', NEW a \in Accounts, NEW r \in Resources, NEW d \in Int,
           PowerMoves(a, r, d)
    PROVE  \A x \in Accounts : TronPower(x)' = TronPower(x) + When(x = a, d)
<1> SUFFICES ASSUME NEW x \in Accounts PROVE TronPower(x)' = TronPower(x) + When(x = a, d)
  OBVIOUS
<1> DEFINE f == [s \in Resources |-> frozen[x][s].amount + out[x][s]
                                        + frozenV2[x][s] + outV2[x][s]]
           g == [s \in Resources |-> frozen'[x][s].amount + out'[x][s]
                                        + frozenV2'[x][s] + outV2'[x][s]]
           e == When(x = a, d)
<1>1. f \in [Resources -> Int] /\ g \in [Resources -> Int]
  <2>1. \A s \in Resources : /\ frozen[x][s].amount \in Nat /\ frozenV2[x][s] \in Nat
                             /\ out[x][s] \in Nat /\ outV2[x][s] \in Nat
    BY DEF TypeOK, Entry, Held
  <2>2. \A s \in Resources : /\ frozen'[x][s].amount \in Nat /\ frozenV2'[x][s] \in Nat
                             /\ out'[x][s] \in Nat /\ outV2'[x][s] \in Nat
    BY DEF TypeOK, Entry, Held
  <2>3. QED
    BY <2>1, <2>2
<1>2. \A s \in Resources : g[s] = f[s] + When(s = r, e)
  BY DEF When, PowerMoves
<1>3. e \in Int
  BY DEF When
<1>4. TronPower(x) = SumFunction(f) /\ TronPower(x)' = SumFunction(g)
  BY DEF TronPower
<1> HIDE DEF f, g, e
<1>5. SumFunction(g) = SumFunction(f) + When(r \in Resources, e)
  <2>1. Shifted(Resources, f, g, r, e)
    BY <1>1, <1>2 DEF Shifted
  <2>2. QED
    BY <1>3, <2>1, Finite, SumShift
<1>6. SumFunction(g) = SumFunction(f) + e
  BY <1>5 DEF When
<1>7. QED
  BY <1>4, <1>6 DEF e

(* The step adds d to one entry of r that lends out of p[1].                *)
LentMoves(p, r, d) ==
    \A q \in Pairs, s \in Resources :
        delegated'[q][s].amount + delegatedV2'[q][s]
            = delegated[q][s].amount + delegatedV2[q][s] + When(q = p /\ s = r, d)

\* What a has lent out shifts by what one of its entries does.
LEMMA LentShift ==
    ASSUME TypeOK, TypeOK', NEW p \in Pairs, NEW r \in Resources, NEW d \in Int,
           LentMoves(p, r, d)
    PROVE  \A x \in Accounts : LentOut(x)' = LentOut(x) + When(x = p[1], d)
<1> SUFFICES ASSUME NEW x \in Accounts PROVE LentOut(x)' = LentOut(x) + When(x = p[1], d)
  OBVIOUS
<1> DEFINE S == EntriesOf(x) \X Resources
           f == [e \in S |-> delegated[e[1]][e[2]].amount + delegatedV2[e[1]][e[2]]]
           g == [e \in S |-> delegated'[e[1]][e[2]].amount + delegatedV2'[e[1]][e[2]]]
           at == <<p, r>>
<1>1. \A e \in S : e[1] \in Pairs /\ e[2] \in Resources
  BY DEF EntriesOf
<1>2. f \in [S -> Int] /\ g \in [S -> Int]
  <2>1. \A q \in Pairs, s \in Resources :
            /\ delegated[q][s].amount \in Nat /\ delegatedV2[q][s] \in Nat
            /\ delegated'[q][s].amount \in Nat /\ delegatedV2'[q][s] \in Nat
    <3>1. /\ delegated \in [Pairs -> [Resources -> Entry]] /\ delegatedV2 \in [Pairs -> Held]
          /\ delegated' \in [Pairs -> [Resources -> Entry]] /\ delegatedV2' \in [Pairs -> Held]
      BY DEF TypeOK
    <3> HIDE DEF S, f, g, at
    <3>2. QED
      BY <3>1 DEF Entry, Held
  <2> HIDE DEF S
  <2>2. QED
    BY <1>1, <2>1
<1>3. \A e \in S : g[e] = f[e] + When(e = at, d)
  <2> SUFFICES ASSUME NEW e \in S PROVE g[e] = f[e] + When(e = at, d)
    OBVIOUS
  <2>1. e = at <=> e[1] = p /\ e[2] = r
    OBVIOUS
  <2> HIDE DEF at, S
  <2>2. delegated'[e[1]][e[2]].amount + delegatedV2'[e[1]][e[2]]
            = delegated[e[1]][e[2]].amount + delegatedV2[e[1]][e[2]] + When(e = at, d)
    BY <1>1, <2>1 DEF LentMoves
  <2>3. QED
    BY <2>2
<1>4. at \in S <=> x = p[1]
  BY DEF EntriesOf
<1>5. IsFiniteSet(S)
  BY Finite
<1>6. LentOut(x) = SumFunction(f) /\ LentOut(x)' = SumFunction(g)
  BY DEF LentOut, EntriesOf
<1> HIDE DEF S, f, g, at
<1>7. SumFunction(g) = SumFunction(f) + When(at \in S, d)
  <2>1. Shifted(S, f, g, at, d)
    BY <1>2, <1>3 DEF Shifted
  <2>2. QED
    BY <1>5, <2>1, SumShift
<1>8. QED
  BY <1>4, <1>6, <1>7 DEF When

(* What the step moves into the four places where a's TRX is.              *)
Moves(a, db, ds, dl, dw) ==
    /\ \A x \in Accounts : balance'[x] = balance[x] + When(x = a, db)
    /\ \A x \in Accounts : Staked(x)' = Staked(x) + When(x = a, ds)
    /\ \A x \in Accounts : LentOut(x)' = LentOut(x) + When(x = a, dl)
    /\ \A x \in Accounts : Waiting(x)' = Waiting(x) + When(x = a, dw)

\* An account keeps all it has when what leaves one place arrives in another.
LEMMA Conserved ==
    ASSUME TypeOK, TrxConserved, NEW a \in Accounts,
           NEW db \in Int, NEW ds \in Int, NEW dl \in Int, NEW dw \in Int, db + ds + dl + dw = 0,
           Moves(a, db, ds, dl, dw)
    PROVE  TrxConserved'
<1> USE DEF Moves
<1> SUFFICES ASSUME NEW x \in Accounts PROVE Holdings(x)' = InitialBalance[x]
  BY DEF TrxConserved
<1>1. balance[x] \in Int /\ Staked(x) \in Int /\ LentOut(x) \in Int /\ Waiting(x) \in Int
  BY HeldInt
<1>2. Holdings(x) = InitialBalance[x] /\ InitialBalance[x] \in Nat
  BY StakeAssumption DEF TrxConserved
<1>3. balance[x] + Staked(x) + LentOut(x) + Waiting(x) = InitialBalance[x]
  BY <1>2 DEF Holdings
<1>4. balance'[x] + Staked(x)' + LentOut(x)' + Waiting(x)' = InitialBalance[x]
  BY <1>1, <1>2, <1>3 DEF When
<1>5. QED
  BY <1>4 DEF Holdings

-----------------------------------------------------------------------------
(* Totals of owners and receivers.                                         *)

(* The step moves d into the entry of p and r, under either scheme.        *)
EntryMoves(p, r, d) ==
    \A q \in Pairs, s \in Resources :
        delegated'[q][s].amount = delegated[q][s].amount + When(q = p /\ s = r, d)
EntryMovesV2(p, r, d) ==
    \A q \in Pairs, s \in Resources :
        delegatedV2'[q][s] = delegatedV2[q][s] + When(q = p /\ s = r, d)

\* Sums of Stake 1.0 entries shift by what one entry does.
LEMMA EntryShift ==
    ASSUME TypeOK, TypeOK', NEW p \in Pairs, NEW r \in Resources, NEW d \in Int,
           EntryMoves(p, r, d), NEW E \in SUBSET Pairs, NEW s \in Resources
    PROVE  /\ SumFunction([q \in E |-> delegated'[q][s].amount])
                  = SumFunction([q \in E |-> delegated[q][s].amount]) + When(p \in E /\ s = r, d)
           /\ SumFunction([q \in E |-> delegated[q][s].amount]) \in Nat
<1> DEFINE f == [q \in E |-> delegated[q][s].amount]
           g == [q \in E |-> delegated'[q][s].amount]
           e == When(s = r, d)
<1>1. f \in [E -> Nat] /\ g \in [E -> Nat]
  <2>1. \A q \in Pairs : delegated[q][s].amount \in Nat
    BY Naturals
  <2>2. \A q \in Pairs : delegated'[q][s] \in Entry
    BY DEF TypeOK
  <2>3. QED
    BY <2>1, <2>2 DEF Entry
<1>2. e \in Int
  BY DEF When
<1>3. Shifted(E, f, g, p, e)
  BY <1>1 DEF Shifted, When, EntryMoves
<1>4. IsFiniteSet(E)
  BY Finite, FS_Subset
<1> HIDE DEF f, g, e
<1>5. SumFunction(f) \in Nat
  BY <1>1, <1>4, SumTypes
<1>6. SumFunction(g) = SumFunction(f) + When(p \in E, e)
  BY <1>2, <1>3, <1>4, SumShift
<1>7. When(p \in E, e) = When(p \in E /\ s = r, d)
  BY DEF e, When
<1>8. QED
  BY <1>5, <1>6, <1>7 DEF f, g

\* Sums of Stake 2.0 entries shift by what one entry does.
LEMMA EntryShiftV2 ==
    ASSUME TypeOK, TypeOK', NEW p \in Pairs, NEW r \in Resources, NEW d \in Int,
           EntryMovesV2(p, r, d), NEW E \in SUBSET Pairs, NEW s \in Resources
    PROVE  /\ SumFunction([q \in E |-> delegatedV2'[q][s]])
                  = SumFunction([q \in E |-> delegatedV2[q][s]]) + When(p \in E /\ s = r, d)
           /\ SumFunction([q \in E |-> delegatedV2[q][s]]) \in Nat
<1> DEFINE f == [q \in E |-> delegatedV2[q][s]]
           g == [q \in E |-> delegatedV2'[q][s]]
           e == When(s = r, d)
<1>1. f \in [E -> Nat] /\ g \in [E -> Nat]
  <2>1. \A q \in Pairs : delegatedV2[q][s] \in Nat /\ delegatedV2'[q][s] \in Nat
    BY DEF TypeOK, Held
  <2>2. QED
    BY <2>1
<1>2. e \in Int
  BY DEF When
<1>3. Shifted(E, f, g, p, e)
  BY <1>1 DEF Shifted, When, EntryMovesV2
<1>4. IsFiniteSet(E)
  BY Finite, FS_Subset
<1> HIDE DEF f, g, e
<1>5. SumFunction(f) \in Nat
  BY <1>1, <1>4, SumTypes
<1>6. SumFunction(g) = SumFunction(f) + When(p \in E, e)
  BY <1>2, <1>3, <1>4, SumShift
<1>7. When(p \in E, e) = When(p \in E /\ s = r, d)
  BY DEF e, When
<1>8. QED
  BY <1>5, <1>6, <1>7 DEF f, g

(* The step moves d1 and d2 into the totals of what a lends to b, and d3   *)
(* into what b has acquired under Stake 1.0.                               *)
TotalMoves(a, b, r, d1, d2, d3) ==
    \A x \in Accounts, s \in Resources :
        /\ out'[x][s] = out[x][s] + When(x = a /\ s = r, d1)
        /\ outV2'[x][s] = outV2[x][s] + When(x = a /\ s = r, d2)
        /\ acquired'[x][s] = acquired[x][s] + When(x = b /\ s = r, d3)
        /\ acquiredV2'[x][s] = acquiredV2[x][s] + When(x = b /\ s = r, d2)

\* Totals agree with entries when both move by the same; a contract's
\* acquired balance may move up by more.
LEMMA TotalsShift ==
    ASSUME TypeOK, TypeOK', TotalsMatchEntries, NEW a \in Accounts, NEW b \in Accounts, a # b,
           NEW r \in Resources, NEW d1 \in Int, NEW d2 \in Int, NEW d3 \in Int,
           d3 = d1 \/ (b \in Contracts /\ d3 >= d1),
           EntryMoves(<<a, b>>, r, d1), EntryMovesV2(<<a, b>>, r, d2),
           TotalMoves(a, b, r, d1, d2, d3)
    PROVE  TotalsMatchEntries'
<1> USE DEF TotalMoves
<1> DEFINE p == <<a, b>>
<1>1. p \in Pairs /\ EntryMoves(p, r, d1) /\ EntryMovesV2(p, r, d2)
  BY DEF Pairs
<1>2. ASSUME NEW x \in Accounts
      PROVE  /\ EntriesOf(x) \in SUBSET Pairs /\ EntriesTo(x) \in SUBSET Pairs
             /\ (p \in EntriesOf(x) <=> x = a) /\ (p \in EntriesTo(x) <=> x = b)
  BY <1>1 DEF EntriesOf, EntriesTo
<1> HIDE DEF p
<1>3. ASSUME NEW x \in Accounts, NEW s \in Resources
      PROVE  /\ out'[x][s] = SumFunction([q \in EntriesOf(x) |-> delegated'[q][s].amount])
             /\ outV2'[x][s] = SumFunction([q \in EntriesOf(x) |-> delegatedV2'[q][s]])
  <2> DEFINE E == EntriesOf(x)
             t1 == SumFunction([q \in E |-> delegated[q][s].amount])
             t2 == SumFunction([q \in E |-> delegatedV2[q][s]])
  <2>1. out[x][s] = t1 /\ outV2[x][s] = t2
    BY DEF TotalsMatchEntries, OutMatchesEntries
  <2>2. E \in SUBSET Pairs /\ (p \in E <=> x = a)
    BY <1>2
  <2> HIDE DEF E
  <2>3. SumFunction([q \in E |-> delegated'[q][s].amount]) = t1 + When(p \in E /\ s = r, d1)
    BY <1>1, <2>2, EntryShift
  <2>4. SumFunction([q \in E |-> delegatedV2'[q][s]]) = t2 + When(p \in E /\ s = r, d2)
    BY <1>1, <2>2, EntryShiftV2
  <2> HIDE DEF t1, t2
  <2>5. QED
    BY <2>1, <2>2, <2>3, <2>4 DEF E
<1>4. ASSUME NEW x \in Accounts, NEW s \in Resources
      PROVE  LET lent == SumFunction([q \in EntriesTo(x) |-> delegated'[q][s].amount])
             IN  /\ IF x \in Contracts THEN acquired'[x][s] >= lent ELSE acquired'[x][s] = lent
                 /\ acquiredV2'[x][s] = SumFunction([q \in EntriesTo(x) |-> delegatedV2'[q][s]])
  <2> DEFINE E == EntriesTo(x)
             t1 == SumFunction([q \in E |-> delegated[q][s].amount])
             t2 == SumFunction([q \in E |-> delegatedV2[q][s]])
  <2>1. /\ IF x \in Contracts THEN acquired[x][s] >= t1 ELSE acquired[x][s] = t1
        /\ acquiredV2[x][s] = t2
    BY DEF TotalsMatchEntries, AcquiredMatchesEntries
  <2>2. E \in SUBSET Pairs /\ (p \in E <=> x = b)
    BY <1>2
  <2> HIDE DEF E
  <2>3. /\ SumFunction([q \in E |-> delegated'[q][s].amount]) = t1 + When(p \in E /\ s = r, d1)
        /\ t1 \in Nat
    BY <1>1, <2>2, EntryShift
  <2>4. /\ SumFunction([q \in E |-> delegatedV2'[q][s]]) = t2 + When(p \in E /\ s = r, d2)
        /\ t2 \in Nat
    BY <1>1, <2>2, EntryShiftV2
  <2>5. acquired[x][s] \in Nat
    BY Naturals
  <2> HIDE DEF t1, t2
  <2>6. acquired'[x][s] = acquired[x][s] + When(x = b /\ s = r, d3)
    OBVIOUS
  <2> DEFINE u1 == SumFunction([q \in E |-> delegated'[q][s].amount])
  <2>7. u1 = t1 + When(x = b /\ s = r, d1)
    BY <2>2, <2>3
  <2> HIDE DEF u1
  <2>8. IF x \in Contracts THEN acquired'[x][s] >= u1 ELSE acquired'[x][s] = u1
    BY <2>1, <2>3, <2>5, <2>6, <2>7 DEF When
  <2>9. acquiredV2'[x][s] = SumFunction([q \in E |-> delegatedV2'[q][s]])
    BY <2>1, <2>2, <2>4
  <2>10. QED
    BY <2>8, <2>9 DEF E, u1
<1>5. QED
  BY <1>3, <1>4 DEF TotalsMatchEntries, OutMatchesEntries, AcquiredMatchesEntries, EntriesOf, EntriesTo

\* An entry is part of its owner's and its receiver's totals.
LEMMA EntryBelow ==
    ASSUME TypeOK, TotalsMatchEntries, NEW a \in Accounts, NEW b \in Accounts, a # b,
           NEW s \in Resources
    PROVE  /\ delegated[<<a, b>>][s].amount <= out[a][s]
           /\ delegated[<<a, b>>][s].amount <= acquired[b][s]
           /\ delegatedV2[<<a, b>>][s] <= outV2[a][s]
           /\ delegatedV2[<<a, b>>][s] <= acquiredV2[b][s]
<1>1. ASSUME NEW E, IsFiniteSet(E), E \in SUBSET Pairs, NEW q \in E
      PROVE  /\ delegated[q][s].amount <= SumFunction([x \in E |-> delegated[x][s].amount])
             /\ delegatedV2[q][s] <= SumFunction([x \in E |-> delegatedV2[x][s]])
             /\ SumFunction([x \in E |-> delegated[x][s].amount]) \in Nat
  <2> DEFINE f == [x \in E |-> delegated[x][s].amount]
             g == [x \in E |-> delegatedV2[x][s]]
  <2>1. f \in [E -> Nat] /\ g \in [E -> Nat]
    BY <1>1, Naturals
  <2>2. f[q] = delegated[q][s].amount /\ g[q] = delegatedV2[q][s]
    OBVIOUS
  <2> HIDE DEF f, g
  <2>3. SumFunction(f) \in Nat /\ f[q] <= SumFunction(f) /\ g[q] <= SumFunction(g)
    BY <1>1, <2>1, SumTypes
  <2>4. QED
    BY <2>2, <2>3 DEF f, g
<1> DEFINE p == <<a, b>>
           E == EntriesOf(a)
           T == EntriesTo(b)
<1>2. /\ p \in E /\ p \in T /\ E \in SUBSET Pairs /\ T \in SUBSET Pairs
      /\ IsFiniteSet(E) /\ IsFiniteSet(T)
  BY Finite DEF EntriesOf, EntriesTo, Pairs
<1>3. /\ out[a][s] = SumFunction([x \in E |-> delegated[x][s].amount])
      /\ outV2[a][s] = SumFunction([x \in E |-> delegatedV2[x][s]])
  BY DEF TotalsMatchEntries, OutMatchesEntries
<1>4. /\ acquired[b][s] >= SumFunction([x \in T |-> delegated[x][s].amount])
      /\ acquiredV2[b][s] = SumFunction([x \in T |-> delegatedV2[x][s]])
  <2> DEFINE t1 == SumFunction([x \in T |-> delegated[x][s].amount])
  <2>1. /\ IF b \in Contracts THEN acquired[b][s] >= t1 ELSE acquired[b][s] = t1
        /\ acquiredV2[b][s] = SumFunction([x \in T |-> delegatedV2[x][s]])
    BY DEF TotalsMatchEntries, AcquiredMatchesEntries
  <2> HIDE DEF T
  <2>2. t1 \in Nat
    BY <1>1, <1>2
  <2> HIDE DEF t1
  <2>3. acquired[b][s] >= t1
    BY <2>1, <2>2
  <2>4. QED
    BY <2>1, <2>3 DEF t1
<1>5. delegated[p][s].amount \in Nat /\ acquired[b][s] \in Nat
  BY <1>2, Naturals
<1> HIDE DEF p, E, T
<1>6. /\ delegated[p][s].amount <= out[a][s] /\ delegatedV2[p][s] <= outV2[a][s]
  BY <1>1, <1>2, <1>3
<1>7. delegatedV2[p][s] <= acquiredV2[b][s]
  BY <1>1, <1>2, <1>4
<1>8. delegated[p][s].amount <= acquired[b][s]
  <2> DEFINE t1 == SumFunction([x \in T |-> delegated[x][s].amount])
  <2>1. t1 \in Nat /\ delegated[p][s].amount <= t1
    BY <1>1, <1>2
  <2>2. acquired[b][s] >= t1
    BY <1>4
  <2> HIDE DEF t1
  <2>3. QED
    BY <1>5, <2>1, <2>2
<1>9. QED
  BY <1>6, <1>7, <1>8 DEF p

-----------------------------------------------------------------------------
(* Sweeping matured entries.                                               *)

Sun(us) == SumFunction([i \in DOMAIN us |-> us[i].amount])

\* The sun of a longer list.
LEMMA SunAppend ==
    ASSUME NEW us \in Seq(Entry), NEW u \in Entry
    PROVE  Sun(Append(us, u)) = Sun(us) + u.amount /\ Sun(us) \in Nat
<1> DEFINE n == Len(us)
           ws == Append(us, u)
           f == [i \in DOMAIN us |-> us[i].amount]
           g == [i \in DOMAIN ws |-> ws[i].amount]
<1>1. n \in Nat /\ DOMAIN us = 1 .. n /\ DOMAIN ws = 1 .. n + 1
  OBVIOUS
<1>2. /\ \A i \in 1 .. n : us[i] \in Entry /\ ws[i] = us[i]
      /\ ws[n + 1] = u
  OBVIOUS
<1> HIDE DEF n, ws
<1>3. \A i \in 1 .. n : f[i] = g[i] /\ f[i] \in Nat
  BY <1>1, <1>2 DEF Entry
<1>4. \A i \in 1 .. n + 1 : g[i] \in Int
  <2>1. \A i \in 1 .. n + 1 : i = n + 1 \/ i \in 1 .. n
    BY <1>1
  <2>2. ws[n + 1].amount \in Int
    BY <1>2 DEF Entry
  <2>3. g[n + 1] = u.amount /\ u.amount \in Int
    BY <1>1, <1>2 DEF Entry
  <2>4. QED
    <3> HIDE DEF f, g
    <3>1. \A i \in 1 .. n : g[i] \in Int
      BY <1>3
    <3>2. QED
      BY <2>1, <2>3, <3>1
<1>5. g[n + 1] = u.amount
  BY <1>1, <1>2
<1>6. DOMAIN f = 1 .. n /\ DOMAIN g = 1 .. n + 1 /\ f \in [1 .. n -> Nat]
  BY <1>1, <1>3
<1>7. Sun(us) = SumFunction(f) /\ Sun(ws) = SumFunction(g)
  BY DEF Sun
<1> HIDE DEF f, g
<1>8. SumFunctionOnSet(g, 1 .. n + 1) = SumFunctionOnSet(f, 1 .. n) + g[n + 1]
  BY <1>1, <1>3, <1>4, SumExtend
<1>9. SumFunctionOnSet(f, 1 .. n) \in Nat
  <2>1. IsFiniteSet(1 .. n) /\ \A i \in 1 .. n : f[i] \in Nat
    BY <1>1, <1>3, FS_Interval
  <2>2. QED
    BY <2>1, SumNat
<1>10. QED
  BY <1>5, <1>6, <1>7, <1>8, <1>9 DEF SumFunction, ws

(* k lists, for each n up to m, what is kept of the first n entries.       *)
Keeps(us, m, k) ==
    k = [n \in 0 .. m |-> IF n = 0 THEN <<>>
                          ELSE IF Matured(us[n]) THEN k[n - 1] ELSE Append(k[n - 1], us[n])]

\* There is such a k, so it is what Kept takes the last of.
LEMMA KeepsExists == ASSUME NEW us, NEW m \in Nat PROVE \E k : Keeps(us, m, k)
<1> DEFINE N == {n \in Nat : \E k : Keeps(us, n, k)}
<1>1. 0 \in N
  <2> DEFINE k == [n \in 0 .. 0 |-> <<>>]
  <2>1. Keeps(us, 0, k)
    BY DEF Keeps
  <2>2. QED
    BY <2>1
<1>2. ASSUME NEW n \in Nat, n \in N PROVE n + 1 \in N
  <2>1. PICK k : Keeps(us, n, k)
    BY <1>2
  <2> DEFINE last == IF Matured(us[n + 1]) THEN k[n] ELSE Append(k[n], us[n + 1])
             h == [i \in 0 .. n + 1 |-> IF i = n + 1 THEN last ELSE k[i]]
  <2>2. ASSUME NEW i \in 0 .. n
        PROVE  k[i] = IF i = 0 THEN <<>>
                      ELSE IF Matured(us[i]) THEN k[i - 1] ELSE Append(k[i - 1], us[i])
    BY <2>1 DEF Keeps
  <2> HIDE DEF last
  <2>3. /\ h[n + 1] = last
        /\ \A i \in 0 .. n : h[i] = k[i]
    OBVIOUS
  <2>4. ASSUME NEW i \in 0 .. n + 1
        PROVE  h[i] = IF i = 0 THEN <<>>
                      ELSE IF Matured(us[i]) THEN h[i - 1] ELSE Append(h[i - 1], us[i])
    <3> HIDE DEF h
    <3>1. CASE i = n + 1
      <4>1. i # 0 /\ i - 1 = n /\ h[n] = k[n]
        BY <2>3, <3>1
      <4>2. QED
        BY <2>3, <3>1, <4>1 DEF last
    <3>2. CASE i # n + 1
      <4>1. i \in 0 .. n /\ (i # 0 => i - 1 \in 0 .. n)
        BY <3>2
      <4>2. h[i] = k[i] /\ (i # 0 => h[i - 1] = k[i - 1])
        BY <2>3, <4>1
      <4>3. QED
        BY <2>2, <4>1, <4>2
    <3>3. QED
      BY <3>1, <3>2
  <2>5. Keeps(us, n + 1, h)
    BY <2>4 DEF Keeps
  <2>6. QED
    BY <2>5
<1>3. m \in N
  <2> HIDE DEF N
  <2> QED
    BY <1>1, <1>2, NatSetInduction
<1>4. QED
  BY <1>3

\* What is swept into the balance and what is kept are together what waited.
LEMMA Sweep ==
    ASSUME TypeOK, NEW a \in Accounts
    PROVE  /\ Kept(a) \in Seq(Entry) /\ Len(Kept(a)) \in Nat
           /\ Len(Kept(a)) <= Len(unfrozenV2[a])
           /\ MaturedSun(a) \in Nat /\ Sun(Kept(a)) \in Nat
           /\ Sun(Kept(a)) + MaturedSun(a) = Waiting(a)
<1> DEFINE us == unfrozenV2[a]
           m == Len(us)
           mat == [i \in DOMAIN us |-> IF Matured(us[i]) THEN us[i].amount ELSE 0]
           amt == [i \in DOMAIN us |-> us[i].amount]
<1>1. us \in Seq(Entry)
  BY Naturals
<1>2. MaturedSun(a) = SumFunction(mat) /\ Waiting(a) = SumFunction(amt)
  BY DEF MaturedSun, Waiting
<1>3. Kept(a) = (CHOOSE k : Keeps(us, m, k))[m]
  BY DEF Kept, Keeps
<1> HIDE DEF us
<1>4. m \in Nat /\ DOMAIN us = 1 .. m /\ \A i \in 1 .. m : us[i] \in Entry
  BY <1>1
<1> HIDE DEF m
<1>5. PICK k : Keeps(us, m, k) /\ Kept(a) = k[m]
  BY <1>3, <1>4, KeepsExists
<1>6. /\ DOMAIN mat = 1 .. m /\ DOMAIN amt = 1 .. m
      /\ \A i \in 1 .. m : /\ mat[i] \in Nat /\ amt[i] \in Nat /\ amt[i] = us[i].amount
                           /\ mat[i] = IF Matured(us[i]) THEN us[i].amount ELSE 0
  BY <1>4 DEF Entry
<1> HIDE DEF mat, amt
<1>7. ASSUME NEW n \in 0 .. m
      PROVE  k[n] = IF n = 0 THEN <<>>
                    ELSE IF Matured(us[n]) THEN k[n - 1] ELSE Append(k[n - 1], us[n])
  BY <1>5 DEF Keeps
<1> DEFINE Good(n) == /\ k[n] \in Seq(Entry) /\ Len(k[n]) <= n /\ Sun(k[n]) \in Nat
                      /\ SumFunctionOnSet(mat, 1 .. n) \in Nat
                      /\ Sun(k[n]) + SumFunctionOnSet(mat, 1 .. n)
                            = SumFunctionOnSet(amt, 1 .. n)
           N == {n \in Nat : n <= m => Good(n)}
<1>8. 0 \in N
  <2>1. k[0] = <<>>
    BY <1>4, <1>7
  <2>2. 1 .. 0 = {}
    OBVIOUS
  <2>3. SumFunctionOnSet(mat, {}) = 0 /\ SumFunctionOnSet(amt, {}) = 0
    BY SumEmpty
  <2>4. Sun(<<>>) = 0
    <3>1. DOMAIN [i \in DOMAIN <<>> |-> <<>>[i].amount] = {}
      OBVIOUS
    <3>2. QED
      BY <3>1, SumEmpty DEF Sun, SumFunction
  <2>5. /\ k[0] \in Seq(Entry) /\ Len(k[0]) <= 0 /\ Sun(k[0]) = 0
        /\ SumFunctionOnSet(mat, 1 .. 0) = 0 /\ SumFunctionOnSet(amt, 1 .. 0) = 0
    BY <2>1, <2>2, <2>3, <2>4
  <2>6. QED
    BY <2>5
<1>9. ASSUME NEW n \in Nat, n \in N PROVE n + 1 \in N
  <2>1. SUFFICES ASSUME n + 1 <= m PROVE Good(n + 1)
    OBVIOUS
  <2>2. Good(n)
    BY <1>4, <1>9, <2>1
  <2>3. n + 1 \in 1 .. m /\ us[n + 1] \in Entry /\ us[n + 1].amount \in Nat
    BY <1>4, <2>1 DEF Entry
  <2>4. k[n + 1] = IF Matured(us[n + 1]) THEN k[n] ELSE Append(k[n], us[n + 1])
    BY <1>4, <1>7, <2>1
  <2>5. \A i \in 1 .. n + 1 : mat[i] \in Int /\ amt[i] \in Int
    BY <1>4, <1>6, <2>1
  <2>6. /\ SumFunctionOnSet(mat, 1 .. n + 1) = SumFunctionOnSet(mat, 1 .. n) + mat[n + 1]
        /\ SumFunctionOnSet(amt, 1 .. n + 1) = SumFunctionOnSet(amt, 1 .. n) + amt[n + 1]
    BY <2>5, SumExtend
  <2>7. /\ amt[n + 1] = us[n + 1].amount
        /\ mat[n + 1] = IF Matured(us[n + 1]) THEN us[n + 1].amount ELSE 0
    BY <1>6, <2>3
  <2>8. Sun(Append(k[n], us[n + 1])) = Sun(k[n]) + us[n + 1].amount
    BY <2>2, <2>3, SunAppend
  <2>9. CASE Matured(us[n + 1])
    BY <2>2, <2>3, <2>4, <2>6, <2>7, <2>9
  <2>10. CASE ~Matured(us[n + 1])
    <3>1. k[n + 1] \in Seq(Entry) /\ Len(k[n + 1]) <= n + 1
      BY <2>2, <2>3, <2>4, <2>10
    <3>2. Sun(k[n + 1]) = Sun(k[n]) + us[n + 1].amount
      BY <2>4, <2>8, <2>10
    <3>3. QED
      BY <2>2, <2>3, <2>6, <2>7, <2>10, <3>1, <3>2
  <2>11. QED
    BY <2>9, <2>10
<1>10. Good(m)
  <2>1. m \in N
    <3> HIDE DEF N
    <3> QED
      BY <1>4, <1>8, <1>9, NatSetInduction
  <2>2. QED
    BY <1>4, <2>1
<1>11. SumFunction(mat) = SumFunctionOnSet(mat, 1 .. m) /\ SumFunction(amt) = SumFunctionOnSet(amt, 1 .. m)
  BY <1>6 DEF SumFunction
<1>12. Len(unfrozenV2[a]) = m /\ Len(k[m]) \in Nat
  BY <1>10 DEF m, us
<1>13. QED
  BY <1>2, <1>5, <1>10, <1>11, <1>12

-----------------------------------------------------------------------------
(* Votes.                                                                  *)

\* Votes stay within the power if it does not fall, or they are cleared.
LEMMA VotesKept ==
    ASSUME TypeOK, TypeOK', VotesWithinPower, NEW a \in Accounts, NEW d \in Int,
           \A x \in Accounts : TronPower(x)' = TronPower(x) + When(x = a, d),
           \A x \in Accounts : votes'[x] = votes[x] \/ votes'[x] = 0,
           d >= 0 \/ votes'[a] = 0
    PROVE  VotesWithinPower'
<1> SUFFICES ASSUME NEW x \in Accounts, votes'[x] * TrxPrecision < Int64Half
             PROVE votes'[x] * TrxPrecision <= TronPower(x)'
  BY DEF VotesWithinPower
<1>1. TronPower(x) \in Nat
  BY HeldInt
<1>2. TronPower(x)' \in Nat
  <2> DEFINE f == [s \in Resources |-> frozen'[x][s].amount + out'[x][s]
                                          + frozenV2'[x][s] + outV2'[x][s]]
  <2>1. \A s \in Resources : frozen'[x][s] \in Entry /\ frozenV2'[x][s] \in Nat
    BY DEF TypeOK, Held
  <2>2. \A s \in Resources : out'[x][s] \in Nat /\ outV2'[x][s] \in Nat
    BY DEF TypeOK, Held
  <2>3. f \in [Resources -> Nat]
    BY <2>1, <2>2 DEF Entry
  <2> HIDE DEF f
  <2>4. SumFunction(f) \in Nat
    BY <2>3, Finite, SumTypes
  <2>5. QED
    BY <2>4 DEF f, TronPower
<1>3. votes[x] * TrxPrecision < Int64Half => votes[x] * TrxPrecision <= TronPower(x)
  BY DEF VotesWithinPower
<1>4. votes[x] \in Nat /\ TrxPrecision \in Nat /\ votes[x] * TrxPrecision \in Nat
  BY StakeAssumption, Naturals, MulNat
<1>5. CASE votes'[x] = 0
  <2>1. 0 * TrxPrecision = 0
    BY <1>4
  <2>2. QED
    BY <1>2, <1>5, <2>1
<1>6. CASE votes'[x] # 0
  <2>1. votes'[x] = votes[x] /\ (x = a => d >= 0)
    BY <1>6
  <2>2. TronPower(x)' = TronPower(x) \/ (TronPower(x)' = TronPower(x) + d /\ d >= 0)
    BY <1>1, <2>1 DEF When
  <2> DEFINE v == votes[x] * TrxPrecision
             t == TronPower(x)
             u == TronPower(x)'
  <2>3. v \in Nat /\ v <= t /\ t \in Nat /\ (u = t \/ (u = t + d /\ d >= 0))
    BY <1>1, <1>3, <1>4, <2>1, <2>2
  <2>4. v = votes'[x] * TrxPrecision
    BY <2>1
  <2> HIDE DEF v, t, u
  <2>5. v <= u
    BY <2>3
  <2>6. QED
    BY <2>4, <2>5 DEF u
<1>7. QED
  BY <1>5, <1>6

-----------------------------------------------------------------------------
(* The delegation indexes.                                                 *)

(* An edge is in its place: the optimized layout is empty until it is      *)
(* switched on, and nobody is listed as lending to itself.                 *)
IndexTidy ==
    /\ "delegateOptimization" \notin flags => edgeIndex = {}
    /\ \A a \in Accounts : a \notin listIndex[a].to \cup listIndex[a].from

Listed(p) == p[2] \in listIndex[p[1]].to
Lent(p) == \E r \in Resources : delegated[p][r].amount > 0

(* IndexMatchesEntries, pair by pair.                                      *)
Matches ==
    /\ \A p \in Pairs : Lent(p) <=> (p \in edgeIndex \/ Listed(p))
    /\ \A p \in Pairs : p \in edgeIndex \/ (Listed(p) <=> p[1] \in listIndex[p[2]].from)
IndexTyped ==
    /\ edgeIndex \subseteq Pairs
    /\ listIndex \in [Accounts -> [to : SUBSET Accounts, from : SUBSET Accounts]]
MatchesV2 == {p \in Pairs : \E r \in Resources : delegatedV2[p][r] > 0} = edgeIndexV2

\* The two ways to say it.
LEMMA PairByPair ==
    ASSUME edgeIndex \subseteq Pairs
    PROVE  IndexMatchesEntries <=> Matches /\ MatchesV2
BY DEF IndexMatchesEntries, Matches, MatchesV2, Listed, Lent

\* An account's lists name other accounts.
LEMMA ListFields ==
    ASSUME IndexTyped, NEW x \in Accounts
    PROVE  listIndex[x].to \subseteq Accounts /\ listIndex[x].from \subseteq Accounts
BY DEF IndexTyped

\* Converting the lists of both ends loses no edge and invents none.
LEMMA ConvertKeeps ==
    ASSUME IndexTyped, IndexTidy, Matches, NEW a \in Accounts, NEW b \in Accounts
    PROVE  /\ ConvertedEdges(a, b) \subseteq Pairs
           /\ \A p \in Pairs : p \in ConvertedEdges(a, b) => Lent(p)
           /\ \A p \in Pairs : Lent(p) /\ (p[1] \in {a, b} \/ p[2] \in {a, b})
                                  => p \in ConvertedEdges(a, b)
           /\ edgeIndex \subseteq ConvertedEdges(a, b)
<1>1. edgeIndex \subseteq ConvertedEdges(a, b)
  BY DEF ConvertedEdges
<1>2. ASSUME NEW q \in ConvertedEdges(a, b) PROVE q \in Pairs /\ Lent(q)
  <2>1. CASE q \in edgeIndex
    BY <2>1 DEF IndexTyped, Matches
  <2>2. CASE q \notin edgeIndex
    <3>1. PICK x \in {a, b} : \/ q \in {x} \X listIndex[x].to
                              \/ q \in listIndex[x].from \X {x}
      BY <1>2, <2>2 DEF ConvertedEdges
    <3>2. /\ listIndex[x].to \subseteq Accounts /\ listIndex[x].from \subseteq Accounts
          /\ x \notin listIndex[x].to /\ x \notin listIndex[x].from /\ x \in Accounts
      BY ListFields DEF IndexTidy
    <3>3. CASE q \in {x} \X listIndex[x].to
      <4>1. PICK y \in listIndex[x].to : q = <<x, y>>
        BY <3>3
      <4>2. q \in Pairs /\ Listed(q)
        BY <3>2, <4>1 DEF Pairs, Listed
      <4>3. QED
        BY <4>2 DEF Matches
    <3>4. CASE q \in listIndex[x].from \X {x}
      <4>1. PICK y \in listIndex[x].from : q = <<y, x>>
        BY <3>4
      <4>2. q \in Pairs /\ q[1] \in listIndex[q[2]].from
        BY <3>2, <4>1 DEF Pairs
      <4>3. QED
        BY <4>2, <2>2 DEF Matches
    <3>5. QED
      BY <3>1, <3>3, <3>4
  <2>3. QED
    BY <2>1, <2>2
<1>3. ASSUME NEW p \in Pairs, Lent(p), p[1] \in {a, b} \/ p[2] \in {a, b}, p \notin edgeIndex
      PROVE  p \in ConvertedEdges(a, b)
  <2>1. Listed(p) /\ p[1] \in listIndex[p[2]].from /\ p = <<p[1], p[2]>>
    BY <1>3 DEF Matches, Pairs
  <2>2. CASE p[1] \in {a, b}
    <3>1. p \in {p[1]} \X listIndex[p[1]].to
      BY <2>1 DEF Listed
    <3>2. QED
      BY <2>2, <3>1 DEF ConvertedEdges
  <2>3. CASE p[2] \in {a, b}
    <3>1. p \in listIndex[p[2]].from \X {p[2]}
      BY <2>1
    <3>2. QED
      BY <2>3, <3>1 DEF ConvertedEdges
  <2>4. QED
    BY <1>3, <2>2, <2>3
<1>4. QED
  BY <1>1, <1>2, <1>3

\* A delegation is recorded: exactly one more pair is indexed.
LEMMA RecordKeeps ==
    ASSUME IndexTyped, IndexTidy, Matches, NEW a \in Accounts, NEW b \in Accounts, a # b,
           RecordDelegationIndex(a, b), flags' = flags,
           \A p \in Pairs : Lent(p)' <=> Lent(p) \/ p = <<a, b>>
    PROVE  IndexTyped' /\ IndexTidy' /\ Matches'
<1>1. <<a, b>> \in Pairs
  BY DEF Pairs
<1>2. \A x \in Accounts : listIndex[x].to \subseteq Accounts /\ listIndex[x].from \subseteq Accounts
  BY ListFields
<1>3. CASE "delegateOptimization" \in flags
  <2> DEFINE C == ConvertedEdges(a, b)
  <2>1. edgeIndex' = C \cup {<<a, b>>} /\ listIndex' = Converted(a, b)
    BY <1>3 DEF RecordDelegationIndex
  <2>2. /\ C \subseteq Pairs /\ edgeIndex \subseteq C
        /\ \A p \in Pairs : p \in C => Lent(p)
        /\ \A p \in Pairs : Lent(p) /\ (p[1] \in {a, b} \/ p[2] \in {a, b}) => p \in C
    BY ConvertKeeps
  <2> HIDE DEF C
  <2>3. \A x \in Accounts : listIndex'[x] = IF x \in {a, b} THEN [to |-> {}, from |-> {}]
                                            ELSE listIndex[x]
    BY <2>1 DEF Converted
  <2>4. IndexTyped'
    <3>1. listIndex' \in [Accounts -> [to : SUBSET Accounts, from : SUBSET Accounts]]
      BY <2>1 DEF Converted, IndexTyped
    <3>2. QED
      BY <1>1, <2>1, <2>2, <3>1 DEF IndexTyped
  <2>5. IndexTidy'
    BY <1>3, <2>3 DEF IndexTidy
  <2>6. ASSUME NEW p \in Pairs
        PROVE  /\ Lent(p)' <=> (p \in edgeIndex' \/ Listed(p)')
               /\ p \in edgeIndex' \/ (Listed(p)' <=> p[1] \in listIndex'[p[2]].from)
    <3>1. p[1] \in Accounts /\ p[2] \in Accounts
      BY DEF Pairs
    <3>2. /\ Listed(p)' <=> p[1] \notin {a, b} /\ Listed(p)
          /\ p[1] \in listIndex'[p[2]].from <=> p[2] \notin {a, b} /\ p[1] \in listIndex[p[2]].from
      BY <2>3, <3>1 DEF Listed
    <3>3. /\ Lent(p) <=> (p \in edgeIndex \/ Listed(p))
          /\ p \in edgeIndex \/ (Listed(p) <=> p[1] \in listIndex[p[2]].from)
      BY DEF Matches
    <3>4. p \in edgeIndex' <=> p \in C \/ p = <<a, b>>
      BY <2>1
    <3>5. QED
      BY <2>2, <3>2, <3>3, <3>4
  <2>7. QED
    BY <2>4, <2>5, <2>6 DEF Matches
<1>4. CASE "delegateOptimization" \notin flags
  <2>1. /\ edgeIndex' = edgeIndex /\ edgeIndex = {}
        /\ listIndex' = [listIndex EXCEPT ![a].to = @ \cup {b}, ![b].from = @ \cup {a}]
    BY <1>4 DEF RecordDelegationIndex, IndexTidy
  <2>2. \A x \in Accounts :
            /\ listIndex'[x].to = IF x = a THEN listIndex[x].to \cup {b} ELSE listIndex[x].to
            /\ listIndex'[x].from = IF x = b THEN listIndex[x].from \cup {a} ELSE listIndex[x].from
    <3>1. listIndex \in [Accounts -> [to : SUBSET Accounts, from : SUBSET Accounts]]
      BY DEF IndexTyped
    <3>2. /\ listIndex'[a] = [listIndex[a] EXCEPT !.to = @ \cup {b}]
          /\ listIndex'[b] = [listIndex[b] EXCEPT !.from = @ \cup {a}]
          /\ \A x \in Accounts : x # a /\ x # b => listIndex'[x] = listIndex[x]
      BY <2>1, <3>1
    <3>3. /\ listIndex[a] \in [to : SUBSET Accounts, from : SUBSET Accounts]
          /\ listIndex[b] \in [to : SUBSET Accounts, from : SUBSET Accounts]
      BY <3>1
    <3>4. /\ listIndex'[a].to = listIndex[a].to \cup {b} /\ listIndex'[a].from = listIndex[a].from
          /\ listIndex'[b].from = listIndex[b].from \cup {a} /\ listIndex'[b].to = listIndex[b].to
      BY <3>2, <3>3
    <3>5. QED
      BY <3>2, <3>4
  <2>3. IndexTyped'
    BY <2>1, <1>2, SMTT(40) DEF IndexTyped
  <2>4. IndexTidy'
    <3>1. ASSUME NEW x \in Accounts PROVE x \notin listIndex'[x].to /\ x \notin listIndex'[x].from
      <4>1. x \notin listIndex[x].to /\ x \notin listIndex[x].from
        BY DEF IndexTidy
      <4>2. QED
        BY <2>2, <4>1
    <3>2. edgeIndex' = {}
      BY <2>1
    <3>3. QED
      BY <3>1, <3>2 DEF IndexTidy
  <2>5. ASSUME NEW p \in Pairs
        PROVE  /\ Lent(p)' <=> (p \in edgeIndex' \/ Listed(p)')
               /\ p \in edgeIndex' \/ (Listed(p)' <=> p[1] \in listIndex'[p[2]].from)
    <3>1. p[1] \in Accounts /\ p[2] \in Accounts /\ (p = <<a, b>> <=> p[1] = a /\ p[2] = b)
      BY DEF Pairs
    <3>2. /\ Listed(p)' <=> p = <<a, b>> \/ Listed(p)
          /\ p[1] \in listIndex'[p[2]].from <=> p = <<a, b>> \/ p[1] \in listIndex[p[2]].from
      BY <2>2, <3>1, ZenonT(40) DEF Listed
    <3>3. (Lent(p) <=> Listed(p)) /\ (Listed(p) <=> p[1] \in listIndex[p[2]].from)
      BY <2>1 DEF Matches
    <3>4. QED
      BY <2>1, <3>2, <3>3
  <2>6. QED
    BY <2>3, <2>4, <2>5 DEF Matches
<1>5. QED
  BY <1>3, <1>4

\* A delegation is dropped: exactly that pair is not indexed any more.
LEMMA DropKeeps ==
    ASSUME IndexTyped, IndexTidy, Matches, NEW a \in Accounts, NEW b \in Accounts, a # b,
           DropDelegationIndex(a, b), flags' = flags,
           \A p \in Pairs : Lent(p)' <=> Lent(p) /\ p # <<a, b>>
    PROVE  IndexTyped' /\ IndexTidy' /\ Matches'
<1>1. \A x \in Accounts : listIndex[x].to \subseteq Accounts /\ listIndex[x].from \subseteq Accounts
  BY ListFields
<1>2. CASE "delegateOptimization" \in flags
  <2> DEFINE C == ConvertedEdges(a, b)
  <2>1. edgeIndex' = C \ {<<a, b>>} /\ listIndex' = Converted(a, b)
    BY <1>2 DEF DropDelegationIndex
  <2>2. /\ C \subseteq Pairs /\ edgeIndex \subseteq C
        /\ \A p \in Pairs : p \in C => Lent(p)
        /\ \A p \in Pairs : Lent(p) /\ (p[1] \in {a, b} \/ p[2] \in {a, b}) => p \in C
    BY ConvertKeeps
  <2> HIDE DEF C
  <2>3. \A x \in Accounts : listIndex'[x] = IF x \in {a, b} THEN [to |-> {}, from |-> {}]
                                            ELSE listIndex[x]
    BY <2>1 DEF Converted
  <2>4. IndexTyped'
    <3>1. listIndex' \in [Accounts -> [to : SUBSET Accounts, from : SUBSET Accounts]]
      BY <2>1 DEF Converted, IndexTyped
    <3>2. QED
      BY <2>1, <2>2, <3>1 DEF IndexTyped
  <2>5. IndexTidy'
    BY <1>2, <2>3 DEF IndexTidy
  <2>6. ASSUME NEW p \in Pairs
        PROVE  /\ Lent(p)' <=> (p \in edgeIndex' \/ Listed(p)')
               /\ p \in edgeIndex' \/ (Listed(p)' <=> p[1] \in listIndex'[p[2]].from)
    <3>1. /\ p[1] \in Accounts /\ p[2] \in Accounts
          /\ p = <<a, b>> => p[1] \in {a, b} /\ p[2] \in {a, b}
      BY DEF Pairs
    <3>2. /\ Listed(p)' <=> p[1] \notin {a, b} /\ Listed(p)
          /\ p[1] \in listIndex'[p[2]].from <=> p[2] \notin {a, b} /\ p[1] \in listIndex[p[2]].from
      BY <2>3, <3>1 DEF Listed
    <3>3. /\ Lent(p) <=> (p \in edgeIndex \/ Listed(p))
          /\ p \in edgeIndex \/ (Listed(p) <=> p[1] \in listIndex[p[2]].from)
      BY DEF Matches
    <3>4. p \in edgeIndex' <=> p \in C /\ p # <<a, b>>
      BY <2>1
    <3>5. QED
      BY <2>2, <3>1, <3>2, <3>3, <3>4
  <2>7. QED
    BY <2>4, <2>5, <2>6 DEF Matches
<1>3. CASE "delegateOptimization" \notin flags
  <2>1. /\ edgeIndex' = edgeIndex /\ edgeIndex = {}
        /\ listIndex' = [listIndex EXCEPT ![a].to = @ \ {b}, ![b].from = @ \ {a}]
    BY <1>3 DEF DropDelegationIndex, IndexTidy
  <2>2. \A x \in Accounts :
            /\ listIndex'[x].to = IF x = a THEN listIndex[x].to \ {b} ELSE listIndex[x].to
            /\ listIndex'[x].from = IF x = b THEN listIndex[x].from \ {a} ELSE listIndex[x].from
    <3>1. listIndex \in [Accounts -> [to : SUBSET Accounts, from : SUBSET Accounts]]
      BY DEF IndexTyped
    <3>2. /\ listIndex'[a] = [listIndex[a] EXCEPT !.to = @ \ {b}]
          /\ listIndex'[b] = [listIndex[b] EXCEPT !.from = @ \ {a}]
          /\ \A x \in Accounts : x # a /\ x # b => listIndex'[x] = listIndex[x]
      BY <2>1, <3>1
    <3>3. /\ listIndex[a] \in [to : SUBSET Accounts, from : SUBSET Accounts]
          /\ listIndex[b] \in [to : SUBSET Accounts, from : SUBSET Accounts]
      BY <3>1
    <3>4. /\ listIndex'[a].to = listIndex[a].to \ {b} /\ listIndex'[a].from = listIndex[a].from
          /\ listIndex'[b].from = listIndex[b].from \ {a} /\ listIndex'[b].to = listIndex[b].to
      BY <3>2, <3>3
    <3>5. QED
      BY <3>2, <3>4
  <2>3. IndexTyped'
    BY <2>1, <1>1, SMTT(40) DEF IndexTyped
  <2>4. IndexTidy'
    <3>1. ASSUME NEW x \in Accounts PROVE x \notin listIndex'[x].to /\ x \notin listIndex'[x].from
      <4>1. x \notin listIndex[x].to /\ x \notin listIndex[x].from
        BY DEF IndexTidy
      <4>2. QED
        BY <2>2, <4>1
    <3>2. edgeIndex' = {}
      BY <2>1
    <3>3. QED
      BY <3>1, <3>2 DEF IndexTidy
  <2>5. ASSUME NEW p \in Pairs
        PROVE  /\ Lent(p)' <=> (p \in edgeIndex' \/ Listed(p)')
               /\ p \in edgeIndex' \/ (Listed(p)' <=> p[1] \in listIndex'[p[2]].from)
    <3>1. p[1] \in Accounts /\ p[2] \in Accounts /\ (p = <<a, b>> <=> p[1] = a /\ p[2] = b)
      BY DEF Pairs
    <3>2. /\ Listed(p)' <=> p # <<a, b>> /\ Listed(p)
          /\ p[1] \in listIndex'[p[2]].from <=> p # <<a, b>> /\ p[1] \in listIndex[p[2]].from
      BY <2>2, <3>1 DEF Listed
    <3>3. (Lent(p) <=> Listed(p)) /\ (Listed(p) <=> p[1] \in listIndex[p[2]].from)
      BY <2>1 DEF Matches
    <3>4. QED
      BY <2>1, <3>2, <3>3
  <2>6. QED
    BY <2>3, <2>4, <2>5 DEF Matches
<1>4. QED
  BY <1>2, <1>3

-----------------------------------------------------------------------------
(* The invariant and what leaves its parts alone.                          *)

IInv ==
    /\ TypeOK
    /\ TrxConserved
    /\ TotalsMatchEntries
    /\ VotesWithinPower
    /\ IndexMatchesEntries
    /\ IndexTidy

\* What is not touched does not shift.
LEMMA Still ==
    ASSUME TypeOK, NEW a \in Accounts
    PROVE  /\ UNCHANGED balance => \A x \in Accounts : balance'[x] = balance[x] + When(x = a, 0)
           /\ UNCHANGED <<frozen, frozenV2>> =>
                  \A x \in Accounts : Staked(x)' = Staked(x) + When(x = a, 0)
           /\ UNCHANGED <<delegated, delegatedV2>> =>
                  \A x \in Accounts : LentOut(x)' = LentOut(x) + When(x = a, 0)
           /\ UNCHANGED unfrozenV2 =>
                  \A x \in Accounts : Waiting(x)' = Waiting(x) + When(x = a, 0)
           /\ UNCHANGED <<frozen, out, frozenV2, outV2>> =>
                  \A x \in Accounts : TronPower(x)' = TronPower(x) + When(x = a, 0)
<1>1. ASSUME NEW x \in Accounts
      PROVE  /\ balance[x] \in Nat /\ Staked(x) \in Nat /\ LentOut(x) \in Nat
             /\ Waiting(x) \in Nat /\ TronPower(x) \in Nat
  BY HeldInt
<1>2. \A x \in Accounts : When(x = a, 0) = 0
  BY DEF When
<1>3. UNCHANGED balance => \A x \in Accounts : balance'[x] = balance[x] + When(x = a, 0)
  BY <1>1, <1>2
<1>4. UNCHANGED <<frozen, frozenV2>> =>
          \A x \in Accounts : Staked(x)' = Staked(x) + When(x = a, 0)
  <2>1. UNCHANGED <<frozen, frozenV2>> => \A x \in Accounts : Staked(x)' = Staked(x)
    BY DEF Staked
  <2>2. QED
    BY <1>1, <1>2, <2>1
<1>5. UNCHANGED <<delegated, delegatedV2>> =>
          \A x \in Accounts : LentOut(x)' = LentOut(x) + When(x = a, 0)
  <2>1. UNCHANGED <<delegated, delegatedV2>> => \A x \in Accounts : LentOut(x)' = LentOut(x)
    BY DEF LentOut, EntriesOf
  <2>2. QED
    BY <1>1, <1>2, <2>1
<1>6. UNCHANGED unfrozenV2 => \A x \in Accounts : Waiting(x)' = Waiting(x) + When(x = a, 0)
  <2>1. UNCHANGED unfrozenV2 => \A x \in Accounts : Waiting(x)' = Waiting(x)
    BY DEF Waiting
  <2>2. QED
    BY <1>1, <1>2, <2>1
<1>7. UNCHANGED <<frozen, out, frozenV2, outV2>> =>
          \A x \in Accounts : TronPower(x)' = TronPower(x) + When(x = a, 0)
  <2>1. UNCHANGED <<frozen, out, frozenV2, outV2>> =>
            \A x \in Accounts : TronPower(x)' = TronPower(x)
    BY DEF TronPower
  <2>2. QED
    BY <1>1, <1>2, <2>1
<1>8. QED
  BY <1>3, <1>4, <1>5, <1>6, <1>7

\* Totals depend on what is lent and acquired only.
LEMMA TotalsStill ==
    ASSUME TotalsMatchEntries,
           UNCHANGED <<delegated, out, acquired, delegatedV2, outV2, acquiredV2>>
    PROVE  TotalsMatchEntries'
<1>1. ASSUME NEW x \in Accounts, NEW s \in Resources
      PROVE  /\ out'[x][s] = SumFunction([p \in EntriesOf(x) |-> delegated'[p][s].amount])
             /\ outV2'[x][s] = SumFunction([p \in EntriesOf(x) |-> delegatedV2'[p][s]])
  <2>1. /\ out[x][s] = SumFunction([p \in EntriesOf(x) |-> delegated[p][s].amount])
        /\ outV2[x][s] = SumFunction([p \in EntriesOf(x) |-> delegatedV2[p][s]])
    BY DEF TotalsMatchEntries, OutMatchesEntries
  <2>2. QED
    BY <2>1
<1>2. ASSUME NEW x \in Accounts, NEW s \in Resources
      PROVE  LET lent == SumFunction([p \in EntriesTo(x) |-> delegated'[p][s].amount])
             IN  /\ IF x \in Contracts THEN acquired'[x][s] >= lent ELSE acquired'[x][s] = lent
                 /\ acquiredV2'[x][s] = SumFunction([p \in EntriesTo(x) |-> delegatedV2'[p][s]])
  <2>1. LET lent == SumFunction([p \in EntriesTo(x) |-> delegated[p][s].amount])
        IN  /\ IF x \in Contracts THEN acquired[x][s] >= lent ELSE acquired[x][s] = lent
            /\ acquiredV2[x][s] = SumFunction([p \in EntriesTo(x) |-> delegatedV2[p][s]])
    BY DEF TotalsMatchEntries, AcquiredMatchesEntries
  <2>2. QED
    BY <2>1
<1>3. QED
  BY <1>1, <1>2 DEF TotalsMatchEntries, OutMatchesEntries, AcquiredMatchesEntries, EntriesOf, EntriesTo

\* Totals and indexes depend on what is lent only.
LEMMA LendingStill ==
    ASSUME IInv, UNCHANGED <<flags, delegated, out, acquired, listIndex, edgeIndex, delegatedV2, outV2,
                             acquiredV2, edgeIndexV2>>
    PROVE  TotalsMatchEntries' /\ IndexMatchesEntries' /\ IndexTidy'
<1>1. TotalsMatchEntries'
  BY TotalsStill DEF IInv
<1>2. IndexMatchesEntries' /\ IndexTidy'
  BY DEF IInv, IndexMatchesEntries, IndexTidy
<1>3. QED
  BY <1>1, <1>2

\* Whole TRX of an integer amount.
LEMMA TrxInt == ASSUME NEW x \in Int PROVE Trx(x) \in Int /\ (x \in Nat => Trx(x) \in Nat)
BY StakeAssumption, DivBounds, DivNat DEF Trx

\* A network weight stays an integer.
LEMMA WeightTyped ==
    ASSUME TypeOK, NEW r \in Resources, NEW d \in Int, AddWeight(r, d)
    PROVE  weight' \in [Resources -> Int]
<1>1. weight \in [Resources -> Int]
  BY DEF TypeOK
<1>2. QED
  BY <1>1 DEF AddWeight

\* Times are natural numbers.
LEMMA Times ==
    ASSUME TypeOK
    PROVE  now \in Nat /\ now + FrozenTime \in Nat /\ now + UnfreezeDelay \in Nat
<1>1. MaxNow \in Nat /\ FrozenTime \in Nat /\ UnfreezeDelay \in Nat
  BY StakeAssumption
<1>2. QED
  BY <1>1 DEF TypeOK

-----------------------------------------------------------------------------
(* The actions of Stake 1.0.                                               *)

\* Freezing for oneself.
LEMMA FreezeBalanceInv ==
    ASSUME IInv, NEW a \in Accounts, NEW sun \in Amounts, NEW r \in Resources,
           FreezeBalance(a, sun, r)
    PROVE  IInv'
<1> DEFINE total == frozen[a][r].amount + sun
           e == [amount |-> total, expire |-> now + FrozenTime]
           d == WeightDelta(Trx(sun), Trx(total) - Trx(frozen[a][r].amount))
<1>1. TypeOK /\ sun \in Nat /\ sun > 0
  BY StakeAssumption DEF IInv
<1>2. /\ frozen' = [frozen EXCEPT ![a][r] = e] /\ AddWeight(r, d)
      /\ balance' = [balance EXCEPT ![a] = @ - sun] /\ sun <= balance[a]
      /\ UNCHANGED <<now, flags, votes, delegated, out, acquired, listIndex, edgeIndex>>
      /\ UNCHANGED <<frozenV2, unfrozenV2, delegatedV2, outV2, acquiredV2, edgeIndexV2>>
  BY DEF FreezeBalance, CanFreeze, stake2
<1>3. frozen[a][r].amount \in Nat /\ total \in Nat /\ e \in Entry
  BY <1>1, Naturals, Times DEF Entry
<1>4. d \in Int
  <2> HIDE DEF total
  <2>1. QED
    BY <1>1, <1>3, TrxInt DEF WeightDelta
<1> HIDE DEF e, d
<1>5. IsCell(Accounts, Entry, frozen, frozen', a, r, e)
  <2>1. frozen \in [Accounts -> [Resources -> Entry]]
    BY <1>1 DEF TypeOK
  <2>2. QED
    BY <1>2, <1>3, <2>1, Cell
<1>6. balance' \in [Accounts -> Nat] /\ \A x \in Accounts : balance'[x] = balance[x] + When(x = a, -sun)
  <2>1. balance \in [Accounts -> Nat]
    BY <1>1 DEF TypeOK
  <2>2. QED
    BY <1>1, <1>2, <2>1 DEF When
<1>7. TypeOK'
  <2>1. weight' \in [Resources -> Int] /\ frozen' \in [Accounts -> [Resources -> Entry]]
    BY <1>1, <1>2, <1>4, <1>5, WeightTyped DEF IsCell
  <2>2. QED
    BY <1>1, <1>2, <1>6, <2>1 DEF TypeOK
<1>8. \A x \in Accounts, s \in Resources :
          frozen'[x][s].amount = frozen[x][s].amount + When(x = a /\ s = r, sun)
  <2>1. e.amount = frozen[a][r].amount + sun
    BY DEF e
  <2>2. \A x \in Accounts, s \in Resources : frozen[x][s].amount \in Nat
    BY <1>1, Naturals
  <2>3. QED
    BY <1>1, <1>5, <2>1, <2>2 DEF IsCell, When
<1>9. TrxConserved'
  <2>1. \A x \in Accounts : Staked(x)' = Staked(x) + When(x = a, sun)
    <3>1. StakeMoves(a, r, sun)
      BY <1>1, <1>2, <1>8, Naturals DEF When, StakeMoves
    <3>2. QED
      BY <1>1, <1>7, <3>1, StakedShift
  <2>2. /\ \A x \in Accounts : LentOut(x)' = LentOut(x) + When(x = a, 0)
        /\ \A x \in Accounts : Waiting(x)' = Waiting(x) + When(x = a, 0)
    BY <1>1, <1>2, Still
  <2>3. Moves(a, -sun, sun, 0, 0)
    BY <1>6, <2>1, <2>2 DEF Moves
  <2>4. QED
    BY <1>1, <2>3, Conserved DEF IInv
<1>10. VotesWithinPower'
  <2>1. PowerMoves(a, r, sun)
    <3>1. \A x \in Accounts, s \in Resources : /\ frozen[x][s].amount \in Nat /\ out[x][s] \in Nat
                                                /\ frozenV2[x][s] \in Nat /\ outV2[x][s] \in Nat
      BY <1>1, Naturals
    <3>2. QED
      BY <1>1, <1>2, <1>8, <3>1 DEF When, PowerMoves
  <2>2. \A x \in Accounts : TronPower(x)' = TronPower(x) + When(x = a, sun)
    BY <1>1, <1>7, <2>1, PowerShift
  <2>3. QED
    BY <1>1, <1>2, <1>7, <2>2, VotesKept DEF IInv
<1>11. QED
  BY <1>2, <1>7, <1>9, <1>10, LendingStill DEF IInv

(* The step moves d into what a has lent and d3 into what b has acquired   *)
(* under Stake 1.0, out of a's balance; votes are kept or cleared.         *)
CreditMoves(a, b, r, d, d3) ==
    /\ \A x \in Accounts : balance'[x] = balance[x] + When(x = a, -d)
    /\ \A x \in Accounts, s \in Resources :
           /\ out'[x][s] = out[x][s] + When(x = a /\ s = r, d)
           /\ acquired'[x][s] = acquired[x][s] + When(x = b /\ s = r, d3)
    /\ \A x \in Accounts : votes'[x] = votes[x] \/ votes'[x] = 0
    /\ d >= 0 \/ votes'[a] = 0

\* What is lent to others moves with its entry: TRX, totals and votes.
LEMMA LendingMoves ==
    ASSUME IInv, TypeOK', NEW a \in Accounts, NEW b \in Accounts, a # b, NEW r \in Resources,
           NEW d \in Int, NEW d3 \in Int, d3 = d \/ (b \in Contracts /\ d3 >= d),
           EntryMoves(<<a, b>>, r, d), UNCHANGED <<frozen, stake2>>,
           CreditMoves(a, b, r, d, d3)
    PROVE  TrxConserved' /\ TotalsMatchEntries' /\ VotesWithinPower'
<1> USE DEF CreditMoves
<1> DEFINE p == <<a, b>>
<1>1. p \in Pairs /\ p[1] = a /\ EntryMoves(p, r, d)
  BY DEF Pairs
<1> HIDE DEF p
<1>2. /\ TypeOK /\ TrxConserved /\ TotalsMatchEntries /\ VotesWithinPower
      /\ UNCHANGED <<frozenV2, unfrozenV2, delegatedV2, outV2, acquiredV2, frozen>>
  BY DEF IInv, stake2
<1>4. EntryMovesV2(p, r, 0)
  BY <1>1, <1>2, Naturals DEF EntryMovesV2, When
<1>5. TrxConserved'
  <2>1. LentMoves(p, r, d)
    BY <1>1, <1>2, Naturals DEF LentMoves, EntryMoves, When
  <2>2. \A x \in Accounts : LentOut(x)' = LentOut(x) + When(x = a, d)
    BY <1>1, <1>2, <2>1, LentShift
  <2>3. /\ \A x \in Accounts : Staked(x)' = Staked(x) + When(x = a, 0)
        /\ \A x \in Accounts : Waiting(x)' = Waiting(x) + When(x = a, 0)
    BY <1>2, Still
  <2>4. Moves(a, -d, 0, d, 0)
    BY <2>2, <2>3 DEF Moves
  <2>5. QED
    BY <1>2, <2>4, Conserved
<1>6. TotalsMatchEntries'
  <2>1. \A x \in Accounts, s \in Resources :
            /\ outV2'[x][s] = outV2[x][s] + When(x = a /\ s = r, 0)
            /\ acquiredV2'[x][s] = acquiredV2[x][s] + When(x = b /\ s = r, 0)
    BY <1>2, Naturals DEF When
  <2>2. EntryMoves(<<a, b>>, r, d) /\ EntryMovesV2(<<a, b>>, r, 0)
    BY <1>4 DEF p
  <2>3. TotalMoves(a, b, r, d, 0, d3)
    BY <2>1 DEF TotalMoves
  <2>4. QED
    BY <1>2, <2>2, <2>3, TotalsShift
<1>7. VotesWithinPower'
  <2>1. PowerMoves(a, r, d)
    <3>1. \A x \in Accounts, s \in Resources : /\ frozen[x][s].amount \in Nat /\ out[x][s] \in Nat
                                                /\ frozenV2[x][s] \in Nat /\ outV2[x][s] \in Nat
      BY <1>2, Naturals
    <3>2. QED
      BY <1>2, <3>1 DEF When, PowerMoves
  <2>2. \A x \in Accounts : TronPower(x)' = TronPower(x) + When(x = a, d)
    BY <1>2, <2>1, PowerShift
  <2>3. QED
    BY <1>2, <2>2, VotesKept
<1>8. QED
  BY <1>5, <1>6, <1>7

\* The type invariant and the indexes' own.
LEMMA IndexParts ==
    /\ TypeOK => IndexTyped
    /\ IInv => IndexTyped /\ IndexTidy /\ Matches /\ MatchesV2
BY PairByPair DEF IInv, TypeOK, IndexTyped

\* Freezing for somebody else.
LEMMA FreezeBalanceForInv ==
    ASSUME IInv, NEW a \in Accounts, NEW b \in Accounts, a # b, NEW sun \in Amounts,
           NEW r \in Resources, FreezeBalanceFor(a, b, sun, r)
    PROVE  IInv'
<1> DEFINE p == <<a, b>>
           e == [amount |-> delegated[p][r].amount + sun, expire |-> now + FrozenTime]
           d == WeightDelta(Trx(sun), Trx(acquired[b][r] + sun) - Trx(acquired[b][r]))
           u == out[a][r] + sun
           v == acquired[b][r] + sun
<1>1. TypeOK /\ sun \in Nat /\ sun > 0 /\ -sun \in Int
  BY StakeAssumption DEF IInv
<1>2. /\ delegated' = [delegated EXCEPT ![p][r] = e] /\ AddWeight(r, d)
      /\ out' = [out EXCEPT ![a][r] = u] /\ acquired' = [acquired EXCEPT ![b][r] = v]
      /\ balance' = [balance EXCEPT ![a] = @ - sun] /\ sun <= balance[a]
      /\ RecordDelegationIndex(a, b)
      /\ UNCHANGED <<now, flags, votes, frozen, stake2>>
  BY DEF FreezeBalanceFor, CanFreeze
<1>3. p \in Pairs /\ (\A q \in Pairs : q = p <=> q = <<a, b>>)
  BY DEF Pairs
<1>4. /\ e \in Entry /\ e.amount = delegated[p][r].amount + sun /\ u \in Nat /\ v \in Nat
  <2>1. /\ out[a][r] \in Nat /\ acquired[b][r] \in Nat /\ delegated[p][r].amount \in Nat
        /\ now + FrozenTime \in Nat
    BY <1>1, <1>3, Naturals, Times
  <2> HIDE DEF p
  <2>2. QED
    BY <1>1, <2>1 DEF Entry
<1>5. d \in Int
  <2>1. acquired[b][r] \in Nat
    BY <1>1, Naturals
  <2>2. QED
    BY <1>1, <2>1, TrxInt DEF WeightDelta
<1>6. /\ IsCell(Pairs, Entry, delegated, delegated', p, r, e)
      /\ IsCell(Accounts, Nat, out, out', a, r, u)
      /\ IsCell(Accounts, Nat, acquired, acquired', b, r, v)
  <2> HIDE DEF p, e, u, v
  <2>1. /\ delegated \in [Pairs -> [Resources -> Entry]] /\ out \in [Accounts -> [Resources -> Nat]]
        /\ acquired \in [Accounts -> [Resources -> Nat]]
    BY <1>1 DEF TypeOK, Held
  <2>2. QED
    BY <1>2, <1>3, <1>4, <2>1, Cell
<1> HIDE DEF p, e, d
<1>7. balance' \in [Accounts -> Nat] /\ \A x \in Accounts : balance'[x] = balance[x] + When(x = a, -sun)
  <2>1. balance \in [Accounts -> Nat]
    BY <1>1 DEF TypeOK
  <2>2. QED
    BY <1>1, <1>2, <2>1 DEF When
<1>8. EntryMoves(p, r, sun)
  <2>1. \A q \in Pairs, s \in Resources : delegated[q][s].amount \in Nat
    BY <1>1, Naturals
  <2>2. QED
    BY <1>1, <1>4, <1>6, <2>1 DEF EntryMoves, IsCell, When
<1>9. IndexTyped' /\ IndexTidy' /\ Matches'
  <2>1. \A q \in Pairs : Lent(q)' <=> Lent(q) \/ q = <<a, b>>
    <3> SUFFICES ASSUME NEW q \in Pairs PROVE Lent(q)' <=> Lent(q) \/ q = p
      BY DEF p
    <3>1. \A s \in Resources : delegated[q][s].amount \in Nat
      BY <1>1, Naturals
    <3>2. CASE q = p
      <4>1. delegated'[q][r].amount > 0
        BY <1>1, <1>8, <3>1, <3>2 DEF EntryMoves, When
      <4>2. QED
        BY <3>2, <4>1 DEF Lent
    <3>3. CASE q # p
      <4>1. \A s \in Resources : delegated'[q][s].amount = delegated[q][s].amount
        BY <1>8, <3>1, <3>3 DEF EntryMoves, When
      <4>2. QED
        BY <3>3, <4>1 DEF Lent
    <3>4. QED
      BY <3>2, <3>3
  <2>2. QED
    BY <1>2, <2>1, IndexParts, RecordKeeps
<1>10. TypeOK'
  <2>1. weight' \in [Resources -> Int]
    BY <1>1, <1>2, <1>5, WeightTyped
  <2>2. /\ delegated' \in [Pairs -> [Resources -> Entry]]
        /\ out' \in [Accounts -> Held] /\ acquired' \in [Accounts -> Held]
    BY <1>6 DEF IsCell, Held
  <2>3. QED
    BY <1>1, <1>2, <1>7, <1>9, <2>1, <2>2 DEF TypeOK, IndexTyped, stake2
<1>11. TrxConserved' /\ TotalsMatchEntries' /\ VotesWithinPower'
  <2>1. \A x \in Accounts, s \in Resources :
               /\ out'[x][s] = out[x][s] + When(x = a /\ s = r, sun)
               /\ acquired'[x][s] = acquired[x][s] + When(x = b /\ s = r, sun)
    BY <1>1, <1>6, Naturals DEF IsCell, When
  <2>2. \A x \in Accounts : votes'[x] = votes[x] \/ votes'[x] = 0
    BY <1>2
  <2>3. EntryMoves(<<a, b>>, r, sun) /\ sun >= 0
    BY <1>1, <1>8 DEF p
  <2>4. CreditMoves(a, b, r, sun, sun)
    BY <1>7, <2>1, <2>2, <2>3 DEF CreditMoves
  <2>5. QED
    BY <1>1, <1>2, <1>10, <2>3, <2>4, LendingMoves
<1>12. IndexMatchesEntries'
  <2>1. MatchesV2'
    BY <1>2, IndexParts DEF MatchesV2, stake2
  <2>2. edgeIndex' \subseteq Pairs
    BY <1>9 DEF IndexTyped
  <2>3. QED
    BY <1>9, <2>1, <2>2 DEF IndexMatchesEntries, Matches, MatchesV2, Listed, Lent
<1>13. QED
  BY <1>9, <1>10, <1>11, <1>12 DEF IInv

\* Unfreezing one's own stake.
LEMMA UnfreezeBalanceInv ==
    ASSUME IInv, NEW a \in Accounts, NEW r \in Resources, UnfreezeBalance(a, r)
    PROVE  IInv'
<1> DEFINE sun == frozen[a][r].amount
           d == -Trx(sun)
<1>1. TypeOK /\ sun \in Nat /\ -sun \in Int
  BY Naturals DEF IInv
<1>2. /\ frozen' = [frozen EXCEPT ![a][r] = Nothing] /\ AddWeight(r, d)
      /\ balance' = [balance EXCEPT ![a] = @ + sun] /\ votes' = [votes EXCEPT ![a] = 0]
      /\ UNCHANGED <<now, flags, delegated, out, acquired, listIndex, edgeIndex>>
      /\ UNCHANGED <<frozenV2, unfrozenV2, delegatedV2, outV2, acquiredV2, edgeIndexV2>>
  BY DEF UnfreezeBalance, stake2
<1>3. Nothing \in Entry /\ Nothing.amount = 0
  BY DEF Nothing, Entry
<1>4. d \in Int
  BY <1>1, TrxInt
<1> HIDE DEF d
<1>5. IsCell(Accounts, Entry, frozen, frozen', a, r, Nothing)
  <2>1. frozen \in [Accounts -> [Resources -> Entry]]
    BY <1>1 DEF TypeOK
  <2>2. QED
    BY <1>2, <1>3, <2>1, Cell
<1>6. balance' \in [Accounts -> Nat] /\ \A x \in Accounts : balance'[x] = balance[x] + When(x = a, sun)
  <2>1. balance \in [Accounts -> Nat]
    BY <1>1 DEF TypeOK
  <2> HIDE DEF sun
  <2>2. QED
    BY <1>1, <1>2, <2>1 DEF When
<1>7. /\ votes' \in [Accounts -> Nat] /\ votes'[a] = 0
      /\ \A x \in Accounts : votes'[x] = votes[x] \/ votes'[x] = 0
  <2>1. votes \in [Accounts -> Nat]
    BY <1>1 DEF TypeOK
  <2>2. QED
    BY <1>2, <2>1
<1>8. TypeOK'
  <2>1. weight' \in [Resources -> Int] /\ frozen' \in [Accounts -> [Resources -> Entry]]
    BY <1>1, <1>2, <1>4, <1>5, WeightTyped DEF IsCell
  <2>2. QED
    BY <1>1, <1>2, <1>6, <1>7, <2>1 DEF TypeOK
<1>9. \A x \in Accounts, s \in Resources :
          frozen'[x][s].amount = frozen[x][s].amount + When(x = a /\ s = r, -sun)
  <2>1. \A x \in Accounts, s \in Resources : frozen[x][s].amount \in Nat
    BY <1>1, Naturals
  <2>2. QED
    BY <1>1, <1>3, <1>5, <2>1 DEF IsCell, When
<1> HIDE DEF sun
<1>10. TrxConserved'
  <2>1. \A x \in Accounts : Staked(x)' = Staked(x) + When(x = a, -sun)
    <3>1. StakeMoves(a, r, -sun)
      BY <1>1, <1>2, <1>9, Naturals DEF When, StakeMoves
    <3>2. QED
      BY <1>1, <1>8, <3>1, StakedShift
  <2>2. /\ \A x \in Accounts : LentOut(x)' = LentOut(x) + When(x = a, 0)
        /\ \A x \in Accounts : Waiting(x)' = Waiting(x) + When(x = a, 0)
    BY <1>1, <1>2, Still
  <2>3. Moves(a, sun, -sun, 0, 0)
    BY <1>6, <2>1, <2>2 DEF Moves
  <2>4. QED
    BY <1>1, <2>3, Conserved DEF IInv
<1>11. VotesWithinPower'
  <2>1. PowerMoves(a, r, -sun)
    <3>1. \A x \in Accounts, s \in Resources : /\ frozen[x][s].amount \in Nat /\ out[x][s] \in Nat
                                                /\ frozenV2[x][s] \in Nat /\ outV2[x][s] \in Nat
      BY <1>1, Naturals
    <3>2. QED
      BY <1>1, <1>2, <1>9, <3>1 DEF When, PowerMoves
  <2>2. \A x \in Accounts : TronPower(x)' = TronPower(x) + When(x = a, -sun)
    BY <1>1, <1>8, <2>1, PowerShift
  <2>3. QED
    BY <1>1, <1>7, <1>8, <2>2, VotesKept DEF IInv
<1>12. QED
  BY <1>2, <1>8, <1>10, <1>11, LendingStill DEF IInv

\* Unfreezing what was lent: the clamped subtraction never clamps, and the
\* index drops the pair when its last entry goes.
LEMMA UnfreezeBalanceFromInv ==
    ASSUME IInv, NEW a \in Accounts, NEW b \in Accounts, a # b, NEW r \in Resources,
           UnfreezeBalanceFrom(a, b, r)
    PROVE  IInv'
<1> DEFINE p == <<a, b>>
           sun == delegated[p][r].amount
           spared == "constantinople" \in flags /\ b \in Contracts
           oldWeight == IF "solidity059" \in flags /\ acquired[b][r] < sun
                        THEN Trx(sun) ELSE Trx(acquired[b][r])
           decrease == IF spared THEN -Trx(sun) ELSE Trx(AcquiredLeft(b, r, sun)) - oldWeight
           d == WeightDelta(-Trx(sun), decrease)
           u == out[a][r] - sun
           v == IF spared THEN acquired[b][r] ELSE AcquiredLeft(b, r, sun)
           d3 == IF spared THEN 0 ELSE -sun
<1>1. TypeOK /\ TotalsMatchEntries /\ IndexTyped /\ IndexTidy /\ Matches
  BY IndexParts DEF IInv
<1>2. p \in Pairs /\ (\A q \in Pairs : q = p <=> q = <<a, b>>)
  BY DEF Pairs
<1>3. /\ delegated' = [delegated EXCEPT ![p][r] = Nothing] /\ AddWeight(r, d)
      /\ out' = [out EXCEPT ![a][r] = u]
      /\ acquired' = IF spared THEN acquired
                     ELSE [acquired EXCEPT ![b][r] = AcquiredLeft(b, r, sun)]
      /\ balance' = [balance EXCEPT ![a] = @ + sun] /\ votes' = [votes EXCEPT ![a] = 0]
      /\ IF \A s \in Resources : delegated'[p][s].amount = 0
         THEN DropDelegationIndex(a, b) ELSE UNCHANGED <<listIndex, edgeIndex>>
      /\ sun > 0 /\ UNCHANGED <<now, flags, frozen, stake2>>
  BY DEF UnfreezeBalanceFrom, CanUnfreezeFrom
<1>4. /\ sun \in Nat /\ out[a][r] \in Nat /\ acquired[b][r] \in Nat
      /\ sun <= out[a][r] /\ sun <= acquired[b][r] /\ -sun \in Int
  BY <1>1, <1>2, Naturals, EntryBelow
<1> HIDE DEF sun, p
<1>5. /\ AcquiredLeft(b, r, sun) = acquired[b][r] - sun /\ u \in Nat
      /\ v \in Nat /\ v = acquired[b][r] + d3 /\ d3 \in Int
      /\ d3 = -sun \/ (b \in Contracts /\ d3 >= -sun)
  BY <1>4 DEF AcquiredLeft
<1>6. d \in Int
  <2>1. /\ Trx(sun) \in Int /\ Trx(acquired[b][r]) \in Int
        /\ Trx(AcquiredLeft(b, r, sun)) \in Int
    BY <1>4, <1>5, TrxInt
  <2>2. QED
    BY <2>1 DEF WeightDelta
<1>7. Nothing \in Entry /\ Nothing.amount = 0
  BY DEF Nothing, Entry
<1> HIDE DEF d
<1>8. /\ IsCell(Pairs, Entry, delegated, delegated', p, r, Nothing)
      /\ IsCell(Accounts, Nat, out, out', a, r, u)
      /\ IsCell(Accounts, Nat, acquired, acquired', b, r, v)
  <2>1. /\ delegated \in [Pairs -> [Resources -> Entry]] /\ out \in [Accounts -> [Resources -> Nat]]
        /\ acquired \in [Accounts -> [Resources -> Nat]]
    BY <1>1 DEF TypeOK, Held
  <2>2. acquired' = [acquired EXCEPT ![b][r] = v]
    BY <1>3, <2>1
  <2> HIDE DEF u, v
  <2>3. QED
    BY <1>2, <1>3, <1>5, <1>7, <2>1, <2>2, Cell
<1> HIDE DEF u, v, d3
<1>9. balance' \in [Accounts -> Nat] /\ \A x \in Accounts : balance'[x] = balance[x] + When(x = a, sun)
  <2>1. balance \in [Accounts -> Nat]
    BY <1>1 DEF TypeOK
  <2>2. QED
    BY <1>3, <1>4, <2>1 DEF When
<1>10. /\ votes' \in [Accounts -> Nat] /\ votes'[a] = 0
       /\ \A x \in Accounts : votes'[x] = votes[x] \/ votes'[x] = 0
  <2>1. votes \in [Accounts -> Nat]
    BY <1>1 DEF TypeOK
  <2>2. QED
    BY <1>3, <2>1
<1>11. EntryMoves(p, r, -sun)
  <2>1. \A q \in Pairs, s \in Resources : delegated[q][s].amount \in Nat
    BY <1>1, Naturals
  <2>2. sun = delegated[p][r].amount
    BY DEF sun
  <2>3. QED
    BY <1>4, <1>7, <1>8, <2>1, <2>2 DEF EntryMoves, IsCell, When
<1>12. IndexTyped' /\ IndexTidy' /\ Matches'
  <2>1. \A q \in Pairs, s \in Resources :
            /\ delegated[q][s].amount \in Nat
            /\ q # p => delegated'[q][s].amount = delegated[q][s].amount
    <3>1. \A q \in Pairs, s \in Resources : delegated[q][s].amount \in Nat
      BY <1>1, Naturals
    <3>2. QED
      BY <1>11, <3>1 DEF EntryMoves, When
  <2>2. \A q \in Pairs : q # p => (Lent(q)' <=> Lent(q))
    BY <2>1 DEF Lent
  <2>3. Lent(p)
    BY <1>3 DEF Lent, sun
  <2>4. CASE \A s \in Resources : delegated'[p][s].amount = 0
    <3>1. ~Lent(p)'
      BY <2>4 DEF Lent
    <3>2. \A q \in Pairs : Lent(q)' <=> Lent(q) /\ q # <<a, b>>
      BY <1>2, <2>2, <2>3, <3>1
    <3>3. QED
      BY <1>1, <1>3, <2>4, <3>2, DropKeeps
  <2>5. CASE ~(\A s \in Resources : delegated'[p][s].amount = 0)
    <3>1. PICK s \in Resources : delegated'[p][s].amount # 0
      BY <2>5
    <3>2. delegated'[p][s].amount > 0
      <4>1. delegated'[p][s] \in Entry
        BY <1>2, <1>8 DEF IsCell
      <4>2. QED
        BY <3>1, <4>1 DEF Entry
    <3>3. Lent(p)'
      BY <3>2 DEF Lent
    <3>4. \A q \in Pairs : Lent(q)' <=> Lent(q)
      BY <2>2, <2>3, <3>3
    <3>5. UNCHANGED <<listIndex, edgeIndex, flags>>
      BY <1>3, <2>5
    <3>6. Matches'
      BY <1>1, <3>4, <3>5 DEF Matches, Listed
    <3>7. QED
      BY <1>1, <3>5, <3>6 DEF IndexTyped, IndexTidy
  <2>6. QED
    BY <2>4, <2>5
<1>13. TypeOK'
  <2>1. weight' \in [Resources -> Int]
    BY <1>1, <1>3, <1>6, WeightTyped
  <2>2. /\ delegated' \in [Pairs -> [Resources -> Entry]]
        /\ out' \in [Accounts -> Held] /\ acquired' \in [Accounts -> Held]
    BY <1>8 DEF IsCell, Held
  <2>3. QED
    BY <1>1, <1>3, <1>9, <1>10, <1>12, <2>1, <2>2 DEF TypeOK, IndexTyped, stake2
<1>14. TrxConserved' /\ TotalsMatchEntries' /\ VotesWithinPower'
  <2> DEFINE m == -sun
  <2>1. \A x \in Accounts, s \in Resources :
               /\ out'[x][s] = out[x][s] + When(x = a /\ s = r, m)
               /\ acquired'[x][s] = acquired[x][s] + When(x = b /\ s = r, d3)
    <3>1. \A x \in Accounts, s \in Resources : out[x][s] \in Nat /\ acquired[x][s] \in Nat
      BY <1>1, Naturals
    <3>2. u = out[a][r] + (-sun)
      BY <1>4 DEF u
    <3>3. QED
      BY <1>4, <1>5, <1>8, <3>1, <3>2 DEF IsCell, When
  <2>2. EntryMoves(<<a, b>>, r, m)
    BY <1>11 DEF p
  <2>3. \A x \in Accounts : balance'[x] = balance[x] + When(x = a, -m)
    BY <1>4, <1>9
  <2>4. UNCHANGED <<frozen, stake2>>
    BY <1>3
  <2>5. m \in Int /\ d3 \in Int /\ (d3 = m \/ (b \in Contracts /\ d3 >= m))
    BY <1>4, <1>5
  <2>6. CreditMoves(a, b, r, m, d3)
    BY <1>10, <2>1, <2>3 DEF CreditMoves
  <2> HIDE DEF m
  <2>7. QED
    BY <1>13, <2>2, <2>4, <2>5, <2>6, LendingMoves
<1>15. IndexMatchesEntries'
  <2>1. MatchesV2'
    BY <1>3, IndexParts DEF MatchesV2, stake2
  <2>2. edgeIndex' \subseteq Pairs
    BY <1>12 DEF IndexTyped
  <2>3. QED
    BY <1>12, <2>1, <2>2 DEF IndexMatchesEntries, Matches, MatchesV2, Listed, Lent
<1>16. QED
  BY <1>12, <1>13, <1>14, <1>15 DEF IInv

-----------------------------------------------------------------------------
(* The actions of Stake 2.0.                                               *)

(* The step moves d into a's frozen balance of Stake 2.0.                  *)
FrozenMoves(a, r, d) ==
    \A x \in Accounts, s \in Resources :
        frozenV2'[x][s] = frozenV2[x][s] + When(x = a /\ s = r, d)

\* What a frozen balance gains, its owner's stake and power gain.
LEMMA FrozenShift ==
    ASSUME TypeOK, TypeOK', NEW a \in Accounts, NEW r \in Resources, NEW d \in Int,
           FrozenMoves(a, r, d), UNCHANGED <<frozen, out, outV2>>
    PROVE  /\ \A x \in Accounts : Staked(x)' = Staked(x) + When(x = a, d)
           /\ \A x \in Accounts : TronPower(x)' = TronPower(x) + When(x = a, d)
<1>1. \A x \in Accounts, s \in Resources : /\ frozen[x][s].amount \in Nat /\ out[x][s] \in Nat
                                            /\ frozenV2[x][s] \in Nat /\ outV2[x][s] \in Nat
  BY Naturals
<1>2. StakeMoves(a, r, d)
  BY <1>1 DEF FrozenMoves, StakeMoves, When
<1>3. PowerMoves(a, r, d)
  BY <1>1 DEF FrozenMoves, PowerMoves, When
<1>4. QED
  BY <1>2, <1>3, StakedShift, PowerShift

\* A holder's whole TRX.
LEMMA WeightV2Int ==
    ASSUME TypeOK, NEW a \in Accounts, NEW r \in Resources, NEW f \in Nat
    PROVE  WeightV2(a, r, f) \in Int
<1>1. f + outV2[a][r] \in Int
  BY Naturals
<1>2. QED
  BY <1>1, TrxInt DEF WeightV2

\* Freezing under Stake 2.0.
LEMMA FreezeBalanceV2Inv ==
    ASSUME IInv, NEW a \in Accounts, NEW sun \in Amounts, NEW r \in Resources,
           FreezeBalanceV2(a, sun, r)
    PROVE  IInv'
<1> DEFINE v == frozenV2[a][r] + sun
           d == WeightV2(a, r, v) - WeightV2(a, r, frozenV2[a][r])
<1>1. TypeOK /\ sun \in Nat /\ sun > 0
  BY StakeAssumption DEF IInv
<1>2. /\ frozenV2' = [frozenV2 EXCEPT ![a][r] = v] /\ AddWeight(r, d)
      /\ balance' = [balance EXCEPT ![a] = @ - sun] /\ sun <= balance[a]
      /\ UNCHANGED <<now, flags, votes, frozen, delegated, out, acquired, listIndex, edgeIndex>>
      /\ UNCHANGED <<unfrozenV2, delegatedV2, outV2, acquiredV2, edgeIndexV2>>
  BY DEF FreezeBalanceV2, stake1
<1>3. frozenV2[a][r] \in Nat /\ v \in Nat
  BY <1>1, Naturals
<1>4. d \in Int
  <2> HIDE DEF v
  <2>1. QED
    BY <1>1, <1>3, WeightV2Int
<1> HIDE DEF d
<1>5. IsCell(Accounts, Nat, frozenV2, frozenV2', a, r, v)
  <2>1. frozenV2 \in [Accounts -> [Resources -> Nat]]
    BY <1>1 DEF TypeOK, Held
  <2> HIDE DEF v
  <2>2. QED
    BY <1>2, <1>3, <2>1, Cell
<1>6. balance' \in [Accounts -> Nat] /\ \A x \in Accounts : balance'[x] = balance[x] + When(x = a, -sun)
  <2>1. balance \in [Accounts -> Nat]
    BY <1>1 DEF TypeOK
  <2>2. QED
    BY <1>1, <1>2, <2>1 DEF When
<1>7. TypeOK'
  <2>1. weight' \in [Resources -> Int] /\ frozenV2' \in [Accounts -> Held]
    BY <1>1, <1>2, <1>4, <1>5, WeightTyped DEF IsCell, Held
  <2>2. QED
    BY <1>1, <1>2, <1>6, <2>1 DEF TypeOK
<1>8. FrozenMoves(a, r, sun)
  <2>1. \A x \in Accounts, s \in Resources : frozenV2[x][s] \in Nat
    BY <1>1, Naturals
  <2>2. QED
    BY <1>1, <1>5, <2>1 DEF IsCell, When, FrozenMoves
<1>9. /\ \A x \in Accounts : Staked(x)' = Staked(x) + When(x = a, sun)
      /\ \A x \in Accounts : TronPower(x)' = TronPower(x) + When(x = a, sun)
  BY <1>1, <1>2, <1>7, <1>8, FrozenShift
<1>10. TrxConserved'
  <2>1. /\ \A x \in Accounts : LentOut(x)' = LentOut(x) + When(x = a, 0)
        /\ \A x \in Accounts : Waiting(x)' = Waiting(x) + When(x = a, 0)
    BY <1>1, <1>2, Still
  <2>2. Moves(a, -sun, sun, 0, 0)
    BY <1>6, <1>9, <2>1 DEF Moves
  <2>3. QED
    BY <1>1, <2>2, Conserved DEF IInv
<1>11. VotesWithinPower'
  BY <1>1, <1>2, <1>7, <1>9, VotesKept DEF IInv
<1>12. QED
  BY <1>2, <1>7, <1>10, <1>11, LendingStill DEF IInv

\* The list of a's unfreezing entries is replaced by us.
LEMMA WaitingBecomes ==
    ASSUME TypeOK, NEW a \in Accounts, NEW us \in Seq(Entry), Len(us) <= UnfreezeMaxTimes,
           unfrozenV2' = [unfrozenV2 EXCEPT ![a] = us]
    PROVE  /\ unfrozenV2' \in [Accounts -> Seq(Entry)]
           /\ \A x \in Accounts : Len(unfrozenV2'[x]) <= UnfreezeMaxTimes
           /\ \A x \in Accounts : Waiting(x)' = IF x = a THEN Sun(us) ELSE Waiting(x)
<1>1. unfrozenV2 \in [Accounts -> Seq(Entry)]
  BY DEF TypeOK
<1>2. \A x \in Accounts : unfrozenV2'[x] = IF x = a THEN us ELSE unfrozenV2[x]
  BY <1>1
<1>3. unfrozenV2' \in [Accounts -> Seq(Entry)]
  BY <1>1
<1>4. \A x \in Accounts : Len(unfrozenV2'[x]) <= UnfreezeMaxTimes
  BY <1>2 DEF TypeOK
<1>5. \A x \in Accounts : Waiting(x)' = IF x = a THEN Sun(us) ELSE Waiting(x)
  BY <1>2, SMTT(40) DEF Waiting, Sun
<1>6. QED
  BY <1>3, <1>4, <1>5

\* Unfreezing under Stake 2.0 sweeps first.
LEMMA UnfreezeBalanceV2Inv ==
    ASSUME IInv, NEW a \in Accounts, NEW sun \in Amounts, NEW r \in Resources,
           UnfreezeBalanceV2(a, sun, r)
    PROVE  IInv'
<1> DEFINE v == frozenV2[a][r] - sun
           d == WeightV2(a, r, v) - WeightV2(a, r, frozenV2[a][r])
           u == [amount |-> sun, expire |-> now + UnfreezeDelay]
           us == Append(Kept(a), u)
           m == MaturedSun(a)
<1>1. TypeOK /\ sun \in Nat /\ -sun \in Int
  BY StakeAssumption DEF IInv
<1>2. /\ frozenV2' = [frozenV2 EXCEPT ![a][r] = v] /\ AddWeight(r, d)
      /\ balance' = [balance EXCEPT ![a] = @ + m]
      /\ unfrozenV2' = [unfrozenV2 EXCEPT ![a] = us]
      /\ votes' = [votes EXCEPT ![a] = 0]
      /\ sun <= frozenV2[a][r] /\ Len(Kept(a)) < UnfreezeMaxTimes
      /\ UNCHANGED <<now, flags, frozen, delegated, out, acquired, listIndex, edgeIndex>>
      /\ UNCHANGED <<delegatedV2, outV2, acquiredV2, edgeIndexV2>>
  BY DEF UnfreezeBalanceV2, CanUnfreezeV2, stake1
<1>3. frozenV2[a][r] \in Nat /\ v \in Nat /\ v = frozenV2[a][r] + (-sun)
  BY <1>1, <1>2, Naturals
<1> HIDE DEF v
<1>4. d \in Int
  BY <1>1, <1>3, WeightV2Int
<1> HIDE DEF d
<1>5. /\ Kept(a) \in Seq(Entry) /\ m \in Nat /\ Sun(Kept(a)) \in Nat
      /\ Sun(Kept(a)) + m = Waiting(a)
  BY <1>1, Sweep
<1> HIDE DEF m
<1>6. /\ us \in Seq(Entry) /\ Len(us) <= UnfreezeMaxTimes
      /\ Sun(us) = Sun(Kept(a)) + sun
  <2>1. u \in Entry /\ u.amount = sun
    BY <1>1, Times DEF Entry
  <2> HIDE DEF u
  <2>2. us \in Seq(Entry) /\ Len(us) = Len(Kept(a)) + 1
    BY <1>5, <2>1
  <2>3. UnfreezeMaxTimes \in Nat /\ Len(Kept(a)) \in Nat
    BY <1>5, StakeAssumption
  <2>4. Sun(us) = Sun(Kept(a)) + sun
    BY <1>5, <2>1, SunAppend
  <2>5. QED
    BY <1>2, <2>2, <2>3, <2>4
<1> HIDE DEF us
<1>7. /\ unfrozenV2' \in [Accounts -> Seq(Entry)]
      /\ \A x \in Accounts : Len(unfrozenV2'[x]) <= UnfreezeMaxTimes
      /\ \A x \in Accounts : Waiting(x)' = IF x = a THEN Sun(us) ELSE Waiting(x)
  BY <1>1, <1>2, <1>6, WaitingBecomes
<1>8. IsCell(Accounts, Nat, frozenV2, frozenV2', a, r, v)
  <2>1. frozenV2 \in [Accounts -> [Resources -> Nat]]
    BY <1>1 DEF TypeOK, Held
  <2>2. QED
    BY <1>2, <1>3, <2>1, Cell
<1>9. balance' \in [Accounts -> Nat] /\ \A x \in Accounts : balance'[x] = balance[x] + When(x = a, m)
  <2>1. balance \in [Accounts -> Nat]
    BY <1>1 DEF TypeOK
  <2>2. QED
    BY <1>2, <1>5, <2>1 DEF When
<1>10. /\ votes' \in [Accounts -> Nat] /\ votes'[a] = 0
       /\ \A x \in Accounts : votes'[x] = votes[x] \/ votes'[x] = 0
  <2>1. votes \in [Accounts -> Nat]
    BY <1>1 DEF TypeOK
  <2>2. QED
    BY <1>2, <2>1
<1>11. TypeOK'
  <2>1. weight' \in [Resources -> Int] /\ frozenV2' \in [Accounts -> Held]
    BY <1>1, <1>2, <1>4, <1>8, WeightTyped DEF IsCell, Held
  <2>2. QED
    BY <1>1, <1>2, <1>7, <1>9, <1>10, <2>1 DEF TypeOK
<1>12. FrozenMoves(a, r, -sun)
  <2>1. \A x \in Accounts, s \in Resources : frozenV2[x][s] \in Nat
    BY <1>1, Naturals
  <2>2. QED
    BY <1>1, <1>3, <1>8, <2>1 DEF IsCell, When, FrozenMoves
<1>13. /\ \A x \in Accounts : Staked(x)' = Staked(x) + When(x = a, -sun)
       /\ \A x \in Accounts : TronPower(x)' = TronPower(x) + When(x = a, -sun)
  BY <1>1, <1>2, <1>11, <1>12, FrozenShift
<1>14. TrxConserved'
  <2> DEFINE w == sun - m
  <2>1. \A x \in Accounts : LentOut(x)' = LentOut(x) + When(x = a, 0)
    BY <1>1, <1>2, Still
  <2>2. \A x \in Accounts : Waiting(x)' = Waiting(x) + When(x = a, w)
    <3>1. \A x \in Accounts : Waiting(x) \in Nat
      BY <1>1, HeldInt
    <3>2. QED
      BY <1>1, <1>5, <1>6, <1>7, <3>1 DEF When
  <2>3. w \in Int /\ m + (-sun) + 0 + w = 0
    BY <1>1, <1>5
  <2> HIDE DEF w
  <2>4. Moves(a, m, -sun, 0, w)
    BY <1>9, <1>13, <2>1, <2>2 DEF Moves
  <2>5. QED
    BY <1>1, <1>5, <2>3, <2>4, Conserved DEF IInv
<1>15. VotesWithinPower'
  BY <1>1, <1>10, <1>11, <1>13, VotesKept DEF IInv
<1>16. QED
  BY <1>2, <1>11, <1>14, <1>15, LendingStill DEF IInv

\* Withdrawing what has matured.
LEMMA WithdrawInv ==
    ASSUME IInv, NEW a \in Accounts, WithdrawExpireUnfreeze(a)
    PROVE  IInv'
<1> DEFINE us == Kept(a)
           m == MaturedSun(a)
<1>1. TypeOK
  BY DEF IInv
<1>2. /\ balance' = [balance EXCEPT ![a] = @ + m] /\ unfrozenV2' = [unfrozenV2 EXCEPT ![a] = us]
      /\ UNCHANGED <<now, flags, votes, weight, frozen, delegated, out, acquired, listIndex, edgeIndex>>
      /\ UNCHANGED <<frozenV2, delegatedV2, outV2, acquiredV2, edgeIndexV2>>
  BY DEF WithdrawExpireUnfreeze, stake1
<1>3. /\ us \in Seq(Entry) /\ Len(us) \in Nat /\ Len(us) <= Len(unfrozenV2[a])
      /\ m \in Nat /\ Sun(us) \in Nat /\ Sun(us) + m = Waiting(a)
  BY <1>1, Sweep
<1> HIDE DEF us, m
<1>4. Len(us) <= UnfreezeMaxTimes
  <2>1. Len(unfrozenV2[a]) <= UnfreezeMaxTimes /\ UnfreezeMaxTimes \in Nat
    BY <1>1, StakeAssumption DEF TypeOK
  <2>2. Len(unfrozenV2[a]) \in Nat
    BY <1>1, Naturals
  <2>3. QED
    BY <1>3, <2>1, <2>2
<1>5. /\ unfrozenV2' \in [Accounts -> Seq(Entry)]
      /\ \A x \in Accounts : Len(unfrozenV2'[x]) <= UnfreezeMaxTimes
      /\ \A x \in Accounts : Waiting(x)' = IF x = a THEN Sun(us) ELSE Waiting(x)
  BY <1>1, <1>2, <1>3, <1>4, WaitingBecomes
<1>6. balance' \in [Accounts -> Nat] /\ \A x \in Accounts : balance'[x] = balance[x] + When(x = a, m)
  <2>1. balance \in [Accounts -> Nat]
    BY <1>1 DEF TypeOK
  <2>2. QED
    BY <1>2, <1>3, <2>1 DEF When
<1>7. TypeOK'
  BY <1>1, <1>2, <1>5, <1>6 DEF TypeOK
<1>8. TrxConserved'
  <2> DEFINE w == -m
  <2>1. /\ \A x \in Accounts : LentOut(x)' = LentOut(x) + When(x = a, 0)
        /\ \A x \in Accounts : Staked(x)' = Staked(x) + When(x = a, 0)
    BY <1>1, <1>2, Still
  <2>2. \A x \in Accounts : Waiting(x)' = Waiting(x) + When(x = a, w)
    <3>1. \A x \in Accounts : Waiting(x) \in Nat
      BY <1>1, HeldInt
    <3>2. QED
      BY <1>3, <1>5, <3>1 DEF When
  <2>3. w \in Int /\ m + 0 + 0 + w = 0
    BY <1>3
  <2> HIDE DEF w
  <2>4. Moves(a, m, 0, 0, w)
    BY <1>6, <2>1, <2>2 DEF Moves
  <2>5. TypeOK /\ TrxConserved /\ m \in Int /\ 0 \in Int
    BY <1>1, <1>3 DEF IInv
  <2>6. QED
    BY <2>3, <2>4, <2>5, Conserved
<1>9. VotesWithinPower'
  BY <1>2 DEF IInv, VotesWithinPower, TronPower
<1>10. QED
  BY <1>2, <1>7, <1>8, <1>9, LendingStill DEF IInv

(* The step moves d from a's frozen balance into what it lends to b.       *)
LoanMoves(a, b, r, d) ==
    /\ EntryMovesV2(<<a, b>>, r, d)
    /\ \A x \in Accounts, s \in Resources :
           /\ frozenV2'[x][s] = frozenV2[x][s] + When(x = a /\ s = r, -d)
           /\ outV2'[x][s] = outV2[x][s] + When(x = a /\ s = r, d)
           /\ acquiredV2'[x][s] = acquiredV2[x][s] + When(x = b /\ s = r, d)

\* Stake that is lent under Stake 2.0, or comes back, stays its owner's.
LEMMA LoanKeeps ==
    ASSUME IInv, TypeOK', NEW a \in Accounts, NEW b \in Accounts, a # b, NEW r \in Resources,
           NEW d \in Int, LoanMoves(a, b, r, d), UNCHANGED <<balance, votes, stake1, unfrozenV2>>
    PROVE  TrxConserved' /\ TotalsMatchEntries' /\ VotesWithinPower'
<1> DEFINE p == <<a, b>>
           m == -d
<1>1. p \in Pairs /\ p[1] = a /\ EntryMovesV2(p, r, d)
  BY DEF Pairs, LoanMoves
<1> HIDE DEF p
<1>2. /\ TypeOK /\ TrxConserved /\ TotalsMatchEntries /\ VotesWithinPower
      /\ UNCHANGED <<frozen, delegated, out, acquired>>
  BY DEF IInv, stake1
<1>3. \A x \in Accounts, s \in Resources :
          /\ frozen[x][s].amount \in Nat /\ out[x][s] \in Nat /\ acquired[x][s] \in Nat
          /\ frozenV2[x][s] \in Nat /\ outV2[x][s] \in Nat
  BY <1>2, Naturals
<1>4. \A q \in Pairs, s \in Resources : delegated[q][s].amount \in Nat /\ delegatedV2[q][s] \in Nat
  BY <1>2, Naturals
<1>5. TrxConserved'
  <2>1. LentMoves(p, r, d)
    BY <1>1, <1>2, <1>4 DEF LentMoves, EntryMovesV2, When
  <2>2. \A x \in Accounts : LentOut(x)' = LentOut(x) + When(x = a, d)
    BY <1>1, <1>2, <2>1, LentShift
  <2>3. StakeMoves(a, r, m)
    BY <1>2, <1>3 DEF StakeMoves, LoanMoves, When
  <2>4. m \in Int /\ 0 + m + d + 0 = 0
    OBVIOUS
  <2> HIDE DEF m
  <2>5. \A x \in Accounts : Staked(x)' = Staked(x) + When(x = a, m)
    BY <1>2, <2>3, <2>4, StakedShift
  <2>6. /\ \A x \in Accounts : balance'[x] = balance[x] + When(x = a, 0)
        /\ \A x \in Accounts : Waiting(x)' = Waiting(x) + When(x = a, 0)
    BY <1>2, Still
  <2>7. Moves(a, 0, m, d, 0)
    BY <2>2, <2>5, <2>6 DEF Moves
  <2>8. TypeOK /\ TrxConserved /\ 0 \in Int
    BY <1>2
  <2>9. QED
    BY <2>4, <2>7, <2>8, Conserved
<1>6. TotalsMatchEntries'
  <2>1. EntryMoves(p, r, 0)
    BY <1>2, <1>4 DEF EntryMoves, When
  <2>2. TotalMoves(a, b, r, 0, d, 0)
    BY <1>2, <1>3 DEF TotalMoves, LoanMoves, When
  <2>3. EntryMoves(<<a, b>>, r, 0) /\ EntryMovesV2(<<a, b>>, r, d)
    BY <2>1, <1>1 DEF p
  <2>4. QED
    BY <1>2, <2>2, <2>3, TotalsShift
<1>7. VotesWithinPower'
  <2>1. PowerMoves(a, r, 0)
    BY <1>2, <1>3 DEF PowerMoves, LoanMoves, When
  <2>2. \A x \in Accounts : TronPower(x)' = TronPower(x) + When(x = a, 0)
    BY <1>2, <2>1, PowerShift
  <2>3. \A x \in Accounts : votes'[x] = votes[x] \/ votes'[x] = 0
    OBVIOUS
  <2>4. QED
    BY <1>2, <2>2, <2>3, VotesKept
<1>8. QED
  BY <1>5, <1>6, <1>7

\* Lending under Stake 2.0.
LEMMA DelegateInv ==
    ASSUME IInv, NEW a \in Accounts, NEW b \in Accounts, a # b, NEW sun \in Amounts,
           NEW r \in Resources, DelegateResource(a, b, sun, r)
    PROVE  IInv'
<1> DEFINE p == <<a, b>>
           e == delegatedV2[p][r] + sun
           f == frozenV2[a][r] - sun
           u == outV2[a][r] + sun
           v == acquiredV2[b][r] + sun
<1>1. TypeOK /\ sun \in Nat /\ sun > 0 /\ -sun \in Int
  BY StakeAssumption DEF IInv
<1>2. /\ delegatedV2' = [delegatedV2 EXCEPT ![p][r] = e] /\ frozenV2' = [frozenV2 EXCEPT ![a][r] = f]
      /\ outV2' = [outV2 EXCEPT ![a][r] = u] /\ acquiredV2' = [acquiredV2 EXCEPT ![b][r] = v]
      /\ edgeIndexV2' = edgeIndexV2 \cup {p} /\ sun <= frozenV2[a][r]
      /\ UNCHANGED <<now, flags, balance, votes, weight, stake1, unfrozenV2>>
  BY DEF DelegateResource
<1>3. p \in Pairs
  BY DEF Pairs
<1> HIDE DEF p
<1>4. /\ delegatedV2[p][r] \in Nat /\ frozenV2[a][r] \in Nat /\ outV2[a][r] \in Nat
      /\ acquiredV2[b][r] \in Nat
  BY <1>1, <1>3, Naturals
<1>5. e \in Nat /\ f \in Nat /\ u \in Nat /\ v \in Nat /\ e > 0
  BY <1>1, <1>2, <1>4
<1>6. /\ IsCell(Pairs, Nat, delegatedV2, delegatedV2', p, r, e)
      /\ IsCell(Accounts, Nat, frozenV2, frozenV2', a, r, f)
      /\ IsCell(Accounts, Nat, outV2, outV2', a, r, u)
      /\ IsCell(Accounts, Nat, acquiredV2, acquiredV2', b, r, v)
  <2> HIDE DEF e, f, u, v
  <2>1. /\ delegatedV2 \in [Pairs -> [Resources -> Nat]] /\ frozenV2 \in [Accounts -> [Resources -> Nat]]
        /\ outV2 \in [Accounts -> [Resources -> Nat]] /\ acquiredV2 \in [Accounts -> [Resources -> Nat]]
    BY <1>1 DEF TypeOK, Held
  <2>2. QED
    BY <1>2, <1>3, <1>5, <2>1, Cell
<1>7. LoanMoves(a, b, r, sun)
  <2>1. \A x \in Accounts, s \in Resources :
            frozenV2[x][s] \in Nat /\ outV2[x][s] \in Nat /\ acquiredV2[x][s] \in Nat
    BY <1>1, Naturals
  <2>2. \A q \in Pairs, s \in Resources : delegatedV2[q][s] \in Nat
    BY <1>1, Naturals
  <2>3. EntryMovesV2(p, r, sun)
    BY <1>1, <1>6, <2>2 DEF IsCell, EntryMovesV2, When
  <2>4. \A x \in Accounts, s \in Resources :
           /\ frozenV2'[x][s] = frozenV2[x][s] + When(x = a /\ s = r, -sun)
           /\ outV2'[x][s] = outV2[x][s] + When(x = a /\ s = r, sun)
           /\ acquiredV2'[x][s] = acquiredV2[x][s] + When(x = b /\ s = r, sun)
    BY <1>1, <1>6, <2>1 DEF IsCell, When
  <2>5. QED
    BY <2>3, <2>4 DEF LoanMoves, p
<1>8. TypeOK'
  <2>1. /\ delegatedV2' \in [Pairs -> Held] /\ frozenV2' \in [Accounts -> Held]
        /\ outV2' \in [Accounts -> Held] /\ acquiredV2' \in [Accounts -> Held]
    BY <1>6 DEF IsCell, Held
  <2>2. edgeIndexV2' \subseteq Pairs
    BY <1>1, <1>2, <1>3 DEF TypeOK
  <2>3. QED
    BY <1>1, <1>2, <2>1, <2>2 DEF TypeOK, stake1
<1>9. TrxConserved' /\ TotalsMatchEntries' /\ VotesWithinPower'
  BY <1>1, <1>2, <1>7, <1>8, LoanKeeps
<1>10. IndexMatchesEntries' /\ IndexTidy'
  <2>1. Matches /\ MatchesV2 /\ IndexTidy
    BY IndexParts
  <2>2. Matches' /\ IndexTidy'
    BY <1>2, <2>1 DEF Matches, IndexTidy, Listed, Lent, stake1
  <2>3. MatchesV2'
    <3>1. ASSUME NEW q \in Pairs
          PROVE  (\E s \in Resources : delegatedV2'[q][s] > 0) <=> q \in edgeIndexV2'
      <4>1. (\E s \in Resources : delegatedV2[q][s] > 0) <=> q \in edgeIndexV2
        BY <2>1 DEF MatchesV2
      <4>2. CASE q = p
        BY <1>2, <1>3, <1>5, <1>6, <4>2 DEF IsCell
      <4>3. CASE q # p
        BY <1>2, <1>6, <4>1, <4>3 DEF IsCell
      <4>4. QED
        BY <4>2, <4>3
    <3>2. edgeIndexV2' \subseteq Pairs
      BY <1>8 DEF TypeOK
    <3>3. QED
      BY <3>1, <3>2 DEF MatchesV2
  <2>4. edgeIndex' \subseteq Pairs
    BY <1>8 DEF TypeOK
  <2>5. QED
    BY <2>2, <2>3, <2>4 DEF IndexMatchesEntries, Matches, MatchesV2, Listed, Lent
<1>11. QED
  BY <1>8, <1>9, <1>10 DEF IInv

\* Recalling under Stake 2.0: the clamped subtraction never clamps.
LEMMA UnDelegateInv ==
    ASSUME IInv, NEW a \in Accounts, NEW b \in Accounts, a # b, NEW sun \in Amounts,
           NEW r \in Resources, UnDelegateResource(a, b, sun, r)
    PROVE  IInv'
<1> DEFINE p == <<a, b>>
           e == delegatedV2[p][r] - sun
           f == frozenV2[a][r] + sun
           u == outV2[a][r] - sun
           v == IF acquiredV2[b][r] < sun THEN 0 ELSE acquiredV2[b][r] - sun
           d == -sun
<1>1. TypeOK /\ TotalsMatchEntries /\ sun \in Nat /\ d \in Int
  BY StakeAssumption DEF IInv
<1>2. /\ delegatedV2' = [delegatedV2 EXCEPT ![p][r] = e] /\ frozenV2' = [frozenV2 EXCEPT ![a][r] = f]
      /\ outV2' = [outV2 EXCEPT ![a][r] = u] /\ acquiredV2' = [acquiredV2 EXCEPT ![b][r] = v]
      /\ edgeIndexV2' = (IF \A s \in Resources : delegatedV2'[p][s] = 0
                         THEN edgeIndexV2 \ {p} ELSE edgeIndexV2)
      /\ sun <= delegatedV2[p][r]
      /\ UNCHANGED <<now, flags, balance, votes, weight, stake1, unfrozenV2>>
  BY DEF UnDelegateResource
<1>3. p \in Pairs
  BY DEF Pairs
<1>4. /\ delegatedV2[p][r] \in Nat /\ frozenV2[a][r] \in Nat /\ outV2[a][r] \in Nat
      /\ acquiredV2[b][r] \in Nat /\ delegatedV2[p][r] <= outV2[a][r]
      /\ delegatedV2[p][r] <= acquiredV2[b][r]
  BY <1>1, <1>3, Naturals, EntryBelow
<1> HIDE DEF p
<1>5. /\ e \in Nat /\ f \in Nat /\ u \in Nat /\ v \in Nat /\ v = acquiredV2[b][r] + d
      /\ u = outV2[a][r] + d /\ e = delegatedV2[p][r] + d /\ f = frozenV2[a][r] + (-d)
  BY <1>1, <1>2, <1>4
<1>6. /\ IsCell(Pairs, Nat, delegatedV2, delegatedV2', p, r, e)
      /\ IsCell(Accounts, Nat, frozenV2, frozenV2', a, r, f)
      /\ IsCell(Accounts, Nat, outV2, outV2', a, r, u)
      /\ IsCell(Accounts, Nat, acquiredV2, acquiredV2', b, r, v)
  <2> HIDE DEF e, f, u, v
  <2>1. /\ delegatedV2 \in [Pairs -> [Resources -> Nat]] /\ frozenV2 \in [Accounts -> [Resources -> Nat]]
        /\ outV2 \in [Accounts -> [Resources -> Nat]] /\ acquiredV2 \in [Accounts -> [Resources -> Nat]]
    BY <1>1 DEF TypeOK, Held
  <2>2. QED
    BY <1>2, <1>3, <1>5, <2>1, Cell
<1> HIDE DEF e, f, u, v, d
<1>7. LoanMoves(a, b, r, d)
  <2>1. \A x \in Accounts, s \in Resources :
            frozenV2[x][s] \in Nat /\ outV2[x][s] \in Nat /\ acquiredV2[x][s] \in Nat
    BY <1>1, Naturals
  <2>2. \A q \in Pairs, s \in Resources : delegatedV2[q][s] \in Nat
    BY <1>1, Naturals
  <2>3. EntryMovesV2(p, r, d)
    BY <1>1, <1>5, <1>6, <2>2 DEF IsCell, EntryMovesV2, When
  <2>4. \A x \in Accounts, s \in Resources :
           /\ frozenV2'[x][s] = frozenV2[x][s] + When(x = a /\ s = r, -d)
           /\ outV2'[x][s] = outV2[x][s] + When(x = a /\ s = r, d)
           /\ acquiredV2'[x][s] = acquiredV2[x][s] + When(x = b /\ s = r, d)
    BY <1>1, <1>5, <1>6, <2>1 DEF IsCell, When
  <2>5. QED
    BY <2>3, <2>4 DEF LoanMoves, p
<1>8. TypeOK'
  <2>1. /\ delegatedV2' \in [Pairs -> Held] /\ frozenV2' \in [Accounts -> Held]
        /\ outV2' \in [Accounts -> Held] /\ acquiredV2' \in [Accounts -> Held]
    BY <1>6 DEF IsCell, Held
  <2>2. edgeIndexV2' \subseteq Pairs
    BY <1>1, <1>2, <1>3 DEF TypeOK
  <2>3. QED
    BY <1>1, <1>2, <2>1, <2>2 DEF TypeOK, stake1
<1>9. TrxConserved' /\ TotalsMatchEntries' /\ VotesWithinPower'
  BY <1>1, <1>2, <1>7, <1>8, LoanKeeps
<1>10. IndexMatchesEntries' /\ IndexTidy'
  <2>1. Matches /\ MatchesV2 /\ IndexTidy
    BY IndexParts
  <2>2. Matches' /\ IndexTidy'
    BY <1>2, <2>1 DEF Matches, IndexTidy, Listed, Lent, stake1
  <2>3. MatchesV2'
    <3>1. ASSUME NEW q \in Pairs
          PROVE  (\E s \in Resources : delegatedV2'[q][s] > 0) <=> q \in edgeIndexV2'
      <4>1. (\E s \in Resources : delegatedV2[q][s] > 0) <=> q \in edgeIndexV2
        BY <2>1 DEF MatchesV2
      <4>2. \A s \in Resources : delegatedV2'[q][s] \in Nat
        BY <1>6 DEF IsCell
      <4>3. CASE q = p
        <5>1. q \in edgeIndexV2
          <6>1. delegatedV2[p][r] > 0
            <7>1. sun > 0
              BY StakeAssumption
            <7>2. QED
              BY <1>1, <1>2, <1>4, <7>1
          <6>2. QED
            BY <4>1, <4>3, <6>1
        <5>2. CASE \A s \in Resources : delegatedV2'[p][s] = 0
          BY <1>2, <4>3, <5>2
        <5>3. CASE ~(\A s \in Resources : delegatedV2'[p][s] = 0)
          <6>1. \E s \in Resources : delegatedV2'[q][s] > 0
            BY <4>2, <4>3, <5>3
          <6>2. edgeIndexV2' = edgeIndexV2
            BY <1>2, <5>3
          <6>3. QED
            BY <5>1, <6>1, <6>2
        <5>4. QED
          BY <5>2, <5>3
      <4>4. CASE q # p
        <5>1. \A s \in Resources : delegatedV2'[q][s] = delegatedV2[q][s]
          BY <1>6, <4>4 DEF IsCell
        <5>2. q \in edgeIndexV2' <=> q \in edgeIndexV2
          BY <1>2, <4>4
        <5>3. QED
          BY <4>1, <5>1, <5>2
      <4>5. QED
        BY <4>3, <4>4
    <3>2. edgeIndexV2' \subseteq Pairs
      BY <1>8 DEF TypeOK
    <3>3. QED
      BY <3>1, <3>2 DEF MatchesV2
  <2>4. edgeIndex' \subseteq Pairs
    BY <1>8 DEF TypeOK
  <2>5. QED
    BY <2>2, <2>3, <2>4 DEF IndexMatchesEntries, Matches, MatchesV2, Listed, Lent
<1>11. QED
  BY <1>8, <1>9, <1>10 DEF IInv

-----------------------------------------------------------------------------
(* Votes, time and proposals; every step.                                  *)

\* A number that an int64 can hold is kept as it is.
LEMMA AsInt64Exact ==
    ASSUME NEW v \in Nat, v < Int64Half
    PROVE  AsInt64(v) = v
<1> DEFINE m == 2 * Int64Half
           s == v + Int64Half
           q == s \div m
<1>1. Int64Half \in Nat \ {0} /\ m \in Nat \ {0} /\ s \in Nat /\ s < m
  BY StakeAssumption
<1>2. (s % m) \in Nat /\ q \in Nat /\ s = q * m + (s % m)
  <2> HIDE DEF m, s
  <2>1. QED
    BY <1>1, DivMod, DivNat DEF q
<1> DEFINE p == q * m
           r == s % m
<1>3. p \in Int /\ r \in Nat /\ s = p + r /\ (q >= 1 => m <= p) /\ (q = 0 => p = 0)
  <2> HIDE DEF m, s, q
  <2>1. q >= 1 => 1 * m <= q * m
    BY <1>1, <1>2, MulMono
  <2>2. QED
    BY <1>1, <1>2, <2>1
<1>4. r = s
  <2> HIDE DEF m, s, q, p, r
  <2>1. QED
    BY <1>1, <1>2, <1>3
<1>5. QED
  BY <1>1, <1>4 DEF AsInt64

\* Voting.
LEMMA VoteInv ==
    ASSUME IInv, NEW a \in Accounts, NEW n \in VoteCounts, VoteWitness(a, n)
    PROVE  IInv'
<1>1. /\ AsInt64(n * TrxPrecision) <= TronPower(a) /\ votes' = [votes EXCEPT ![a] = n]
      /\ UNCHANGED <<now, flags, balance, weight, frozen, delegated, out, acquired, listIndex, edgeIndex>>
      /\ UNCHANGED <<frozenV2, unfrozenV2, delegatedV2, outV2, acquiredV2, edgeIndexV2>>
  BY DEF VoteWitness, stake1, stake2
<1>2. n \in Nat /\ votes \in [Accounts -> Nat]
  BY StakeAssumption DEF IInv, TypeOK
<1>3. TypeOK'
  BY <1>1, <1>2 DEF IInv, TypeOK
<1>4. TrxConserved'
  BY <1>1 DEF IInv, TrxConserved, Holdings, Staked, LentOut, Waiting, EntriesOf
<1>5. VotesWithinPower'
  <2> SUFFICES ASSUME NEW x \in Accounts, votes'[x] * TrxPrecision < Int64Half
               PROVE votes'[x] * TrxPrecision <= TronPower(x)'
    BY DEF VotesWithinPower
  <2>1. TronPower(x)' = TronPower(x)
    BY <1>1 DEF TronPower
  <2>2. votes[x] * TrxPrecision < Int64Half => votes[x] * TrxPrecision <= TronPower(x)
    BY DEF IInv, VotesWithinPower
  <2>3. votes'[x] = IF x = a THEN n ELSE votes[x]
    BY <1>1, <1>2
  <2>4. CASE x = a
    <3>1. TrxPrecision \in Nat /\ n * TrxPrecision \in Nat /\ n * TrxPrecision < Int64Half
      BY <1>2, <2>3, <2>4, StakeAssumption, MulNat
    <3>2. AsInt64(n * TrxPrecision) = n * TrxPrecision
      BY <3>1, AsInt64Exact
    <3>3. QED
      BY <1>1, <2>1, <2>3, <2>4, <3>2
  <2>5. CASE x # a
    BY <2>1, <2>2, <2>3, <2>5
  <2>6. QED
    BY <2>4, <2>5
<1>6. QED
  BY <1>1, <1>3, <1>4, <1>5, LendingStill DEF IInv

\* Steps that leave all stake and votes alone.
LEMMA StakeStill ==
    ASSUME IInv, TypeOK', flags \subseteq flags', UNCHANGED <<balance, votes, stake1, stake2>>
    PROVE  IInv'
<1>1. /\ UNCHANGED <<balance, votes, frozen, delegated, out, acquired, listIndex, edgeIndex>>
      /\ UNCHANGED <<frozenV2, unfrozenV2, delegatedV2, outV2, acquiredV2, edgeIndexV2>>
  BY DEF stake1, stake2
<1>2. TrxConserved'
  BY <1>1 DEF IInv, TrxConserved, Holdings, Staked, LentOut, Waiting, EntriesOf
<1>3. VotesWithinPower'
  BY <1>1 DEF IInv, VotesWithinPower, TronPower
<1>4. TotalsMatchEntries'
  BY <1>1, TotalsStill DEF IInv
<1>5. IndexMatchesEntries'
  BY <1>1 DEF IInv, IndexMatchesEntries
<1>6. IndexTidy'
  BY <1>1 DEF IInv, IndexTidy
<1>7. QED
  BY <1>2, <1>3, <1>4, <1>5, <1>6 DEF IInv

\* A later block.
LEMMA TickInv == ASSUME IInv, Tick PROVE IInv'
<1>1. MaxNow \in Nat
  BY StakeAssumption
<1>2. /\ now < MaxNow /\ now' = now + 1 /\ UNCHANGED <<flags, balance, votes, weight>>
      /\ UNCHANGED <<frozen, delegated, out, acquired, listIndex, edgeIndex>>
      /\ UNCHANGED <<frozenV2, unfrozenV2, delegatedV2, outV2, acquiredV2, edgeIndexV2>>
  BY DEF Tick, stake1, stake2
<1>3. TypeOK'
  BY <1>1, <1>2 DEF IInv, TypeOK
<1>4. QED
  BY <1>2, <1>3, StakeStill DEF stake1, stake2

\* A proposal comes into force.
LEMMA ActivateInv == ASSUME IInv, NEW f \in Proposals, Activate(f) PROVE IInv'
<1>1. f \in Flags
  BY StakeAssumption
<1>2. /\ flags' = flags \cup {f} /\ UNCHANGED <<now, balance, votes, weight>>
      /\ UNCHANGED <<frozen, delegated, out, acquired, listIndex, edgeIndex>>
      /\ UNCHANGED <<frozenV2, unfrozenV2, delegatedV2, outV2, acquiredV2, edgeIndexV2>>
  BY DEF Activate, stake1, stake2
<1>3. TypeOK'
  BY <1>1, <1>2 DEF IInv, TypeOK
<1>4. QED
  BY <1>2, <1>3, StakeStill DEF stake1, stake2

\* Before anything is staked.
LEMMA InitInv == ASSUME Init PROVE IInv
<1>1. TypeOK
  <2>1. Nothing \in Entry /\ <<>> \in Seq(Entry) /\ Len(<<>>) = 0
    BY DEF Nothing, Entry
  <2>2. /\ InitialFlags \subseteq Flags /\ InitialBalance \in [Accounts -> Nat]
        /\ UnfreezeMaxTimes \in Nat /\ MaxNow \in Nat
    BY StakeAssumption
  <2>3. now \in 0 .. MaxNow /\ flags \subseteq Flags /\ balance \in [Accounts -> Nat]
    BY <2>2 DEF Init
  <2>4. /\ votes \in [Accounts -> Nat] /\ weight \in [Resources -> Int]
        /\ frozen \in [Accounts -> [Resources -> Entry]]
        /\ delegated \in [Pairs -> [Resources -> Entry]]
        /\ listIndex \in [Accounts -> [to : SUBSET Accounts, from : SUBSET Accounts]]
        /\ edgeIndex \subseteq Pairs /\ edgeIndexV2 \subseteq Pairs
    BY <2>1 DEF Init
  <2>5. /\ out \in [Accounts -> Held] /\ acquired \in [Accounts -> Held]
        /\ frozenV2 \in [Accounts -> Held] /\ delegatedV2 \in [Pairs -> Held]
        /\ outV2 \in [Accounts -> Held] /\ acquiredV2 \in [Accounts -> Held]
    BY DEF Init, NoneHeld, Held
  <2>6. unfrozenV2 \in [Accounts -> Seq(Entry)] /\ \A a \in Accounts : Len(unfrozenV2[a]) <= UnfreezeMaxTimes
    BY <2>1, <2>2 DEF Init
  <2>7. QED
    BY <2>3, <2>4, <2>5, <2>6 DEF TypeOK
<1>2. /\ \A x \in Accounts, s \in Resources :
            /\ frozen[x][s].amount = 0 /\ out[x][s] = 0 /\ acquired[x][s] = 0
            /\ frozenV2[x][s] = 0 /\ outV2[x][s] = 0 /\ acquiredV2[x][s] = 0
      /\ \A p \in Pairs, s \in Resources : delegated[p][s].amount = 0 /\ delegatedV2[p][s] = 0
  BY DEF Init, NoneHeld, Nothing
<1>3. TrxConserved
  <2> SUFFICES ASSUME NEW x \in Accounts PROVE Holdings(x) = InitialBalance[x]
    BY DEF TrxConserved
  <2>1. Staked(x) = 0
    <3> DEFINE f == [s \in Resources |-> frozen[x][s].amount + frozenV2[x][s]]
    <3>1. f \in [Resources -> Int] /\ \A s \in Resources : f[s] = 0
      BY <1>2
    <3> HIDE DEF f
    <3>2. SumFunction(f) = 0
      BY <3>1, Finite, SumZero
    <3>3. QED
      BY <3>2 DEF f, Staked
  <2>2. LentOut(x) = 0
    <3> DEFINE S == EntriesOf(x) \X Resources
               f == [e \in S |-> delegated[e[1]][e[2]].amount + delegatedV2[e[1]][e[2]]]
    <3>1. \A e \in S : e[1] \in Pairs /\ e[2] \in Resources
      BY DEF EntriesOf
    <3>2. IsFiniteSet(S) /\ LentOut(x) = SumFunction(f)
      BY Finite DEF LentOut
    <3> HIDE DEF S
    <3>3. f \in [S -> Int] /\ \A e \in S : f[e] = 0
      BY <1>2, <3>1
    <3> HIDE DEF f
    <3>4. QED
      BY <3>2, <3>3, SumZero
  <2>3. Waiting(x) = 0
    <3>1. unfrozenV2[x] = <<>>
      BY DEF Init
    <3>2. DOMAIN [i \in DOMAIN <<>> |-> <<>>[i].amount] = {}
      OBVIOUS
    <3>3. QED
      BY <3>1, <3>2, SumEmpty DEF Waiting, SumFunction
  <2>4. balance[x] = InitialBalance[x] /\ InitialBalance[x] \in Nat
    BY StakeAssumption DEF Init
  <2>5. QED
    BY <2>1, <2>2, <2>3, <2>4 DEF Holdings
<1>4. ASSUME NEW E \in SUBSET Pairs, NEW s \in Resources
      PROVE  /\ SumFunction([p \in E |-> delegated[p][s].amount]) = 0
             /\ SumFunction([p \in E |-> delegatedV2[p][s]]) = 0
  <2> DEFINE f == [p \in E |-> delegated[p][s].amount]
             g == [p \in E |-> delegatedV2[p][s]]
  <2>1. /\ f \in [E -> Int] /\ \A p \in E : f[p] = 0
        /\ g \in [E -> Int] /\ \A p \in E : g[p] = 0
    BY <1>2
  <2>2. IsFiniteSet(E)
    BY Finite, FS_Subset
  <2> HIDE DEF f, g
  <2>3. SumFunction(f) = 0 /\ SumFunction(g) = 0
    BY <2>1, <2>2, SumZero
  <2>4. QED
    BY <2>3 DEF f, g
<1>5. TotalsMatchEntries
  <2>1. \A x \in Accounts : EntriesOf(x) \in SUBSET Pairs /\ EntriesTo(x) \in SUBSET Pairs
    BY DEF EntriesOf, EntriesTo
  <2>2. OutMatchesEntries
    BY <1>2, <1>4, <2>1 DEF OutMatchesEntries
  <2>3. AcquiredMatchesEntries
    <3> SUFFICES ASSUME NEW b \in Accounts, NEW s \in Resources
                 PROVE  /\ acquired[b][s] = 0 /\ acquiredV2[b][s] = 0
                        /\ SumFunction([p \in EntriesTo(b) |-> delegated[p][s].amount]) = 0
                        /\ SumFunction([p \in EntriesTo(b) |-> delegatedV2[p][s]]) = 0
      BY DEF AcquiredMatchesEntries
    <3>1. QED
      BY <1>2, <1>4, <2>1
  <2>4. QED
    BY <2>2, <2>3 DEF TotalsMatchEntries
<1>6. VotesWithinPower
  <2> SUFFICES ASSUME NEW x \in Accounts, votes[x] * TrxPrecision < Int64Half
               PROVE votes[x] * TrxPrecision <= TronPower(x)
    BY DEF VotesWithinPower
  <2>1. votes[x] = 0 /\ TrxPrecision \in Nat /\ TronPower(x) \in Nat
    BY <1>1, HeldInt, StakeAssumption DEF Init
  <2>2. QED
    BY <2>1
<1>7. IndexMatchesEntries /\ IndexTidy
  <2>1. edgeIndex = {} /\ edgeIndexV2 = {} /\ \A a \in Accounts : listIndex[a].to = {} /\ listIndex[a].from = {}
    BY DEF Init
  <2>2. IndexTidy
    BY <2>1 DEF IndexTidy
  <2>3. Matches
    <3>1. \A p \in Pairs : p[1] \in Accounts /\ p[2] \in Accounts
      BY DEF Pairs
    <3>2. QED
      BY <1>2, <2>1, <3>1 DEF Matches, Lent, Listed
  <2>4. MatchesV2
    BY <1>2, <2>1 DEF MatchesV2
  <2>5. QED
    BY <2>1, <2>2, <2>3, <2>4, PairByPair
<1>8. QED
  BY <1>1, <1>3, <1>5, <1>6, <1>7 DEF IInv

\* Every step keeps the invariant.
LEMMA StepInv == ASSUME IInv, [Next]_vars PROVE IInv'
<1>1. \A p \in Pairs : p[1] \in Accounts /\ p[2] \in Accounts /\ p[1] # p[2]
  BY DEF Pairs
<1>2. ASSUME NEW a \in Accounts, NEW sun \in Amounts, NEW r \in Resources, FreezeBalance(a, sun, r)
      PROVE  IInv'
  BY <1>2, FreezeBalanceInv
<1>3. ASSUME NEW a \in Accounts, NEW sun \in Amounts, NEW r \in Resources, FreezeBalanceV2(a, sun, r)
      PROVE  IInv'
  BY <1>3, FreezeBalanceV2Inv
<1>4. ASSUME NEW a \in Accounts, NEW sun \in Amounts, NEW r \in Resources,
             UnfreezeBalanceV2(a, sun, r)
      PROVE  IInv'
  BY <1>4, UnfreezeBalanceV2Inv
<1>5. ASSUME NEW p \in Pairs, NEW sun \in Amounts, NEW r \in Resources,
             FreezeBalanceFor(p[1], p[2], sun, r)
      PROVE  IInv'
  BY <1>1, <1>5, FreezeBalanceForInv
<1>6. ASSUME NEW p \in Pairs, NEW sun \in Amounts, NEW r \in Resources,
             DelegateResource(p[1], p[2], sun, r)
      PROVE  IInv'
  BY <1>1, <1>6, DelegateInv
<1>7. ASSUME NEW p \in Pairs, NEW sun \in Amounts, NEW r \in Resources,
             UnDelegateResource(p[1], p[2], sun, r)
      PROVE  IInv'
  BY <1>1, <1>7, UnDelegateInv
<1>8. ASSUME NEW a \in Accounts, NEW r \in Resources, UnfreezeBalance(a, r) PROVE IInv'
  BY <1>8, UnfreezeBalanceInv
<1>9. ASSUME NEW p \in Pairs, NEW r \in Resources, UnfreezeBalanceFrom(p[1], p[2], r) PROVE IInv'
  BY <1>1, <1>9, UnfreezeBalanceFromInv
<1>10. ASSUME NEW a \in Accounts, WithdrawExpireUnfreeze(a) PROVE IInv'
  BY <1>10, WithdrawInv
<1>11. ASSUME NEW a \in Accounts, NEW n \in VoteCounts, VoteWitness(a, n) PROVE IInv'
  BY <1>11, VoteInv
<1>12. CASE Tick
  BY <1>12, TickInv
<1>13. ASSUME NEW f \in Proposals, Activate(f) PROVE IInv'
  BY <1>13, ActivateInv
<1>14. CASE UNCHANGED vars
  <2>1. UNCHANGED <<now, flags, balance, votes, weight, stake1, stake2>>
    BY <1>14 DEF vars
  <2>2. TypeOK'
    BY <2>1 DEF IInv, TypeOK, stake1, stake2
  <2>3. QED
    BY <2>1, <2>2, StakeStill
<1>15. QED
  BY <1>2, <1>3, <1>4, <1>5, <1>6, <1>7, <1>8, <1>9, <1>10, <1>11, <1>12, <1>13, <1>14 DEF Next

-----------------------------------------------------------------------------
(* The theorems.                                                           *)

\* The invariant holds in every state of every behaviour.
THEOREM InductiveInvariant == Spec => []IInv
<1>1. Init => IInv
  BY InitInv
<1>2. IInv /\ [Next]_vars => IInv'
  BY StepInv
<1>3. QED
  BY <1>1, <1>2, PTL DEF Spec

\* No balance, stake or credit goes negative, and no account has more than
\* unfreezeMaxTimes unfreezing entries.
THEOREM TypeTheorem == Spec => []TypeOK
<1>1. IInv => TypeOK
  BY DEF IInv
<1>2. QED
  BY <1>1, InductiveInvariant, PTL

\* The actuators neither create nor destroy TRX, nor move any between accounts.
THEOREM ConservationTheorem == Spec => []TrxConserved
<1>1. IInv => TrxConserved
  BY DEF IInv
<1>2. QED
  BY <1>1, InductiveInvariant, PTL

\* The totals of owners and receivers are the sums of the delegation entries.
THEOREM TotalsTheorem == Spec => []TotalsMatchEntries
<1>1. IInv => TotalsMatchEntries
  BY DEF IInv
<1>2. QED
  BY <1>1, InductiveInvariant, PTL

\* Nobody holds more votes than its stake allows, unless their value in sun is
\* no int64.
THEOREM VotesTheorem == Spec => []VotesWithinPower
<1>1. IInv => VotesWithinPower
  BY DEF IInv
<1>2. QED
  BY <1>1, InductiveInvariant, PTL

\* The indexes name exactly the pairs with an entry, in either layout and
\* while one is replaced by the other.
THEOREM IndexTheorem == Spec => []IndexMatchesEntries
<1>1. IInv => IndexMatchesEntries
  BY DEF IInv
<1>2. QED
  BY <1>1, InductiveInvariant, PTL

-----------------------------------------------------------------------------
(* The network weights.                                                    *)

(* What an account adds to a network's weight, in whole TRX.               *)
Floors(x, s) ==
    Trx(frozen[x][s].amount) + Trx(acquired[x][s]) + Trx(frozenV2[x][s] + outV2[x][s])

FloorMoves(a, r, d) ==
    \A x \in Accounts, s \in Resources : Floors(x, s)' = Floors(x, s) + When(x = a /\ s = r, d)

(* Nothing is lent to a contract once contracts are spared.                *)
NoneToSpare ==
    \A p \in Pairs, r \in Resources :
        "constantinople" \in flags /\ p[2] \in Contracts => delegated[p][r].amount = 0

(* Whole TRX are counted by holder from the start, and no contract is lent *)
(* to before the rule that spares it.                                      *)
CountsFloors ==
    /\ "newReward" \in InitialFlags
    /\ \/ Contracts = {}
       \/ "constantinople" \in InitialFlags
       \/ "constantinople" \notin Proposals

WeightInv ==
    /\ IInv
    /\ InitialFlags \subseteq flags
    /\ NoneToSpare
    /\ WeightIsSumOfFloors

\* What an account adds is a natural number.
LEMMA FloorsNat ==
    ASSUME TypeOK, NEW x \in Accounts, NEW s \in Resources
    PROVE  Floors(x, s) \in Nat
<1>1. /\ frozen[x][s].amount \in Nat /\ acquired[x][s] \in Nat
      /\ frozenV2[x][s] \in Nat /\ outV2[x][s] \in Nat
  BY Naturals
<1>2. frozenV2[x][s] + outV2[x][s] \in Nat
  BY <1>1
<1>3. /\ Trx(frozen[x][s].amount) \in Nat /\ Trx(acquired[x][s]) \in Nat
      /\ Trx(frozenV2[x][s] + outV2[x][s]) \in Nat
  BY <1>1, <1>2, TrxInt
<1>4. QED
  BY <1>3 DEF Floors

\* The weight stays the sum when both move by the same; the clamp at zero
\* then never clamps.
LEMMA WeightShift ==
    ASSUME TypeOK, TypeOK', WeightIsSumOfFloors, NEW a \in Accounts, NEW r \in Resources,
           NEW d \in Int, FloorMoves(a, r, d), AddWeight(r, d)
    PROVE  WeightIsSumOfFloors'
<1> SUFFICES ASSUME NEW s \in Resources
             PROVE  weight'[s] = SumFunction([x \in Accounts |-> Floors(x, s)'])
  BY DEF WeightIsSumOfFloors, Floors
<1> DEFINE f == [x \in Accounts |-> Floors(x, s)]
           g == [x \in Accounts |-> Floors(x, s)']
           e == When(s = r, d)
<1>1. weight[s] = SumFunction(f) /\ weight \in [Resources -> Int]
  BY DEF WeightIsSumOfFloors, Floors, TypeOK
<1>2. f \in [Accounts -> Nat]
  BY FloorsNat
<1>3. g \in [Accounts -> Nat]
  <2> SUFFICES ASSUME NEW x \in Accounts PROVE Floors(x, s)' \in Nat
    OBVIOUS
  <2>1. frozen'[x][s].amount \in Nat /\ acquired'[x][s] \in Nat
    BY DEF TypeOK, Entry, Held
  <2>2. frozenV2'[x][s] \in Nat /\ outV2'[x][s] \in Nat
    BY DEF TypeOK, Held
  <2>3. /\ Trx(frozen'[x][s].amount) \in Nat /\ Trx(acquired'[x][s]) \in Nat
        /\ Trx(frozenV2'[x][s] + outV2'[x][s]) \in Nat
    BY <2>1, <2>2, TrxInt
  <2>4. QED
    BY <2>3 DEF Floors
<1>4. e \in Int
  BY DEF When
<1>5. Shifted(Accounts, f, g, a, e)
  BY <1>2, <1>3 DEF Shifted, FloorMoves, When
<1> HIDE DEF f, g, e
<1>6. SumFunction(g) = SumFunction(f) + When(a \in Accounts, e)
  BY <1>4, <1>5, StakeAssumption, SumShift
<1>7. SumFunction(g) \in Nat /\ SumFunction(f) \in Nat
  BY <1>2, <1>3, StakeAssumption, SumTypes
<1>8. weight'[s] = weight[s] + e
  <2>1. SumFunction(g) = weight[s] + e
    BY <1>1, <1>6 DEF When
  <2>2. CASE s = r
    <3>1. e = d
      BY <2>2 DEF e, When
    <3>2. ~(weight[r] + d < 0)
      BY <1>1, <1>7, <2>1, <2>2, <3>1
    <3>3. QED
      BY <1>1, <2>2, <3>1, <3>2 DEF AddWeight
  <2>3. CASE s # r
    <3>1. e = 0 /\ weight[s] \in Int
      BY <1>1, <2>3 DEF e, When
    <3>2. QED
      BY <1>1, <2>3, <3>1 DEF AddWeight
  <2>4. QED
    BY <2>2, <2>3
<1>9. SumFunction(g) = weight'[s]
  BY <1>1, <1>6, <1>8 DEF When
<1>10. QED
  BY <1>9 DEF g

\* Where neither weights nor what is counted change.
LEMMA WeightStill ==
    ASSUME TypeOK, WeightIsSumOfFloors, UNCHANGED weight,
           \A x \in Accounts, s \in Resources : Floors(x, s)' = Floors(x, s)
    PROVE  WeightIsSumOfFloors'
<1> SUFFICES ASSUME NEW s \in Resources
             PROVE  weight'[s] = SumFunction([x \in Accounts |-> Floors(x, s)'])
  BY DEF WeightIsSumOfFloors, Floors
<1>1. weight[s] = SumFunction([x \in Accounts |-> Floors(x, s)])
  BY DEF WeightIsSumOfFloors, Floors
<1>2. [x \in Accounts |-> Floors(x, s)'] = [x \in Accounts |-> Floors(x, s)]
  OBVIOUS
<1>3. QED
  BY <1>1, <1>2

\* The weight follows what one holder freezes, thaws or acquires.
LEMMA WeightSteps1 ==
    ASSUME WeightInv, TypeOK', "newReward" \in flags, NEW a \in Accounts, NEW r \in Resources,
           \/ \E sun \in Amounts : FreezeBalance(a, sun, r)
           \/ UnfreezeBalance(a, r)
    PROVE  WeightIsSumOfFloors'
<1>1. TypeOK /\ WeightIsSumOfFloors
  BY DEF WeightInv, IInv
<1>2. PICK e \in Entry :
         /\ frozen' = [frozen EXCEPT ![a][r] = e]
         /\ AddWeight(r, Trx(e.amount) - Trx(frozen[a][r].amount))
         /\ UNCHANGED <<acquired, frozenV2, outV2>>
  <2>1. frozen[a][r].amount \in Nat /\ Trx(frozen[a][r].amount) \in Int
    BY <1>1, Naturals, TrxInt
  <2>2. ASSUME NEW sun \in Amounts, FreezeBalance(a, sun, r)
        PROVE  \E e \in Entry :
                  /\ frozen' = [frozen EXCEPT ![a][r] = e]
                  /\ AddWeight(r, Trx(e.amount) - Trx(frozen[a][r].amount))
                  /\ UNCHANGED <<acquired, frozenV2, outV2>>
    <3> DEFINE total == frozen[a][r].amount + sun
               e == [amount |-> total, expire |-> now + FrozenTime]
    <3>1. total \in Nat /\ now + FrozenTime \in Nat
      BY <1>1, <2>1, StakeAssumption, Times
    <3> HIDE DEF total
    <3>2. e \in Entry /\ e.amount = total
      BY <3>1 DEF Entry
    <3>3. /\ frozen' = [frozen EXCEPT ![a][r] = e]
          /\ AddWeight(r, Trx(total) - Trx(frozen[a][r].amount))
          /\ UNCHANGED <<acquired, frozenV2, outV2>>
      BY <2>2 DEF FreezeBalance, WeightDelta, stake2, total
    <3> HIDE DEF e
    <3>4. QED
      BY <3>2, <3>3
  <2>3. ASSUME UnfreezeBalance(a, r)
        PROVE  \E e \in Entry :
                  /\ frozen' = [frozen EXCEPT ![a][r] = e]
                  /\ AddWeight(r, Trx(e.amount) - Trx(frozen[a][r].amount))
                  /\ UNCHANGED <<acquired, frozenV2, outV2>>
    <3>1. Nothing \in Entry /\ Trx(Nothing.amount) = 0
      BY StakeAssumption DEF Nothing, Entry, Trx
    <3>2. /\ frozen' = [frozen EXCEPT ![a][r] = Nothing]
          /\ AddWeight(r, -Trx(frozen[a][r].amount))
          /\ UNCHANGED <<acquired, frozenV2, outV2>>
      BY <2>3 DEF UnfreezeBalance, stake2
    <3>3. -Trx(frozen[a][r].amount) = Trx(Nothing.amount) - Trx(frozen[a][r].amount)
      BY <2>1, <3>1
    <3>4. QED
      BY <3>1, <3>2, <3>3
  <2>4. QED
    BY <2>2, <2>3
<1> DEFINE d == Trx(e.amount) - Trx(frozen[a][r].amount)
<1>3. IsCell(Accounts, Entry, frozen, frozen', a, r, e)
  <2>1. frozen \in [Accounts -> [Resources -> Entry]]
    BY <1>1 DEF TypeOK
  <2>2. QED
    BY <1>2, <2>1, Cell
<1>4. FloorMoves(a, r, d) /\ d \in Int
  <2>1. Trx(e.amount) \in Int /\ Trx(frozen[a][r].amount) \in Int
    BY <1>1, Naturals, TrxInt DEF Entry
  <2>2. ASSUME NEW x \in Accounts, NEW s \in Resources
        PROVE  Floors(x, s)' = Floors(x, s) + When(x = a /\ s = r, d)
    <3>1. /\ Trx(frozen[x][s].amount) \in Int /\ Trx(acquired[x][s]) \in Int
          /\ Trx(frozenV2[x][s] + outV2[x][s]) \in Int
      <4>1. /\ frozen[x][s].amount \in Int /\ acquired[x][s] \in Int
            /\ frozenV2[x][s] + outV2[x][s] \in Int
        BY <1>1, Naturals
      <4>2. QED
        BY <4>1, TrxInt
    <3>2. Trx(frozen'[x][s].amount) = Trx(frozen[x][s].amount) + When(x = a /\ s = r, d)
      <4>1. CASE x = a /\ s = r
        <5>1. frozen'[x][s] = e
          BY <1>3, <4>1 DEF IsCell
        <5>2. QED
          BY <2>1, <4>1, <5>1 DEF When
      <4>2. CASE ~(x = a /\ s = r)
        <5>1. frozen'[x][s] = frozen[x][s]
          BY <1>3, <4>2 DEF IsCell
        <5>2. QED
          BY <3>1, <4>2, <5>1 DEF When
      <4>3. QED
        BY <4>1, <4>2
    <3> DEFINE w == When(x = a /\ s = r, d)
    <3>3. w \in Int
      BY <2>1 DEF When
    <3> HIDE DEF w
    <3>4. QED
      BY <1>2, <3>1, <3>2, <3>3 DEF Floors, w
  <2>3. QED
    BY <2>1, <2>2 DEF FloorMoves
<1> HIDE DEF d
<1>5. AddWeight(r, d)
  BY <1>2 DEF d
<1>6. QED
  BY <1>1, <1>4, <1>5, WeightShift

\* The weight follows what one holder acquires or gives back.
LEMMA WeightSteps2 ==
    ASSUME WeightInv, TypeOK', "newReward" \in flags, NEW a \in Accounts, NEW b \in Accounts, a # b,
           NEW r \in Resources,
           \/ \E sun \in Amounts : FreezeBalanceFor(a, b, sun, r)
           \/ UnfreezeBalanceFrom(a, b, r)
    PROVE  WeightIsSumOfFloors'
<1>1. TypeOK /\ WeightIsSumOfFloors /\ TotalsMatchEntries
  BY DEF WeightInv, IInv
<1>2. acquired[b][r] \in Nat /\ acquired \in [Accounts -> [Resources -> Nat]]
  BY <1>1, Naturals DEF TypeOK, Held
<1>3. PICK v \in Nat : /\ acquired' = [acquired EXCEPT ![b][r] = v]
                       /\ AddWeight(r, Trx(v) - Trx(acquired[b][r]))
                       /\ UNCHANGED <<frozen, frozenV2, outV2>>
  <2>1. ASSUME NEW sun \in Amounts, FreezeBalanceFor(a, b, sun, r)
        PROVE  \E v \in Nat : /\ acquired' = [acquired EXCEPT ![b][r] = v]
                              /\ AddWeight(r, Trx(v) - Trx(acquired[b][r]))
                              /\ UNCHANGED <<frozen, frozenV2, outV2>>
    <3> DEFINE v == acquired[b][r] + sun
    <3>1. v \in Nat
      BY <1>2, StakeAssumption
    <3>2. /\ acquired' = [acquired EXCEPT ![b][r] = v]
          /\ AddWeight(r, Trx(v) - Trx(acquired[b][r]))
          /\ UNCHANGED <<frozen, frozenV2, outV2>>
      BY <2>1 DEF FreezeBalanceFor, WeightDelta, stake2
    <3> HIDE DEF v
    <3>3. QED
      BY <3>1, <3>2
  <2>2. ASSUME UnfreezeBalanceFrom(a, b, r)
        PROVE  \E v \in Nat : /\ acquired' = [acquired EXCEPT ![b][r] = v]
                              /\ AddWeight(r, Trx(v) - Trx(acquired[b][r]))
                              /\ UNCHANGED <<frozen, frozenV2, outV2>>
    <3> DEFINE p == <<a, b>>
               sun == delegated[p][r].amount
               v == AcquiredLeft(b, r, sun)
    <3>1. p \in Pairs /\ p[2] = b
      BY DEF Pairs
    <3>2. sun > 0
      BY <2>2 DEF UnfreezeBalanceFrom, CanUnfreezeFrom
    <3>3. ~("constantinople" \in flags /\ b \in Contracts)
      BY <3>1, <3>2 DEF WeightInv, NoneToSpare
    <3>4. sun \in Nat /\ sun <= acquired[b][r]
      BY <1>1, <3>1, Naturals, EntryBelow
    <3>5. v = acquired[b][r] - sun /\ v \in Nat
      BY <1>2, <3>4 DEF AcquiredLeft
    <3>6. /\ acquired' = [acquired EXCEPT ![b][r] = v]
          /\ AddWeight(r, Trx(v) - Trx(acquired[b][r]))
          /\ UNCHANGED <<frozen, frozenV2, outV2>>
      <4>1. ~(acquired[b][r] < sun)
        BY <1>2, <3>4
      <4>2. QED
        BY <2>2, <3>3, <4>1 DEF UnfreezeBalanceFrom, WeightDelta, stake2
    <3> HIDE DEF v
    <3>7. QED
      BY <3>5, <3>6
  <2>3. QED
    BY <2>1, <2>2
<1> DEFINE d == Trx(v) - Trx(acquired[b][r])
<1>4. IsCell(Accounts, Nat, acquired, acquired', b, r, v)
  BY <1>2, <1>3, Cell
<1>5. FloorMoves(b, r, d) /\ d \in Int
  <2>1. Trx(v) \in Int /\ Trx(acquired[b][r]) \in Int
    BY <1>2, <1>3, TrxInt
  <2>2. ASSUME NEW x \in Accounts, NEW s \in Resources
        PROVE  Floors(x, s)' = Floors(x, s) + When(x = b /\ s = r, d)
    <3>1. /\ Trx(frozen[x][s].amount) \in Int /\ Trx(acquired[x][s]) \in Int
          /\ Trx(frozenV2[x][s] + outV2[x][s]) \in Int
      <4>1. /\ frozen[x][s].amount \in Int /\ acquired[x][s] \in Int
            /\ frozenV2[x][s] + outV2[x][s] \in Int
        BY <1>1, Naturals
      <4>2. QED
        BY <4>1, TrxInt
    <3>2. Trx(acquired'[x][s]) = Trx(acquired[x][s]) + When(x = b /\ s = r, d)
      <4>1. CASE x = b /\ s = r
        <5>1. acquired'[x][s] = v
          BY <1>4, <4>1 DEF IsCell
        <5>2. QED
          BY <2>1, <4>1, <5>1 DEF When
      <4>2. CASE ~(x = b /\ s = r)
        <5>1. acquired'[x][s] = acquired[x][s]
          BY <1>4, <4>2 DEF IsCell
        <5>2. QED
          BY <3>1, <4>2, <5>1 DEF When
      <4>3. QED
        BY <4>1, <4>2
    <3> DEFINE w == When(x = b /\ s = r, d)
    <3>3. w \in Int
      BY <2>1 DEF When
    <3> HIDE DEF w
    <3>4. QED
      BY <1>3, <3>1, <3>2, <3>3 DEF Floors, w
  <2>3. QED
    BY <2>1, <2>2 DEF FloorMoves
<1> HIDE DEF d
<1>6. AddWeight(r, d)
  BY <1>3 DEF d
<1>7. QED
  BY <1>1, <1>5, <1>6, WeightShift

\* The weight follows what one holder freezes or thaws under Stake 2.0.
LEMMA WeightSteps3 ==
    ASSUME WeightInv, TypeOK', NEW a \in Accounts, NEW sun \in Amounts, NEW r \in Resources,
           FreezeBalanceV2(a, sun, r) \/ UnfreezeBalanceV2(a, sun, r)
    PROVE  WeightIsSumOfFloors'
<1>1. TypeOK /\ WeightIsSumOfFloors /\ sun \in Nat
  BY StakeAssumption DEF WeightInv, IInv
<1>2. frozenV2[a][r] \in Nat /\ frozenV2 \in [Accounts -> [Resources -> Nat]]
  BY <1>1, Naturals DEF TypeOK, Held
<1>3. PICK v \in Nat : /\ frozenV2' = [frozenV2 EXCEPT ![a][r] = v]
                       /\ AddWeight(r, WeightV2(a, r, v) - WeightV2(a, r, frozenV2[a][r]))
                       /\ UNCHANGED <<frozen, acquired, outV2>>
  <2>1. CASE FreezeBalanceV2(a, sun, r)
    <3> DEFINE v == frozenV2[a][r] + sun
    <3>1. v \in Nat
      BY <1>1, <1>2
    <3>2. /\ frozenV2' = [frozenV2 EXCEPT ![a][r] = v]
          /\ AddWeight(r, WeightV2(a, r, v) - WeightV2(a, r, frozenV2[a][r]))
          /\ UNCHANGED <<frozen, acquired, outV2>>
      BY <2>1 DEF FreezeBalanceV2, stake1
    <3> HIDE DEF v
    <3>3. QED
      BY <3>1, <3>2
  <2>2. CASE UnfreezeBalanceV2(a, sun, r)
    <3> DEFINE v == frozenV2[a][r] - sun
    <3>1. v \in Nat
      BY <1>1, <1>2, <2>2 DEF UnfreezeBalanceV2, CanUnfreezeV2
    <3>2. /\ frozenV2' = [frozenV2 EXCEPT ![a][r] = v]
          /\ AddWeight(r, WeightV2(a, r, v) - WeightV2(a, r, frozenV2[a][r]))
          /\ UNCHANGED <<frozen, acquired, outV2>>
      BY <2>2 DEF UnfreezeBalanceV2, stake1
    <3> HIDE DEF v
    <3>3. QED
      BY <3>1, <3>2
  <2>3. QED
    BY <2>1, <2>2
<1> DEFINE d == WeightV2(a, r, v) - WeightV2(a, r, frozenV2[a][r])
<1>4. IsCell(Accounts, Nat, frozenV2, frozenV2', a, r, v)
  BY <1>2, <1>3, Cell
<1>5. FloorMoves(a, r, d) /\ d \in Int
  <2>1. WeightV2(a, r, v) \in Int /\ WeightV2(a, r, frozenV2[a][r]) \in Int
    BY <1>1, <1>2, <1>3, WeightV2Int
  <2>2. ASSUME NEW x \in Accounts, NEW s \in Resources
        PROVE  Floors(x, s)' = Floors(x, s) + When(x = a /\ s = r, d)
    <3>1. /\ Trx(frozen[x][s].amount) \in Int /\ Trx(acquired[x][s]) \in Int
          /\ Trx(frozenV2[x][s] + outV2[x][s]) \in Int
      <4>1. /\ frozen[x][s].amount \in Int /\ acquired[x][s] \in Int
            /\ frozenV2[x][s] + outV2[x][s] \in Int
        BY <1>1, Naturals
      <4>2. QED
        BY <4>1, TrxInt
    <3>2. Trx(frozenV2'[x][s] + outV2[x][s])
              = Trx(frozenV2[x][s] + outV2[x][s]) + When(x = a /\ s = r, d)
      <4>1. CASE x = a /\ s = r
        <5>1. frozenV2'[x][s] = v
          BY <1>4, <4>1 DEF IsCell
        <5>2. QED
          BY <2>1, <4>1, <5>1 DEF When, WeightV2
      <4>2. CASE ~(x = a /\ s = r)
        <5>1. frozenV2'[x][s] = frozenV2[x][s]
          BY <1>4, <4>2 DEF IsCell
        <5>2. QED
          BY <3>1, <4>2, <5>1 DEF When
      <4>3. QED
        BY <4>1, <4>2
    <3> DEFINE w == When(x = a /\ s = r, d)
    <3>3. w \in Int
      BY <2>1 DEF When
    <3> HIDE DEF w
    <3>4. QED
      BY <1>3, <3>1, <3>2, <3>3 DEF Floors, w
  <2>3. QED
    BY <2>1, <2>2 DEF FloorMoves
<1> HIDE DEF d
<1>6. AddWeight(r, d)
  BY <1>3 DEF d
<1>7. QED
  BY <1>1, <1>5, <1>6, WeightShift

\* Lending and recalling under Stake 2.0 leave the owner's weight alone.
LEMMA WeightSteps4 ==
    ASSUME WeightInv, NEW a \in Accounts, NEW b \in Accounts, NEW sun \in Amounts,
           NEW r \in Resources,
           DelegateResource(a, b, sun, r) \/ UnDelegateResource(a, b, sun, r)
    PROVE  WeightIsSumOfFloors'
<1>1. TypeOK /\ WeightIsSumOfFloors /\ sun \in Nat
  BY StakeAssumption DEF WeightInv, IInv
<1>2. PICK m \in Int : /\ frozenV2' = [frozenV2 EXCEPT ![a][r] = frozenV2[a][r] - m]
                       /\ outV2' = [outV2 EXCEPT ![a][r] = outV2[a][r] + m]
                       /\ UNCHANGED <<weight, frozen, acquired>>
  <2>1. CASE DelegateResource(a, b, sun, r)
    <3>1. /\ frozenV2' = [frozenV2 EXCEPT ![a][r] = frozenV2[a][r] - sun]
          /\ outV2' = [outV2 EXCEPT ![a][r] = outV2[a][r] + sun]
          /\ UNCHANGED <<weight, frozen, acquired>>
      BY <2>1 DEF DelegateResource, stake1
    <3>2. sun \in Int
      BY <1>1
    <3>3. QED
      BY <3>1, <3>2
  <2>2. CASE UnDelegateResource(a, b, sun, r)
    <3> DEFINE m == -sun
    <3>1. /\ m \in Int /\ frozenV2[a][r] + sun = frozenV2[a][r] - m
          /\ outV2[a][r] - sun = outV2[a][r] + m
      <4>1. frozenV2[a][r] \in Nat /\ outV2[a][r] \in Nat
        BY <1>1, Naturals
      <4>2. QED
        BY <1>1, <4>1
    <3>2. /\ frozenV2' = [frozenV2 EXCEPT ![a][r] = frozenV2[a][r] + sun]
          /\ outV2' = [outV2 EXCEPT ![a][r] = outV2[a][r] - sun]
          /\ UNCHANGED <<weight, frozen, acquired>>
      BY <2>2 DEF UnDelegateResource, stake1
    <3> HIDE DEF m
    <3>3. QED
      BY <3>1, <3>2
  <2>3. QED
    BY <2>1, <2>2
<1>3. ASSUME NEW x \in Accounts, NEW s \in Resources
      PROVE  Floors(x, s)' = Floors(x, s)
  <2>1. frozenV2[x][s] \in Int /\ outV2[x][s] \in Int /\ frozenV2[a][r] \in Int /\ outV2[a][r] \in Int
    BY <1>1, Naturals
  <2>2. frozenV2 \in [Accounts -> [Resources -> Nat]] /\ outV2 \in [Accounts -> [Resources -> Nat]]
    BY <1>1 DEF TypeOK, Held
  <2>3. frozenV2'[x][s] + outV2'[x][s] = frozenV2[x][s] + outV2[x][s]
    <3>1. CASE x = a /\ s = r
      <4>1. frozenV2'[x][s] = frozenV2[a][r] - m /\ outV2'[x][s] = outV2[a][r] + m
        BY <1>2, <2>2, <3>1
      <4>2. QED
        BY <2>1, <3>1, <4>1
    <3>2. CASE ~(x = a /\ s = r)
      BY <1>2, <2>2, <3>2
    <3>3. QED
      BY <3>1, <3>2
  <2>4. QED
    BY <1>2, <2>3 DEF Floors
<1>4. QED
  BY <1>1, <1>2, <1>3, WeightStill

\* No step leaves a contract with an entry once contracts are spared.
LEMMA NoneToSpareKept ==
    ASSUME CountsFloors, WeightInv, [Next]_vars PROVE NoneToSpare' /\ InitialFlags \subseteq flags'
<1>1. TypeOK /\ NoneToSpare /\ InitialFlags \subseteq flags
  BY DEF WeightInv, IInv
<1>2. CASE UNCHANGED <<flags, delegated>>
  BY <1>1, <1>2 DEF NoneToSpare
<1>3. ASSUME NEW p \in Pairs, NEW sun \in Amounts, NEW r \in Resources,
             FreezeBalanceFor(p[1], p[2], sun, r)
      PROVE  NoneToSpare' /\ InitialFlags \subseteq flags'
  <2> DEFINE e == [amount |-> delegated[<<p[1], p[2]>>][r].amount + sun, expire |-> now + FrozenTime]
  <2>1. /\ flags' = flags /\ ~("constantinople" \in flags /\ p[2] \in Contracts)
        /\ delegated' = [delegated EXCEPT ![<<p[1], p[2]>>][r] = e]
    BY <1>3 DEF FreezeBalanceFor
  <2> HIDE DEF e
  <2>2. <<p[1], p[2]>> = p /\ delegated \in [Pairs -> [Resources -> Entry]]
    BY <1>1 DEF Pairs, TypeOK
  <2>3. \A q \in Pairs, s \in Resources : q # p => delegated'[q][s] = delegated[q][s]
    BY <2>1, <2>2
  <2>4. QED
    BY <1>1, <2>1, <2>3 DEF NoneToSpare
<1>4. ASSUME NEW p \in Pairs, NEW r \in Resources, UnfreezeBalanceFrom(p[1], p[2], r)
      PROVE  NoneToSpare' /\ InitialFlags \subseteq flags'
  <2>1. flags' = flags /\ delegated' = [delegated EXCEPT ![<<p[1], p[2]>>][r] = Nothing]
    BY <1>4 DEF UnfreezeBalanceFrom
  <2>2. <<p[1], p[2]>> = p /\ delegated \in [Pairs -> [Resources -> Entry]]
    BY <1>1 DEF Pairs, TypeOK
  <2>3. \A q \in Pairs, s \in Resources :
            delegated'[q][s] = delegated[q][s] \/ delegated'[q][s] = Nothing
    BY <2>1, <2>2
  <2>4. \A q \in Pairs, s \in Resources :
            delegated[q][s].amount = 0 => delegated'[q][s].amount = 0
    BY <2>3 DEF Nothing
  <2>5. QED
    BY <1>1, <2>1, <2>4 DEF NoneToSpare
<1>5. ASSUME NEW f \in Proposals, Activate(f)
      PROVE  NoneToSpare' /\ InitialFlags \subseteq flags'
  <2>1. f \notin flags /\ flags' = flags \cup {f} /\ delegated' = delegated
    BY <1>5 DEF Activate, stake1
  <2>2. Contracts = {} \/ f # "constantinople"
    BY <1>1, <2>1 DEF CountsFloors
  <2>3. QED
    BY <1>1, <2>1, <2>2 DEF NoneToSpare
<1>6. \/ UNCHANGED <<flags, delegated>>
      \/ \E p \in Pairs, sun \in Amounts, r \in Resources : FreezeBalanceFor(p[1], p[2], sun, r)
      \/ \E p \in Pairs, r \in Resources : UnfreezeBalanceFrom(p[1], p[2], r)
      \/ \E f \in Proposals : Activate(f)
  <2>1. ASSUME NEW a \in Accounts, NEW sun \in Amounts, NEW r \in Resources,
               \/ FreezeBalance(a, sun, r)
               \/ FreezeBalanceV2(a, sun, r)
               \/ UnfreezeBalanceV2(a, sun, r)
        PROVE  UNCHANGED <<flags, delegated>>
    BY <2>1 DEF FreezeBalance, FreezeBalanceV2, UnfreezeBalanceV2, stake1
  <2>2. ASSUME NEW p \in Pairs, NEW sun \in Amounts, NEW r \in Resources,
               DelegateResource(p[1], p[2], sun, r) \/ UnDelegateResource(p[1], p[2], sun, r)
        PROVE  UNCHANGED <<flags, delegated>>
    BY <2>2 DEF DelegateResource, UnDelegateResource, stake1
  <2>3. ASSUME NEW a \in Accounts, NEW r \in Resources, UnfreezeBalance(a, r)
        PROVE  UNCHANGED <<flags, delegated>>
    BY <2>3 DEF UnfreezeBalance
  <2>4. ASSUME NEW a \in Accounts, NEW n \in VoteCounts, VoteWitness(a, n)
        PROVE  UNCHANGED <<flags, delegated>>
    BY <2>4 DEF VoteWitness, stake1
  <2>5. ASSUME NEW a \in Accounts, WithdrawExpireUnfreeze(a) PROVE UNCHANGED <<flags, delegated>>
    BY <2>5 DEF WithdrawExpireUnfreeze, stake1
  <2>6. CASE Tick \/ UNCHANGED vars
    BY <2>6 DEF Tick, vars, stake1
  <2>7. QED
    BY <2>1, <2>2, <2>3, <2>4, <2>5, <2>6 DEF Next
<1>7. QED
  BY <1>2, <1>3, <1>4, <1>5, <1>6

\* Every step keeps the weights the sum of what the accounts contribute.
LEMMA WeightStep == ASSUME CountsFloors, WeightInv, [Next]_vars PROVE WeightInv'
<1>1. IInv /\ "newReward" \in flags
  BY DEF WeightInv, CountsFloors
<1>2. IInv' /\ TypeOK'
  BY <1>1, StepInv DEF IInv
<1>3. \A p \in Pairs : p[1] \in Accounts /\ p[2] \in Accounts /\ p[1] # p[2]
  BY DEF Pairs
<1>4. ASSUME NEW a \in Accounts, NEW sun \in Amounts, NEW r \in Resources, FreezeBalance(a, sun, r)
      PROVE  WeightIsSumOfFloors'
  BY <1>1, <1>2, <1>4, WeightSteps1
<1>5. ASSUME NEW a \in Accounts, NEW r \in Resources, UnfreezeBalance(a, r)
      PROVE  WeightIsSumOfFloors'
  BY <1>1, <1>2, <1>5, WeightSteps1
<1>6. ASSUME NEW p \in Pairs, NEW sun \in Amounts, NEW r \in Resources,
             FreezeBalanceFor(p[1], p[2], sun, r)
      PROVE  WeightIsSumOfFloors'
  BY <1>1, <1>2, <1>3, <1>6, WeightSteps2
<1>7. ASSUME NEW p \in Pairs, NEW r \in Resources, UnfreezeBalanceFrom(p[1], p[2], r)
      PROVE  WeightIsSumOfFloors'
  BY <1>1, <1>2, <1>3, <1>7, WeightSteps2
<1>8. ASSUME NEW a \in Accounts, NEW sun \in Amounts, NEW r \in Resources,
             FreezeBalanceV2(a, sun, r) \/ UnfreezeBalanceV2(a, sun, r)
      PROVE  WeightIsSumOfFloors'
  BY <1>1, <1>2, <1>8, WeightSteps3
<1>9. ASSUME NEW p \in Pairs, NEW sun \in Amounts, NEW r \in Resources,
             DelegateResource(p[1], p[2], sun, r) \/ UnDelegateResource(p[1], p[2], sun, r)
      PROVE  WeightIsSumOfFloors'
  BY <1>3, <1>9, WeightSteps4
<1>10. ASSUME UNCHANGED <<weight, frozen, acquired, frozenV2, outV2>>
       PROVE  WeightIsSumOfFloors'
  <2>1. \A x \in Accounts, s \in Resources : Floors(x, s)' = Floors(x, s)
    BY <1>10 DEF Floors
  <2>2. TypeOK /\ WeightIsSumOfFloors
    BY DEF WeightInv, IInv
  <2>3. QED
    BY <1>10, <2>1, <2>2, WeightStill
<1>11. \/ \E a \in Accounts, sun \in Amounts, r \in Resources :
            \/ FreezeBalance(a, sun, r)
            \/ FreezeBalanceV2(a, sun, r)
            \/ UnfreezeBalanceV2(a, sun, r)
       \/ \E p \in Pairs, sun \in Amounts, r \in Resources :
            \/ FreezeBalanceFor(p[1], p[2], sun, r)
            \/ DelegateResource(p[1], p[2], sun, r)
            \/ UnDelegateResource(p[1], p[2], sun, r)
       \/ \E a \in Accounts, r \in Resources : UnfreezeBalance(a, r)
       \/ \E p \in Pairs, r \in Resources : UnfreezeBalanceFrom(p[1], p[2], r)
       \/ UNCHANGED <<weight, frozen, acquired, frozenV2, outV2>>
  BY DEF Next, vars, stake1, stake2, WithdrawExpireUnfreeze, VoteWitness, Tick, Activate
<1>12. WeightIsSumOfFloors'
  BY <1>4, <1>5, <1>6, <1>7, <1>8, <1>9, <1>10, <1>11
<1>13. QED
  BY <1>2, <1>12, NoneToSpareKept DEF WeightInv

\* At the start nobody contributes anything.
LEMMA WeightInit == ASSUME CountsFloors, Init PROVE WeightInv
<1>1. IInv /\ TypeOK
  BY InitInv DEF IInv
<1>2. flags = InitialFlags
  BY DEF Init
<1>3. NoneToSpare
  <2>1. \A p \in Pairs, r \in Resources : delegated[p][r].amount = 0
    BY DEF Init, Nothing
  <2>2. QED
    BY <2>1 DEF NoneToSpare
<1>4. WeightIsSumOfFloors
  <2> SUFFICES ASSUME NEW s \in Resources
               PROVE  weight[s] = SumFunction([x \in Accounts |-> Floors(x, s)])
    BY DEF WeightIsSumOfFloors, Floors
  <2> DEFINE f == [x \in Accounts |-> Floors(x, s)]
  <2>1. Trx(0) = 0
    BY StakeAssumption DEF Trx
  <2>2. \A x \in Accounts : /\ frozen[x][s].amount = 0 /\ acquired[x][s] = 0
                            /\ frozenV2[x][s] = 0 /\ outV2[x][s] = 0
    BY DEF Init, NoneHeld, Nothing
  <2>3. \A x \in Accounts : Floors(x, s) = 0
    BY <2>1, <2>2 DEF Floors
  <2>4. f \in [Accounts -> Int] /\ \A x \in Accounts : f[x] = 0
    BY <2>3
  <2> HIDE DEF f
  <2>5. SumFunction(f) = 0
    BY <2>4, StakeAssumption, SumZero
  <2>6. weight[s] = 0
    BY DEF Init
  <2>7. QED
    BY <2>5, <2>6 DEF f
<1>5. QED
  BY <1>1, <1>2, <1>3, <1>4 DEF WeightInv

\* With whole TRX counted by holder from the start, each network weight is
\* the sum of what the accounts contribute.
THEOREM WeightTheorem == ASSUME CountsFloors PROVE Spec => []WeightIsSumOfFloors
<1>1. Init => WeightInv
  BY WeightInit
<1>2. WeightInv /\ [Next]_vars => WeightInv'
  BY WeightStep
<1>3. WeightInv => WeightIsSumOfFloors
  BY DEF WeightInv
<1>4. QED
  BY <1>1, <1>2, <1>3, PTL DEF Spec

=============================================================================
