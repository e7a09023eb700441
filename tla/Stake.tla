-------------------------------- MODULE Stake --------------------------------
(***************************************************************************)
(* Staking: the Stake 1.0 actuators (FreezeBalance, UnfreezeBalance, with  *)
(* and without a receiver), the Stake 2.0 actuators (FreezeBalanceV2,      *)
(* UnfreezeBalanceV2, WithdrawExpireUnfreeze, DelegateResource,            *)
(* UnDelegateResource) and the proposals that switch between them.         *)
(*                                                                         *)
(* Each action is Validate and Execute of one contract; a transaction that *)
(* fails Validate changes nothing.  Of an account's votes only their       *)
(* number is kept (module Rewards has the rest).                           *)
(***************************************************************************)
EXTENDS Integers, Sequences, FiniteSets, Functions

CONSTANTS
    Accounts,
    Contracts,        \* accounts of type Contract
    Resources,        \* "BANDWIDTH", "ENERGY"
    Amounts,          \* the amounts, in sun, transactions use
    VoteCounts,       \* the numbers of votes transactions cast
    TrxPrecision,     \* sun per TRX
    Int64Half,        \* 2^63: an int64 is at least -2^63 and less than 2^63
    InitialBalance,
    FrozenTime,       \* MIN_FROZEN_TIME = MAX_FROZEN_TIME
    UnfreezeDelay,    \* UNFREEZE_DELAY_DAYS once Stake 2.0 is on
    UnfreezeMaxTimes, \* unfreezeMaxTimes
    InitialFlags,     \* proposals in force at the start
    Proposals,        \* proposals that may come into force later
    MaxNow            \* bound on time

Flags == {"newReward", "delegateResource", "delegateOptimization", "multiSign",
          "constantinople", "solidity059", "stake2"}

ASSUME StakeAssumption ==
    /\ IsFiniteSet(Accounts)
    /\ Contracts \subseteq Accounts
    /\ Resources \subseteq {"BANDWIDTH", "ENERGY"}
    /\ "BANDWIDTH" \in Resources
    /\ Amounts \cup VoteCounts \subseteq Nat \ {0}
    /\ {TrxPrecision, Int64Half} \subseteq Nat \ {0}
    /\ InitialBalance \in [Accounts -> Nat]
    /\ {FrozenTime, UnfreezeDelay, UnfreezeMaxTimes, MaxNow} \subseteq Nat
    /\ InitialFlags \cup Proposals \subseteq Flags

VARIABLES
    now,          \* LATEST_BLOCK_HEADER_TIMESTAMP, in days
    flags,        \* the proposals in force
    balance,      \* Account.Balance
    votes,        \* how many votes the account has cast
    weight,       \* TOTAL_NET_WEIGHT and TOTAL_ENERGY_WEIGHT
    frozen,       \* V1: Account.Frozen, AccountResource.FrozenBalanceForEnergy
    delegated,    \* V1: DelegatedResourceStore, by <<from, to>>
    out,          \* V1: delegated-out balance of the owner
    acquired,     \* V1: acquired-delegated balance of the receiver
    listIndex,    \* V1: the legacy index, a record of lists per account
    edgeIndex,    \* V1: the optimized index, a set of edges
    frozenV2,     \* V2: Account.FrozenV2
    unfrozenV2,   \* V2: Account.UnfrozenV2
    delegatedV2,  \* V2: DelegatedResourceStore, by <<from, to>>
    outV2,        \* V2: delegated-out balance of the owner
    acquiredV2,   \* V2: acquired-delegated balance of the receiver
    edgeIndexV2   \* V2: the index edges

stake1 == <<frozen, delegated, out, acquired, listIndex, edgeIndex>>
stake2 == <<frozenV2, unfrozenV2, delegatedV2, outV2, acquiredV2, edgeIndexV2>>
vars == <<now, flags, balance, votes, weight, stake1, stake2>>

Pairs == {p \in Accounts \X Accounts : p[1] # p[2]}
Entry == [amount : Nat, expire : Nat]
Nothing == [amount |-> 0, expire |-> 0]
Held == [Resources -> Nat]
NoneHeld(S) == [x \in S |-> [r \in Resources |-> 0]]
Trx(sun) == sun \div TrxPrecision

Init ==
    /\ now = 0
    /\ flags = InitialFlags
    /\ balance = InitialBalance
    /\ votes = [a \in Accounts |-> 0]
    /\ weight = [r \in Resources |-> 0]
    /\ frozen = [a \in Accounts |-> [r \in Resources |-> Nothing]]
    /\ delegated = [p \in Pairs |-> [r \in Resources |-> Nothing]]
    /\ out = NoneHeld(Accounts)
    /\ acquired = NoneHeld(Accounts)
    /\ listIndex = [a \in Accounts |-> [to |-> {}, from |-> {}]]
    /\ edgeIndex = {}
    /\ frozenV2 = NoneHeld(Accounts)
    /\ unfrozenV2 = [a \in Accounts |-> <<>>]
    /\ delegatedV2 = NoneHeld(Pairs)
    /\ outV2 = NoneHeld(Accounts)
    /\ acquiredV2 = NoneHeld(Accounts)
    /\ edgeIndexV2 = {}

-----------------------------------------------------------------------------
(* Shared by the actuators.                                                *)

\* addWeight: the total is clamped at zero only under ALLOW_NEW_REWARD.
AddWeight(r, delta) ==
    LET w == weight[r] + delta
    IN  weight' = [weight EXCEPT ![r] = IF "newReward" \in flags /\ w < 0 THEN 0 ELSE w]

\* The V1 weight change of an amount: its own floor before ALLOW_NEW_REWARD,
\* the change of the holder's floor after it.
WeightDelta(flat, floored) == IF "newReward" \in flags THEN floored ELSE flat

TronPower(a) ==
    SumFunction([r \in Resources |-> frozen[a][r].amount + out[a][r]
                                      + frozenV2[a][r] + outV2[a][r]])

\* Convert of both ends: legacy lists become edges.
ConvertedEdges(from, to) ==
    edgeIndex \cup UNION {({a} \X listIndex[a].to) \cup (listIndex[a].from \X {a}) :
                             a \in {from, to}}

Converted(from, to) ==
    [a \in Accounts |-> IF a \in {from, to} THEN [to |-> {}, from |-> {}] ELSE listIndex[a]]

RecordDelegationIndex(from, to) ==
    IF "delegateOptimization" \in flags
    THEN /\ edgeIndex' = ConvertedEdges(from, to) \cup {<<from, to>>}
         /\ listIndex' = Converted(from, to)
    ELSE /\ listIndex' = [listIndex EXCEPT ![from].to = @ \cup {to},
                                           ![to].from = @ \cup {from}]
         /\ UNCHANGED edgeIndex

MutDropKeepsList(from, to) ==
    IF "delegateOptimization" \in flags
    THEN /\ edgeIndex' = edgeIndex \ {<<from, to>>}
         /\ UNCHANGED listIndex
    ELSE /\ listIndex' = [listIndex EXCEPT ![from].to = @ \ {to},
                                           ![to].from = @ \ {from}]
         /\ UNCHANGED edgeIndex

DropDelegationIndex(from, to) ==
    IF "delegateOptimization" \in flags
    THEN /\ edgeIndex' = ConvertedEdges(from, to) \ {<<from, to>>}
         /\ listIndex' = Converted(from, to)
    ELSE /\ listIndex' = [listIndex EXCEPT ![from].to = @ \ {to},
                                           ![to].from = @ \ {from}]
         /\ UNCHANGED edgeIndex

-----------------------------------------------------------------------------
(* Stake 1.0.                                                              *)

CanFreeze(a, sun) ==
    /\ sun >= TrxPrecision
    /\ sun <= balance[a]
    /\ "stake2" \notin flags

\* FreezeBalance for oneself: one frozen entry, its expiry the latest one's.
FreezeBalance(a, sun, r) ==
    LET total == frozen[a][r].amount + sun IN
    /\ CanFreeze(a, sun)
    /\ frozen' = [frozen EXCEPT ![a][r] = [amount |-> total, expire |-> now + FrozenTime]]
    /\ AddWeight(r, WeightDelta(Trx(sun), Trx(total) - Trx(frozen[a][r].amount)))
    /\ balance' = [balance EXCEPT ![a] = @ - sun]
    /\ UNCHANGED <<now, flags, votes, delegated, out, acquired, listIndex, edgeIndex, stake2>>

\* FreezeBalance with a receiver.
FreezeBalanceFor(a, b, sun, r) ==
    /\ CanFreeze(a, sun)
    /\ "delegateResource" \in flags
    /\ ~("constantinople" \in flags /\ b \in Contracts)
    /\ delegated' = [delegated EXCEPT ![<<a, b>>][r] =
                        [amount |-> @.amount + sun, expire |-> now + FrozenTime]]
    /\ RecordDelegationIndex(a, b)
    /\ acquired' = [acquired EXCEPT ![b][r] = @ + sun]
    /\ out' = [out EXCEPT ![a][r] = @ + sun]
    /\ AddWeight(r, WeightDelta(Trx(sun), Trx(acquired[b][r] + sun) - Trx(acquired[b][r])))
    /\ balance' = [balance EXCEPT ![a] = @ - sun]
    /\ UNCHANGED <<now, flags, votes, frozen, stake2>>

CanUnfreeze(a, r) == frozen[a][r].amount > 0 /\ frozen[a][r].expire <= now

MutUnfreezeKeepsVotes(a, r) ==
    LET sun == frozen[a][r].amount IN
    /\ CanUnfreeze(a, r)
    /\ frozen' = [frozen EXCEPT ![a][r] = Nothing]
    /\ AddWeight(r, -Trx(sun))
    /\ balance' = [balance EXCEPT ![a] = @ + sun]
    /\ UNCHANGED <<now, flags, votes, delegated, out, acquired, listIndex, edgeIndex, stake2>>

\* UnfreezeBalance of one's own stake; both weight rules give its whole floor.
UnfreezeBalance(a, r) ==
    LET sun == frozen[a][r].amount IN
    /\ CanUnfreeze(a, r)
    /\ frozen' = [frozen EXCEPT ![a][r] = Nothing]
    /\ AddWeight(r, -Trx(sun))
    /\ balance' = [balance EXCEPT ![a] = @ + sun]
    /\ votes' = [votes EXCEPT ![a] = 0]
    /\ UNCHANGED <<now, flags, delegated, out, acquired, listIndex, edgeIndex, stake2>>

\* Until ALLOW_MULTI_SIGN, the energy side's expiry is read from the
\* bandwidth field.
DelegateExpiry(p, r) ==
    delegated[p][IF r = "ENERGY" /\ "multiSign" \notin flags THEN "BANDWIDTH" ELSE r].expire

\* validateDelegated.
CanUnfreezeFrom(p, r) ==
    /\ "delegateResource" \in flags
    /\ delegated[p][r].amount > 0
    /\ DelegateExpiry(p, r) <= now

\* What is left of b's acquired balance when sun of it is taken back.
AcquiredLeft(b, r, sun) ==
    IF "solidity059" \in flags /\ acquired[b][r] < sun THEN 0 ELSE acquired[b][r] - sun

\* UnfreezeBalance with a receiver: the whole entry of that resource.
UnfreezeBalanceFrom(a, b, r) ==
    LET p == <<a, b>>
        sun == delegated[p][r].amount
        spared == "constantinople" \in flags /\ b \in Contracts
        oldWeight == IF "solidity059" \in flags /\ acquired[b][r] < sun
                     THEN Trx(sun) ELSE Trx(acquired[b][r])
        decrease == IF spared THEN -Trx(sun) ELSE Trx(AcquiredLeft(b, r, sun)) - oldWeight
    IN
    /\ CanUnfreezeFrom(p, r)
    /\ delegated' = [delegated EXCEPT ![p][r] = Nothing]
    /\ out' = [out EXCEPT ![a][r] = @ - sun]
    /\ acquired' = IF spared THEN acquired
                   ELSE [acquired EXCEPT ![b][r] = AcquiredLeft(b, r, sun)]
    /\ AddWeight(r, WeightDelta(-Trx(sun), decrease))
    /\ IF \A s \in Resources : delegated'[p][s].amount = 0
       THEN DropDelegationIndex(a, b)
       ELSE UNCHANGED <<listIndex, edgeIndex>>
    /\ balance' = [balance EXCEPT ![a] = @ + sun]
    /\ votes' = [votes EXCEPT ![a] = 0]
    /\ UNCHANGED <<now, flags, frozen, stake2>>

-----------------------------------------------------------------------------
(* Stake 2.0.                                                              *)

WeightV2(a, r, f) == Trx(f + outV2[a][r])

FreezeBalanceV2(a, sun, r) ==
    LET f == frozenV2[a][r] IN
    /\ "stake2" \in flags
    /\ sun >= TrxPrecision
    /\ sun <= balance[a]
    /\ frozenV2' = [frozenV2 EXCEPT ![a][r] = f + sun]
    /\ AddWeight(r, WeightV2(a, r, f + sun) - WeightV2(a, r, f))
    /\ balance' = [balance EXCEPT ![a] = @ - sun]
    /\ UNCHANGED <<now, flags, votes, stake1, unfrozenV2, delegatedV2, outV2, acquiredV2,
                   edgeIndexV2>>

Matured(u) == u.expire <= now

\* sweepMaturedUnfrozenV2: what returns to the balance, and what is kept.
MaturedSun(a) ==
    SumFunction([i \in DOMAIN unfrozenV2[a] |->
                    IF Matured(unfrozenV2[a][i]) THEN unfrozenV2[a][i].amount ELSE 0])
Kept(a) ==
    LET us == unfrozenV2[a]
        kept[n \in 0 .. Len(us)] ==
            IF n = 0 THEN <<>>
            ELSE IF Matured(us[n]) THEN kept[n - 1] ELSE Append(kept[n - 1], us[n])
    IN  kept[Len(us)]

CanUnfreezeV2(a, sun, r) ==
    /\ "stake2" \in flags
    /\ sun <= frozenV2[a][r]
    /\ Len(Kept(a)) < UnfreezeMaxTimes

MutUnfreezeV2DropsMatured(a, sun, r) ==
    LET f == frozenV2[a][r] IN
    /\ CanUnfreezeV2(a, sun, r)
    /\ unfrozenV2' = [unfrozenV2 EXCEPT ![a] =
                         Append(Kept(a), [amount |-> sun, expire |-> now + UnfreezeDelay])]
    /\ frozenV2' = [frozenV2 EXCEPT ![a][r] = f - sun]
    /\ AddWeight(r, WeightV2(a, r, f - sun) - WeightV2(a, r, f))
    /\ votes' = [votes EXCEPT ![a] = 0]
    /\ UNCHANGED <<now, flags, balance, stake1, delegatedV2, outV2, acquiredV2, edgeIndexV2>>

MutUnfreezeV2FlatWeight(a, sun, r) ==
    LET f == frozenV2[a][r] IN
    /\ CanUnfreezeV2(a, sun, r)
    /\ balance' = [balance EXCEPT ![a] = @ + MaturedSun(a)]
    /\ unfrozenV2' = [unfrozenV2 EXCEPT ![a] =
                         Append(Kept(a), [amount |-> sun, expire |-> now + UnfreezeDelay])]
    /\ frozenV2' = [frozenV2 EXCEPT ![a][r] = f - sun]
    /\ AddWeight(r, -Trx(sun))
    /\ votes' = [votes EXCEPT ![a] = 0]
    /\ UNCHANGED <<now, flags, stake1, delegatedV2, outV2, acquiredV2, edgeIndexV2>>

\* UnfreezeBalanceV2: matured entries are swept first, then a new one begins.
UnfreezeBalanceV2(a, sun, r) ==
    LET f == frozenV2[a][r] IN
    /\ CanUnfreezeV2(a, sun, r)
    /\ balance' = [balance EXCEPT ![a] = @ + MaturedSun(a)]
    /\ unfrozenV2' = [unfrozenV2 EXCEPT ![a] =
                         Append(Kept(a), [amount |-> sun, expire |-> now + UnfreezeDelay])]
    /\ frozenV2' = [frozenV2 EXCEPT ![a][r] = f - sun]
    /\ AddWeight(r, WeightV2(a, r, f - sun) - WeightV2(a, r, f))
    /\ votes' = [votes EXCEPT ![a] = 0]
    /\ UNCHANGED <<now, flags, stake1, delegatedV2, outV2, acquiredV2, edgeIndexV2>>

WithdrawExpireUnfreeze(a) ==
    /\ "stake2" \in flags
    /\ balance' = [balance EXCEPT ![a] = @ + MaturedSun(a)]
    /\ unfrozenV2' = [unfrozenV2 EXCEPT ![a] = Kept(a)]
    /\ UNCHANGED <<now, flags, votes, weight, stake1, frozenV2, delegatedV2, outV2, acquiredV2,
                   edgeIndexV2>>

\* DelegateResource (unlocked): stake moves from frozen to delegated-out.
DelegateResource(a, b, sun, r) ==
    /\ "stake2" \in flags
    /\ sun >= TrxPrecision
    /\ sun <= frozenV2[a][r]
    /\ b \notin Contracts
    /\ delegatedV2' = [delegatedV2 EXCEPT ![<<a, b>>][r] = @ + sun]
    /\ edgeIndexV2' = edgeIndexV2 \cup {<<a, b>>}
    /\ acquiredV2' = [acquiredV2 EXCEPT ![b][r] = @ + sun]
    /\ outV2' = [outV2 EXCEPT ![a][r] = @ + sun]
    /\ frozenV2' = [frozenV2 EXCEPT ![a][r] = @ - sun]
    /\ UNCHANGED <<now, flags, balance, votes, weight, stake1, unfrozenV2>>

MutUnDelegateKeepsOut(a, b, sun, r) ==
    LET p == <<a, b>> IN
    /\ "stake2" \in flags
    /\ sun <= delegatedV2[p][r]
    /\ acquiredV2' = [acquiredV2 EXCEPT ![b][r] = IF @ < sun THEN 0 ELSE @ - sun]
    /\ delegatedV2' = [delegatedV2 EXCEPT ![p][r] = @ - sun]
    /\ edgeIndexV2' = IF \A s \in Resources : delegatedV2'[p][s] = 0
                      THEN edgeIndexV2 \ {p} ELSE edgeIndexV2
    /\ frozenV2' = [frozenV2 EXCEPT ![a][r] = @ + sun]
    /\ UNCHANGED <<now, flags, balance, votes, weight, stake1, unfrozenV2, outV2>>

\* UnDelegateResource: any part of it back to the owner's frozen stake.
UnDelegateResource(a, b, sun, r) ==
    LET p == <<a, b>> IN
    /\ "stake2" \in flags
    /\ sun <= delegatedV2[p][r]
    /\ acquiredV2' = [acquiredV2 EXCEPT ![b][r] = IF @ < sun THEN 0 ELSE @ - sun]
    /\ delegatedV2' = [delegatedV2 EXCEPT ![p][r] = @ - sun]
    /\ edgeIndexV2' = IF \A s \in Resources : delegatedV2'[p][s] = 0
                      THEN edgeIndexV2 \ {p} ELSE edgeIndexV2
    /\ outV2' = [outV2 EXCEPT ![a][r] = @ - sun]
    /\ frozenV2' = [frozenV2 EXCEPT ![a][r] = @ + sun]
    /\ UNCHANGED <<now, flags, balance, votes, weight, stake1, unfrozenV2>>

-----------------------------------------------------------------------------

\* What an int64 holds of n.
AsInt64(n) == ((n + Int64Half) % (2 * Int64Half)) - Int64Half

\* VoteWitness: n votes in all; they replace the earlier ones.  Neither their
\* sum nor its product with the precision is checked for an overflow, and
\* wrapping once at the end is the same as wrapping at every operation.
VoteWitness(a, n) ==
    /\ AsInt64(n * TrxPrecision) <= TronPower(a)
    /\ votes' = [votes EXCEPT ![a] = n]
    /\ UNCHANGED <<now, flags, balance, weight, stake1, stake2>>

\* A block with a later timestamp.
Tick ==
    /\ now < MaxNow
    /\ now' = now + 1
    /\ UNCHANGED <<flags, balance, votes, weight, stake1, stake2>>

Activate(f) ==
    /\ f \notin flags
    /\ flags' = flags \cup {f}
    /\ UNCHANGED <<now, balance, votes, weight, stake1, stake2>>

Next ==
    \/ \E a \in Accounts, sun \in Amounts, r \in Resources :
         \/ FreezeBalance(a, sun, r)
         \/ FreezeBalanceV2(a, sun, r)
         \/ UnfreezeBalanceV2(a, sun, r)
    \/ \E p \in Pairs, sun \in Amounts, r \in Resources :
         \/ FreezeBalanceFor(p[1], p[2], sun, r)
         \/ DelegateResource(p[1], p[2], sun, r)
         \/ UnDelegateResource(p[1], p[2], sun, r)
    \/ \E a \in Accounts, r \in Resources : UnfreezeBalance(a, r)
    \/ \E p \in Pairs, r \in Resources : UnfreezeBalanceFrom(p[1], p[2], r)
    \/ \E a \in Accounts : WithdrawExpireUnfreeze(a)
    \/ \E a \in Accounts, n \in VoteCounts : VoteWitness(a, n)
    \/ Tick
    \/ \E f \in Proposals : Activate(f)

Spec == Init /\ [][Next]_vars

-----------------------------------------------------------------------------
(* Properties.                                                             *)

\* No balance, stake or credit ever goes negative, and no account ever has
\* more than unfreezeMaxTimes unfreezing entries.
TypeOK ==
    /\ now \in 0..MaxNow
    /\ flags \subseteq Flags
    /\ balance \in [Accounts -> Nat]
    /\ votes \in [Accounts -> Nat]
    /\ weight \in [Resources -> Int]
    /\ frozen \in [Accounts -> [Resources -> Entry]]
    /\ delegated \in [Pairs -> [Resources -> Entry]]
    /\ out \in [Accounts -> Held]
    /\ acquired \in [Accounts -> Held]
    /\ listIndex \in [Accounts -> [to : SUBSET Accounts, from : SUBSET Accounts]]
    /\ edgeIndex \subseteq Pairs
    /\ frozenV2 \in [Accounts -> Held]
    /\ unfrozenV2 \in [Accounts -> Seq(Entry)]
    /\ \A a \in Accounts : Len(unfrozenV2[a]) <= UnfreezeMaxTimes
    /\ delegatedV2 \in [Pairs -> Held]
    /\ outV2 \in [Accounts -> Held]
    /\ acquiredV2 \in [Accounts -> Held]
    /\ edgeIndexV2 \subseteq Pairs

EntriesOf(a) == {p \in Pairs : p[1] = a}
EntriesTo(b) == {p \in Pairs : p[2] = b}

\* All the TRX of an account: spendable, staked under either scheme, lent out
\* or waiting to be withdrawn.
Staked(a) == SumFunction([r \in Resources |-> frozen[a][r].amount + frozenV2[a][r]])
LentOut(a) ==
    SumFunction([e \in EntriesOf(a) \X Resources |->
                    delegated[e[1]][e[2]].amount + delegatedV2[e[1]][e[2]]])
Waiting(a) == SumFunction([i \in DOMAIN unfrozenV2[a] |-> unfrozenV2[a][i].amount])
Holdings(a) == balance[a] + Staked(a) + LentOut(a) + Waiting(a)

\* Staking, lending, recalling and unstaking, before and after Stake 2.0,
\* neither create nor destroy TRX, and never move any between accounts.
TrxConserved == \A a \in Accounts : Holdings(a) = InitialBalance[a]

\* The owner's delegated-out balance is the sum of its entries, under both
\* schemes.
OutMatchesEntries ==
    \A a \in Accounts, r \in Resources :
        /\ out[a][r] = SumFunction([p \in EntriesOf(a) |-> delegated[p][r].amount])
        /\ outV2[a][r] = SumFunction([p \in EntriesOf(a) |-> delegatedV2[p][r]])

\* The receiver's acquired balance, which its energy is computed from, is the
\* sum of the entries to it; only a contract may keep what was recalled.
AcquiredMatchesEntries ==
    \A b \in Accounts, r \in Resources :
        LET lent == SumFunction([p \in EntriesTo(b) |-> delegated[p][r].amount])
        IN  /\ IF b \in Contracts THEN acquired[b][r] >= lent ELSE acquired[b][r] = lent
            /\ acquiredV2[b][r] = SumFunction([p \in EntriesTo(b) |-> delegatedV2[p][r]])

\* What is kept twice agrees: the totals of owners and receivers, which votes
\* and energy are computed from, are the sums of the delegation entries, after
\* partial recalls, expiries and clamped subtractions under both schemes.
TotalsMatchEntries == OutMatchesEntries /\ AcquiredMatchesEntries

\* Whichever index layout holds an edge, the indexes name exactly the pairs
\* with an entry, also when the optimized layout is switched on half way.
IndexMatchesEntries ==
    /\ {p \in Pairs : \E r \in Resources : delegated[p][r].amount > 0}
          = edgeIndex \cup {p \in Pairs : p[2] \in listIndex[p[1]].to}
    /\ \A p \in Pairs : p \in edgeIndex \/ (p[2] \in listIndex[p[1]].to
                                              <=> p[1] \in listIndex[p[2]].from)
    /\ {p \in Pairs : \E r \in Resources : delegatedV2[p][r] > 0} = edgeIndexV2

\* An account never holds more votes than its stake allows, whatever lowers
\* its TRON power, unless it cast so many that their value in sun is no int64:
\* the sum of a vote's counts is not checked for an overflow.
VotesWithinPower ==
    \A a \in Accounts :
        votes[a] * TrxPrecision < Int64Half => votes[a] * TrxPrecision <= TronPower(a)

\* With ALLOW_NEW_REWARD from the start, each network weight is the sum of
\* what the accounts contribute in whole TRX: floors never drift apart.
WeightIsSumOfFloors ==
    \A r \in Resources :
        weight[r] = SumFunction([a \in Accounts |->
                        Trx(frozen[a][r].amount) + Trx(acquired[a][r])
                            + Trx(frozenV2[a][r] + outV2[a][r])])

=============================================================================
