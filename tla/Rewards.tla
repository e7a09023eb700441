------------------------------- MODULE Rewards -------------------------------
(***************************************************************************)
(* Votes and rewards: vote casting, the maintenance window that tallies    *)
(* votes and advances the reward cycle, the block reward, and the lazy     *)
(* settlement that walks an account's cycles when it votes, unfreezes or   *)
(* withdraws.                                                              *)
(*                                                                         *)
(* Time is abstracted: a block may or may not cross the next maintenance   *)
(* time, and a withdrawal may or may not come 24 hours after the last one. *)
(* A ballot has one entry per witness, 0 standing for no entry.            *)
(***************************************************************************)
EXTENDS Integers, FiniteSets, Functions

CONSTANTS
    Accounts,
    Voters,         \* accounts that vote
    Witnesses,      \* accounts that are witnesses
    Ballots,        \* what a vote may say, within the voters' TRON power
    GenesisVotes,   \* VoteCount of the genesis witnesses
    WitnessPayPerBlock,
    Brokerage,      \* percent, constant: no actuator changes it
    NewAlgoCycle,   \* NEW_REWARD_ALGORITHM_EFFECTIVE_CYCLE
    NoEntry,        \* no VotesStore entry; no AccountVote snapshot
    Disabled,       \* its value when the new algorithm is off
    DecimalOfViReward,
    MaxCycle,       \* bound on reward cycles
    MaxBlocks,      \* bound on reward-paying blocks per witness and cycle
    MaxVoteCount    \* bound on a witness's count (unfreezing makes it drift up)

Cycles == 0..MaxCycle
NoVotes == [w \in Witnesses |-> 0]
BallotsOrNone == Ballots \cup {NoVotes}
RemarkNoVote == -1

ASSUME RewardsAssumption ==
    /\ Voters \subseteq Accounts
    /\ Witnesses \subseteq Accounts
    /\ IsFiniteSet(Accounts)
    /\ Ballots \subseteq [Witnesses -> Nat] \ {NoVotes}
    /\ GenesisVotes \in [Witnesses -> Nat]
    /\ WitnessPayPerBlock \in Nat
    /\ Brokerage \in 0..100
    /\ NewAlgoCycle \in Nat
    /\ Disabled > MaxCycle
    /\ DecimalOfViReward \in Nat \ {0}
    /\ MaxCycle \in Nat
    /\ MaxBlocks \in Nat
    /\ MaxVoteCount \in Nat
    /\ \A ballot \in Ballots, w \in Witnesses : ballot[w] <= DecimalOfViReward
    /\ NoEntry \notin Ballots /\ NoEntry \notin [old : BallotsOrNone, new : BallotsOrNone]

VARIABLES
    changeDelegation,   \* CHANGE_DELEGATION (proposal 34) is on
    cycle,              \* CURRENT_CYCLE_NUMBER
    votes,              \* Account.Votes
    entry,              \* VotesStore
    voteCount,          \* Witness.VoteCount
    reward,             \* DelegationStore: the voters' pool per cycle and witness
    vi,                 \* ... the reward-per-vote index
    witnessVote,        \* ... the vote count snapshot of each cycle
    accountVote,        \* ... the votes an account held at a settlement
    cursor,             \* ... beginCycle and endCycle of each account
    allowance,          \* Account.Allowance
    balance,            \* what WithdrawBalance moved to Account.Balance
    brokered,           \* brokerage credited so far (auxiliary)
    effective           \* the votes each account entered a cycle with (auxiliary)

store == <<reward, vi, witnessVote>>
aux == <<brokered, effective>>
vars == <<changeDelegation, cycle, votes, entry, voteCount, store, accountVote, cursor,
          allowance, balance, aux>>

-----------------------------------------------------------------------------
(* The amounts.                                                            *)

Vi(c, w) == IF c < 0 THEN 0 ELSE vi[c][w]

\* One witness's share of one cycle for n votes: pro rata of the snapshot.
Share(c, w, n) ==
    IF witnessVote[c][w] \in {RemarkNoVote, 0}
    THEN 0
    ELSE (n * reward[c][w]) \div witnessVote[c][w]

\* computeRewardOldCycle over [b, e), summed up witness by witness.
OldReward(b, e, ballot) ==
    SumFunction([w \in Witnesses |->
        SumFunction([c \in b..(e - 1) |-> Share(c, w, ballot[w])])])

\* The index at the end of [b, e) less the index before it, times the votes.
ViReward(b, e, ballot) ==
    LET delta(w) == Vi(e - 1, w) - Vi(b - 1, w)
    IN  SumFunction([w \in Witnesses |->
            IF delta(w) <= 0 THEN 0 ELSE (delta(w) * ballot[w]) \div DecimalOfViReward])

\* The span before the effective cycle by the old algorithm, the rest by the
\* index.
ComputeReward(b, e, ballot) ==
    LET switch == IF NewAlgoCycle < b THEN b ELSE IF NewAlgoCycle < e THEN NewAlgoCycle ELSE e
    IN  IF b >= e THEN 0
        ELSE OldReward(b, switch, ballot)
             + (IF switch < e THEN ViReward(switch, e, ballot) ELSE 0)

\* The cursor sits one cycle back and that cycle has closed.
SnapshotDue(a) ==
    cursor[a].begin + 1 = cursor[a].end /\ cursor[a].begin < cycle

SnapshotReward(a) ==
    IF SnapshotDue(a) /\ accountVote[cursor[a].begin][a] # NoEntry
    THEN ComputeReward(cursor[a].begin, cursor[a].end, accountVote[cursor[a].begin][a])
    ELSE 0

MutNextBegin(a) == cursor[a].begin

NextBegin(a) == IF SnapshotDue(a) THEN cursor[a].begin + 1 ELSE cursor[a].begin

\* What the votes the account holds earned since.
OpenReward(a) ==
    IF votes[a] = NoVotes THEN 0 ELSE ComputeReward(NextBegin(a), cycle, votes[a])

MutQueryWholeSpan(a) ==
    IF ~changeDelegation THEN 0
    ELSE IF cursor[a].begin > cycle THEN allowance[a]
    ELSE allowance[a] + SnapshotReward(a)
         + (IF votes[a] = NoVotes THEN 0 ELSE ComputeReward(cursor[a].begin, cycle, votes[a]))

\* queryReward.
QueryReward(a) ==
    IF ~changeDelegation THEN 0
    ELSE IF cursor[a].begin > cycle THEN allowance[a]
    ELSE allowance[a] + SnapshotReward(a) + OpenReward(a)

MutUpToDateNoSnapshot(a) == ~changeDelegation \/ cursor[a].begin > cycle

\* WithdrawReward has nothing to do: the cycles up to this one are settled.
UpToDate(a) ==
    \/ ~changeDelegation
    \/ cursor[a].begin > cycle
    \/ cursor[a].begin = cycle /\ accountVote[cycle][a] # NoEntry

SettledAllowance(a) ==
    IF UpToDate(a) THEN allowance[a] ELSE allowance[a] + SnapshotReward(a) + OpenReward(a)

\* The cursors and the snapshot WithdrawReward leaves.
AdvanceCursor(a) ==
    IF UpToDate(a)
    THEN UNCHANGED <<cursor, accountVote>>
    ELSE IF votes[a] = NoVotes
    THEN /\ cursor' = [cursor EXCEPT ![a].begin = cycle + 1]
         /\ UNCHANGED accountVote
    ELSE /\ cursor' = [cursor EXCEPT ![a] = [begin |-> cycle, end |-> cycle + 1]]
         /\ accountVote' = [accountVote EXCEPT ![cycle][a] = votes[a]]

-----------------------------------------------------------------------------
(* Transactions.                                                           *)

Init ==
    /\ changeDelegation = FALSE
    /\ cycle = 0
    /\ votes = [a \in Accounts |-> NoVotes]
    /\ entry = [a \in Accounts |-> NoEntry]
    /\ voteCount = GenesisVotes
    /\ reward = [c \in Cycles |-> NoVotes]
    /\ vi = [c \in Cycles |-> NoVotes]
    /\ witnessVote = [c \in Cycles |-> [w \in Witnesses |-> RemarkNoVote]]
    /\ accountVote = [c \in Cycles |-> [a \in Accounts |-> NoEntry]]
    /\ cursor = [a \in Accounts |-> [begin |-> 0, end |-> RemarkNoVote]]
    /\ allowance = [a \in Accounts |-> 0]
    /\ balance = [a \in Accounts |-> 0]
    /\ brokered = [a \in Accounts |-> 0]
    /\ effective = [c \in Cycles |-> [a \in Accounts |-> NoVotes]]

\* VoteWitnessContract: settle, then replace the account's votes and the new
\* votes of its VotesStore entry; a new entry takes the account's votes as old.
VoteWitness(a, ballot) ==
    /\ votes' = [votes EXCEPT ![a] = ballot]
    /\ entry' = [entry EXCEPT ![a] =
                    [old |-> IF @ = NoEntry THEN votes[a] ELSE @.old, new |-> ballot]]
    /\ allowance' = [allowance EXCEPT ![a] = SettledAllowance(a)]
    /\ AdvanceCursor(a)
    /\ UNCHANGED <<changeDelegation, cycle, voteCount, store, balance, aux>>

\* The vote side of UnfreezeBalance and UnfreezeBalanceV2: settle, then clear
\* the account's votes.  The VotesStore entry is not touched.
Unfreeze(a) ==
    /\ votes' = [votes EXCEPT ![a] = NoVotes]
    /\ allowance' = [allowance EXCEPT ![a] = SettledAllowance(a)]
    /\ AdvanceCursor(a)
    /\ UNCHANGED <<changeDelegation, cycle, entry, voteCount, store, balance, aux>>

\* WithdrawBalanceContract: settle, then move the whole allowance.
WithdrawBalance(a) ==
    /\ allowance[a] > 0 \/ QueryReward(a) > 0
    /\ balance' = [balance EXCEPT ![a] = @ + SettledAllowance(a)]
    /\ allowance' = [allowance EXCEPT ![a] = 0]
    /\ AdvanceCursor(a)
    /\ UNCHANGED <<changeDelegation, cycle, votes, entry, voteCount, store, aux>>

\* The proposal that switches the reward subsystem on takes effect.
Activate ==
    /\ ~changeDelegation
    /\ changeDelegation' = TRUE
    /\ UNCHANGED <<cycle, votes, entry, voteCount, store, accountVote, cursor, allowance,
                   balance, aux>>

-----------------------------------------------------------------------------
(* The end of a block.                                                     *)

BrokerageAmount == (Brokerage * WitnessPayPerBlock) \div 100

VotersAmount == WitnessPayPerBlock - BrokerageAmount

RewardAfterPay(w) ==
    IF changeDelegation THEN [reward EXCEPT ![cycle][w] = @ + VotersAmount] ELSE reward

\* payReward: the brokerage to the witness's allowance, the rest to the pool.
PayBlockReward(w) ==
    /\ reward[cycle][w] + VotersAmount <= MaxBlocks * VotersAmount
    /\ reward' = RewardAfterPay(w)
    /\ IF changeDelegation
       THEN /\ allowance' = [allowance EXCEPT ![w] = @ + BrokerageAmount]
            /\ brokered' = [brokered EXCEPT ![w] = @ + BrokerageAmount]
       ELSE UNCHANGED <<allowance, brokered>>

\* What the pending entries add to a witness's count.
Delta(w) ==
    SumFunction([a \in Accounts |->
        IF entry[a] = NoEntry THEN 0 ELSE entry[a].new[w] - entry[a].old[w]])

\* Phase 2: the tally.
Tally == [w \in Witnesses |-> voteCount[w] + Delta(w)]

\* Phase 1 of RunMaintenance, on the pool and the vote counts of the cycle
\* that closes.
AccumulateWitnessVi(r) ==
    IF NewAlgoCycle = Disabled
    THEN vi
    ELSE [vi EXCEPT ![cycle] =
            [w \in Witnesses |->
                Vi(cycle - 1, w) +
                (IF r[cycle][w] = 0 \/ voteCount[w] = 0
                 THEN 0
                 ELSE (r[cycle][w] * DecimalOfViReward) \div voteCount[w])]]

\* Phase 3: the cycle advances, if the reward subsystem is on.
AdvanceCycle ==
    IF changeDelegation
    THEN /\ cycle' = cycle + 1
         /\ witnessVote' = [witnessVote EXCEPT ![cycle + 1] = voteCount']
         /\ effective' = [effective EXCEPT ![cycle + 1] = votes]
    ELSE UNCHANGED <<cycle, witnessVote, effective>>

\* A block of witness w that stays in the epoch.
EndBlock(w) ==
    /\ PayBlockReward(w)
    /\ UNCHANGED <<changeDelegation, cycle, votes, entry, voteCount, vi, witnessVote,
                   accountVote, cursor, balance, effective>>

\* A block of witness w that crosses NEXT_MAINTENANCE_TIME: the pay first,
\* then the maintenance window.
EndBlockMaintenance(w) ==
    /\ cycle < MaxCycle
    /\ \A x \in Witnesses : Tally[x] <= MaxVoteCount
    /\ PayBlockReward(w)
    /\ vi' = AccumulateWitnessVi(reward')
    /\ voteCount' = Tally
    /\ entry' = [a \in Accounts |-> NoEntry]
    /\ AdvanceCycle
    /\ UNCHANGED <<changeDelegation, votes, accountVote, cursor, balance>>

Next ==
    \/ \E a \in Voters, ballot \in Ballots : VoteWitness(a, ballot)
    \/ \E a \in Voters : Unfreeze(a)
    \/ \E a \in Accounts : WithdrawBalance(a)
    \/ Activate
    \/ \E w \in Witnesses : EndBlock(w)
    \/ \E w \in Witnesses : EndBlockMaintenance(w)

Spec == Init /\ [][Next]_vars

-----------------------------------------------------------------------------
(* Properties.                                                             *)

\* The shape of the reward state; no pool, allowance or vote count is negative.
TypeOK ==
    /\ changeDelegation \in BOOLEAN
    /\ cycle \in Cycles
    /\ votes \in [Accounts -> BallotsOrNone]
    /\ entry \in [Accounts -> [old : BallotsOrNone, new : BallotsOrNone] \cup {NoEntry}]
    /\ voteCount \in [Witnesses -> Nat]
    /\ reward \in [Cycles -> [Witnesses -> Nat]]
    /\ vi \in [Cycles -> [Witnesses -> Nat]]
    /\ witnessVote \in [Cycles -> [Witnesses -> Nat \cup {RemarkNoVote}]]
    /\ accountVote \in [Cycles -> [Accounts -> Ballots \cup {NoEntry}]]
    /\ cursor \in [Accounts -> [begin : 0..(MaxCycle + 1), end : -1..(MaxCycle + 1)]]
    /\ allowance \in [Accounts -> Nat]
    /\ balance \in [Accounts -> Nat]
    /\ brokered \in [Accounts -> Nat]
    /\ effective \in [Cycles -> [Accounts -> BallotsOrNone]]

\* Voting rewards an account was credited or could settle now.
Earned(a) ==
    allowance[a] + balance[a] - brokered[a]
    + (IF UpToDate(a) THEN 0 ELSE SnapshotReward(a) + OpenReward(a))

\* What it should have: its share of every closed cycle for the votes it
\* entered that cycle with.
Owed(a) ==
    SumFunction([w \in Witnesses |->
        SumFunction([c \in 0..(cycle - 1) |-> Share(c, w, effective[c][a][w])])])

\* Closed cycles that are settled by the index.
IndexCycles == IF cycle > NewAlgoCycle THEN cycle - NewAlgoCycle ELSE 0

\* What truncation once per settlement, instead of once per cycle, can add
\* for each witness: nothing before the second closed cycle of the index.
IndexSlack == IF IndexCycles > 0 THEN IndexCycles - 1 ELSE 0

\* What the truncation of the index itself can cost: nothing where it divides
\* without remainder.
IndexExact == \A n \in 1..MaxVoteCount : DecimalOfViReward % n = 0
IndexLoss == IF IndexExact THEN 0 ELSE IndexCycles

\* Whenever and however often an account votes, unfreezes or withdraws, it has
\* been credited or can settle exactly its share of every closed cycle, up to
\* the rounding of the index: the cursors of WithdrawReward skip no cycle and
\* pay none twice, across the switch from the old algorithm to the index.
EarnsItsVotes ==
    \A a \in Accounts :
        /\ Owed(a) <= Earned(a) + Cardinality(Witnesses) * IndexLoss
        /\ Earned(a) <= Owed(a) + Cardinality(Witnesses) * IndexSlack

\* The voters together never earn more than was paid into the pools of the
\* closed cycles that had votes to share them.
Solvent ==
    SumFunction([a \in Accounts |-> Earned(a)])
    <= SumFunction([w \in Witnesses |->
           SumFunction([c \in 0..(cycle - 1) |->
               IF witnessVote[c][w] > 0 THEN reward[c][w] ELSE 0])])

\* What WithdrawBalance validates with (queryReward) is what it then pays
\* (WithdrawReward), two separately written walks of the same cursors.
QueryMatchesWithdraw ==
    changeDelegation => \A a \in Accounts : QueryReward(a) = SettledAllowance(a)

=============================================================================
