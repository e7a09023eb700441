----------------------------- MODULE Transactions -----------------------------
(***************************************************************************)
(* Blocks of transactions over the account state: processBlock with the    *)
(* actuator registry, transfers, contract calls paid from stake and        *)
(* balance, replay provisioning and the receipt sink, inside the sessions  *)
(* that PushBlock opens and a fork switch revokes.                         *)
(*                                                                         *)
(* Only one account, Staker, has staked energy.  What the virtual machine  *)
(* does with its budget is module CallFrames; here it uses any part of it  *)
(* and reverts, or succeeds and sends TRX from any account to any other.   *)
(* Contracts are taken one by one, whichever transactions of the block     *)
(* they are in: the first that fails fails the block.                      *)
(*                                                                         *)
(* Which block is processed when is module Manager.  Here it is any block, *)
(* any number of times: a fork switch that comes back to a block, and one  *)
(* that fails and restores the old branch, process it again.  Number and   *)
(* Slot are what its header says, which the code checks against nothing.   *)
(***************************************************************************)
EXTENDS Energy, Sequences, SequencesExt

CONSTANTS
    Accounts, Staker,
    InitialBalance,          \* of the accounts that exist at the start
    Amounts,                 \* of transfers
    Stakes,                  \* pairs <<frozen balance, TOTAL_ENERGY_WEIGHT>>
    TotalEnergyCurrentLimit,
    SupportUnfreezeDelay,
    StoredWindow, WindowOptimized,
    EnergyFee,
    FeeLimits, CallValues,   \* what contract calls ask for: any numbers
    Uses,                    \* energy their runs use
    Sends,                   \* TRX their runs send
    Blocks, Number, Slot,    \* Slot[b] is the head slot of b's timestamp
    MaxSteps,                \* bound on blocks and contracts begun
    MaxOpen                  \* bound on open sessions

Window == EnergyWindow(StoredWindow, WindowOptimized)

ASSUME TransactionsAssumption ==
    /\ IsFiniteSet(Accounts)
    /\ Staker \in DOMAIN InitialBalance
    /\ DOMAIN InitialBalance \subseteq Accounts
    /\ \A a \in DOMAIN InitialBalance : InitialBalance[a] \in Nat
    /\ Amounts \subseteq Int
    /\ Stakes \subseteq Nat \X Nat /\ IsFiniteSet(Stakes)
    /\ FeeLimits \cup CallValues \subseteq Int
    /\ Uses \cup Sends \subseteq Nat
    /\ Number \in [Blocks -> Int] /\ Slot \in [Blocks -> Int]
    /\ {TotalEnergyCurrentLimit, StoredWindow, EnergyFee, MaxSteps, MaxOpen} \subseteq Nat
    /\ {SupportUnfreezeDelay, WindowOptimized} \subseteq BOOLEAN
    /\ Window <= UsagePrecision

VARIABLES
    lenient,   \* Manager.lenient: replay provisioning is on
    view,      \* what the stores hold, seen through the open sessions
    sessions,  \* open sessions: the view below each, its block and its receipts
    work,      \* the block being processed, or NoBlock
    steps,     \* history: the number of blocks and contracts begun
    sink,      \* history: what the receipt sink was called with, in order
    completed  \* history: the times a block was processed to its end

vars == <<lenient, view, sessions, work, steps, sink, completed>>

NoBlock == [time |-> 0]

(* Of a list of receipts, how many there are and the fees they add up to.  *)
NoReceipts == [count |-> 0, fees |-> 0]

NothingDrawn == [age \in 0 .. Window - 1 |-> 0]

(* now is the head slot of LATEST_BLOCK_HEADER_TIMESTAMP; usage and last   *)
(* are the staker's EnergyUsage and LatestConsumeTimeForEnergy.  History:  *)
(* what provisioning minted, whose calls Uncovers, and the staked energy   *)
(* paid out now, one slot ago, ..., since the time last moved back.        *)
InitialView(stake) ==
    [exists |-> DOMAIN InitialBalance,
     balance |-> [a \in Accounts |-> IF a \in DOMAIN InitialBalance THEN InitialBalance[a] ELSE 0],
     stake |-> stake, usage |-> 0, last |-> 0, now |-> 0,
     minted |-> 0, uncovered |-> {}, drawn |-> NothingDrawn]

Init ==
    /\ lenient \in BOOLEAN
    /\ \E s \in Stakes : view = InitialView(s)
    /\ sessions = <<>>
    /\ work = NoBlock
    /\ steps = 0
    /\ sink = <<>>
    /\ completed = {}

-----------------------------------------------------------------------------
(* The session of a block.                                                 *)

(* applyOnTop, switchFork, restoreBranch: a session, then processBlock.    *)
OpenBlock(b) ==
    /\ work = NoBlock
    /\ steps < MaxSteps
    /\ Len(sessions) < MaxOpen
    /\ steps' = steps + 1
    /\ work' = [time |-> steps + 1, block |-> b, receipts |-> NoReceipts]
    /\ sessions' = Append(sessions, [below |-> view, time |-> steps + 1, block |-> b,
                                    receipts |-> NoReceipts])
    /\ UNCHANGED <<lenient, view, sink, completed>>

(* A contract of the block has been executed; next and receipts are what   *)
(* it leaves.                                                              *)
Executed(next, receipts) ==
    /\ view' = next
    /\ work' = [work EXCEPT !.receipts = [count |-> @.count + receipts.count,
                                          fees |-> @.fees + receipts.fees]]
    /\ steps' = steps + 1
    /\ UNCHANGED <<lenient, sessions, sink, completed>>

Busy == work # NoBlock /\ steps < MaxSteps

(* The sink is called with the header's number, and not at all for a block *)
(* without contract calls.  History: which processing of a block this was, *)
(* and whether a block below it has the same number.                       *)
Delivered ==
    IF work.receipts = NoReceipts THEN sink
    ELSE Append(sink, [number |-> Number[work.block], receipts |-> work.receipts,
                       time |-> work.time,
                       repeats |-> \E k \in 1 .. Len(sessions) - 1 :
                                      Number[sessions[k].block] = Number[work.block]])

MutFailBlockDelivers ==
    /\ view' = Last(sessions).below
    /\ sessions' = Front(sessions)
    /\ work' = NoBlock
    /\ sink' = Delivered
    /\ UNCHANGED <<lenient, steps, completed>>

(* A block that cannot be processed: its session is revoked.               *)
FailBlock ==
    /\ view' = Last(sessions).below
    /\ sessions' = Front(sessions)
    /\ work' = NoBlock
    /\ UNCHANGED <<lenient, steps, sink, completed>>

(* What was drawn, slots later.                                            *)
Aged(drawn, passed) ==
    IF passed < 0 THEN NothingDrawn
    ELSE [age \in 0 .. Window - 1 |-> IF age < passed THEN 0 ELSE drawn[age - passed]]

(* The tail of processBlock: the header's time, then the receipt sink.     *)
CloseBlock ==
    /\ work # NoBlock
    /\ view' = [view EXCEPT !.now = Slot[work.block],
                            !.drawn = Aged(@, Slot[work.block] - view.now)]
    /\ sessions' = [sessions EXCEPT ![Len(sessions)].receipts = work.receipts]
    /\ sink' = Delivered
    /\ completed' = completed \cup {work.time}
    /\ work' = NoBlock
    /\ UNCHANGED <<lenient, steps>>

(* switchFork revokes the tip's session.                                   *)
RevokeTip ==
    /\ work = NoBlock
    /\ sessions # <<>>
    /\ view' = Last(sessions).below
    /\ sessions' = Front(sessions)
    /\ UNCHANGED <<lenient, work, steps, sink, completed>>

-----------------------------------------------------------------------------
(* The contracts of a block.                                               *)

(* provisionReplay: an owner without the amount is given it.               *)
Provisioned(v, owner, amount) ==
    IF ~lenient \/ v.balance[owner] >= amount THEN v
    ELSE [v EXCEPT !.exists = @ \cup {owner}, !.balance[owner] = amount,
                   !.minted = @ + amount - v.balance[owner]]

(* Validate of a transfer.                                                 *)
MutCanTransfer(v, owner, to, amount) ==
    amount > 0 /\ owner # to /\ owner \in v.exists

CanTransfer(v, owner, to, amount) ==
    /\ amount > 0
    /\ owner # to
    /\ owner \in v.exists
    /\ v.balance[owner] >= amount

MutMoved(v, owner, to, amount) ==
    [v EXCEPT !.balance[owner] = @ - amount,
              !.balance[to] = IF to \in v.exists THEN @ + amount ELSE 0,
              !.exists = @ \cup {to}]

(* Execute: a recipient that does not exist yet is created.                *)
Moved(v, owner, to, amount) ==
    [v EXCEPT !.balance[owner] = @ - amount, !.balance[to] = @ + amount,
              !.exists = @ \cup {to}]

Transfer(owner, to, amount) ==
    LET v == Provisioned(view, owner, amount)
    IN  /\ Busy
        /\ CanTransfer(v, owner, to, amount)
        /\ Executed(Moved(v, owner, to, amount), NoReceipts)

TransferFails(owner, to, amount) ==
    /\ Busy
    /\ ~CanTransfer(Provisioned(view, owner, amount), owner, to, amount)
    /\ FailBlock

(* A contract type without an actuator is skipped, which only a replay     *)
(* puts up with.                                                           *)
Unhandled ==
    /\ Busy
    /\ IF lenient THEN Executed(view, NoReceipts) ELSE FailBlock

(* The staking actuators (module Stake) change the stake or the network's  *)
(* weight.                                                                 *)
Restake(s) ==
    /\ Busy
    /\ s \in Stakes \ {view.stake}
    /\ Executed([view EXCEPT !.stake = s], NoReceipts)

LimitOf(s) ==
    GlobalEnergyLimit(s[1], TotalEnergyCurrentLimit, s[2], SupportUnfreezeDelay)

(* availableStakedEnergy; only the staker has any.                         *)
CallerEnergy(v, owner) ==
    IF owner = Staker
    THEN AvailableStakedEnergy(LimitOf(v.stake), v.usage, v.last, v.now, Window)
    ELSE 0

MutChargeSlotOnly(v, owner, used) ==
    IF owner # Staker THEN v
    ELSE [v EXCEPT !.usage = RecoverEnergyUsage(v.usage, v.last, v.now, Window), !.last = v.now]

(* chargeCallerEnergy; without stake there is no usage to keep.            *)
ChargeCallerEnergy(v, owner, used) ==
    IF owner # Staker THEN v
    ELSE [v EXCEPT !.usage = IncreaseEnergyUsage(v.usage, used, v.last, v.now, Window),
                   !.last = v.now]

Budget(owner, value, feeLimit) ==
    AccountEnergyLimit(CallerEnergy(view, owner), view.balance[owner], value, feeLimit, EnergyFee)

(* How a run ends: reverted, or having sent TRX.                           *)
Runs == {r \in [reverted : BOOLEAN, from : Accounts, to : Accounts, sent : Sends] :
            /\ r.reverted => r.sent = 0
            /\ r.from # r.to <=> r.sent > 0}

Shifted(v, from, to, amount) ==
    LET taken == [v EXCEPT !.exists = @ \cup {from, to}, !.balance[from] = @ - amount]
    IN  IF amount <= 0 THEN v ELSE [taken EXCEPT !.balance[to] = @ + amount]

(* A call its owner's balance may not cover: its value is negative, which  *)
(* raises the budget, or more than the balance, or the run sends TRX out   *)
(* of the owner's own account before the fee is taken from it.             *)
Uncovers(owner, value, run) ==
    \/ value < 0
    \/ ~run.reverted /\ (value > view.balance[owner] \/ (run.sent > 0 /\ run.from = owner))

(* vmActuator.Execute.  A positive call value moves without a look at the  *)
(* owner's balance, and comes back if the run reverts; the energy is       *)
(* billed either way.  The run sends what an account has (balances are     *)
(* words: one below zero is a very large one).                             *)
ExecuteContract(owner, contract, value, feeLimit, used, run) ==
    LET bill == Compute([energyUsed |-> used, callerEnergy |-> CallerEnergy(view, owner),
                         originEnergy |-> 0, callerIsOrigin |-> FALSE,
                         consumeUserPercent |-> 100, originEnergyLimit |-> 0,
                         energyPrice |-> EnergyFee])
        paid == IF run.reverted THEN view ELSE Shifted(view, owner, contract, value)
        ran  == [Shifted(paid, run.from, run.to, run.sent) EXCEPT
                    !.uncovered = @ \cup {a \in {owner} : Uncovers(owner, value, run)}]
        billed == [ran EXCEPT !.balance[owner] = @ - bill.energyFee,
                              !.drawn[0] = @ + bill.energyUsage]
    IN  /\ Busy
        /\ used <= Max({Budget(owner, value, feeLimit), 0})
        /\ paid.balance[run.from] \notin 0 .. run.sent - 1
        /\ Executed(ChargeCallerEnergy(billed, owner, bill.energyUsage),
                    [count |-> 1, fees |-> bill.energyFee])

Next ==
    \/ \E b \in Blocks : OpenBlock(b)
    \/ \E owner, to \in Accounts, amount \in Amounts :
          Transfer(owner, to, amount) \/ TransferFails(owner, to, amount)
    \/ Unhandled
    \/ \E s \in Stakes : Restake(s)
    \/ \E owner, contract \in Accounts, value \in CallValues, feeLimit \in FeeLimits,
          used \in Uses, run \in Runs :
              ExecuteContract(owner, contract, value, feeLimit, used, run)
    \/ CloseBlock
    \/ RevokeTip

Spec == Init /\ [][Next]_vars

-----------------------------------------------------------------------------
(* Properties.                                                             *)

Total(f) == SumFunction(f)
Burned ==
    Total([k \in DOMAIN sessions |-> sessions[k].receipts.fees])
        + (IF work = NoBlock THEN 0 ELSE work.receipts.fees)

(* TRX is only burned as the receipts of the applied blocks say: transfers *)
(* and call values move it between accounts, failed and revoked blocks     *)
(* give everything back, replay provisioning is all that mints it.         *)
BurnMatchesReceipts ==
    Total(view.balance) = Total(InitialBalance) + view.minted - Burned

(* No balance is negative unless its account made a call that Uncovers:    *)
(* nothing else overdraws, not a transfer, not what the run of another's   *)
(* call sends, nor the fee of a run that uses its whole budget, whether it *)
(* reverts or not, although it is taken after the run without a check.     *)
OverdrawnOnlyUncovered ==
    \A a \in Accounts : view.balance[a] < 0 => a \in view.uncovered

(* The applied receipts can be found in what the sink was given, restored, *)
(* revoked and repeated blocks and all: it hears nothing of a block that   *)
(* fails half way; and of all it hears for the number of an applied block  *)
(* the last are the receipts of the processing that is applied, not of one *)
(* before it - but for blocks put on top that repeat a number below them,  *)
(* which nothing in the code rules out.                                    *)
SinkHoldsApplied ==
    /\ \A i \in DOMAIN sink : sink[i].time \in completed
    /\ \A k \in DOMAIN sessions : sessions[k].receipts.count > 0 =>
          \E i \in DOMAIN sink :
              /\ sink[i].time = sessions[k].time
              /\ sink[i].number = Number[sessions[k].block]
              /\ sink[i].receipts = sessions[k].receipts
              /\ \A j \in i + 1 .. Len(sink) :
                    sink[j].number = sink[i].number => sink[j].repeats

(* The most usage a stake can have: the largest limit, and a unit that     *)
(* averageAdd was rounded up by.                                           *)
PeakUsage == Max({LimitOf(k) : k \in Stakes}) + 1

(* A stake is a rate, not a well: however transactions, blocks, revoked    *)
(* blocks and stake changes follow each other, one recovery window pays    *)
(* out at most a full limit, and what of it recovers before the window is  *)
(* over: one slot's part of it in each slot after the first, where         *)
(* IncreaseEnergyUsage rounds by at most one and a half units.  This is so *)
(* from any usage, but only while header time does not move back: nothing  *)
(* checks it, and time moved on and back gives a used limit again.         *)
WindowDrawBounded ==
    Total(view.drawn)
        <= PeakUsage + ((Window - 1) * (2 * PeakUsage + 3 * Window)) \div (2 * Window)

(* Paying from the stake costs the stake: what a contract call takes is    *)
(* gone for the next one in the same block, whatever the rounding of the   *)
(* average in IncreaseEnergyUsage does.                                    *)
NoFreeEnergy ==
    [][work' # NoBlock /\ view'.stake = view.stake
           => CallerEnergy(view', Staker)
                  <= CallerEnergy(view, Staker) - (view'.drawn[0] - view.drawn[0])]_vars

=============================================================================
