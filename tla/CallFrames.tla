----------------------------- MODULE CallFrames -----------------------------
(***************************************************************************)
(* A smart-contract transaction: vmActuator.Execute, the nested frames of  *)
(* the EVM (doCall, doCreate, runFrame), the energy meters, the event log  *)
(* and the working copy of the accounts (vmStateDB) with its snapshots.    *)
(*                                                                         *)
(* Programs are arbitrary: the innermost frame takes any step its energy   *)
(* allows.  Of an account's storage one slot is kept, of its code only the *)
(* length.  Each fault (invalid opcode, stack, bad jump, out of energy,    *)
(* state change in a static call) has the same effect: action Fault.       *)
(* vmStateDB loads accounts on first use; since the node stores do not     *)
(* change while a transaction runs, the model loads all of them at its     *)
(* start.                                                                  *)
(***************************************************************************)
EXTENDS Energy, Sequences, Functions

CONSTANTS
    Addresses,
    Owner,              \* the transaction's owner, an account without code
    Contracts,          \* contracts deployed before
    Precompiles,        \* addresses of precompiled contracts
    DeployAddress,      \* CreateContractAddress(owner, txID)
    CreateAddress,      \* CreateAddress[nonce] = createAddress(rootTxID, nonce)
    Create2Address,     \* by sender, for one salt and init code
    InitialBalance,
    TxValues,           \* TRX the transaction may ask to move: any number
    CallValues,         \* TRX a call may carry
    CallerEnergies,     \* staked energy the owner may have (module Transactions)
    FeeLimits, EnergyFee,
    Requests,           \* energy a call may ask for
    Writes,             \* what SSTORE may write: "zero", "set"
    MaxCallDepth,
    Forward6364,        \* hardfork: keep 1/64 (here 1/ForwardPart) back
    ForwardPart,
    OpGas, CallGas, VtCall, NewAcctCall, StipendCall,
    CreateGas, CreateData, SstoreSet, SstoreReset, PrecompileGas,
    MaxCodeLength       \* bound on the code a constructor returns

ASSUME CallFramesAssumption ==
    /\ IsFiniteSet(Addresses)
    /\ Contracts \cup Precompiles \cup {Owner, DeployAddress} \subseteq Addresses
    /\ DOMAIN CreateAddress \subseteq Nat
    /\ DOMAIN Create2Address \subseteq Addresses
    /\ Range(CreateAddress) \cup Range(Create2Address) \subseteq Addresses
    /\ InitialBalance \in [Addresses -> Int]
    /\ TxValues \cup FeeLimits \subseteq Int
    /\ CallValues \cup CallerEnergies \cup Requests \subseteq Nat
    /\ {EnergyFee, MaxCallDepth, NewAcctCall, StipendCall, VtCall, CreateData} \subseteq Nat
    /\ {OpGas, CallGas, CreateGas, SstoreSet, SstoreReset, PrecompileGas, ForwardPart,
        MaxCodeLength} \subseteq Nat \ {0}
    /\ Writes \subseteq {"zero", "set"}
    /\ Forward6364 \in BOOLEAN
    /\ StipendCall <= VtCall

VARIABLES
    stores,    \* the node's account, code and storage stores
    work,      \* vmStateDB.dirty
    snaps,     \* vmStateDB.snaps
    logs,      \* EVM.logs: the emitting addresses
    frames,    \* the running frames, innermost last
    phase,     \* of the transaction: "new", "running", "over"
    tx,        \* what it asks for and may spend
    receipt,
    pushed,    \* the word the last call or create left on its caller's stack
    burned,    \* TRX burned as energy fees
    paidFor    \* history: energy of the steps taken, surcharges of calls left out

txVars == <<phase, tx, receipt>>
vars == <<stores, work, snaps, logs, frames, txVars, pushed, burned, paidFor>>

CallKinds == {"call", "callcode", "delegate", "static"}
Slots == {"absent", "zero", "set"}

Account == [bal : Int, code : 0 .. MaxCodeLength, slot : Slots, exists : BOOLEAN]
VmAccount == [bal : Int, code : 0 .. MaxCodeLength, slot : Slots, exists : BOOLEAN, nonce : Nat,
              balDirty : BOOLEAN, codeDirty : BOOLEAN, slotDirty : BOOLEAN]

(* The kind a frame was entered by, whose state it works on, its energy    *)
(* meter, and its way back; before is history: the state it started from.  *)
Frames == [kind : CallKinds \cup {"top", "create"}, self : Addresses, readOnly : BOOLEAN,
           hasCode : BOOLEAN, limit : Nat, used : Nat, snap : Nat, logMark : Nat,
           before : [work : [Addresses -> VmAccount], logs : Seq(Addresses)]]

Running == frames # <<>>
Inner == frames[Len(frames)]
Depth == Len(frames) - 1
Remaining(f) == f.limit - f.used

-----------------------------------------------------------------------------
(* The working copy: each operator is the copy after one vmStateDB call.   *)

Load(a) ==
    [bal |-> stores[a].bal, code |-> stores[a].code, slot |-> stores[a].slot,
     exists |-> stores[a].exists, nonce |-> 0,
     balDirty |-> FALSE, codeDirty |-> FALSE, slotDirty |-> FALSE]

NewVMStateDB == [a \in Addresses |-> Load(a)]

CreateAccount(w, a) == [w EXCEPT ![a].exists = TRUE, ![a].balDirty = TRUE]

MutAddBalanceClean(w, a, value) ==
    [w EXCEPT ![a].bal = @ + value, ![a].exists = TRUE]

AddBalance(w, a, value) ==
    [w EXCEPT ![a].bal = @ + value, ![a].balDirty = TRUE, ![a].exists = TRUE]

SubBalance(w, a, value) ==
    [w EXCEPT ![a].bal = @ - value, ![a].balDirty = TRUE, ![a].exists = TRUE]

MutTransferStale(w, from, to, value) ==
    IF value = 0 THEN w
    ELSE [w EXCEPT ![from].bal = w[from].bal - value, ![from].balDirty = TRUE,
                   ![to].bal = w[to].bal + value, ![to].balDirty = TRUE,
                   ![to].exists = TRUE]

Transfer(w, from, to, value) ==
    IF value = 0 THEN w ELSE AddBalance(SubBalance(w, from, value), to, value)

SetNonce(w, a, nonce) == [w EXCEPT ![a].nonce = nonce]

SetCode(w, a, length) ==
    [w EXCEPT ![a].code = length, ![a].codeDirty = TRUE, ![a].exists = TRUE]

SetStorage(w, a, value) ==
    [w EXCEPT ![a].slot = value, ![a].slotDirty = TRUE, ![a].exists = TRUE]

(* What Flush leaves in the stores: only what is marked dirty is written.  *)
Flushed(w) ==
    [a \in Addresses |->
        [bal    |-> IF w[a].balDirty THEN w[a].bal ELSE stores[a].bal,
         code   |-> IF w[a].codeDirty THEN w[a].code ELSE stores[a].code,
         slot   |-> IF w[a].slotDirty THEN w[a].slot ELSE stores[a].slot,
         exists |-> stores[a].exists \/ w[a].balDirty \/ w[a].codeDirty]]

(* Snapshot appends a copy and returns its index.                          *)
SnapshotId == Len(snaps) + 1

MutRevertedLatest(id) == IF snaps = <<>> THEN work ELSE snaps[Len(snaps)]

(* RevertToSnapshot ignores an index that is not there.                    *)
Reverted(id) == IF id \in DOMAIN snaps THEN snaps[id] ELSE work
SnapsBelow(id) == IF id \in DOMAIN snaps THEN SubSeq(snaps, 1, id - 1) ELSE snaps

-----------------------------------------------------------------------------
(* Energy meters.                                                          *)

CanSpend(cost) == cost <= Remaining(Inner)

Spend(f, cost) == [f EXCEPT !.used = @ + cost]

(* restore never takes used below zero.                                    *)
Restore(f, n) == [f EXCEPT !.used = Max({@ - n, 0})]

(* A step of the innermost frame that costs energy and nothing else.       *)
Charged(cost) == [frames EXCEPT ![Len(frames)] = Spend(@, cost)]

CallEnergy(requested, available) ==
    Min({requested,
         IF Forward6364 THEN available - available \div ForwardPart ELSE available})

MutCallCostNoCallcode(kind, to, value) ==
    CallGas + (IF value > 0 /\ kind = "call" THEN VtCall ELSE 0)
            + (IF value > 0 /\ kind = "call" /\ ~work[to].exists THEN NewAcctCall ELSE 0)

(* gasCall, gasCallcode, gasCallNoValue.                                   *)
CallCost(kind, to, value) ==
    CallGas + (IF value > 0 THEN VtCall ELSE 0)
            + (IF value > 0 /\ kind = "call" /\ ~work[to].exists THEN NewAcctCall ELSE 0)

SstoreCost(value) ==
    IF work[Inner.self].slot = "absent" /\ value # "zero" THEN SstoreSet ELSE SstoreReset

-----------------------------------------------------------------------------
(* The start of a transaction.                                             *)

Init ==
    /\ stores = [a \in Addresses |->
                    [bal |-> InitialBalance[a], code |-> IF a \in Contracts THEN 1 ELSE 0,
                     slot |-> "absent", exists |-> a \in Contracts \cup {Owner}]]
    /\ work = NewVMStateDB
    /\ snaps = <<>>
    /\ logs = <<>>
    /\ frames = <<>>
    /\ phase = "new"
    /\ tx = [create |-> FALSE, callerEnergy |-> 0, budget |-> 0]
    /\ receipt = [energy |-> NoBill, reverted |-> FALSE, logs |-> <<>>]
    /\ pushed = 1
    /\ burned = 0
    /\ paidFor = 0

(* A frame entered now, over the copy w and a snapshot of it.              *)
NewFrame(kind, self, readOnly, limit, hasCode, w) ==
    [kind |-> kind, self |-> self, readOnly |-> readOnly, hasCode |-> hasCode,
     limit |-> limit, used |-> 0, snap |-> SnapshotId, logMark |-> Len(logs),
     before |-> [work |-> w, logs |-> logs]]

(* Execute up to the run: budget, snapshot, new account, value transfer.   *)
(* The call value is checked against nothing: one the owner does not have  *)
(* overdraws it, a negative one moves nothing and raises the budget.       *)
Begin(create, to, callValue, callerEnergy, feeLimit) ==
    LET budget == Max({AccountEnergyLimit(callerEnergy, stores[Owner].bal, callValue,
                                          feeLimit, EnergyFee), 0})
        fresh  == IF create THEN CreateAccount(work, to) ELSE work
    IN  /\ phase = "new"
        /\ phase' = "running"
        /\ IF create THEN to = DeployAddress ELSE to \in Contracts \cup {Owner}
        /\ tx' = [create |-> create, callerEnergy |-> callerEnergy, budget |-> budget]
        /\ snaps' = Append(snaps, work)
        /\ work' = IF callValue > 0 THEN Transfer(fresh, Owner, to, callValue) ELSE fresh
        /\ frames' = <<NewFrame("top", to, FALSE, budget, create \/ work[to].code > 0, work)>>
        /\ UNCHANGED <<stores, logs, receipt, pushed, burned, paidFor>>

-----------------------------------------------------------------------------
(* Steps of the innermost frame.                                           *)

(* Steps are counted up to one more than the budget can pay for.           *)
PayFor(energy) == paidFor' = Min({paidFor + energy, tx.budget + 1})

CanStep(cost) == Running /\ Inner.hasCode /\ CanSpend(cost)

(* An opcode that neither calls nor changes state.                         *)
Step ==
    /\ CanStep(OpGas)
    /\ frames' = Charged(OpGas)
    /\ PayFor(OpGas)
    /\ UNCHANGED <<stores, work, snaps, logs, txVars, pushed, burned>>

Sstore(value) ==
    /\ CanStep(SstoreCost(value))
    /\ ~Inner.readOnly
    /\ work' = SetStorage(work, Inner.self, value)
    /\ frames' = Charged(SstoreCost(value))
    /\ PayFor(SstoreCost(value))
    /\ UNCHANGED <<stores, snaps, logs, txVars, pushed, burned>>

OpLog ==
    /\ CanStep(OpGas)
    /\ ~Inner.readOnly
    /\ logs' = Append(logs, Inner.self)
    /\ frames' = Charged(OpGas)
    /\ PayFor(OpGas)
    /\ UNCHANGED <<stores, work, snaps, txVars, pushed, burned>>

(* The call or create does not run: too deep, or not enough TRX.  Balances *)
(* are words of 256 bits: one below zero counts as a very large one.       *)
Refused(value) == Depth >= MaxCallDepth \/ work[Inner.self].bal \in 0 .. value - 1

(* Only CALL and CALLCODE carry a value, and not in a static context.      *)
MayCarry(kind, value) ==
    value > 0 => kind \in {"call", "callcode"} /\ ~Inner.readOnly

CallRefused(kind, to, value) ==
    LET cost == CallCost(kind, to, value)
    IN  /\ CanStep(cost)
        /\ MayCarry(kind, value)
        /\ Refused(value)
        /\ frames' = Charged(cost)
        /\ pushed' = 0
        /\ PayFor(CallGas)
        /\ UNCHANGED <<stores, work, snaps, logs, txVars, burned>>

(* What a call hands its child: the reserved energy and, with a value, the *)
(* stipend on top.                                                         *)
Reserved(cost, requested) == CallEnergy(requested, Remaining(Inner) - cost)
Stipend(value) == IF value > 0 THEN StipendCall ELSE 0

(* Only CALL moves TRX (CALLCODE works on its caller's own account).       *)
Moved(kind, to, value) ==
    IF kind = "call" THEN Transfer(work, Inner.self, to, value) ELSE work

(* A precompiled contract runs natively, without a frame of its own.  One  *)
(* that fails takes its whole budget, and its snapshot is reverted.        *)
CallPrecompile(kind, to, value, requested, ok) ==
    LET cost   == CallCost(kind, to, value)
        budget == Reserved(cost, requested) + Stipend(value)
        used   == IF ok THEN PrecompileGas ELSE budget
    IN  /\ to \in Precompiles
        /\ CanStep(cost)
        /\ MayCarry(kind, value)
        /\ ~Refused(value)
        /\ used <= budget
        /\ frames' = [frames EXCEPT ![Len(frames)] =
                          Restore(Spend(@, cost + Reserved(cost, requested)), budget - used)]
        /\ work' = IF ok THEN Moved(kind, to, value) ELSE work
        /\ snaps' = IF ok THEN Append(snaps, work) ELSE snaps
        /\ pushed' = IF ok THEN 1 ELSE 0
        /\ PayFor(CallGas + (IF ok THEN PrecompileGas ELSE 0))
        /\ UNCHANGED <<stores, logs, txVars, burned>>

MutStaticOnce(kind) == kind = "static"

(* A static call makes everything below it read only.                      *)
ChildReadOnly(kind) == Inner.readOnly \/ kind = "static"

Call(kind, to, value, requested) ==
    LET cost  == CallCost(kind, to, value)
        child == NewFrame(kind, IF kind \in {"call", "static"} THEN to ELSE Inner.self,
                          ChildReadOnly(kind), Reserved(cost, requested) + Stipend(value),
                          work[to].code > 0, work)
    IN  /\ to \notin Precompiles
        /\ CanStep(cost)
        /\ MayCarry(kind, value)
        /\ ~Refused(value)
        /\ frames' = Append(Charged(cost + Reserved(cost, requested)), child)
        /\ snaps' = Append(snaps, work)
        /\ work' = Moved(kind, to, value)
        /\ PayFor(CallGas)
        /\ UNCHANGED <<stores, logs, txVars, pushed, burned>>

CreateRefused(value) ==
    /\ CanStep(CreateGas)
    /\ ~Inner.readOnly
    /\ Refused(value)
    /\ frames' = Charged(CreateGas)
    /\ pushed' = 0
    /\ PayFor(CreateGas)
    /\ UNCHANGED <<stores, work, snaps, logs, txVars, burned>>

(* The address of CREATE comes from the transaction and the creator's      *)
(* nonce, that of CREATE2 from the creator, the salt and the init code.    *)
CanDerive(create2) ==
    IF create2 THEN Inner.self \in DOMAIN Create2Address
               ELSE work[Inner.self].nonce \in DOMAIN CreateAddress
NewAddress(create2) ==
    IF create2 THEN Create2Address[Inner.self] ELSE CreateAddress[work[Inner.self].nonce]

(* The nonce is raised before the snapshot: a failed creation keeps it.    *)
Create(create2, value) ==
    LET bumped  == SetNonce(work, Inner.self, work[Inner.self].nonce + 1)
        newAddr == NewAddress(create2)
        gas     == CallEnergy(Remaining(Inner) - CreateGas, Remaining(Inner) - CreateGas)
    IN  /\ CanStep(CreateGas)
        /\ ~Inner.readOnly
        /\ ~Refused(value)
        /\ CanDerive(create2)
        /\ frames' = Append(Charged(CreateGas + gas),
                            NewFrame("create", newAddr, FALSE, gas, TRUE, bumped))
        /\ snaps' = Append(snaps, bumped)
        /\ work' = Transfer(CreateAccount(bumped, newAddr), Inner.self, newAddr, value)
        /\ PayFor(CreateGas)
        /\ UNCHANGED <<stores, logs, txVars, pushed, burned>>

-----------------------------------------------------------------------------
(* The end of a nested frame.                                              *)

Nested == Len(frames) > 1
Popped(refund) ==
    [i \in 1 .. Len(frames) - 1 |->
        IF i = Len(frames) - 1 THEN Restore(frames[i], refund) ELSE frames[i]]

MutUndoKeepsLogs(refund) ==
    /\ frames' = Popped(refund)
    /\ work' = Reverted(Inner.snap)
    /\ snaps' = SnapsBelow(Inner.snap)
    /\ pushed' = 0
    /\ UNCHANGED <<logs, stores, txVars, burned, paidFor>>

(* A frame that failed: its snapshot and its log mark are restored.        *)
Undo(refund) ==
    /\ frames' = Popped(refund)
    /\ work' = Reverted(Inner.snap)
    /\ snaps' = SnapsBelow(Inner.snap)
    /\ logs' = SubSeq(logs, 1, Inner.logMark)
    /\ pushed' = 0
    /\ UNCHANGED <<stores, txVars, burned, paidFor>>

ReturnCall ==
    /\ Nested /\ Inner.kind # "create"
    /\ frames' = Popped(Remaining(Inner))
    /\ pushed' = 1
    /\ UNCHANGED <<stores, work, snaps, logs, txVars, burned, paidFor>>

(* A constructor returned code of this length.                             *)
ReturnCreate(length) ==
    /\ Nested /\ Inner.kind = "create"
    /\ length * CreateData <= Remaining(Inner)
    /\ frames' = Popped(Remaining(Inner) - length * CreateData)
    /\ work' = SetCode(work, Inner.self, length)
    /\ pushed' = 1
    /\ PayFor(length * CreateData)
    /\ UNCHANGED <<stores, snaps, logs, txVars, burned>>

(* The energy left does not pay for storing the code: all of it is gone.   *)
ReturnCreateUnpaid(length) ==
    /\ Nested /\ Inner.kind = "create"
    /\ length * CreateData > Remaining(Inner)
    /\ Undo(0)

MutRevertRefundsAll == Nested /\ Inner.hasCode /\ Undo(Inner.limit)

(* REVERT gives the unused energy back, a fault does not.                  *)
RevertNested == Nested /\ Inner.hasCode /\ Undo(Remaining(Inner))
FaultNested == Nested /\ Inner.hasCode /\ Undo(0)

-----------------------------------------------------------------------------
(* A deployer is its contract's origin; the caller of a contract pays all. *)
BillFor(used) ==
    [energyUsed |-> used, callerEnergy |-> tx.callerEnergy, originEnergy |-> 0,
     callerIsOrigin |-> tx.create, consumeUserPercent |-> 100, originEnergyLimit |-> 0,
     energyPrice |-> EnergyFee]

(* The end of the transaction: revert or deployment, bill, burn, flush and *)
(* receipt.  The fee is taken after the revert.                            *)
Finish(outcome, length) ==
    LET failed == outcome # "stop"
        used   == IF outcome = "fault" THEN Inner.limit ELSE Inner.used
        kept   == IF failed THEN Reverted(Inner.snap)
                  ELSE IF tx.create THEN SetCode(work, Inner.self, length) ELSE work
        bill   == Compute(BillFor(used))
        final  == IF bill.energyFee > 0 THEN SubBalance(kept, Owner, bill.energyFee) ELSE kept
    IN  /\ Len(frames) = 1
        /\ failed => Inner.hasCode
        /\ length > 0 => tx.create /\ ~failed
        /\ work' = final
        /\ snaps' = IF failed THEN SnapsBelow(Inner.snap) ELSE snaps
        /\ stores' = Flushed(final)
        /\ burned' = burned + bill.energyFee
        /\ receipt' = [energy |-> bill, reverted |-> failed,
                       logs |-> IF failed THEN <<>> ELSE logs]
        /\ frames' = <<>>
        /\ phase' = "over"
        /\ UNCHANGED <<logs, tx, pushed, paidFor>>

(* Nothing follows a transaction that is over.                             *)
Done == phase = "over" /\ UNCHANGED vars

CallStep ==
    \E kind \in CallKinds, to \in Addresses, value \in CallValues :
        \/ CallRefused(kind, to, value)
        \/ \E requested \in Requests :
               \/ Call(kind, to, value, requested)
               \/ \E ok \in BOOLEAN : CallPrecompile(kind, to, value, requested, ok)

CreateStep ==
    \E value \in CallValues :
        \/ CreateRefused(value)
        \/ \E create2 \in BOOLEAN : Create(create2, value)

EndStep ==
    \/ ReturnCall
    \/ \E length \in 0 .. MaxCodeLength : ReturnCreate(length) \/ ReturnCreateUnpaid(length)
    \/ RevertNested
    \/ FaultNested
    \/ \E outcome \in {"stop", "revert", "fault"}, length \in 0 .. MaxCodeLength :
           Finish(outcome, length)

Next ==
    \/ \E create \in BOOLEAN, to \in Addresses, callValue \in TxValues,
          callerEnergy \in CallerEnergies, feeLimit \in FeeLimits :
              Begin(create, to, callValue, callerEnergy, feeLimit)
    \/ Step
    \/ \E value \in Writes : Sstore(value)
    \/ OpLog
    \/ CallStep
    \/ CreateStep
    \/ EndStep
    \/ Done

Spec == Init /\ [][Next]_vars

-----------------------------------------------------------------------------
(* Properties.                                                             *)

(* A caller that finds 0 on its stack finds the accounts and the logs as   *)
(* they were when the child started: doCall and doCreate undo the value    *)
(* transfer, the storage, the deployed code, the nonces and the events of  *)
(* the failed child and of all the frames below it.                        *)
ZeroMeansUndone ==
    [][Running' /\ Len(frames') < Len(frames) /\ pushed' = 0
           => work' = Inner.before.work /\ logs' = Inner.before.logs]_vars

(* Below a STATICCALL nothing changes, however deep: neither accounts nor  *)
(* logs differ from those the static frame started with.                   *)
StaticChangesNothing ==
    \A i \in DOMAIN frames :
        frames[i].readOnly => /\ work = frames[i].before.work
                              /\ logs = frames[i].before.logs

(* The energy of every step taken, in frames that failed too, is covered   *)
(* by the budget: the 2300 units a value call grants its child on top of   *)
(* the reservation and hands back to the caller unused are never more than *)
(* its surcharge paid in.                                                  *)
EnergyCoversSteps ==
    Running => SumFunction([i \in DOMAIN frames |-> Remaining(frames[i])]) + paidFor
                   <= tx.budget

(* The receipt charges at least the energy of the steps taken, and the     *)
(* owner burned exactly what the receipt says its stake did not pay.       *)
ReceiptCoversSteps ==
    phase = "over" =>
        /\ receipt.energy.energyUsageTotal >= paidFor
        /\ receipt.energy.energyUsageTotal <= tx.budget
        /\ burned = (receipt.energy.energyUsageTotal - receipt.energy.energyUsage)
                        * EnergyPrice(EnergyFee)

(* TRX are only moved, until the fee is burned at the end: over all calls, *)
(* creations, deployments and reverts the balances add up.                 *)
TrxConserved ==
    /\ SumFunction([a \in Addresses |-> work[a].bal]) + burned = SumFunction(InitialBalance)
    /\ ~Running => SumFunction([a \in Addresses |-> stores[a].bal]) + burned
                       = SumFunction(InitialBalance)

(* Flush misses nothing: when the transaction is over the stores say of    *)
(* every account what the working copy said, so every change had marked    *)
(* its account dirty.                                                      *)
FlushMissesNothing ==
    phase = "over" =>
        \A a \in Addresses :
            \A field \in {"bal", "code", "slot", "exists"} :
                stores[a][field] = work[a][field]

(* A failed transaction costs its fee and nothing else.                    *)
FailureCostsOnlyFee ==
    [][Running /\ ~Running' /\ receipt'.reverted
           => /\ receipt'.logs = <<>>
              /\ \A a \in Addresses :
                     stores'[a] = [stores[a] EXCEPT
                         !.bal = IF a = Owner THEN @ - (burned' - burned) ELSE @]]_vars

(* What a running transaction can still do: twice the energy left in all   *)
(* frames, and the frames still to end.                                    *)
Left == 2 * SumFunction([i \in DOMAIN frames |-> Remaining(frames[i])]) + Len(frames)

(* No run feeds itself: each step of the interpreter that costs energy,    *)
(* each call with its stipend and each return with its refund leaves less  *)
(* to do.  What costs nothing and does not end the frame - in gas.go a     *)
(* copy of no bytes, or a load under the legacy schedule - changes nothing *)
(* here and is no step; no loop consists of such, as a jump costs energy   *)
(* (EveryFrameEnds in module Interpreter).                                 *)
RunsDown == [][Running => Left' < Left]_vars

=============================================================================
