--------------------------- MODULE OracleExecution ---------------------------
(***************************************************************************)
(* The local side of the differential VM oracle: a world is loaded into    *)
(* the in-memory state, one contract runs on it (external here: any        *)
(* sequence of writes, transfers, snapshots and reverts, with any result), *)
(* and what is reported is the bill, the logs and the net storage writes.  *)
(* Diff compares two reports.                                              *)
(***************************************************************************)
EXTENDS Integers, Sequences, FiniteSets, SequencesExt, Functions

CONSTANT ValueModulus     \* 2^256 in the program

NoCode == "none"
EmptyAccount == [balance |-> 0, nonce |-> 0, code |-> NoCode, storage |-> <<>>]

-----------------------------------------------------------------------------
(* MemStateDB, wrapped in trackingStateDB: writes is not reverted.         *)

NewMemStateDB == [accounts |-> <<>>, snaps |-> <<>>, writes |-> {}]

Exist(s, a) == a \in DOMAIN s.accounts
Account(s, a) == IF Exist(s, a) THEN s.accounts[a] ELSE EmptyAccount
Put(s, a, account) == [s EXCEPT !.accounts = (a :> account) @@ @]

CreateAccount(s, a) == Put(s, a, Account(s, a))
AddBalance(s, a, v) == Put(s, a, [Account(s, a) EXCEPT !.balance = (@ + v) % ValueModulus])
SubBalance(s, a, v) == Put(s, a, [Account(s, a) EXCEPT !.balance = (@ - v) % ValueModulus])
SetNonce(s, a, n) == Put(s, a, [Account(s, a) EXCEPT !.nonce = n])
SetCode(s, a, code) == Put(s, a, [Account(s, a) EXCEPT !.code = code])

GetStorage(s, a, k) ==
    IF k \in DOMAIN Account(s, a).storage THEN Account(s, a).storage[k] ELSE 0

(* MemStateDB.SetStorage; the wrapper notes the slot as well.              *)
Store(s, a, k, v) == Put(s, a, [Account(s, a) EXCEPT !.storage = (k :> v) @@ @])
SetStorage(s, a, k, v) == [Store(s, a, k, v) EXCEPT !.writes = @ \cup {<<a, k>>}]

Snapshot(s) == [s EXCEPT !.snaps = Append(@, s.accounts)]

MutRevertToSnapshot(s, id) ==
    IF id \notin 1 .. Len(s.snaps) THEN s
    ELSE [s EXCEPT !.accounts = Last(s.snaps), !.snaps = Front(@)]

(* A revert to a snapshot that is gone does nothing.                       *)
RevertToSnapshot(s, id) ==
    IF id \notin 1 .. Len(s.snaps) THEN s
    ELSE [s EXCEPT !.accounts = s.snaps[id], !.snaps = SubSeq(@, 1, id - 1)]

-----------------------------------------------------------------------------
(* loadWorld: accounts are made only for what they hold.                   *)

LoadWorld(world) ==
    LET held == {a \in DOMAIN world :
                    world[a].balance > 0 \/ world[a].code # NoCode \/ world[a].storage # <<>>}
    IN  [NewMemStateDB EXCEPT !.accounts =
            [a \in held |-> [EmptyAccount EXCEPT !.balance = world[a].balance,
                                !.code = world[a].code, !.storage = world[a].storage]]]

InputStorage(world, a, k) ==
    IF a \in DOMAIN world /\ k \in DOMAIN world[a].storage THEN world[a].storage[k] ELSE 0

(* netWrites: the written slots whose final value is not the world's.      *)
NetWrites(s, world) ==
    LET changed == {w \in s.writes : GetStorage(s, w[1], w[2]) # InputStorage(world, w[1], w[2])}
    IN  [w \in changed |-> GetStorage(s, w[1], w[2])]

-----------------------------------------------------------------------------
(* Execute, before and after the VM runs.                                  *)

Begin(world, tx) ==
    LET snap   == Snapshot(LoadWorld(world))
        target == IF tx.create THEN CreateAccount(snap, tx.contract) ELSE snap
    IN  IF tx.value = 0 THEN target
        ELSE AddBalance(SubBalance(target, tx.owner, tx.value), tx.contract, tx.value)

ResultKind(res) ==
    IF res.reverted THEN "REVERT"
    ELSE IF res.err = "none" THEN "SUCCESS"
    ELSE IF res.err \in {"OUT_OF_ENERGY", "ILLEGAL_OPERATION", "BAD_JUMP_DESTINATION",
                         "STACK_TOO_SMALL", "STACK_TOO_LARGE", "STATE_CHANGE_IN_STATIC"}
    THEN res.err ELSE "FAULT"

Failed(res) == res.err # "none" \/ res.reverted

Settle(s, tx, res) ==
    IF Failed(res) THEN RevertToSnapshot(s, 1)
    ELSE IF tx.create THEN SetCode(s, tx.contract, res.return) ELSE s

FaultOp(res) == IF res.err = "none" THEN "none" ELSE res.faultOp

(* The report.  bill: what resource.Bill makes of res.used (module Energy) *)
Report(s, world, tx, res, bill) ==
    [result |-> ResultKind(res), vmError |-> res.err, return |-> res.return,
     energyUsed |-> bill.total, energyFee |-> bill.fee, originEnergyUsage |-> bill.origin,
     faultPc |-> res.faultPc, faultOp |-> FaultOp(res),
     writes |-> NetWrites(Settle(s, tx, res), world),
     logs |-> IF Failed(res) THEN <<>> ELSE res.logs,
     created |-> IF tx.create /\ ~Failed(res) THEN <<tx.contract>> ELSE <<>>]

-----------------------------------------------------------------------------
(* Diff: the fields on which two reports disagree.  The text of the error  *)
(* is not one of them.                                                     *)

Compared == {"result", "return", "energyUsed", "energyFee", "originEnergyUsage", "created",
             "faultPc", "faultOp"}

(* Slot by slot; a slot absent on one side differs from any value.         *)
DiffStorage(a, b) ==
    {w \in DOMAIN a \cup DOMAIN b :
        w \notin DOMAIN a \cap DOMAIN b \/ a[w] # b[w]}

(* Position by position; 0 stands for the lengths.                         *)
DiffLogs(a, b) ==
    (IF Len(a) = Len(b) THEN {} ELSE {0})
        \cup {i \in 1 .. Min({Len(a), Len(b)}) : a[i] # b[i]}

Diff(a, b) ==
    [fields |-> {f \in Compared : a[f] # b[f]},
     storage |-> DiffStorage(a.writes, b.writes),
     logs |-> DiffLogs(a.logs, b.logs)]
Agree(a, b) == Diff(a, b) = [fields |-> {}, storage |-> {}, logs |-> {}]

=============================================================================
