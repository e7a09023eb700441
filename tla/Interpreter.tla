----------------------------- MODULE Interpreter -----------------------------
(***************************************************************************)
(* One frame of the TVM: runFrame with the jump table, the stack, the      *)
(* memory, the energy meter and every executor.  A program is a sequence   *)
(* of bytes with the opcode values of opcodes.go; energy costs are those   *)
(* of the code.  The 32-byte word, the 3 MB memory limit, uint64, the      *)
(* stack limit and the divisor of the quadratic memory cost are constants, *)
(* and PUSH exists for 1 .. WordBytes bytes.  What the state and a nested  *)
(* call answer is arbitrary (module CallFrames follows the nested frames). *)
(***************************************************************************)
EXTENDS Words, SequencesExt

CONSTANTS
    MaxStack,
    MemLimit,           \* memLimit, a whole number of words
    U64,                \* 2^64: offsets and sizes are below it
    QuadDivisor,        \* 512: memory of w words costs 3 w + w^2 / QuadDivisor
    AddrBytes,          \* 20: the part of a word that names an account
    Jobs,               \* frames to run: Code, Input, cfg, readOnly and energy limit
    Answers,            \* words the state may answer
    Replies,            \* data a nested call or an account's code may consist of
    Context             \* addresses and words the environment opcodes read; of a creation

(* A Go slice of bytes.                                                    *)
IsData(d) == d \in Seq(Byte) /\ Len(d) < U64

ASSUME InterpreterAssumption ==
    /\ {MaxStack, MemLimit, U64, QuadDivisor, AddrBytes} \subseteq Nat \ {0}
    /\ MemLimit % WordBytes = 0 /\ MemLimit < U64 /\ U64 <= Modulus
    /\ Base = 256
    /\ \A j \in Jobs : j.limit \in 0 .. U64 - 1 /\ IsData(j.Code) /\ IsData(j.Input)
    /\ \A r \in Replies : IsData(r)
    /\ Answers \subseteq Word

VARIABLES
    contract,  \* Code, Input and the context: readOnly and the VMConfig
    sc,        \* scope: pc, stack, mem, stop, reverted, ret, returnData, and err
    meter,     \* energyMeter: limit, used
    result,    \* the Result of the frame once it is over
    memPaid    \* history: energy charged for memory so far

frameVars == <<contract, sc, meter, result, memPaid>>

-----------------------------------------------------------------------------
(* Opcodes and the jump table.                                             *)

OpCode == [
    STOP |-> 0, ADD |-> 1, MUL |-> 2, SUB |-> 3, DIV |-> 4, SDIV |-> 5, MOD |-> 6, SMOD |-> 7,
    ADDMOD |-> 8, MULMOD |-> 9, EXP |-> 10, SIGNEXTEND |-> 11, LT |-> 16, GT |-> 17,
    SLT |-> 18, SGT |-> 19, EQ |-> 20, ISZERO |-> 21, AND |-> 22, OR |-> 23, XOR |-> 24,
    NOT |-> 25, BYTE |-> 26, SHL |-> 27, SHR |-> 28, SAR |-> 29, KECCAK256 |-> 32,
    ADDRESS |-> 48, BALANCE |-> 49, ORIGIN |-> 50, CALLER |-> 51, CALLVALUE |-> 52,
    CALLDATALOAD |-> 53, CALLDATASIZE |-> 54, CALLDATACOPY |-> 55, CODESIZE |-> 56,
    CODECOPY |-> 57, GASPRICE |-> 58, EXTCODESIZE |-> 59, EXTCODECOPY |-> 60,
    RETURNDATASIZE |-> 61, RETURNDATACOPY |-> 62, EXTCODEHASH |-> 63, COINBASE |-> 65,
    TIMESTAMP |-> 66, NUMBER |-> 67, DIFFICULTY |-> 68, GASLIMIT |-> 69, CHAINID |-> 70,
    SELFBALANCE |-> 71, POP |-> 80, MLOAD |-> 81, MSTORE |-> 82, MSTORE8 |-> 83, SLOAD |-> 84,
    SSTORE |-> 85, JUMP |-> 86, JUMPI |-> 87, PC |-> 88, MSIZE |-> 89, GAS |-> 90,
    JUMPDEST |-> 91, TOKENBALANCE |-> 209, CALLTOKENVALUE |-> 210, CALLTOKENID |-> 211,
    ISCONTRACT |-> 212, FREEZE |-> 213, UNFREEZE |-> 214, FREEZEEXPIRETIME |-> 215,
    VOTEWITNESS |-> 216, WITHDRAWREWARD |-> 217, FREEZEBALANCEV2 |-> 218,
    UNFREEZEBALANCEV2 |-> 219, CANCELALLUNFREEZEV2 |-> 220, WITHDRAWEXPIREUNFREEZE |-> 221,
    DELEGATERESOURCE |-> 222, UNDELEGATERESOURCE |-> 223, CREATE |-> 240, CALL |-> 241,
    CALLCODE |-> 242, RETURN |-> 243, DELEGATECALL |-> 244, CREATE2 |-> 245,
    STATICCALL |-> 250, REVERT |-> 253, INVALID |-> 254]

(* The families PUSHn, DUPn, SWAPn (n from 1) and LOGn (n from 0).         *)
Families == [PUSH |-> <<96, 1, WordBytes>>, DUP |-> <<128, 1, 16>>, SWAP |-> <<144, 1, 16>>,
             LOG |-> <<160, 0, 4>>]

(* The name of an opcode byte, and its number within its family; "none"    *)
(* for a byte without an entry in the table.                               *)
InFamily(b, f) == b \in Families[f][1] .. Families[f][1] + Families[f][3] - Families[f][2]

Decoded == [b \in 0 .. 255 |->
    IF \E o \in DOMAIN OpCode : OpCode[o] = b
    THEN <<CHOOSE o \in DOMAIN OpCode : OpCode[o] = b, 0>>
    ELSE IF \E f \in DOMAIN Families : InFamily(b, f)
    THEN LET f == CHOOSE f \in DOMAIN Families : InFamily(b, f)
         IN  <<f, b - Families[f][1] + Families[f][2]>>
    ELSE <<"none", 0>>]

PushBytes(b) == IF Decoded[b][1] = "PUSH" THEN Decoded[b][2] ELSE 0

Dynamic == -1

(* buildTable: energy (or Dynamic), words popped, words pushed.            *)
Table == [
    STOP |-> <<0, 0, 0>>, ADD |-> <<3, 2, 1>>, MUL |-> <<5, 2, 1>>, SUB |-> <<3, 2, 1>>,
    DIV |-> <<5, 2, 1>>, SDIV |-> <<5, 2, 1>>, MOD |-> <<5, 2, 1>>, SMOD |-> <<5, 2, 1>>,
    ADDMOD |-> <<8, 3, 1>>, MULMOD |-> <<8, 3, 1>>, EXP |-> <<Dynamic, 2, 1>>,
    SIGNEXTEND |-> <<5, 2, 1>>, LT |-> <<3, 2, 1>>, GT |-> <<3, 2, 1>>, SLT |-> <<3, 2, 1>>,
    SGT |-> <<3, 2, 1>>, EQ |-> <<3, 2, 1>>, ISZERO |-> <<3, 1, 1>>, AND |-> <<3, 2, 1>>,
    OR |-> <<3, 2, 1>>, XOR |-> <<3, 2, 1>>, NOT |-> <<3, 1, 1>>, BYTE |-> <<3, 2, 1>>,
    SHL |-> <<3, 2, 1>>, SHR |-> <<3, 2, 1>>, SAR |-> <<3, 2, 1>>,
    KECCAK256 |-> <<Dynamic, 2, 1>>, ADDRESS |-> <<2, 0, 1>>, ORIGIN |-> <<2, 0, 1>>,
    CALLER |-> <<2, 0, 1>>, CALLVALUE |-> <<2, 0, 1>>, CALLDATALOAD |-> <<3, 1, 1>>,
    CALLDATASIZE |-> <<2, 0, 1>>, CALLDATACOPY |-> <<Dynamic, 3, 0>>, CODESIZE |-> <<2, 0, 1>>,
    CODECOPY |-> <<Dynamic, 3, 0>>, GASPRICE |-> <<2, 0, 1>>, RETURNDATASIZE |-> <<2, 0, 1>>,
    RETURNDATACOPY |-> <<Dynamic, 3, 0>>, BALANCE |-> <<20, 1, 1>>,
    EXTCODESIZE |-> <<20, 1, 1>>, EXTCODEHASH |-> <<400, 1, 1>>,
    EXTCODECOPY |-> <<Dynamic, 4, 0>>, SELFBALANCE |-> <<5, 0, 1>>, COINBASE |-> <<2, 0, 1>>,
    TIMESTAMP |-> <<2, 0, 1>>, NUMBER |-> <<2, 0, 1>>, DIFFICULTY |-> <<2, 0, 1>>,
    GASLIMIT |-> <<2, 0, 1>>, CHAINID |-> <<2, 0, 1>>, POP |-> <<2, 1, 0>>,
    MLOAD |-> <<Dynamic, 1, 1>>, MSTORE |-> <<Dynamic, 2, 0>>, MSTORE8 |-> <<Dynamic, 2, 0>>,
    SLOAD |-> <<50, 1, 1>>, SSTORE |-> <<Dynamic, 2, 0>>, JUMP |-> <<8, 1, 0>>,
    JUMPI |-> <<10, 2, 0>>, PC |-> <<2, 0, 1>>, MSIZE |-> <<2, 0, 1>>, GAS |-> <<2, 0, 1>>,
    JUMPDEST |-> <<1, 0, 0>>, TOKENBALANCE |-> <<20, 2, 1>>, CALLTOKENVALUE |-> <<2, 0, 1>>,
    CALLTOKENID |-> <<2, 0, 1>>, ISCONTRACT |-> <<2, 1, 1>>, CREATE |-> <<Dynamic, 3, 1>>,
    CREATE2 |-> <<Dynamic, 4, 1>>, CALL |-> <<Dynamic, 7, 1>>, CALLCODE |-> <<Dynamic, 7, 1>>,
    DELEGATECALL |-> <<Dynamic, 6, 1>>, STATICCALL |-> <<Dynamic, 6, 1>>,
    RETURN |-> <<Dynamic, 2, 0>>, REVERT |-> <<Dynamic, 2, 0>>, INVALID |-> <<0, 0, 0>>,
    FREEZE |-> <<0, 3, 1>>, UNFREEZE |-> <<0, 2, 1>>, FREEZEEXPIRETIME |-> <<0, 2, 1>>,
    VOTEWITNESS |-> <<0, 4, 1>>, WITHDRAWREWARD |-> <<0, 0, 1>>,
    FREEZEBALANCEV2 |-> <<0, 2, 1>>, UNFREEZEBALANCEV2 |-> <<0, 2, 1>>,
    CANCELALLUNFREEZEV2 |-> <<0, 0, 1>>, WITHDRAWEXPIREUNFREEZE |-> <<0, 0, 1>>,
    DELEGATERESOURCE |-> <<0, 3, 1>>, UNDELEGATERESOURCE |-> <<0, 3, 1>>]

MutLogEntry(n) == <<Dynamic, 1 + n, 0>>

LogEntry(n) == <<Dynamic, 2 + n, 0>>

Entry(b) ==
    LET name == Decoded[b][1]
        n    == Decoded[b][2]
    IN  CASE name = "PUSH" -> <<3, 0, 1>>
          [] name = "DUP"  -> <<3, n, n + 1>>
          [] name = "SWAP" -> <<3, n + 1, n + 1>>
          [] name = "LOG"  -> LogEntry(n)
          [] OTHER         -> Table[name]

Halts == {"STOP", "RETURN", "REVERT"}
Jumps == {"JUMP", "JUMPI"}

(* The flag of VMConfig an opcode waits for; the flags are sets here.      *)
Gates == [
    AllowConstantinople |-> {"SHL", "SHR", "SAR", "CREATE2", "EXTCODEHASH"},
    AllowSolidity059    |-> {"ISCONTRACT"},
    AllowIstanbul       |-> {"CHAINID", "SELFBALANCE"},
    AllowTransferTrc10  |-> {"TOKENBALANCE", "CALLTOKENVALUE", "CALLTOKENID"},
    AllowTvmFreeze      |-> {"FREEZE", "UNFREEZE", "FREEZEEXPIRETIME"},
    AllowTvmVote        |-> {"VOTEWITNESS", "WITHDRAWREWARD"},
    AllowTvmFreezeV2    |-> {"FREEZEBALANCEV2", "UNFREEZEBALANCEV2", "CANCELALLUNFREEZEV2",
                             "WITHDRAWEXPIREUNFREEZE", "DELEGATERESOURCE",
                             "UNDELEGATERESOURCE"}]

Staking == Gates.AllowTvmFreeze \cup Gates.AllowTvmVote \cup Gates.AllowTvmFreezeV2

Enabled(name) ==
    \A flag \in DOMAIN Gates : name \in Gates[flag] => flag \in contract.cfg

-----------------------------------------------------------------------------
(* Memory.                                                                 *)

WordsForBytes(n) == (n + WordBytes - 1) \div WordBytes

Zeros(n) == [i \in 1 .. n |-> 0]

Resize(mem, size) ==
    LET need == WordsForBytes(size) * WordBytes
    IN  IF Len(mem) >= need THEN mem ELSE mem \o Zeros(need - Len(mem))

(* get grows the memory too; an access of no bytes leaves it alone.        *)
Expand(mem, off, size) == IF size = 0 THEN mem ELSE Resize(mem, off + size)
MemGet(mem, off, size) == SubSeq(Expand(mem, off, size), off + 1, off + size)

MemSet(mem, off, bytes) ==
    LET grown == Expand(mem, off, Len(bytes))
    IN  [i \in DOMAIN grown |->
            IF i \in off + 1 .. off + Len(bytes) THEN bytes[i - off] ELSE grown[i]]

ClampU64(x) == IF x < U64 THEN x ELSE U64 - 1

(* Bytes past the end of src read as zero, also when the index wraps.      *)
CopyDataAt(src, off, length) ==
    [i \in 1 .. length |->
        LET j == (off + i - 1) % U64
        IN  IF j >= off /\ j < Len(src) THEN src[j + 1] ELSE 0]

-----------------------------------------------------------------------------
(* Energy.  A cost below zero stands for an error of the cost function.    *)

Overflow == -1

MemCostWords(words) == 3 * words + (words * words) \div QuadDivisor

MemAccessSize(off, size) ==
    IF size = 0 THEN 0
    ELSE IF off >= U64 \/ size >= U64 \/ off + size >= U64 THEN Overflow
    ELSE off + size

MemExpandCost(mem, end) ==
    LET grown == WordsForBytes(end)
        old   == Len(mem) \div WordBytes
    IN  IF end < 0 \/ end > MemLimit THEN Overflow
        ELSE IF grown <= old THEN 0
        ELSE MemCostWords(grown) - MemCostWords(old)

(* The word i below the top of a stack.                                    *)
Peek(stack, i) == stack[Len(stack) - i]

MutCallBuffers(args, out) == {args}

(* callArgsMem: a call pays for its arguments and its output buffer.       *)
CallBuffers(args, out) == {args, out}

(* The memory an opcode pays for, as offsets and sizes.                    *)
MemoryRegions(name, s) ==
    CASE name \in {"MLOAD", "MSTORE"}       -> {<<Peek(s, 0), WordBytes>>}
      [] name = "MSTORE8"                    -> {<<Peek(s, 0), 1>>}
      [] name \in {"KECCAK256", "RETURN", "REVERT", "LOG"} -> {<<Peek(s, 0), Peek(s, 1)>>}
      [] name \in {"CALLDATACOPY", "CODECOPY", "RETURNDATACOPY"} -> {<<Peek(s, 0), Peek(s, 2)>>}
      [] name = "EXTCODECOPY"                -> {<<Peek(s, 1), Peek(s, 3)>>}
      [] name \in {"CREATE", "CREATE2"}      -> {<<Peek(s, 1), Peek(s, 2)>>}
      [] name \in {"CALL", "CALLCODE"}       ->
            CallBuffers(<<Peek(s, 3), Peek(s, 4)>>, <<Peek(s, 5), Peek(s, 6)>>)
      [] name \in {"DELEGATECALL", "STATICCALL"} ->
            CallBuffers(<<Peek(s, 2), Peek(s, 3)>>, <<Peek(s, 4), Peek(s, 5)>>)
      [] OTHER                               -> {}

(* One growth that covers every region.                                    *)
MemoryCost(name, s, mem) ==
    LET ends == {MemAccessSize(r[1], r[2]) : r \in MemoryRegions(name, s)}
    IN  IF Overflow \in ends THEN Overflow ELSE MemExpandCost(mem, Max(ends \cup {0}))

(* The rest of a dynamic cost; present: the slot or account exists.        *)
OperandCost(name, n, s, present) ==
    CASE name \in {"MLOAD", "MSTORE", "MSTORE8"} ->
            IF "LegacyMemCost" \in contract.cfg THEN 0 ELSE 1
      [] name = "KECCAK256"                 -> 30 + 6 * WordsForBytes(Peek(s, 1))
      [] name \in {"CALLDATACOPY", "CODECOPY", "RETURNDATACOPY"} ->
            3 * WordsForBytes(Peek(s, 2))
      [] name = "EXTCODECOPY"               -> 20 + 3 * WordsForBytes(Peek(s, 3))
      [] name = "EXP"                       -> 10 + 10 * ByteLen(Peek(s, 1))
      [] name \in {"CALL", "CALLCODE"}      ->
            40 + (IF Peek(s, 2) = 0 THEN 0
                  ELSE 9000 + (IF name = "CALL" /\ ~present THEN 25000 ELSE 0))
      [] name \in {"DELEGATECALL", "STATICCALL"} -> 40
      [] name = "CREATE"                    -> 32000
      [] name = "CREATE2"                   -> 32000 + 6 * WordsForBytes(Peek(s, 2))
      [] name = "SSTORE"                    ->
            IF ~present /\ Peek(s, 1) # 0 THEN 20000 ELSE 5000
      [] name = "LOG"                       -> 375 + 375 * n + 8 * Peek(s, 1)
      [] OTHER                              -> 0

-----------------------------------------------------------------------------
(* Executors.  Each maps a scope to the scope it leaves; an error is put   *)
(* in err.  answer is what the state says: exists, a word, some bytes.     *)

Err(s, e) == [s EXCEPT !.err = e]

Push(s, x) ==
    IF Len(s.stack) >= MaxStack THEN Err(s, "ErrStackOverflow")
    ELSE [s EXCEPT !.stack = Append(@, x)]

Pop(s, n) == [s EXCEPT !.stack = SubSeq(@, 1, Len(@) - n)]
Replace(s, n, x) == [s EXCEPT !.stack = Append(SubSeq(@, 1, Len(@) - n), x)]

(* An address in a word: a prefix byte and AddrBytes bytes; wordToAddr     *)
(* drops everything above them.                                            *)
AddrPrefix == 65
AddrWord(a) == AddrPrefix * Capacity(AddrBytes) + a
WordToAddr(x) == x % Capacity(AddrBytes)

ASSUME ContextAssumption ==
    /\ \A n \in {"ADDRESS", "ORIGIN", "CALLER", "COINBASE", "CREATED"} : AddrWord(Context[n]) \in Word
    /\ \A n \in {"CALLVALUE", "TIMESTAMP", "NUMBER", "CHAINID"} : Context[n] \in Word

Pushes == {"ADDRESS", "ORIGIN", "CALLER", "CALLVALUE", "CALLDATASIZE", "CODESIZE", "GASPRICE",
           "RETURNDATASIZE", "COINBASE", "TIMESTAMP", "NUMBER", "DIFFICULTY", "GASLIMIT",
           "CHAINID", "SELFBALANCE", "PC", "MSIZE", "GAS", "CALLTOKENVALUE", "CALLTOKENID"}

PushedWord(name, s, answer) ==
    CASE name \in {"ADDRESS", "ORIGIN", "CALLER", "COINBASE"} -> AddrWord(Context[name])
      [] name \in {"CALLVALUE", "TIMESTAMP", "NUMBER", "CHAINID"} -> Context[name]
      [] name = "CALLDATASIZE"   -> Len(contract.Input)
      [] name = "CODESIZE"       -> Len(contract.Code)
      [] name = "RETURNDATASIZE" -> Len(s.returnData)
      [] name = "SELFBALANCE"    -> answer.word
      [] name = "PC"             -> s.pc
      [] name = "MSIZE"          -> Len(s.mem)
      [] name = "GAS"            -> meter.limit - meter.used
      [] OTHER                   -> 0

Unary == {"ISZERO", "NOT", "CALLDATALOAD", "SLOAD", "BALANCE", "EXTCODESIZE", "EXTCODEHASH",
          "ISCONTRACT"}

UnaryWord(name, x, answer) ==
    CASE name = "ISZERO"       -> Iszero(x)
      [] name = "NOT"          -> Complement(x)
      [] name = "CALLDATALOAD" ->
            IF x >= U64 THEN 0 ELSE FromBytes(CopyDataAt(contract.Input, x, WordBytes))
      [] name = "EXTCODESIZE"  -> Len(answer.data)
      [] name = "EXTCODEHASH"  -> IF answer.exists THEN answer.word ELSE 0
      [] name = "ISCONTRACT"   -> Flag(Len(answer.data) > 0)
      [] name \in {"SLOAD", "BALANCE"} -> answer.word

Binary == {"ADD", "MUL", "SUB", "DIV", "SDIV", "MOD", "SMOD", "EXP", "SIGNEXTEND", "LT", "GT",
           "SLT", "SGT", "EQ", "AND", "OR", "XOR", "BYTE", "SHL", "SHR", "SAR", "TOKENBALANCE"}

BinaryWord(name, x, y) ==
    CASE name = "ADD"  -> Add(x, y)  [] name = "MUL"  -> Mul(x, y)  [] name = "SUB" -> Sub(x, y)
      [] name = "DIV"  -> Div(x, y)  [] name = "SDIV" -> Sdiv(x, y) [] name = "MOD" -> Mod(x, y)
      [] name = "SMOD" -> Smod(x, y) [] name = "EXP"  -> Exp(x, y)
      [] name = "SIGNEXTEND" -> Signextend(x, y)
      [] name = "LT"   -> Lt(x, y)   [] name = "GT"   -> Gt(x, y)   [] name = "SLT" -> Slt(x, y)
      [] name = "SGT"  -> Sgt(x, y)  [] name = "EQ"   -> Eq(x, y)   [] name = "AND" -> OpAnd(x, y)
      [] name = "OR"   -> OpOr(x, y) [] name = "XOR"  -> OpXor(x, y)
      [] name = "BYTE" -> ByteAt(x, y)
      [] name = "SHL"  -> Shl(x, y)  [] name = "SHR"  -> Shr(x, y)  [] name = "SAR" -> Sar(x, y)
      [] name = "TOKENBALANCE" -> 0

(* Valid jump targets: JUMPDEST bytes outside the data of PUSH.            *)
MutAnalyzeJumpDests(code) == {d \in 0 .. Len(code) - 1 : code[d + 1] = OpCode.JUMPDEST}

AnalyzeJumpDests(code) ==
    LET from[pc \in Nat] ==
            IF pc >= Len(code) THEN {}
            ELSE (IF code[pc + 1] = OpCode.JUMPDEST THEN {pc} ELSE {})
                     \cup from[pc + 1 + PushBytes(code[pc + 1])]
    IN  from[0]

JumpTo(s, dest) ==
    IF dest < U64 /\ dest \in AnalyzeJumpDests(contract.Code)
    THEN [s EXCEPT !.pc = dest] ELSE Err(s, "ErrBadJumpDest")

(* makePush: bytes past the end of the code are zero.                      *)
PushData(pc, n) ==
    FromBytes([i \in 1 .. n |->
        IF pc + i < Len(contract.Code) THEN contract.Code[pc + i + 1] ELSE 0])

(* The copying opcodes: a source, its offset, and where it goes.           *)
CopyTo(s, n, memOff, src, srcOff, length) ==
    [Pop(s, n) EXCEPT !.mem = MemSet(@, memOff, CopyDataAt(src, srcOff, length))]

Returndatacopy(s, memOff, dataOff, length) ==
    LET end == MemAccessSize(dataOff, length)
    IN  IF end < 0 THEN Err(s, "ErrGasUintOverflow")
        ELSE IF end > Len(s.returnData) THEN Err(s, "ErrReturnDataOutOfBounds")
        ELSE CopyTo(s, 3, memOff, s.returnData, dataOff, length)

Halt(s, reverted) ==
    [Pop(s, 2) EXCEPT !.mem = Expand(@, Peek(s.stack, 0), Peek(s.stack, 1)),
                      !.ret = MemGet(s.mem, Peek(s.stack, 0), Peek(s.stack, 1)),
                      !.reverted = reverted, !.stop = TRUE]

Swap(s, n) ==
    LET top == Len(s.stack)
    IN  [s EXCEPT !.stack[top] = s.stack[top - n], !.stack[top - n] = s.stack[top]]

Exec(name, n, s, answer) ==
    LET X(i) == Peek(s.stack, i)
    IN  CASE name = "STOP"            -> [s EXCEPT !.stop = TRUE]
          [] name \in Pushes          -> Push(s, PushedWord(name, s, answer))
          [] name \in Unary           -> Replace(s, 1, UnaryWord(name, X(0), answer))
          [] name \in Binary          -> Replace(s, 2, BinaryWord(name, X(0), X(1)))
          [] name = "ADDMOD"          -> Replace(s, 3, Addmod(X(0), X(1), X(2)))
          [] name = "MULMOD"          -> Replace(s, 3, Mulmod(X(0), X(1), X(2)))
          [] name = "KECCAK256"       -> [Replace(s, 2, answer.word) EXCEPT
                                             !.mem = Expand(@, X(0), X(1))]
          [] name = "CALLDATACOPY"    -> CopyTo(s, 3, X(0), contract.Input, ClampU64(X(1)), X(2))
          [] name = "CODECOPY"        -> CopyTo(s, 3, X(0), contract.Code, ClampU64(X(1)), X(2))
          [] name = "EXTCODECOPY"     -> CopyTo(s, 4, X(1), answer.data, ClampU64(X(2)), X(3))
          [] name = "RETURNDATACOPY"  -> Returndatacopy(s, X(0), X(1), X(2))
          [] name = "POP"             -> Pop(s, 1)
          [] name = "MLOAD"           -> [Replace(s, 1, FromBytes(MemGet(s.mem, X(0), WordBytes)))
                                             EXCEPT !.mem = Expand(@, X(0), WordBytes)]
          [] name = "MSTORE"          -> [Pop(s, 2) EXCEPT !.mem = MemSet(@, X(0), ToBytes(X(1)))]
          [] name = "MSTORE8"         -> [Pop(s, 2) EXCEPT !.mem = MemSet(@, X(0), <<X(1) % Base>>)]
          [] name = "SSTORE"          -> IF contract.readOnly THEN Err(s, "ErrStaticStateChange")
                                         ELSE Pop(s, 2)
          [] name = "LOG"             -> IF contract.readOnly THEN Err(s, "ErrStaticStateChange")
                                         ELSE [Pop(s, 2 + n) EXCEPT !.mem = Expand(@, X(0), X(1))]
          [] name = "JUMP"            -> JumpTo(Pop(s, 1), X(0))
          [] name = "JUMPI"           -> IF X(1) = 0 THEN [Pop(s, 2) EXCEPT !.pc = @ + 1]
                                         ELSE JumpTo(Pop(s, 2), X(0))
          [] name = "JUMPDEST"        -> s
          [] name = "PUSH"            -> Push([s EXCEPT !.pc = @ + n], PushData(s.pc, n))
          [] name = "DUP"             -> Push(s, X(n - 1))
          [] name = "SWAP"            -> Swap(s, n)
          [] name \in {"RETURN", "REVERT"} -> Halt(s, name = "REVERT")
          [] name = "INVALID"         -> Err(s, "ErrInvalidOpcode")
          [] name \in Staking         -> Err(s, "ErrStakingOpDeferred")

-----------------------------------------------------------------------------
(* The frame.                                                              *)

NoResult == [over |-> FALSE]

FrameInit ==
    /\ contract \in Jobs
    /\ meter = [limit |-> contract.limit, used |-> 0]
    /\ sc = [pc |-> 0, stack |-> <<>>, mem |-> <<>>, stop |-> FALSE, reverted |-> FALSE,
             ret |-> <<>>, returnData |-> <<>>, err |-> "none"]
    /\ result = NoResult
    /\ memPaid = 0

AtEnd == sc.stop \/ sc.pc >= Len(contract.Code)
InLoop == ~result.over /\ ~AtEnd

Op == Decoded[contract.Code[sc.pc + 1]]
TableRow == Entry(contract.Code[sc.pc + 1])
EnergyLeft == meter.limit - meter.used

(* How deep the cost function and the executor of an opcode look into the  *)
(* stack by reference; a reference below its bottom is a Go panic.         *)
PeekDepth ==
    CASE Op[1] \in Unary \cup {"MLOAD", "MSTORE", "MSTORE8"} -> 1
      [] Op[1] \in Binary \cup {"KECCAK256", "SSTORE", "LOG", "RETURN", "REVERT"} -> 2
      [] Op[1] \in {"ADDMOD", "MULMOD", "CALLDATACOPY", "CODECOPY", "RETURNDATACOPY",
                    "CREATE", "CREATE2"} -> 3
      [] Op[1] = "EXTCODECOPY" -> 4
      [] Op[1] \in {"DELEGATECALL", "STATICCALL"} -> 6
      [] Op[1] \in {"CALL", "CALLCODE"} -> 7
      [] OTHER -> 0

MemoryPart == IF TableRow[1] # Dynamic THEN 0 ELSE MemoryCost(Op[1], sc.stack, sc.mem)
Cost(present) ==
    IF TableRow[1] # Dynamic THEN TableRow[1]
    ELSE MemoryPart + OperandCost(Op[1], Op[2], sc.stack, present)

(* Why runFrame does not execute the next opcode, in the order it checks.  *)
Refusal(present) ==
    IF Op[1] = "none" \/ ~Enabled(Op[1]) THEN "ErrInvalidOpcode"
    ELSE IF Len(sc.stack) < TableRow[2] THEN "ErrStackUnderflow"
    ELSE IF Len(sc.stack) - TableRow[2] + TableRow[3] > MaxStack THEN "ErrStackOverflow"
    ELSE IF PeekDepth > Len(sc.stack) THEN "panic"
    ELSE IF MemoryPart < 0 THEN "ErrMemory"
    ELSE IF Cost(present) > EnergyLeft THEN "ErrOutOfEnergy"
    ELSE "none"

(* fail looks up the opcode at pc, which must be inside the code.          *)
Failed(s, e) ==
    IF e = "panic" \/ s.pc >= Len(contract.Code) THEN [over |-> TRUE, err |-> "panic"]
    ELSE [over |-> TRUE, err |-> e, energyUsed |-> meter.limit, faultPC |-> s.pc,
          faultOp |-> contract.Code[s.pc + 1]]

Fault ==
    /\ InLoop
    /\ \E present \in BOOLEAN :
          /\ Refusal(present) # "none"
          /\ meter' = [meter EXCEPT !.used =
                           IF Refusal(present) = "ErrOutOfEnergy" THEN meter.limit ELSE @]
          /\ result' = Failed(sc, Refusal(present))
    /\ UNCHANGED <<contract, sc, memPaid>>

MutCharge(used, cost) == used

Charge(used, cost) == used + cost

(* The frame after an executor: it fails, or goes on behind the opcode.    *)
After(s, used) ==
    /\ sc' = IF s.err # "none" \/ Op[1] \in Halts \cup Jumps THEN s
             ELSE [s EXCEPT !.pc = @ + 1]
    /\ result' = IF s.err = "none" THEN result ELSE Failed(s, s.err)
    /\ meter' = [meter EXCEPT !.used = used]
    /\ memPaid' = memPaid + MemoryPart
    /\ UNCHANGED contract

Calls == {"CALL", "CALLCODE", "DELEGATECALL", "STATICCALL"}
Creates == {"CREATE", "CREATE2"}

(* The answers an opcode can tell apart.                                   *)
Asked(name) ==
    [exists : IF name \in {"EXTCODEHASH"} THEN BOOLEAN ELSE {TRUE},
     word   : IF name \in {"KECCAK256", "SELFBALANCE", "SLOAD", "BALANCE", "EXTCODEHASH"}
              THEN Answers ELSE {0},
     data   : IF name \in {"EXTCODESIZE", "ISCONTRACT", "EXTCODECOPY"} THEN Replies ELSE {<<>>}]

Execute ==
    /\ InLoop
    /\ Op[1] \notin Calls \cup Creates
    /\ \E present \in BOOLEAN, answer \in Asked(Op[1]) :
          /\ Refusal(present) = "none"
          /\ After(Exec(Op[1], Op[2], sc, answer), Charge(meter.used, Cost(present)))

-----------------------------------------------------------------------------
(* doCall and doCreate, seen from the calling frame.  child is how the     *)
(* nested run ends and what it returns; it uses none or all of its energy  *)
(* (a failed one all of it).                                               *)

Ends == {"refused", "failed", "reverted", "ok"}
Children == {c \in [end : Ends, data : Replies, all : BOOLEAN] :
                /\ c.end = "failed" => c.all
                /\ c.end \in {"refused", "failed"} => c.data = <<>>}

Forwarded(requested, available) ==
    Min({requested, IF "Forward6364" \in contract.cfg THEN available - available \div 64
                    ELSE available})

Restored(used, n) == IF n > used THEN 0 ELSE used - n

(* writeReturn: no more than the caller's buffer takes.                    *)
WriteReturn(mem, off, data, size) ==
    IF Len(data) = 0 \/ size = 0 THEN mem
    ELSE MemSet(mem, off, SubSeq(data, 1, Min({Len(data), size})))

(* The operands behind gas and address; DELEGATECALL and STATICCALL have   *)
(* no value.                                                               *)
CallValue(name, s) == IF name \in {"CALL", "CALLCODE"} THEN Peek(s, 2) ELSE 0
CallOperand(name, s, i) == Peek(s, i - (IF name \in {"CALL", "CALLCODE"} THEN 0 ELSE 1))

(* The scope once the child has ended: its data, and one word for success. *)
Returned(name, s, child) ==
    LET args == Expand(s.mem, CallOperand(name, s.stack, 3), CallOperand(name, s.stack, 4))
        back == [Pop(s, TableRow[2]) EXCEPT
                    !.returnData = child.data,
                    !.mem = WriteReturn(args, CallOperand(name, s.stack, 5), child.data,
                                        CallOperand(name, s.stack, 6))]
    IN  Push(back, Flag(child.end = "ok"))

CallTo(present, child) ==
    LET value    == CallValue(Op[1], sc.stack)
        spent    == Charge(meter.used, Cost(present))
        reserved == Forwarded(ClampU64(Peek(sc.stack, 0)), meter.limit - spent)
        budget   == reserved + (IF value # 0 THEN 2300 ELSE 0)
    IN  /\ Refusal(present) = "none"
        /\ IF value # 0 /\ contract.readOnly
           THEN After(Err(sc, "ErrStaticStateChange"), spent)
           ELSE After(Returned(Op[1], sc, child),
                      IF child.end = "refused" THEN spent
                      ELSE Restored(spent + reserved, IF child.all THEN 0 ELSE budget))

DoCall ==
    /\ InLoop
    /\ Op[1] \in Calls
    /\ \E present \in BOOLEAN, child \in Children : CallTo(present, child)

(* A creation hands all it may to the child; the code it returns is paid   *)
(* per byte, or the creation fails and the child's energy is gone.         *)
Created(s, child, paid, address) ==
    LET ran == [Pop(s, TableRow[2]) EXCEPT
                   !.mem = Expand(@, Peek(s.stack, 1), Peek(s.stack, 2)),
                   !.returnData = IF child.end = "reverted" THEN child.data ELSE <<>>]
    IN  Push(ran, IF child.end = "ok" /\ paid THEN AddrWord(address) ELSE 0)

CreateWith(child) ==
    LET spent   == Charge(meter.used, Cost(TRUE))
        energy  == Forwarded(meter.limit - spent, meter.limit - spent)
        left    == IF child.all THEN 0 ELSE energy
        deposit == IF child.end = "ok" THEN 200 * Len(child.data) ELSE 0
    IN  /\ Refusal(TRUE) = "none"
        /\ IF contract.readOnly THEN After(Err(sc, "ErrStaticStateChange"), spent)
           ELSE After(Created(sc, child, deposit <= left, Context.CREATED),
                      CASE child.end = "refused" -> spent
                        [] deposit > left        -> spent + energy
                        [] OTHER                 -> Restored(spent + energy, left - deposit))

DoCreate ==
    /\ InLoop
    /\ Op[1] \in Creates
    /\ \E child \in Children : CreateWith(child)

(* The process ends inside the child: it is bigModExp, or calls it in      *)
(* turn, with a length that no slice can have (module Precompiles), and    *)
(* nothing recovers.                                                       *)
ChildPanics ==
    /\ InLoop
    /\ Op[1] \in Calls \cup Creates
    /\ \E present \in BOOLEAN : Refusal(present) = "none"
    /\ contract.readOnly => Op[1] \notin Creates /\ CallValue(Op[1], sc.stack) = 0
    /\ result' = [over |-> TRUE, err |-> "child panics"]
    /\ UNCHANGED <<contract, sc, meter, memPaid>>

(* STOP, RETURN, REVERT, or the end of the code.                           *)
End ==
    /\ ~result.over
    /\ AtEnd
    /\ result' = [over |-> TRUE, err |-> "none", energyUsed |-> meter.used,
                  reverted |-> sc.reverted, faultPC |-> -1]
    /\ UNCHANGED <<contract, sc, meter, memPaid>>

RunFrame == Execute \/ DoCall \/ DoCreate \/ ChildPanics \/ Fault \/ End

FrameSpec == FrameInit /\ [][RunFrame]_frameVars /\ WF_frameVars(RunFrame)

-----------------------------------------------------------------------------
(* Properties.                                                             *)

(* The stack checks of the jump table suffice: they cover everything the  *)
(* cost functions and executors look at by reference, fail() is never      *)
(* reached with pc outside the code, and no executor pushes the stack over *)
(* its limit: a frame does not panic of its own.  Only a callee can, when  *)
(* it is the precompiled contract bigModExp or calls it.                   *)
StackChecksSuffice ==
    /\ result.over => result.err # "panic"
    /\ Len(sc.stack) <= MaxStack

(* Execution stays on instructions: pc never points into the data of a     *)
(* PUSH, whatever is jumped to (analyzeJumpDests, jumpTo, makePush).       *)
Instructions ==
    LET from[pc \in Nat] ==
            IF pc >= Len(contract.Code) THEN {}
            ELSE {pc} \cup from[pc + 1 + PushBytes(contract.Code[pc + 1])]
    IN  from[0]

OnInstruction == InLoop => sc.pc \in Instructions

(* Memory is paid for before it is used: the energy charged for it covers  *)
(* its size, which is in whole words and never above the limit, although   *)
(* the cost functions and the executors compute the size apart.            *)
MemoryPaidFor ==
    /\ Len(sc.mem) % WordBytes = 0
    /\ Len(sc.mem) <= MemLimit
    /\ memPaid >= MemCostWords(Len(sc.mem) \div WordBytes)

(* Every frame comes to its end, jumps in loops included.                  *)
EveryFrameEnds == <>result.over

=============================================================================
