---------------------------- MODULE MCInterpreter ----------------------------
(***************************************************************************)
(* Two-byte words; a word of F000 or more is no uint64.  The programs are  *)
(* every byte executed on every stack of up to MaxStack equal operands,    *)
(* every short sequence over an alphabet of control-flow pieces, and a few *)
(* longer ones: a loop, calls with an output buffer, creations.            *)
(***************************************************************************)
EXTENDS Interpreter

CONSTANTS Operands, Pieces

Push2(x) == <<97, x \div 256, x % 256>>

Listed == {b \in 0 .. 255 : Decoded[b][1] # "none"}

(* n copies of x, then the byte b, then a look at the memory.              *)
Probe(x, n, b) ==
    Push2(x) \o [i \in 1 .. n |-> 128] \o <<b>> \o <<OpCode.MSIZE, OpCode.MLOAD>>
Probes == {Probe(2, n, b) : n \in 0 .. MaxStack - 1, b \in Listed}
              \cup {Probe(x, 6, b) : x \in Operands, b \in Listed}
Bare == {<<b>> : b \in 0 .. 255}

(* JUMPDEST in push data, jumps forward, back and into data, and truncated *)
(* pushes.                                                                 *)
Alphabet == <<
    <<91>>,                 \* JUMPDEST
    <<96, 91>>,             \* PUSH1 JUMPDEST
    <<96, 0>>, <<96, 1>>, <<96, 3>>,
    <<97, 91>>,             \* PUSH2 whose second byte is what follows
    <<86>>, <<87>>,         \* JUMP, JUMPI
    <<129>>, <<144>>,       \* DUP2, SWAP1
    <<83>>, <<243>> >>      \* MSTORE8, RETURN
Sentences == UNION {[1 .. n -> 1 .. Len(Alphabet)] : n \in 1 .. Pieces}
Flow == {FlattenSeq([i \in DOMAIN q |-> Alphabet[q[i]]]) : q \in Sentences}

Loop == <<91, 96, 1, 96, 0, 87>>
(* CALL with value v, three bytes of input and an output buffer of out     *)
(* bytes at 4, then a copy of the data it returned and a second use of the *)
(* buffer.                                                                 *)
CallWith(op, v, out) ==
    <<96, out, 96, 4, 96, 3, 96, 0>> \o (IF op \in {241, 242} THEN <<96, v>> ELSE <<>>)
        \o <<96, 9, 96, 200, op, 80, 61, 96, 0, 96, 0, 62, 96, 4, 81, 89, 91>>
CallPrograms == {CallWith(op, v, out) : op \in {241, 242, 244, 250}, v \in {0, 1}, out \in {0, 1, 6}}
CreatePrograms == {<<96, 5, 96, 3, 96, 0, 96, v, op, 61, 91>> : v \in {0, 1}, op \in {240, 245}}
CallLoop == {<<91>> \o CallWith(241, 1, 2) \o <<96, 0, 86>>}

AllGates == DOMAIN Gates \cup {"Forward6364"}
Job(code, cfg, readOnly, limit) ==
    [Code |-> code, Input |-> <<17, 34, 51>>, cfg |-> cfg, readOnly |-> readOnly, limit |-> limit]

MCJobs ==
    {Job(code, AllGates, r, 60000) : code \in Probes \cup CallPrograms \cup CreatePrograms \cup CallLoop,
                                     r \in BOOLEAN}
    \cup {Job(code, {"LegacyMemCost"}, FALSE, 50) : code \in Probes \cup CallPrograms}
    \cup {Job(code, AllGates, FALSE, 70) : code \in Flow \cup Bare \cup {Loop, <<>>}}
    \cup {Job(<<96, b, b>>, {}, FALSE, 60000) : b \in 0 .. 255}
MCReplies == {<<>>, <<68, 85, 102>>}
MCContext == [ADDRESS |-> 1, ORIGIN |-> 2, CALLER |-> 3, COINBASE |-> 4, CALLVALUE |-> 5,
              TIMESTAMP |-> 6, NUMBER |-> 7, CHAINID |-> 8, CREATED |-> 7]

=============================================================================
