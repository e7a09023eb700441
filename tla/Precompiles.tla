----------------------------- MODULE Precompiles -----------------------------
(***************************************************************************)
(* The precompiled contracts of the TVM: which exist under which fork      *)
(* flags, what they cost, and what they compute.  The words of a call's    *)
(* data have WordBytes bytes as in module Words.  Only bigModExp can end   *)
(* the process: it makes slices as long as its input says.                 *)
(*                                                                         *)
(* External: hashes, recovery of a signer, the curve and the pairing.      *)
(* Points of the curve are the pairs of a constant set.                    *)
(***************************************************************************)
EXTENDS Words, FiniteSets, Bitwise, SequencesExt, Functions

CONSTANTS
    U64,           \* 2^64
    MaxSlice,      \* the longest slice of bytes make can yield
    P,             \* the prime of the base field
    Curve,         \* points on the curve, without infinity
    Twist,         \* points on the twist, as <<x real, x imag, y real, y imag>>
    Subgroup,      \* those in the r-order subgroup
    PairingCheck(_), \* of a sequence of pairs of points
    LaneBits,      \* bits of a blake2 lane: 64 in the program
    BlakeIV        \* the eight initial lanes

ASSUME PrecompilesAssumption ==
    /\ U64 % 2 = 0 /\ U64 > 1024 * 1024 /\ MaxSlice \in 0 .. (U64 \div 2) - 1
    /\ Curve \subseteq (0 .. P - 1) \X (0 .. P - 1) /\ <<0, 0>> \notin Curve
    /\ Subgroup \subseteq Twist
    /\ LaneBits % 8 = 0 /\ BlakeIV \in [1 .. 8 -> 0 .. 2 ^ LaneBits - 1]

-----------------------------------------------------------------------------
(* Forks.                                                                  *)

(* The first block version with each flag.                                 *)
ActivationVersion == [
    AllowTransferTrc10 |-> 6, AllowConstantinople |-> 8, AllowSolidity059 |-> 9,
    AllowIstanbul |-> 19, AllowLondon |-> 23, Forward6364 |-> 23]
VerHigherCPULimit == 24
LatestForkVersion == 35

VMConfigForVersion(version) ==
    {f \in DOMAIN ActivationVersion : version >= ActivationVersion[f]}
        \cup (IF version >= VerHigherCPULimit THEN {} ELSE {"LegacyMemCost"})

LatestVMConfig ==
    {"Forward6364", "AllowTransferTrc10", "AllowConstantinople", "AllowSolidity059",
     "AllowIstanbul", "AllowLondon"}

(* Contracts by address; the gated ones with their flag.                   *)
Ungated == 1 :> "ecrecover" @@ 2 :> "sha256Hash" @@ 3 :> "tronRipemd160" @@ 4 :> "dataCopy"
           @@ 5 :> "bigModExp" @@ 6 :> "bn128Add" @@ 7 :> "bn128ScalarMul"
           @@ 8 :> "bn128Pairing" @@ 131075 :> "ethRipemd160"

Gated == [
    Forward6364      |-> 131081 :> "blake2F",
    AllowSolidity059 |-> 9 :> "batchValidateSign" @@ 10 :> "validateMultiSign",
    AllowShieldedTRC20Transaction |->
        16777217 :> "verifyMintProof" @@ 16777218 :> "verifyTransferProof"
        @@ 16777219 :> "verifyBurnProof" @@ 16777220 :> "merkleHash"]

LookupPrecompile(addr, cfg) ==
    IF addr \in DOMAIN Ungated THEN Ungated[addr]
    ELSE IF \E f \in cfg \cap DOMAIN Gated : addr \in DOMAIN Gated[f]
    THEN LET f == CHOOSE f \in cfg \cap DOMAIN Gated : addr \in DOMAIN Gated[f]
         IN  Gated[f][addr]
    ELSE "none"

ShieldedEnergy == [verifyMintProof |-> 150000, verifyTransferProof |-> 200000,
                   verifyBurnProof |-> 150000, merkleHash |-> 500]

-----------------------------------------------------------------------------
(* Results: the output, or a failure that takes the whole budget.          *)

Failure == [ok |-> FALSE, out |-> <<>>]
Output(bytes) == [ok |-> TRUE, out |-> bytes]

(* The proofs of shielded transfers are not verified: fails closed.        *)
ShieldedRun == Failure

(* runPrecompile.                                                          *)
RunPrecompile(cost, outcome, budget) ==
    IF cost > budget \/ ~outcome.ok THEN [out |-> <<>>, used |-> budget, err |-> TRUE]
    ELSE [out |-> outcome.out, used |-> cost, err |-> FALSE]

WordCount(n) == (n + WordBytes - 1) \div WordBytes

(* size items of src from off, zero past its end.                          *)
RightPad(src, off, size) ==
    [i \in 1 .. size |-> IF off + i <= Len(src) THEN src[off + i] ELSE 0]

(* The contracts priced per word of input, and the fixed ones.             *)
LinearEnergy(name, n) ==
    CASE name = "dataCopy"                          -> 15 + 3 * WordCount(n)
      [] name = "sha256Hash"                        -> 60 + 12 * WordCount(n)
      [] name \in {"tronRipemd160", "ethRipemd160"} -> 600 + 120 * WordCount(n)
      [] name = "ecrecover"                         -> 3000
      [] name \in DOMAIN ShieldedEnergy             -> ShieldedEnergy[name]

-----------------------------------------------------------------------------
(* bigModExp.  Its input is three words, the lengths, and bytes.           *)

BitLen(n) == CHOOSE b \in 0 .. 30 : n < 2 ^ b /\ (b > 0 => n >= 2 ^ (b - 1))

(* int(word.Uint64()): 64 bits of the word, with a sign.                   *)
ToInt(word) == LET low == word % U64 IN IF low >= U64 \div 2 THEN low - U64 ELSE low
Length(in, i) == ToInt(RightPad(in, i, 1)[1])

(* make panics when the length is negative or no slice can have it.        *)
Allocates(in) == \A i \in 0 .. 2 : Length(in, i) \in 0 .. MaxSlice

Fields(in) ==
    LET b == Length(in, 0)
        e == Length(in, 1)
        m == Length(in, 2)
    IN  [baseLen |-> b, expLen |-> e, modLen |-> m,
         base |-> FromBytes(RightPad(in, 3, b)),
         exp  |-> FromBytes(RightPad(in, 3 + b, e)),
         mod  |-> FromBytes(RightPad(in, 3 + b + e, m))]

(* big.Int.Exp, by repeated squaring.                                      *)
PowMod(b, e, n) ==
    LET power[k \in 0 .. e] ==
            IF k = 0 THEN 1 % n
            ELSE LET half == power[k \div 2]
                 IN  (((half * half) % n) * (IF k % 2 = 1 THEN b % n ELSE 1)) % n
    IN  power[e]

ModExpRun(in) ==
    LET f == Fields(in)
    IN  IF f.modLen = 0 \/ f.mod = 0 THEN Output(<<>>)
        ELSE Output([i \in 1 .. f.modLen |->
                        (PowMod(f.base, f.exp, f.mod) \div Base ^ (f.modLen - i)) % Base])

(* In uint64.                                                              *)
MultComplexity(x) ==
    LET square == (x * x) % U64
    IN  IF x <= 64 THEN square
        ELSE IF x <= 1024 THEN square \div 4 + 96 * x - 3072
        ELSE (square \div 16 + 480 * x - 199680) % U64

TopBit(n) == IF n = 0 THEN 0 ELSE BitLen(n) - 1

(* Beyond one word the exponent counts with its length, and with the top   *)
(* bit of its first word.                                                  *)
AdjustedExpLen(expLen, exp) ==
    IF expLen <= WordBytes THEN TopBit(exp)
    ELSE ByteBits * (expLen - WordBytes) + TopBit(exp \div Base ^ (expLen - WordBytes))

ModExpEnergy(in) ==
    LET f == Fields(in)
        product == MultComplexity(Max({f.baseLen, f.modLen}))
                       * Max({AdjustedExpLen(f.expLen, f.exp), 1})
    IN  (product % U64) \div 20

(* runPrecompile of bigModExp.  Its operands are made to price the call,   *)
(* before the price is compared with the budget, and no recover stops the  *)
(* panic: then there is no result.                                         *)
CallModExp(in, budget) ==
    IF Allocates(in) THEN {RunPrecompile(ModExpEnergy(in), ModExpRun(in), budget)} ELSE {}

-----------------------------------------------------------------------------
(* The curve contracts.  Their input is in words.                          *)

Infinity == <<0, 0>>

DecodeG1(w) == IF w \in Curve \cup {Infinity} THEN {w} ELSE {}

(* The imaginary parts come first.                                         *)
DecodeG2(w) ==
    LET p == <<w[2], w[1], w[4], w[3]>>
    IN  IF (\A i \in 1 .. 4 : w[i] < P) /\ p \in Subgroup \cup {<<0, 0, 0, 0>>} THEN {p} ELSE {}

BnEnergy(name, words, cfg) ==
    LET pairs == words \div 6
        new   == "AllowIstanbul" \in cfg
    IN  CASE name = "bn128Add"       -> IF new THEN 150 ELSE 500
          [] name = "bn128ScalarMul" -> IF new THEN 6000 ELSE 40000
          [] name = "bn128Pairing"   -> IF new THEN 34000 * pairs + 45000
                                        ELSE 80000 * pairs + 100000

(* The group law of the curve y^2 = x^3 + 3 (external: gnark-crypto).      *)
InverseMod(n) == CHOOSE k \in 1 .. P - 1 : (n * k) % P = 1
G1Add(p, q) ==
    IF p = Infinity THEN q ELSE IF q = Infinity THEN p
    ELSE IF p[1] = q[1] /\ (p[2] + q[2]) % P = 0 THEN Infinity
    ELSE LET slope == IF p = q THEN (3 * p[1] * p[1] * InverseMod((2 * p[2]) % P)) % P
                      ELSE ((q[2] - p[2]) * InverseMod((q[1] - p[1]) % P)) % P
             x     == (slope * slope - p[1] - q[1]) % P
         IN  <<x, (slope * (p[1] - x) - p[2]) % P>>

(* Double and add, from the low bit of the scalar up.                      *)
G1Mul(p, k) ==
    LET step[n \in 0 .. k] ==
            IF n = 0 THEN Infinity
            ELSE LET half == step[n \div 2]
                 IN  IF n % 2 = 1 THEN G1Add(G1Add(half, half), p) ELSE G1Add(half, half)
    IN  step[k]

BnAddRun(w) ==
    LET p == DecodeG1(RightPad(w, 0, 2))
        q == DecodeG1(RightPad(w, 2, 2))
    IN  IF p = {} \/ q = {} THEN Failure
        ELSE Output(G1Add(RightPad(w, 0, 2), RightPad(w, 2, 2)))

BnScalarMulRun(w) ==
    IF DecodeG1(RightPad(w, 0, 2)) = {} THEN Failure
    ELSE Output(G1Mul(RightPad(w, 0, 2), RightPad(w, 2, 1)[1]))

BnPairingRun(w) ==
    LET k     == Len(w) \div 6
        g1(i) == DecodeG1(SubSeq(w, 6 * i - 5, 6 * i - 4))
        g2(i) == DecodeG2(SubSeq(w, 6 * i - 3, 6 * i))
    IN  IF Len(w) % 6 # 0 \/ \E i \in 1 .. k : g1(i) = {} \/ g2(i) = {} THEN Failure
        ELSE Output(<<Flag(k = 0 \/ PairingCheck([i \in 1 .. k |->
                               <<CHOOSE p \in g1(i) : TRUE, CHOOSE q \in g2(i) : TRUE>>]))>>)

-----------------------------------------------------------------------------
(* blake2F: the rounds are the energy.  The lanes of its input are kept    *)
(* as numbers; LaneBits scales the rotations 32, 24, 16 and 63 of 64.      *)

Blake2Energy(in) == IF in.wellFormed /\ in.flag \in {0, 1} THEN in.rounds ELSE 0

BlakeSigma == <<
    <<0, 1, 2, 3, 4, 5, 6, 7, 8, 9, 10, 11, 12, 13, 14, 15>>,
    <<14, 10, 4, 8, 9, 15, 13, 6, 1, 12, 0, 2, 11, 7, 5, 3>>,
    <<11, 8, 12, 0, 5, 2, 15, 13, 10, 14, 3, 6, 7, 1, 9, 4>>,
    <<7, 9, 3, 1, 13, 12, 11, 14, 2, 6, 5, 10, 4, 0, 15, 8>>,
    <<9, 0, 5, 7, 2, 4, 10, 15, 14, 1, 11, 12, 6, 8, 3, 13>>,
    <<2, 12, 6, 10, 0, 11, 8, 3, 4, 13, 7, 5, 15, 14, 1, 9>>,
    <<12, 5, 1, 15, 14, 13, 4, 10, 0, 7, 6, 3, 9, 2, 8, 11>>,
    <<13, 11, 7, 14, 12, 1, 3, 9, 5, 0, 15, 4, 8, 6, 2, 10>>,
    <<6, 15, 14, 9, 11, 3, 0, 8, 12, 2, 13, 7, 1, 4, 10, 5>>,
    <<10, 2, 8, 4, 7, 6, 1, 5, 15, 11, 9, 14, 3, 12, 13, 0>> >>

Lanes == 2 ^ LaneBits
Rotr(x, n) == x \div 2 ^ n + (x % 2 ^ n) * 2 ^ (LaneBits - n)

Mix(v, q, x, y) ==
    LET a1 == (v[q[1]] + v[q[2]] + x) % Lanes
        d1 == Rotr(v[q[4]] ^^ a1, LaneBits \div 2)
        c1 == (v[q[3]] + d1) % Lanes
        b1 == Rotr(v[q[2]] ^^ c1, (3 * LaneBits) \div 8)
        a2 == (a1 + b1 + y) % Lanes
        d2 == Rotr(d1 ^^ a2, LaneBits \div 4)
        c2 == (c1 + d2) % Lanes
    IN  [v EXCEPT ![q[1]] = a2, ![q[4]] = d2, ![q[3]] = c2, ![q[2]] = Rotr(b1 ^^ c2, LaneBits - 1)]

(* Columns, then diagonals.                                                *)
Quads == <<<<0, 4, 8, 12>>, <<1, 5, 9, 13>>, <<2, 6, 10, 14>>, <<3, 7, 11, 15>>,
           <<0, 5, 10, 15>>, <<1, 6, 11, 12>>, <<2, 7, 8, 13>>, <<3, 4, 9, 14>> >>

Round(v, m, r) ==
    LET s == BlakeSigma[(r % 10) + 1]
        mixed[i \in 0 .. 8] ==
            IF i = 0 THEN v ELSE Mix(mixed[i - 1], Quads[i], m[s[2 * i - 1]], m[s[2 * i]])
    IN  mixed[8]

Blake2bF(h, m, t, final, rounds) ==
    LET start == [i \in 0 .. 15 |->
                     IF i < 8 THEN h[i]
                     ELSE IF i \in {12, 13} THEN BlakeIV[i - 7] ^^ t[i - 11]
                     ELSE IF i = 14 /\ final THEN Lanes - 1 - BlakeIV[7]
                     ELSE BlakeIV[i - 7]]
        v[r \in 0 .. rounds] == IF r = 0 THEN start ELSE Round(v[r - 1], m, r - 1)
    IN  [i \in 0 .. 7 |-> (h[i] ^^ v[rounds][i]) ^^ v[rounds][i + 8]]

Blake2Run(in) ==
    IF ~in.wellFormed \/ in.flag \notin {0, 1} THEN Failure
    ELSE Output(Blake2bF(in.h, in.m, in.t, in.flag = 1, in.rounds))

-----------------------------------------------------------------------------
(* Signatures.  A signature is three words: r names the signer, s the      *)
(* message and v the parity; recovery (external) of anything else yields   *)
(* some other key, or none for a zero.                                     *)

NoSigner == 0
Stranger == 99
RecoverCompact(r, s, v, hash) ==
    IF r = 0 \/ s = 0 THEN NoSigner
    ELSE IF s = hash /\ v = 27 + (r % 2) THEN r ELSE Stranger

EcrecoverRun(words) ==
    LET in == RightPad(words, 0, 4)
        by == RecoverCompact(in[3], in[4], in[2], in[1])
    IN  IF in[2] \notin {27, 28} \/ by = NoSigner THEN Output(<<>>) ELSE Output(<<by>>)

RecoverTronAddr(sig, hash) ==
    LET v == IF sig.v < 27 THEN sig.v + 27 ELSE sig.v
    IN  IF sig.len < 65 \/ v \notin {27, 28} THEN NoSigner
        ELSE RecoverCompact(sig.r, sig.s, v, hash)

(* bytes32[] and bytes[] of the ABI: an index outside the words panics,    *)
(* which Run turns into a zero word; the bytes of an element read zero     *)
(* past the end of the data.  Offsets in the data are counted in words.    *)
InData(words, i) == i < Len(words)
At(words, i) == words[i + 1]

Bytes32ArrayFits(words, off) == InData(words, off) /\ InData(words, off + At(words, off))
ExtractBytes32Array(words, off) == [i \in 1 .. At(words, off) |-> At(words, off + i)]

BytesArrayFits(words, off) ==
    InData(words, off) =>
        \A i \in 1 .. At(words, off) :
            InData(words, off + i) /\ InData(words, off + At(words, off + i) + 1)

ExtractBytesArray(words, off) ==
    IF ~InData(words, off) THEN <<>>
    ELSE [i \in 1 .. At(words, off) |->
             LET start == off + At(words, off + i) + 1
                 data  == RightPad(words, start + 1, 3)
             IN  [len |-> At(words, start), r |-> data[1], s |-> data[2], v |-> data[3]]]

EnergyPerSign == 1500
BatchMaxSize == 16
MultiSignMax == 5

(* Division of a negative number rounds to zero in Go.                     *)
SignEnergy(words, each) ==
    IF words < 5 THEN 0 ELSE ((words - 5) \div each) * EnergyPerSign
BatchEnergy(words) == SignEnergy(words, 6)
MultiSignEnergy(words) == SignEnergy(words, 5)

(* The signatures that are marked valid; none for the zero word.           *)
BatchValidateSign(words) ==
    IF Len(words) < 3 \/ ~BytesArrayFits(words, At(words, 1))
                      \/ ~Bytes32ArrayFits(words, At(words, 2)) THEN {}
    ELSE LET sigs  == ExtractBytesArray(words, At(words, 1))
             addrs == ExtractBytes32Array(words, At(words, 2))
         IN  IF Len(sigs) \notin 1 .. BatchMaxSize \/ Len(sigs) # Len(addrs) THEN {}
             ELSE {i \in 1 .. Len(sigs) :
                      LET by == RecoverTronAddr(sigs[i], At(words, 0))
                      IN  by # NoSigner /\ addrs[i] = by}

(* The message the signers of a permission sign (external: sha256).        *)
MultiSignHash(address, id, data) == 100 * address + 10 * id + data

(* permissionByID: the owner's default is the account itself.              *)
PermissionById(accounts, address, id) ==
    IF address \notin DOMAIN accounts THEN {}
    ELSE IF id = 0 /\ 0 \notin DOMAIN accounts[address]
    THEN {[threshold |-> 1, weight |-> address :> 1]}
    ELSE IF id \in DOMAIN accounts[address] THEN {accounts[address][id]} ELSE {}

WeightOf(weight, by) == IF by \in DOMAIN weight THEN weight[by] ELSE 0


(* The same signature again is not counted again.                          *)
Duplicate(sigs, i) == \E j \in 1 .. i - 1 : sigs[j] = sigs[i]

(* The loop of Run: the weight so far, or a signer that has none.          *)
TotalWeight(sigs, hash, weight) ==
    LET w(i) == WeightOf(weight, RecoverTronAddr(sigs[i], hash))
        total[i \in 0 .. Len(sigs)] ==
            IF i = 0 THEN 0
            ELSE IF total[i - 1] < 0 \/ (~Duplicate(sigs, i) /\ w(i) = 0) THEN -1
            ELSE total[i - 1] + (IF Duplicate(sigs, i) THEN 0 ELSE w(i))
    IN  total[Len(sigs)]

ValidateMultiSign(words, accounts) ==
    IF Len(words) < 4 \/ ~BytesArrayFits(words, At(words, 3)) THEN FALSE
    ELSE LET sigs == ExtractBytesArray(words, At(words, 3))
             hash == MultiSignHash(At(words, 0), At(words, 1), At(words, 2))
         IN  /\ Len(sigs) \in 1 .. MultiSignMax
             /\ \E p \in PermissionById(accounts, At(words, 0), At(words, 1)) :
                   LET total == TotalWeight(sigs, hash, p.weight)
                   IN  total >= 0 /\ total >= p.threshold

=============================================================================
