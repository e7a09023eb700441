------------------------------ MODULE Algorithms ------------------------------
(***************************************************************************)
(* The pure algorithms of the program against reference definitions.  A    *)
(* behaviour picks one input - words, points, signatures, keys, messages,  *)
(* transactions - and the invariants compare what the program computes for *)
(* it with the definition of what it should be.  An execution of the VM    *)
(* oracle is the exception: it is grown one state operation at a time.     *)
(***************************************************************************)
EXTENDS Precompiles, Messages

CONSTANTS LongBytes, HashLength, ChecksumLength, Checksum(_), KeyHash(_), HashLen, ValueModulus

S == INSTANCE BlockIds
O == INSTANCE OracleExecution

CONSTANTS
    MaxSizes,         \* lengths of base, exponent and modulus: <<b, e, m>>
    LengthWords,      \* words a call may give as those lengths
    MaxComplexity,    \* largest operand length priced
    ScalarBound,      \* largest factor of a point
    G2Words,          \* four words each: points on the twist, and others
    LaneSeeds,        \* the lanes of blake2 inputs are drawn from these
    Signers, MaxSignatures, Accounts,
    SomeBytes, MaxBytes, Chars, MaxChars,
    Addresses, Slots, Names, Longs, Cycles, Times,
    MaxLeaves, Txs,
    Usages,
    Worlds, Calls, OracleSlots, Values, MaxOps

VARIABLE item

Strings(set, n) == UNION {[1 .. k -> set] : k \in 0 .. n}

-----------------------------------------------------------------------------
(* Inputs.                                                                 *)

Init == item = <<"none">>
Choosing == item = <<"none">>

Arithmetic == Choosing /\ \E x, y, m \in Word : item' = <<"words", x, y, m>>

BytesOf(n) == [1 .. n -> Byte]
ModExp == Choosing /\
    \E b \in 0 .. MaxSizes[1], e \in 0 .. MaxSizes[2], n \in 0 .. MaxSizes[3] :
    \E base \in BytesOf(b), exp \in BytesOf(e), mod \in BytesOf(n) :
        item' = <<"modexp", base, exp, mod>>

Lengths == Choosing /\ \E words \in [1 .. 3 -> LengthWords], budget \in 0 .. 1 :
              item' = <<"lengths", words, budget>>

Complexity == Choosing /\ \E x \in 0 .. MaxComplexity : item' = <<"complexity", x>>

Contracts == DOMAIN Ungated \cup UNION {DOMAIN Gated[f] : f \in DOMAIN Gated}
Fork == Choosing /\ \E v \in 0 .. LatestForkVersion + 1, a \in Contracts \cup {11} : item' = <<"fork", v, a>>

Pairs == (0 .. P) \X (0 .. P)
Points == Choosing /\ \E p, q \in Pairs : item' = <<"points", p, q>>
Scalar == Choosing /\ \E p \in Pairs, k \in 0 .. ScalarBound : item' = <<"scalar", p, k>>
GroupLaw == Choosing /\ \E p, q, r \in Curve \cup {Infinity} : item' = <<"group", p, q, r>>

Pairing == Choosing /\
    \E ps \in Strings({Infinity, CHOOSE c \in Curve : TRUE, <<1, 1>>} \X G2Words, 2), cut \in 0 .. 1 :
        /\ ps = <<>> => cut = 0
        /\ LET w == FlattenSeq([i \in 1 .. Len(ps) |-> ps[i][1] \o ps[i][2]])
           IN  item' = <<"pairing", ps, cut, SubSeq(w, 1, Len(w) - cut)>>

Blake == Choosing /\ \E a, b \in LaneSeeds, r \in 0 .. 11, flag \in 0 .. 2 :
            item' = <<"blake", a, b, r, flag>>

(* A signature of a message: as it should be, with the other form of the   *)
(* parity, cut short, with another parity, of another message.             *)
Forms == {"plain", "low", "cut", "parity", "other"}
Signature(by, form, hash) ==
    [len |-> IF form = "cut" THEN 64 ELSE 65, r |-> by,
     s   |-> IF form = "other" THEN hash + 1 ELSE hash,
     v   |-> CASE form = "low" -> by % 2 [] form = "parity" -> 29 [] OTHER -> 27 + (by % 2)]

Signatures == Strings(Signers \X Forms, MaxSignatures)
Batch == Choosing /\ \E sigs \in Signatures : \E claim \in [1 .. Len(sigs) -> Signers] :
            item' = <<"batch", sigs, claim>>
Multi == Choosing /\ \E sigs \in Signatures, as \in Accounts, id \in 0 .. 2, a \in Signers :
            item' = <<"multi", sigs, as, id, a>>

Encoded == Choosing /\ \E b \in Strings(SomeBytes, MaxBytes) : item' = <<"bytes", b>>
Text == Choosing /\ \E s \in Strings(Chars, MaxChars) : item' = <<"text", s>>

AccountVotes == Choosing /\
    \E av \in Strings([address : Addresses, count : Longs], 2) : item' = <<"votes", av>>

Property == Choosing /\ \E k \in DOMAIN S!Fallback, v \in Longs : item' = <<"property", k, v>>

Maintenance == Choosing /\ \E cur, t \in Times, interval \in 1 .. 4 :
                  t >= cur /\ item' = <<"maintenance", cur, interval, t>>

Entries ==
    [store : {"account", "witness", "code", "votes", "index", "beginCycle", "endCycle"}, a : Addresses]
    \cup [store : {"storage"}, a : Addresses, slot : Slots]
    \cup [store : {"property"}, name : Names]
    \cup [store : {"delegated"}, a : Addresses, b : Addresses]
    \cup [store : {"delegatedV2"}, a : Addresses, b : Addresses, lock : BOOLEAN]
    \cup [store : {"edge"}, n : 1 .. 4, a : Addresses, b : Addresses]
    \cup [store : DOMAIN S!cyclePrefixes, cycle : Cycles, a : Addresses]
    \cup {[store |-> "root"]}
Entry == Choosing /\ \E e \in Entries : item' = <<"key", e>>

Merkle == Choosing /\ \E n \in 1 .. MaxLeaves : item' = <<"merkle", [i \in 1 .. n |-> <<i>>]>>

(* Two blocks, of which the second is checked against the first's capture. *)
(* Of Txs some are transactions of one symbol, and some two hashes.        *)
TwoHashes(tx) == Len(tx) = 2
Blocks == Choosing /\ \E a, b \in Strings(Txs, 3), n \in Cycles, step \in 0 .. 1 :
             item' = <<"blocks", a, b, n, step>>

SnapshotFields == S!Overwritten \cup {"Balance", "EnergyWindowSize"}
Seeding == Choosing /\ \E account, snapshot \in [SnapshotFields -> Usages] :
              item' = <<"seed", account, snapshot>>

(* A value of each kind of field; a message with two of its fields set,    *)
(* and perhaps one that its type does not have.                            *)
Sample(d) ==
    CASE d.kind = "int"   -> -3
      [] d.kind = "bool"  -> 1
      [] d.kind = "bytes" -> <<0, 7>>
      [] d.kind = "list"  -> <<<<2>>, <<>>>>
      [] d.kind = "map"   -> 1 :> 5 @@ 2 :> 0 @@ 4 :> -1
      [] d.kind = "one"   -> <<New(d.of)>>
      [] d.kind = "many"  -> <<New(d.of), [New(d.of) EXCEPT !.unknown = <<[n |-> 99, v |-> 1]>>]>>

Message == Choosing /\
    \E msg \in DOMAIN Descriptor : \E f, g \in DOMAIN Descriptor[msg] :
        /\ Descriptor[msg][f].n <= Descriptor[msg][g].n
        /\ item' = <<"message", msg, f, g,
                [New(msg) EXCEPT ![f] = Sample(Descriptor[msg][f]),
                                   ![g] = Sample(Descriptor[msg][g]),
                                   !.unknown = IF f = g THEN <<[n |-> 98, v |-> 1]>> ELSE <<>>]>>

Enums == {AccountType, PermissionType, ContractType, ContractResult, ResourceCode}
FieldNumbers == Choosing /\ \E msg \in DOMAIN Descriptor : item' = <<"numbers", msg>>

(* An execution: the world, the call, the state so far and its length.     *)
Execute == Choosing /\ \E w \in Worlds, tx \in Calls : item' = <<"run", w, tx, O!Begin(w, tx), 0>>

Goes(s) == item' = <<"run", item[2], item[3], s, item[5] + 1>>
Running == item[1] = "run" /\ item[5] < MaxOps
Write == Running /\ \E a \in DOMAIN item[2], k \in OracleSlots, v \in Values :
            Goes(O!SetStorage(item[4], a, k, v))
Frame == Running /\ Goes(O!Snapshot(item[4]))
Revert == Running /\ \E id \in 2 .. Len(item[4].snaps) : Goes(O!RevertToSnapshot(item[4], id))
Create == Running /\ \E a \in DOMAIN item[2] : Goes(O!SetNonce(O!CreateAccount(item[4], a), a, 1))

Next == \/ Arithmetic \/ ModExp \/ Lengths \/ Complexity \/ Fork
        \/ Points \/ Scalar \/ GroupLaw \/ Pairing \/ Blake \/ Batch \/ Multi
        \/ Encoded \/ Text \/ AccountVotes \/ Property \/ Maintenance \/ Entry
        \/ Merkle \/ Blocks \/ Seeding \/ Message \/ FieldNumbers
        \/ Execute \/ Write \/ Frame \/ Revert \/ Create

Spec == Init /\ [][Next]_item

-----------------------------------------------------------------------------
(* References.                                                             *)

Bit(x, i) == (x \div 2 ^ i) % 2
Least(a, b) == IF a < b THEN a ELSE b

WordsMatch(x, y, m) ==
    /\ y # 0 => /\ Unsigned(Signed(Sdiv(x, y)) * Signed(y) + Signed(Smod(x, y))) = x
                /\ Magnitude(Smod(x, y)) < Magnitude(y)
                /\ Signed(Smod(x, y)) * Signed(x) >= 0
    /\ m # 0 => Mulmod(x, y, m) = (x * y) % m /\ Addmod(x, y, m) = Addmod(y, x, m)
    /\ LET power[n \in Nat] == IF n = 0 THEN 1 ELSE (power[n - 1] * x) % Modulus
       IN  Exp(x, y) = power[y]
    /\ \A i \in 0 .. WordBits - 1 :
           /\ x < WordBytes => Bit(Signextend(x, y), i) = Bit(y, Least(i, ByteBits * (x + 1) - 1))
           /\ Bit(Sar(x, y), i) = Bit(y, Least(i + x, WordBits - 1))
           /\ Bit(Shr(x, y), i) = (IF i + x < WordBits THEN Bit(y, i + x) ELSE 0)
           /\ Bit(Shl(x, y), i) = (IF i >= x THEN Bit(y, i - x) ELSE 0)
    /\ OpAnd(x, y) = x & y /\ OpOr(x, y) = x | y /\ OpXor(x, y) = x ^^ y
    /\ FromBytes(ToBytes(x)) = x

(* The exponent by plain multiplication; its length as big.Int has it      *)
(* wherever the first word tells.                                          *)
ModExpMatch(base, exp, mod) ==
    LET in    == <<Len(base), Len(exp), Len(mod)>> \o base \o exp \o mod
        n     == FromBytes(mod)
        e     == FromBytes(exp)
        power[k \in Nat] == IF k = 0 THEN 1 % n ELSE (power[k - 1] * FromBytes(base)) % n
        long  == Len(exp) > WordBytes
        top   == AdjustedExpLen(Len(exp), e)
    IN  /\ IF n = 0 THEN ModExpRun(in).out = <<>>
           ELSE FromBytes(ModExpRun(in).out) = power[e] /\ Len(ModExpRun(in).out) = Len(mod)
        /\ top >= TopBit(e)
        /\ (~long \/ FromBytes(SubSeq(exp, 1, WordBytes)) # 0) => top = TopBit(e)
        /\ ModExpEnergy(in) >= ModExpEnergy(<<Len(base), 0, Len(mod)>>)

(* A length whose low 64 bits no slice can have ends the process, whatever *)
(* the budget; any other word stands for its low 64 bits.                  *)
LengthsMatch(words, budget) ==
    LET operands == <<1, 2, 3, 1, 2, 3>>
        low      == [i \in 1 .. 3 |-> words[i] % U64]
    IN  /\ (CallModExp(words \o operands, budget) = {}) = (\E i \in 1 .. 3 : low[i] > MaxSlice)
        /\ CallModExp(words \o operands, budget) = CallModExp(low \o operands, budget)

(* Forks only add flags and contracts, and drop the old memory price.      *)
ForkMatch(v, a) ==
    /\ VMConfigForVersion(v) \ {"LegacyMemCost"} \subseteq VMConfigForVersion(v + 1)
    /\ (v >= VerHigherCPULimit) = (VMConfigForVersion(v) = LatestVMConfig)
    /\ LookupPrecompile(a, VMConfigForVersion(v))
           \in {"none", LookupPrecompile(a, VMConfigForVersion(v + 1))}
    /\ LookupPrecompile(a, LatestVMConfig) = "none" =>
           a \in {11} \cup DOMAIN Gated.AllowShieldedTRC20Transaction
    /\ LET name == LookupPrecompile(a, {"AllowShieldedTRC20Transaction"})
       IN  name \in DOMAIN ShieldedEnergy =>
               RunPrecompile(LinearEnergy(name, v), ShieldedRun, 200000)
                   = [out |-> <<>>, used |-> 200000, err |-> TRUE]

(* A longer input never costs less; an operand of modexp only as long as   *)
(* the square of its length stays below 2^64.                              *)
ComplexityMatch(x) ==
    /\ (x + 1) * (x + 1) < U64 => MultComplexity(x) <= MultComplexity(x + 1)
    /\ \A c \in {"dataCopy", "sha256Hash", "tronRipemd160", "ethRipemd160", "ecrecover", "merkleHash"} :
           LinearEnergy(c, x) <= LinearEnergy(c, x + 1)

ScalarMatch(p, k) ==
    LET sum[n \in Nat] == IF n = 0 THEN Infinity ELSE G1Add(sum[n - 1], p)
    IN  BnScalarMulRun(p \o <<k>>) = IF p \in Curve \cup {Infinity} THEN Output(sum[k]) ELSE Failure

PointsMatch(p, q) ==
    LET valid(x) == x \in Curve \cup {Infinity}
        budget == 150
        bill   == RunPrecompile(BnEnergy("bn128Add", 4, {"AllowIstanbul"}), BnAddRun(p \o q), budget)
    IN  /\ BnAddRun(p \o q).ok = (valid(p) /\ valid(q))
        /\ bill.used = budget /\ bill.err = ~(valid(p) /\ valid(q))
        /\ RunPrecompile(BnEnergy("bn128Add", 4, {}), BnAddRun(p \o q), budget).err
        /\ BnAddRun(p).ok = valid(p) /\ (valid(p) => BnAddRun(p).out = p)

GroupMatch(p, q, r) ==
    /\ G1Add(p, q) = G1Add(q, p)
    /\ G1Add(p, q) \in Curve \cup {Infinity}
    /\ G1Add(G1Add(p, q), r) = G1Add(p, G1Add(q, r))

(* Against a PairingCheck that holds when every pair has an infinite point. *)
PairingMatch(ps, cut, w) ==
    LET g2(i)    == <<ps[i][2][2], ps[i][2][1], ps[i][2][4], ps[i][2][3]>>
        valid(i) == ps[i][1] # <<1, 1>> /\ g2(i) \in Subgroup \cup {<<0, 0, 0, 0>>}
        trivial(i) == ps[i][1] = Infinity \/ g2(i) = <<0, 0, 0, 0>>
        run      == BnPairingRun(w)
    IN  /\ run.ok = (cut = 0 /\ \A i \in DOMAIN ps : valid(i))
        /\ run.ok => (run.out = <<1>>) = (\A i \in DOMAIN ps : trivial(i))
        /\ \A cfg \in {{}, {"AllowIstanbul"}} :
               BnEnergy("bn128Pairing", Len(w), cfg)
                   = BnEnergy("bn128Pairing", 6 * (IF cut = 0 THEN Len(ps) ELSE Len(ps) - 1), cfg)

(* A round undone: from the last mix back to the first.                    *)
Rotl(x, n) == Rotr(x, LaneBits - n)
UnMix(v, q, x, y) ==
    LET b1 == Rotl(v[q[2]], LaneBits - 1) ^^ v[q[3]]
        c1 == (v[q[3]] - v[q[4]]) % Lanes
        d1 == Rotl(v[q[4]], LaneBits \div 4) ^^ v[q[1]]
        a1 == (v[q[1]] - b1 - y) % Lanes
        b  == Rotl(b1, (3 * LaneBits) \div 8) ^^ c1
    IN  [v EXCEPT ![q[1]] = (a1 - b - x) % Lanes, ![q[2]] = b, ![q[3]] = (c1 - d1) % Lanes,
                  ![q[4]] = Rotl(d1, LaneBits \div 2) ^^ a1]
UnRound(v, m, r) ==
    LET s == BlakeSigma[(r % 10) + 1]
        back[i \in 0 .. 8] ==
            IF i = 0 THEN v
            ELSE UnMix(back[i - 1], Quads[9 - i], m[s[2 * (9 - i) - 1]], m[s[2 * (9 - i)]])
    IN  back[8]

BlakeMatch(a, b, r, flag) ==
    LET v   == [i \in 0 .. 15 |-> (a * (i + 1) + b) % Lanes]
        m   == [i \in 0 .. 15 |-> (b * (2 * i + 1)) % Lanes]
        in  == [wellFormed |-> r # 11, flag |-> flag, rounds |-> Least(r, 1),
                h |-> [i \in 0 .. 7 |-> v[i]], m |-> m, t |-> <<a, b>>]
        iv  == BlakeIV
    IN  /\ ToSet(BlakeSigma[(r % 10) + 1]) = 0 .. 15
        /\ UnRound(Round(v, m, r), m, r) = v
        /\ Blake2Run(in).ok = (r # 11 /\ flag < 2)
        /\ Blake2Energy(in) = IF Blake2Run(in).ok THEN in.rounds ELSE 0
        /\ r = 0 /\ flag < 2 =>
               Blake2Run(in).out = [i \in 0 .. 7 |->
                   CASE i = 4 -> iv[5] ^^ a [] i = 5 -> iv[6] ^^ b
                     [] i = 6 /\ flag = 1 -> (Lanes - 1) ^^ iv[7] [] OTHER -> iv[i + 1]]

(* The words of a call with all its arguments in place: a signature takes  *)
(* an offset, a length and three words.                                    *)
SignatureWords(sigs) ==
    LET n == Len(sigs)
    IN  <<n>> \o [i \in 1 .. n |-> n + 4 * (i - 1)]
             \o FlattenSeq([i \in 1 .. n |-> <<sigs[i].len, sigs[i].r, sigs[i].s, sigs[i].v>>])

Signed65(sigs, hash) == [i \in 1 .. Len(sigs) |-> Signature(sigs[i][1], sigs[i][2], hash)]
Genuine(sig) == sig[2] \in {"plain", "low"}

(* A signature is valid for the address of the one who made it, and every  *)
(* signature of a whole call is paid for.                                  *)
BatchMatch(sigs, claim) ==
    LET hash  == 7
        n     == Len(sigs)
        words == <<hash, 3, 4 + 5 * n>> \o SignatureWords(Signed65(sigs, hash)) \o <<n>> \o claim
    IN  /\ BatchValidateSign(words) = {i \in 1 .. n : Genuine(sigs[i]) /\ sigs[i][1] = claim[i]}
        /\ BatchEnergy(Len(words)) = n * EnergyPerSign
        /\ \A i \in 1 .. n :
               LET s == Signature(sigs[i][1], sigs[i][2], hash)
               IN  (EcrecoverRun(<<hash, s.v, s.r, s.s>>).out = <<s.r>>)
                       = (sigs[i][2] \in {"plain", "cut"})

(* The weights of the different signatures, whatever their order; one      *)
(* signer without weight fails the call.                                   *)
MultiMatch(sigs, accounts, id, address) ==
    LET hash    == MultiSignHash(address, id, 3)
        words   == <<address, id, 3, 4>> \o SignatureWords(Signed65(sigs, hash))
        weight(p, s) == IF Genuine(s) THEN WeightOf(p.weight, s[1]) ELSE 0
        distinct == ToSet(sigs)
        enough(p) == /\ \A s \in distinct : weight(p, s) > 0
                     /\ MapThenSumSet(LAMBDA s : weight(p, s), distinct) >= p.threshold
    IN  /\ ValidateMultiSign(words, accounts)
               = (sigs # <<>> /\ \E p \in PermissionById(accounts, address, id) : enough(p))
        /\ MultiSignEnergy(Len(words)) = Len(sigs) * EnergyPerSign

-----------------------------------------------------------------------------
BytesMatch(b) ==
    /\ S!B58Decode(S!B58Encode(b)) = S!Ok(b)
    /\ S!B58CheckDecode(S!B58CheckEncode(b)) = S!Ok(b)
    /\ S!FromBase58(S!B58CheckEncode(b)) = S!FromBytes(b)
    /\ S!FromHash(b).ok => S!Hash(S!FromHash(b).value) = b /\ S!FromBytes(S!FromHash(b).value).ok

(* A text that decodes is the only one for its bytes.                      *)
TextMatch(s) ==
    /\ S!B58Decode(s).ok = (\A i \in DOMAIN s : s[i] < S!Radix)
    /\ S!B58Decode(s).ok => S!B58Encode(S!B58Decode(s).value) = s
    /\ S!FromBase58(s).ok => S!Base58(S!FromBase58(s).value) = s
    /\ S!FromPublicKey(s).ok
           = (Len(s) = S!PublicKeyLength \/ (Len(s) = S!PublicKeyLength + 1 /\ s[1] = 4))

(* Nothing is left to guess: a record cut anywhere does not decode.        *)
VotesMatch(av) ==
    LET b == S!EncodeAccountVote(av)
    IN  /\ S!DecodeAccountVote(b) = S!Ok(av)
        /\ \A n \in 0 .. Len(b) - 1 : ~S!DecodeAccountVote(SubSeq(b, 1, n)).ok

(* A seeded database and an empty one read alike, and what is put is read. *)
PropertyMatch(k, v) ==
    /\ S!GetInt64(S!SeedGenesisDefaults(<<>>), k) = S!GetInt64(<<>>, k)
    /\ S!GetInt64(S!PutInt64(<<>>, k, v), k) = S!Ok(v)
    /\ ~S!GetInt64(k :> Tail(S!PutUint64(v)), k).ok

(* The first moment after the block that is whole intervals away.          *)
MaintenanceMatch(cur, interval, t) ==
    S!NextMaintenance(cur, interval, t)
        = Min({n \in t + 1 .. t + interval : (n - cur) % interval = 0})

(* Entries do not share a key, and a scan sees its own store only.         *)
KeyMatch(e) ==
    /\ \A o \in Entries : o # e => S!KeyOf(o) # S!KeyOf(e)
    /\ \A store \in DOMAIN S!ScanPrefix :
           IsPrefix(S!ScanPrefix[store], S!KeyOf(e)) = (e.store = store)

(* The tree that splits at the largest power of two below the length.      *)
MerkleMatch(txs) ==
    LET tree[n \in 1 .. Len(txs)] == [from \in 1 .. Len(txs) |->
            IF n = 1 THEN S!Sha256(txs[from])
            ELSE LET k == CHOOSE k \in {2 ^ j : j \in 0 .. 4} : k < n /\ 2 * k >= n
                 IN  IF from + n - 1 > Len(txs) THEN <<>>
                     ELSE S!Sha256(tree[k][from] \o tree[n - k][from + k])]
    IN  S!CalcTxTrieRoot(txs) = tree[Len(txs)][1]

(* A root stands for one list of transactions among those of one length,   *)
(* and among those without a transaction that is two hashes; one that is   *)
(* has the root of the list of the two.  A fixture passes against blocks   *)
(* of its number and root only; an id carries the number.                  *)
BlocksMatch(a, b, n, step) ==
    LET fixture(txs, num) ==
            [number |-> num, parentHash |-> <<>>, txs |-> txs, txTrieRoot |-> S!CalcTxTrieRoot(txs)]
        block(txs, num) == S!Build(fixture(txs, num))
        capture(txs, num) == fixture(txs, num) @@ [blockID |-> S!ID(block(txs, num))]
        sameRoot == S!CalcTxTrieRoot(a) = S!CalcTxTrieRoot(b)
    IN  /\ Len(a) = Len(b) \/ (\A tx \in Range(a \o b) : ~TwoHashes(tx)) => sameRoot = (a = b)
        /\ Len(a) = 2 /\ b = <<S!TxMerkleHash(a[1]) \o S!TxMerkleHash(a[2])>> => sameRoot
        /\ S!CheckFixture(capture(a, n), block(b, n + step)) = (sameRoot /\ step = 0)
        /\ S!NumberFromID(S!ID(block(a, n))) = S!BlockNumber(block(a, n))
        /\ S!NumberFromID(S!ParentHash(block(a, n))) = 0

(* Seeding twice is seeding once, and the last snapshot's usage counts.    *)
SeedMatch(account, snapshot) ==
    LET once == S!Seeded(account, snapshot)
    IN  /\ S!Seeded(once, snapshot) = once
        /\ \A f \in SnapshotFields : once[f] \in {account[f], snapshot[f]}
        /\ once.EnergyUsage = snapshot.EnergyUsage

(* What is marshalled comes back, unknown fields included, even when the   *)
(* records of one field arrive before all others; and it is marshalled to  *)
(* the same records again.                                                 *)
MessageMatch(msg, f, g, m) ==
    LET wire  == Marshal(msg, m)
        n     == Descriptor[msg][g].n
        moved == SelectSeq(wire, LAMBDA r : r.n = n) \o SelectSeq(wire, LAMBDA r : r.n # n)
    IN  /\ Unmarshal(msg, wire) = m
        /\ Unmarshal(msg, moved) = m
        /\ \A h \in DOMAIN Descriptor[msg] \ {f, g} : Get(msg, <<m>>, h) = Get(msg, <<>>, h)

(* A number stands for one field of a message, and for one name of an      *)
(* enum.                                                                   *)
NumbersMatch(msg) ==
    /\ \A h \in DOMAIN Descriptor[msg] : FieldOf(msg, Descriptor[msg][h].n) = h
    /\ \A enum \in Enums : \A name \in DOMAIN enum :
           EnumKnown(enum, enum[name]) /\ EnumName(enum, enum[name]) = name

-----------------------------------------------------------------------------
(* The results a run of the VM may have.                                   *)
Results ==
    [err : {"none", "OUT_OF_ENERGY", "other"}, reverted : BOOLEAN, return : {"r"}, faultPc : {0},
     faultOp : {"JUMP"}, logs : {<<>>, <<"log">>, <<"log", "log">>}]
SomeBill == [total |-> 3, fee |-> 2, origin |-> 0]

RunReported(world, tx, s) ==
    \A res \in Results :
        LET final  == O!Settle(s, tx, res)
            report == O!Report(s, world, tx, res, SomeBill)
            applied(a, k) == IF <<a, k>> \in DOMAIN report.writes THEN report.writes[<<a, k>>]
                             ELSE O!InputStorage(world, a, k)
        IN  /\ \A a \in DOMAIN world, k \in OracleSlots : applied(a, k) = O!GetStorage(final, a, k)
            /\ \A w \in DOMAIN report.writes : report.writes[w] # O!InputStorage(world, w[1], w[2])
            /\ O!Failed(res) => report.writes = <<>> /\ report.logs = <<>> /\ report.created = <<>>
            /\ \A a \in DOMAIN world : O!Failed(res) => O!Account(final, a).balance = world[a].balance
            /\ (report.result = "SUCCESS") = ~O!Failed(res)
            /\ \A other \in Results :
                   LET second == O!Report(s, world, tx, other, SomeBill)
                   IN  O!Agree(report, second)
                           = ([report EXCEPT !.vmError = "none"] = [second EXCEPT !.vmError = "none"])

-----------------------------------------------------------------------------

(* What is written can be read back and means one thing: addresses and     *)
(* their text, integers, vote records, messages; entries of the stores     *)
(* have keys of their own; a block id stands for one header, a Merkle root *)
(* for one list of transactions among the lists of its length and among    *)
(* those in which no transaction is two hashes; properties read alike from *)
(* a seeded and an empty database (address/, state/, merkle/, block/,      *)
(* replay/, proto/core/).                                                  *)
EncodingsFaithful ==
    CASE item[1] = "bytes"       -> BytesMatch(item[2])
      [] item[1] = "text"        -> TextMatch(item[2])
      [] item[1] = "votes"       -> VotesMatch(item[2])
      [] item[1] = "property"    -> PropertyMatch(item[2], item[3])
      [] item[1] = "maintenance" -> MaintenanceMatch(item[2], item[3], item[4])
      [] item[1] = "key"         -> KeyMatch(item[2])
      [] item[1] = "merkle"      -> MerkleMatch(item[2])
      [] item[1] = "blocks"      -> BlocksMatch(item[2], item[3], item[4], item[5])
      [] item[1] = "seed"        -> SeedMatch(item[2], item[3])
      [] item[1] = "numbers"     -> NumbersMatch(item[2])
      [] item[1] = "message"     -> MessageMatch(item[2], item[3], item[4], item[5])
      [] OTHER -> TRUE

(* Whatever frames, writes and reverts an execution of the oracle makes,   *)
(* and however it ends, the reported writes turn the world's storage into  *)
(* the final one and none of them is without effect; a failed execution    *)
(* leaves the world as it was; and two reports agree exactly when all but  *)
(* the wording of the error is equal (vmoracle/statedb.go:netWrites,       *)
(* execute.go:Execute, diff.go:Diff).                                      *)
NetEffectReported == item[1] = "run" => RunReported(item[2], item[3], item[4])

=============================================================================
