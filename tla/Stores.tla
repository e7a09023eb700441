-------------------------------- MODULE Stores --------------------------------
(***************************************************************************)
(* What the state stores write to the one flat database: the keys, the     *)
(* fixed-width integers, the account-vote records, the named properties    *)
(* with their defaults; and the addresses that the keys are made of, in    *)
(* their byte, hash and Base58Check forms.                                 *)
(*                                                                         *)
(* A byte is 0 .. 255.  The widths of an int64, of an address, of a        *)
(* storage slot and of a checksum are constants.                           *)
(***************************************************************************)
EXTENDS Integers, SequencesExt

CONSTANTS
    LongBytes,       \* 8 in the program
    HashLength,      \* bytes of an address after its prefix: 20
    ChecksumLength,  \* 4
    Checksum(_),     \* the first bytes of a double sha256 (external)
    KeyHash(_)       \* the last bytes of the keccak hash of a bare key (external)

Long == INSTANCE Words WITH ByteBits <- 8, WordBytes <- LongBytes

Ok(v) == [ok |-> TRUE, value |-> v]
Err == [ok |-> FALSE]

-----------------------------------------------------------------------------
(* Integers: uint64(v) big endian, and back.                               *)

PutUint64(v) == Long!ToBytes(Long!Unsigned(v))
Int64(bytes) == Long!Signed(Long!FromBytes(bytes))

-----------------------------------------------------------------------------
(* Addresses.                                                              *)

Prefix == 65
Length == HashLength + 1

FromBytes(b) == IF Len(b) # Length \/ b[1] # Prefix THEN Err ELSE Ok(b)
FromHash(h) == IF Len(h) # HashLength THEN Err ELSE Ok(<<Prefix>> \o h)
Hash(a) == Tail(a)

(* A bare key, or one with the tag of an uncompressed point.               *)
PublicKeyLength == 2 * HashLength
FromPublicKey(pub) ==
    CASE Len(pub) = PublicKeyLength -> FromHash(KeyHash(pub))
      [] Len(pub) = PublicKeyLength + 1 /\ pub[1] = 4 -> FromHash(KeyHash(Tail(pub)))
      [] OTHER -> Err

(* Base58: a character is its index in the alphabet; others are invalid.   *)
Radix == 58
Zeros(s) == Max({n \in 0 .. Len(s) : \A i \in 1 .. n : s[i] = 0})

Number(s, base) ==
    LET value[i \in 0 .. Len(s)] == IF i = 0 THEN 0 ELSE value[i - 1] * base + s[i]
    IN  value[Len(s)]

(* No digits for zero.                                                     *)
Digits(n, base) ==
    LET len == CHOOSE k \in 0 .. 6 : n < base ^ k /\ (k > 0 => n >= base ^ (k - 1))
    IN  [i \in 1 .. len |-> (n \div base ^ (len - i)) % base]

(* Every leading zero byte is a leading first character.                   *)
B58Encode(input) == [i \in 1 .. Zeros(input) |-> 0] \o Digits(Number(input, 256), Radix)

B58Decode(s) ==
    IF \E i \in DOMAIN s : s[i] >= Radix THEN Err
    ELSE Ok([i \in 1 .. Zeros(s) |-> 0] \o Digits(Number(s, Radix), 256))

B58CheckEncode(payload) == B58Encode(payload \o Checksum(payload))

B58CheckDecode(s) ==
    LET dec == B58Decode(s)
    IN  IF ~dec.ok THEN Err
        ELSE IF Len(dec.value) < ChecksumLength THEN Err
        ELSE LET cut     == Len(dec.value) - ChecksumLength
                 payload == SubSeq(dec.value, 1, cut)
             IN  IF SubSeq(dec.value, cut + 1, Len(dec.value)) = Checksum(payload)
                 THEN Ok(payload) ELSE Err

Base58(a) == B58CheckEncode(a)
FromBase58(s) == LET p == B58CheckDecode(s) IN IF p.ok THEN FromBytes(p.value) ELSE Err

-----------------------------------------------------------------------------
(* Keys.  A prefix names the store; what follows it is put together from   *)
(* addresses, cycles and slots without separators.                         *)

accountPrefix        == <<97, 47>>                \* a/
witnessPrefix        == <<119, 47>>               \* w/
propertyPrefix       == <<112, 47>>               \* p/
codePrefix           == <<99, 47>>                \* c/
storagePrefix        == <<115, 47>>               \* s/
votesPrefix          == <<118, 111, 47>>          \* vo/
delegatedPrefix      == <<100, 114, 47>>          \* dr/
delegatedIndexPrefix == <<100, 105, 47>>          \* di/
\* meta/chain/root
chainRootKey         == <<109, 101, 116, 97, 47, 99, 104, 97, 105, 110, 47, 114, 111, 111, 116>>

(* dg/r/, dg/v/, dg/o/, dg/a/, dg/bk/ with a cycle; dg/bc/, dg/ec/ without *)
cyclePrefixes == [
    reward      |-> <<100, 103, 47, 114, 47>>,     vi        |-> <<100, 103, 47, 118, 47>>,
    vote        |-> <<100, 103, 47, 111, 47>>,     accountVote |-> <<100, 103, 47, 97, 47>>,
    brokerage   |-> <<100, 103, 47, 98, 107, 47>>]
cursorPrefixes == [
    beginCycle  |-> <<100, 103, 47, 98, 99, 47>>,  endCycle  |-> <<100, 103, 47, 101, 99, 47>>]

NsKey(prefix, k) == prefix \o k
CycleKey(prefix, cycle, addr) == prefix \o PutUint64(cycle) \o addr
StorageRowKey(addr, slot) == addr \o slot
DelegatedResourceKey(from, to) == from \o to

(* One byte before the pair tells the scheme, the lock and the direction.  *)
DrV2Key(from, to, lock) == <<IF lock THEN 2 ELSE 1>> \o from \o to
EdgeKey(prefix, a, b) == <<prefix>> \o a \o b

(* The key of an entry: the store, and what identifies the entry in it.    *)
KeyOf(e) ==
    CASE e.store = "account"   -> NsKey(accountPrefix, e.a)
      [] e.store = "witness"   -> NsKey(witnessPrefix, e.a)
      [] e.store = "code"      -> NsKey(codePrefix, e.a)
      [] e.store = "storage"   -> NsKey(storagePrefix, StorageRowKey(e.a, e.slot))
      [] e.store = "property"  -> NsKey(propertyPrefix, e.name)
      [] e.store = "votes"     -> NsKey(votesPrefix, e.a)
      [] e.store = "delegated" -> NsKey(delegatedPrefix, DelegatedResourceKey(e.a, e.b))
      [] e.store = "delegatedV2" -> NsKey(delegatedPrefix, DrV2Key(e.a, e.b, e.lock))
      [] e.store = "index"     -> NsKey(delegatedIndexPrefix, e.a)
      [] e.store = "edge"      -> NsKey(delegatedIndexPrefix, EdgeKey(e.n, e.a, e.b))
      [] e.store \in DOMAIN cyclePrefixes -> CycleKey(cyclePrefixes[e.store], e.cycle, e.a)
      [] e.store \in DOMAIN cursorPrefixes -> NsKey(cursorPrefixes[e.store], e.a)
      [] e.store = "root"      -> chainRootKey

(* The prefixes that Each scans.                                           *)
ScanPrefix == [witness |-> witnessPrefix, votes |-> votesPrefix]

-----------------------------------------------------------------------------
(* AccountVote: a count, then an address and a count each.                 *)

EncodeAccountVote(av) ==
    PutUint64(Len(av)) \o FlattenSeq([i \in 1 .. Len(av) |-> av[i].address \o PutUint64(av[i].count)])

DecodeAccountVote(b) ==
    LET entry == Length + LongBytes
        n     == Int64(SubSeq(b, 1, LongBytes))
        at(i) == LongBytes + (i - 1) * entry
    IN  IF Len(b) < LongBytes THEN Err
        ELSE IF at(n + 1) > Len(b) THEN Err
        ELSE Ok([i \in 1 .. n |-> [address |-> SubSeq(b, at(i) + 1, at(i) + Length),
                                   count   |-> Int64(SubSeq(b, at(i) + Length + 1, at(i + 1)))]])

-----------------------------------------------------------------------------
(* Properties.  stored: the properties in the database, with their bytes.  *)

(* The defaults are scaled to the width of an int64 here.                  *)
MaxInt64 == 2 ^ (8 * LongBytes - 1) - 1
DefaultTotalEnergyLimit == 50
DefaultWitnessPayPerBlock == 32
DefaultMaintenanceInterval == 6
NewRewardAlgoDisabled == MaxInt64

(* getOr's second argument, at each getter.                                *)
Fallback == [
    TOTAL_ENERGY_WEIGHT |-> 0, TOTAL_ENERGY_CURRENT_LIMIT |-> DefaultTotalEnergyLimit,
    TOTAL_NET_WEIGHT |-> 0, UNFREEZE_DELAY_DAYS |-> 0, ALLOW_NEW_REWARD |-> 0,
    ALLOW_DELEGATE_RESOURCE |-> 0, MIN_FROZEN_TIME |-> 3, MAX_FROZEN_TIME |-> 3,
    LATEST_BLOCK_HEADER_TIMESTAMP |-> 0, ALLOW_MULTI_SIGN |-> 0, ALLOW_TVM_CONSTANTINOPLE |-> 0,
    ALLOW_TVM_SOLIDITY_059 |-> 0, ALLOW_DELEGATE_OPTIMIZATION |-> 0, ENERGY_FEE |-> 0,
    MAINTENANCE_TIME_INTERVAL |-> DefaultMaintenanceInterval, NEXT_MAINTENANCE_TIME |-> 0,
    CURRENT_CYCLE_NUMBER |-> 0, CHANGE_DELEGATION |-> 0,
    NEW_REWARD_ALGORITHM_EFFECTIVE_CYCLE |-> NewRewardAlgoDisabled,
    WITNESS_PAY_PER_BLOCK |-> DefaultWitnessPayPerBlock, WITNESS_ALLOWANCE_FROZEN_TIME |-> 1]

(* SeedGenesisDefaults; TOTAL_ENERGY_LIMIT has no getter.                  *)
Seeds == [
    TOTAL_ENERGY_WEIGHT |-> 0, TOTAL_ENERGY_LIMIT |-> DefaultTotalEnergyLimit,
    TOTAL_ENERGY_CURRENT_LIMIT |-> DefaultTotalEnergyLimit, TOTAL_NET_WEIGHT |-> 0,
    UNFREEZE_DELAY_DAYS |-> 0, ALLOW_NEW_REWARD |-> 0, ALLOW_DELEGATE_RESOURCE |-> 0,
    MIN_FROZEN_TIME |-> 3, MAX_FROZEN_TIME |-> 3, ALLOW_MULTI_SIGN |-> 0,
    ALLOW_TVM_CONSTANTINOPLE |-> 0, ALLOW_TVM_SOLIDITY_059 |-> 0,
    ALLOW_DELEGATE_OPTIMIZATION |-> 0, CURRENT_CYCLE_NUMBER |-> 0, CHANGE_DELEGATION |-> 0,
    NEW_REWARD_ALGORITHM_EFFECTIVE_CYCLE |-> NewRewardAlgoDisabled,
    WITNESS_PAY_PER_BLOCK |-> DefaultWitnessPayPerBlock, WITNESS_ALLOWANCE_FROZEN_TIME |-> 1]

PutInt64(stored, key, v) == (key :> PutUint64(v)) @@ stored
SeedGenesisDefaults(stored) == [k \in DOMAIN Seeds |-> PutUint64(Seeds[k])] @@ stored

GetInt64(stored, key) ==
    IF key \notin DOMAIN stored THEN Ok(Fallback[key])
    ELSE IF Len(stored[key]) # LongBytes THEN Err
    ELSE Ok(Int64(stored[key]))

(* UpdateNextMaintenanceTime.  Go's division rounds to zero.               *)
NextMaintenance(cur, interval, blockTime) ==
    LET round == IF blockTime >= cur THEN (blockTime - cur) \div interval
                 ELSE -((cur - blockTime) \div interval)
    IN  cur + (round + 1) * interval

=============================================================================
