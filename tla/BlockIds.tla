------------------------------- MODULE BlockIds -------------------------------
(***************************************************************************)
(* The Merkle root of a block's transactions, block ids, and the captured- *)
(* block fixtures of the replay harness that are checked against roots and *)
(* ids of the chain.                                                       *)
(*                                                                         *)
(* Hashes are external and free of collisions.  In a Merkle tree bytes are *)
(* sequences of symbols and a hash, all its bytes, is one symbol: that of  *)
(* bytes b is <<b>>, whether b is a transaction or the hashes of two       *)
(* nodes, so that a transaction may be two hashes, too.  Byte i of the     *)
(* hash of a header h is <<i, h>>.                                         *)
(***************************************************************************)
EXTENDS Stores

CONSTANT HashLen     \* 32 in the program

Sha256(bytes) == <<bytes>>

-----------------------------------------------------------------------------
(* merkle.Root.                                                            *)

MutOddNode(level) == Sha256(Last(level) \o Last(level))

(* Not duplicated as Bitcoin does.                                         *)
OddNode(level) == Last(level)

NextLevel(level) ==
    [i \in 1 .. (Len(level) + 1) \div 2 |->
        IF 2 * i <= Len(level) THEN Sha256(level[2 * i - 1] \o level[2 * i]) ELSE OddNode(level)]

Root(leaves) ==
    LET levels[n \in 0 .. Len(leaves)] ==
            IF n = 0 THEN leaves
            ELSE IF Len(levels[n - 1]) <= 1 THEN levels[n - 1] ELSE NextLevel(levels[n - 1])
    IN  levels[Len(leaves)][1]

(* The hash of nothing known.                                              *)
ZeroHash == <<>>

TxMerkleHash(tx) == Sha256(tx)

CalcTxTrieRoot(txs) ==
    IF txs = <<>> THEN ZeroHash ELSE Root([i \in 1 .. Len(txs) |-> TxMerkleHash(txs[i])])

-----------------------------------------------------------------------------
(* Block ids.  A header is the record of its fields.                       *)

HeaderRawHash(raw) == [i \in 1 .. HashLen |-> <<i, raw>>]
IDFromHeaderRaw(raw) ==
    PutUint64(raw.number) \o SubSeq(HeaderRawHash(raw), LongBytes + 1, HashLen)
NumberFromID(id) == IF Len(id) < LongBytes THEN 0 ELSE Int64(SubSeq(id, 1, LongBytes))

(* Of a block; the getters of a missing header yield the empty one.        *)
NoHeader == [number |-> 0, parentHash |-> <<>>, txTrieRoot |-> <<>>]
RawData(b) == IF b.header = <<>> THEN NoHeader ELSE b.header[1]
ID(b) == IDFromHeaderRaw(RawData(b))
BlockNumber(b) == RawData(b).number
ParentHash(b) == RawData(b).parentHash

-----------------------------------------------------------------------------
(* Fixtures.  Build computes the root, Check compares root and id with     *)
(* what was captured.                                                      *)

Build(bf) ==
    [header |-> <<[number |-> bf.number, parentHash |-> bf.parentHash,
                   txTrieRoot |-> CalcTxTrieRoot(bf.txs)]>>,
     txs |-> bf.txs]

CheckFixture(bf, b) == RawData(b).txTrieRoot = bf.txTrieRoot /\ ID(b) = bf.blockID

-----------------------------------------------------------------------------
(* SeedChainState: what a resource snapshot makes of a stored account.  A  *)
(* zero leaves the stored value, but for the usage and what it counts by.  *)

Overwritten == {"EnergyUsage", "LatestConsumeTimeForEnergy", "EnergyWindowOptimized"}

Seeded(account, snapshot) ==
    [f \in DOMAIN account |->
        IF f \in Overwritten \/ snapshot[f] # 0 THEN snapshot[f] ELSE account[f]]

=============================================================================
