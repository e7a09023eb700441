\* Single inputs, and executions of the oracle of up to four operations.
CONSTANTS
    ByteBits = 2
    WordBytes = 2
    U64 = 2097152
    MaxSlice = 3
    P = 7
    Curve <- MCCurve
    Twist <- MCTwist
    Subgroup <- MCSubgroup
    PairingCheck <- MCPairingCheck
    LaneBits = 8
    BlakeIV <- MCBlakeIV
    LongBytes = 2
    HashLength = 1
    ChecksumLength = 1
    Checksum <- MCChecksum
    KeyHash <- MCKeyHash
    HashLen = 4
    LongBits = 16
    ValueModulus = 16
    MaxSizes <- MCMaxSizes
    LengthWords <- MCLengthWords
    MaxComplexity = 1500
    ScalarBound = 14
    G2Words <- MCG2Words
    LaneSeeds = {0, 1, 77, 255}
    Signers = {1, 2}
    MaxSignatures = 3
    Accounts <- MCAccounts
    SomeBytes <- MCBytes
    MaxBytes = 2
    Chars <- MCChars
    MaxChars = 4
    Addresses <- MCAddresses
    Slots <- MCSlots
    Names <- MCNames
    Longs <- MCLongs
    Cycles <- MCCycles
    Times = {0, 1, 2, 3, 5, 8, 13}
    MaxLeaves = 11
    Txs <- MCTxs
    Usages = {0, 5}
    Worlds <- MCWorlds
    Calls <- MCCalls
    OracleSlots = {1, 2}
    Values = {0, 1}
    MaxOps = 4
SPECIFICATION Spec
 
INVARIANT EncodingsFaithful
INVARIANT NetEffectReported
CHECK_DEADLOCK FALSE
