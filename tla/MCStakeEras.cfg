CONSTANTS
    a = a
    b = b
    c = c
    Accounts = {a, b}
    Contracts = {}
    Resources = {"BANDWIDTH", "ENERGY"}
    Amounts = {2, 3}
    VoteCounts = {1, 15}
    TrxPrecision = 2
    Int64Half = 16
    InitialBalance <- MCErasBalance
    FrozenTime = 1
    UnfreezeDelay = 1
    UnfreezeMaxTimes = 2
    InitialFlags = {"newReward", "delegateResource", "solidity059"}
    Proposals = {"stake2"}
    MaxNow = 2
SPECIFICATION Spec
INVARIANTS
    TrxConserved
    TotalsMatchEntries
    VotesWithinPower
    WeightIsSumOfFloors
