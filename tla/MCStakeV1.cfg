CONSTANTS
    a = a
    b = b
    c = c
    Accounts = {a, b, c}
    Contracts = {c}
    Resources = {"BANDWIDTH", "ENERGY"}
    Amounts = {3}
    VoteCounts = {1}
    TrxPrecision = 3
    Int64Half = 16
    InitialBalance <- MCBalance
    FrozenTime = 1
    UnfreezeDelay = 1
    UnfreezeMaxTimes = 2
    InitialFlags = {"delegateResource"}
    Proposals = {"delegateOptimization", "constantinople", "multiSign"}
    MaxNow = 2
SPECIFICATION Spec
INVARIANTS
    IndexMatchesEntries
