CONSTANTS
    o = o
    c = c
    d = d
    p = p
    t = t
    n = n
    s = s
    SunPerEnergyFloor = 1
    TrxPrecision = 1
    UsagePrecision = 1
    WindowSizePrecision = 1
    DefaultEnergyWindow = 1
    Addresses = {o, c, p, t, n, s}
    Owner = o
    Contracts = {c}
    Precompiles = {p}
    DeployAddress = t
    CreateAddress <- FirstCreate
    Create2Address <- Salted
    InitialBalance <- MCBalance
    TxValues <- MCTxValues
    CallValues = {0, 1}
    CallerEnergies = {2}
    FeeLimits = {4}
    EnergyFee = 1
    Requests = {1,9}
    Writes = {"zero","set"}
    MaxCallDepth = 2
    Forward6364 = TRUE
    ForwardPart = 3
    OpGas = 1
    CallGas = 1
    VtCall = 1
    NewAcctCall = 1
    StipendCall = 1
    CreateGas = 1
    CreateData = 1
    SstoreSet = 1
    SstoreReset = 1
    PrecompileGas = 1
    MaxCodeLength = 1
SPECIFICATION Spec
INVARIANTS
    StaticChangesNothing
    TrxConserved
    ReceiptCoversSteps
    FlushMissesNothing
PROPERTIES
    ZeroMeansUndone
    FailureCostsOnlyFee
    RunsDown
