CONSTANTS
    a = a
    c = c
    x = x
    y = y
    Accounts = {a, c}
    Staker = a
    InitialBalance <- MCBalance
    Amounts = {2}
    Stakes <- MCStakes
    TotalEnergyCurrentLimit = 5
    SupportUnfreezeDelay = TRUE
    StoredWindow = 12
    WindowOptimized = TRUE
    EnergyFee = 2
    FeeLimits = {10}
    CallValues <- MCCallValues
    Sends = {0, 2}
    Blocks = {x, y}
    Number <- MCNumber
    Slot <- MCSlot
    Uses = {3}
    MaxSteps = 6
    MaxOpen = 2
    SunPerEnergyFloor = 1
    TrxPrecision = 2
    UsagePrecision = 10
    WindowSizePrecision = 4
    DefaultEnergyWindow = 5
SPECIFICATION Spec
INVARIANTS
    BurnMatchesReceipts
    OverdrawnOnlyUncovered
    SinkHoldsApplied
    WindowDrawBounded
PROPERTIES
    NoFreeEnergy
CHECK_DEADLOCK FALSE
