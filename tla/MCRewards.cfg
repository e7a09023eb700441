CONSTANTS
    sr = sr
    voter = voter
    Accounts <- MCAccounts
    Voters = {voter}
    Witnesses <- MCWitnesses
    Ballots <- MCBallots
    GenesisVotes <- MCGenesisVotes
    WitnessPayPerBlock = 26
    Brokerage = 20
    NewAlgoCycle = 2
    NoEntry = NoEntry
    Disabled = 99
    DecimalOfViReward = 60
    MaxCycle = 4
    MaxBlocks = 1
    MaxVoteCount = 2
SPECIFICATION Spec
INVARIANTS
    EarnsItsVotes
    Solvent
    QueryMatchesWithdraw
