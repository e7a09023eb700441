CONSTANTS
    Labels <- MCLabels
    Blocks <- MCBlocks
    Number <- MCNumber
    MaxSize = 2
    MaxApplied = 4
SPECIFICATION FairSpec
INVARIANTS
    AlignedUnlessTorn
    PanicOnlyTorn
    ForkWindowKept
    GetBranchFindsFork
PROPERTIES
    FailedPushUndone
    BestValidChainAdopted
