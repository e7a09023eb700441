CONSTANTS
    Labels <- MCLabels
    Blocks <- MCRegularBlocks
    Number <- MCRegularNumber
    MaxSize = 0
    MaxApplied = 4
SPECIFICATION Spec
INVARIANT AppliedIsHeadBranch
