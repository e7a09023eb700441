CONSTANTS
    ByteBits = 8
    WordBytes = 2
    MaxStack = 8
    MemLimit = 16
    U64 = 61440
    QuadDivisor = 4
    AddrBytes = 1
    Jobs <- MCJobs
    Answers = {0, 300}
    Replies <- MCReplies
    Context <- MCContext
    Operands = {0, 2, 61439, 61440}
    Pieces = 4
SPECIFICATION FrameSpec
CHECK_DEADLOCK FALSE
INVARIANTS
    StackChecksSuffice
    OnInstruction
    MemoryPaidFor
PROPERTIES
    EveryFrameEnds
