CONSTANTS
    Genesis = {"g1", "g2", "typo", "hdr"}
    NoGenesis = NoGenesis
    Entries <- MCEntries
    Id <- MCId
    BadHeader = BadHeader
    Malformed = Malformed
    Keys <- MCKeys
    Vals <- MCVals
    Absent = Absent
    MaxFaults = 3
SPECIFICATION FairSpec
INVARIANTS
    MarkedStateComplete
    ServesMarkedChain
PROPERTIES
    KeepsServing
