SPECIFICATION TracerSpec
CONSTANTS
    MAP_SIZE = 2
    e = e
    s = s
    x = x
    y = y
    Block <- MCBlock
    Entry = e
    Nowhere = Nowhere
    Term <- MCTerm
    MAX_LINES = 3
    s1 = s1
    s2 = s2
    Seed <- MCSeed
    NoSeed = NoSeed
SYMMETRY SeedSymmetry
INVARIANTS
    TracerTypeOK
    BranchCoverSound
    TreeMatchesTraces
PROPERTIES
    RecordsTraces
CHECK_DEADLOCK FALSE
