SPECIFICATION TracerSpec
CONSTANTS
    MAP_SIZE = 2
    e = e
    s = s
    x = x
    y = y
    Block <- MCBlock
    Entry = e
    Nowhere = Nowhere
    Term <- MCTerm
    MAX_LINES = 2
    s1 = s1
    s2 = s2
    Seed <- MCSeed
    NoSeed = NoSeed
SYMMETRY SeedSymmetry
INVARIANT
    MissedEdgesKept
CHECK_DEADLOCK FALSE
