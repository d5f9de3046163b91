SPECIFICATION DepotSpec
CONSTANTS
    MAP_SIZE = 2
    s1 = s1
    s2 = s2
    s3 = s3
    Seed <- MCSeed
    Addr <- MCAddr
    Dest <- MCDest
    SuccMax <- MCSuccMax
    NoWidth = {1}
    CANDIDATE_NUM = 1
    CRACK_SEED_MAX = 2
    CRACK_UPPER_LIMIT = 2
SYMMETRY SeedSymmetry
INVARIANTS
    LedgerBalanced
    PairsReachable
PROPERTIES
    LimitRespected
