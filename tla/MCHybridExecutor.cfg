SPECIFICATION ExecSpec
CONSTANTS
    MAP_SIZE = 2
    b1 = b1
    Bits = {}
    MAX_FILES = 0
    s1 = s1
    s2 = s2
    Seed <- MCSeed
    NoSeed = NoSeed
    Addr <- TwoAddr
    Dest <- TwoAddr
    SuccMax <- TwoSucc
    NoWidth = {1}
    CANDIDATE_NUM = 2
    CRACK_SEED_MAX = 1
    CRACK_UPPER_LIMIT = 2
    RAND_SOLVE_NUM = 1
    MAX_CONSTRAINTS = 1
    MAX_TESTCASES = 1
SYMMETRY SeedSymmetry
INVARIANTS
    ExecTypeOK
    PairsAccounted
    LabelsOfRound
PROPERTIES
    DepotProtocol
    DiesOnlyOfInput
CHECK_DEADLOCK FALSE
