SPECIFICATION FairExecSpec
CONSTANTS
    MAP_SIZE = 1
    b1 = b1
    Bits <- MCBits
    MAX_FILES = 0
    s1 = s1
    s2 = s2
    Seed <- MCSeed
    NoSeed = NoSeed
    Addr <- OneAddr
    Dest <- TwoAddr
    SuccMax <- OneSucc
    NoWidth = {}
    CANDIDATE_NUM = 1
    CRACK_SEED_MAX = 1
    CRACK_UPPER_LIMIT = 1
    RAND_SOLVE_NUM = 1
    MAX_CONSTRAINTS = 1
    MAX_TESTCASES = 1
PROPERTIES
    EverySeedSolved
    EveryPairRun
CHECK_DEADLOCK FALSE
