SPECIFICATION CrackSpec
CONSTANTS
    MAP_SIZE = 2
    s1 = s1
    s2 = s2
    Seed <- MCSeed
    NoSeed = NoSeed
    Content <- MCContent
    Constraint <- MCConstraint
    MAX_LOG = 7
    MAX_SOLUTIONS = 1
    BIT_VER_WIDTH = 1
    MAX_SAMPLES = 1
INVARIANTS
    CrackTypeOK
    ConstraintAtTarget
    ConstraintsMatchLog
    MutantsOfSeed
    SolutionKept
    SolutionsOfSeed
CHECK_DEADLOCK FALSE
