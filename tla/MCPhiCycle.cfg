SPECIFICATION PassSpec
CONSTANTS
    MAP_SIZE = 2
    a = a
    b = b
    c = c
    d = d
    Block <- MCBlock
    Order <- MCOrder
    Fn <- MCFn
    NoFn = "none"
    Keywords <- MCKeywords
    Value <- MCValue
    Def <- MCDef
    Term <- MCTerm
    Sample = "loop"
INVARIANT NoReentry
CHECK_DEADLOCK FALSE
