SPECIFICATION HeapSpec
CONSTANTS
    p1 = p1
    p2 = p2
    Ptr <- MCPtr
    NULL = NULL
    NoBuffer = NoBuffer
    Sizes = {0, 1, 2, 7}
    Text <- MCText
    Value = {7}
    WORD = 8
    MAX_ALLOC = 3
    ALLOC_BLK_INC = 2
SYMMETRY PtrSymmetry
INVARIANT BigEnough
CHECK_DEADLOCK FALSE
