SPECIFICATION TornSpec
CONSTANTS
    MAP_SIZE = 2
    b1 = b1
    Bits <- MCBits
    MAX_FILES = 0
PROPERTY
    RefreshTakesAll
