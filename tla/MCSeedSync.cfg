SPECIFICATION SyncSpec
CONSTANTS
    MAP_SIZE = 3
    b1 = b1
    Bits <- MCBits
    MAX_FILES = 2
INVARIANTS
    Sound
    Novel
    Numbered
PROPERTIES
    KeepsPromise
    NewsToAfl
