SPECIFICATION Spec
CONSTANTS
    Line = {0}
    ZeroLine = 0
    WORDS = 1
    BYTES = 2
    Value = {0, 1}
    SQ_SIZE = 3
    WAY = 2
    CacheIndex = {0}
    IndexOf <- OwnSet
    Tag = {1, 2}
    Ops <- SecondByte
    MAX_WINDOW = 2
PROPERTY
    IsFlatMemory
