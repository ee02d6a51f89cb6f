SPECIFICATION FairSpec
CONSTANTS
    Line = {0, 1}
    ZeroLine = 0
    WORDS = 1
    BYTES = 1
    Value = {0}
    SQ_SIZE = 2
    WAY = 1
    CacheIndex = {0, 1}
    IndexOf <- OwnSet
    Tag = {1, 2}
    Ops <- TwoLines
    MAX_WINDOW = 2
PROPERTIES
    LoadsFinish
    StoresFinish
