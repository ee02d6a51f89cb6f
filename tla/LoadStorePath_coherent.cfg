SPECIFICATION Spec
CONSTANTS
    Line = {0, 1}
    ZeroLine = 0
    WORDS = 1
    BYTES = 1
    Value = {0, 1}
    SQ_SIZE = 3
    WAY = 2
    CacheIndex = {0}
    IndexOf <- OneSet
    Tag = {1, 2}
    Ops <- OneStoredLine
    MAX_WINDOW = 3
INVARIANTS
    TypeOK
    CacheIsMemory
    FillsAreCurrent
PROPERTY
    IsFlatMemory
CONSTRAINT
    ThreeOfOneLine
