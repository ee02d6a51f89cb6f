SPECIFICATION FairSpec
CONSTANTS
    WORDS = 8
    Branches = {3, 4}
    Stores = {1, 2}
    Targets = {0, 5}
    ICACHE_SIZE = 1
    SIZE = 4
    Tag = {1, 2}
INVARIANTS
    TypeOK
    PredictedPath
    FetchedWordsExact
PROPERTY
    FetchGoesOn
