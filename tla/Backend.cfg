SPECIFICATION FairSpec
CONSTANTS
    ROB_SIZE = 3
    RS_SIZE = 2
    IQ_SIZE = 2
    CQ_SIZE = 4
    WAY = 2
    NUM_STAGE = 2
    NoInst = NoInst
    Kinds = {"mem", "int", "mult", "branch"}
    Speculated = {"mem", "int"}
    MAX_SOURCES = 2
INVARIANTS
    TypeOK
    OnePlace
    WakesExactly
    NoLeftovers
PROPERTIES
    OwnResults
    HeadMoves
