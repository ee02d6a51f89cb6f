SPECIFICATION Spec
CONSTANTS
    ROB_SIZE = 3
    RS_SIZE = 2
    IQ_SIZE = 2
    CQ_SIZE = 2
    WAY = 2
    NUM_STAGE = 1
    NoInst = NoInst
    Kinds = {"int", "mult", "branch"}
    Speculated = {"int", "mult", "branch"}
    MAX_SOURCES = 2
INVARIANTS
    
    NeverTwice
    
PROPERTY
    LostOnlyForRoom
