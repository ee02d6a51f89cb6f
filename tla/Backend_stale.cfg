SPECIFICATION Spec
CONSTANTS
    ROB_SIZE = 3
    RS_SIZE = 2
    IQ_SIZE = 2
    CQ_SIZE = 4
    WAY = 2
    NUM_STAGE = 2
    NoInst = NoInst
    Kinds = {"int", "mult", "branch"}
    Speculated = {"int", "mult"}
    MAX_SOURCES = 1
PROPERTY
    OwnResults
