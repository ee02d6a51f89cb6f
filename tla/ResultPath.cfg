SPECIFICATION Spec
CONSTANTS
    WAY = 3
    NUM_STAGE = 4
    CQ_SIZE = 16
    NoInst = NoInst
    Inst = Inst
    Sent = {"int", "mult"}
INVARIANT
    NothingLost
