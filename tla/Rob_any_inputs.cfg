SPECIFICATION Spec
CONSTANTS
    ROB_SIZE = 3
    WAY = 2
    ArchReg = {0}
    PhyReg = {0}
    PC = {0, 1}
    Insts <- MCInsts
INVARIANTS
    TypeOK
    ValidIffLive
    OldestException
    RewindsToOldest
PROPERTIES
    LeavesInOrder
    QuietRestart
