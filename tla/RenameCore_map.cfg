SPECIFICATION Spec
CONSTANTS
    ROB_SIZE = 3
    WAY = 1
    ARCH_REG_SIZE = 3
    PC = {0, 1}
    Decoded <- TwoRegisters
INVARIANT
    MapIsOverlay
