SPECIFICATION Spec
CONSTANTS
    ROB_SIZE = 3
    WAY = 2
    ARCH_REG_SIZE = 2
    PC = {0, 1}
    Decoded <- LinkAndHalt
INVARIANTS
    TypeOK
    OneOwner
    ReadyExact
    DestinationsRenamed
    OperandsExact
    TargetOfOldest
PROPERTY
    IsInOrderWindow
