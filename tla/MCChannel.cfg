CONSTANTS
    EpochSize = 3
    EvolveEvery = 2
    BurnIn = 2
    EpochBurnIn = 1
    Messages = {hello, world}
    Garbage = garbage
    W = 4
    MaxSeq = 5
SPECIFICATION Spec
INVARIANTS
    TypeOK
    DecryptExact
    LossIsConfined
PROPERTIES
    ImplementsWindow
    ImplementsService
