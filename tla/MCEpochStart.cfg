CONSTANTS
    EpochSize = 2
    EvolveEvery = 2
    BurnIn = 2
    EpochBurnIn = 1
    Messages = {hello}
    Garbage = garbage
    W = 4
    MaxSeq = 3
SPECIFICATION Spec
INVARIANTS
    EpochStartExact
