CONSTANTS
    Orchestrations = {"lockstep", "fused", "vectorized"}
    ChunkSize = 5
    Rate = 3
    Sessions = 3
    Lengths <- MCLengths
    OutBlocks = {1, 2}
    MaxCalls = 2
SPECIFICATION Spec
INVARIANTS
    TypeOK
    LeavesExact
    ResultsExact
    FieldFits
    FailsOnlyOnFullTail
CHECK_DEADLOCK FALSE
