CONSTANTS
    Orchestrations = {"lockstep"}
    ChunkSize = 5
    Rate = 3
    Sessions = 2
    Lengths <- MCLengths
    OutBlocks = {1}
    MaxCalls = 2
SPECIFICATION Spec
INVARIANTS
    MixedBatchExact
CHECK_DEADLOCK FALSE
