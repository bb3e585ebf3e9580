CONSTANTS
    Sessions = {b1, b2}
    b1 = b1
    b2 = b2
    LaneBits = 4
    NumRounds = 2
    RateLanes = 21
    MaxWanted = 2
    Inputs <- MCInputs
SPECIFICATION Spec
INVARIANTS
    TypeOK
SYMMETRY ThreadSymmetry
PROPERTIES
    ImplementsSponge
CHECK_DEADLOCK FALSE
