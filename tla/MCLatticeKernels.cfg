CONSTANTS
    Objects = {{solo}, {first, second}}
    solo = solo
    first = first
    second = second
    N = 6
    Rounds = 2
    MaxGeneration = 2
    Seeds <- MCSeeds
    Masks <- MCMasks
    RoundConstant <- MCRoundConstant
SPECIFICATION Spec
INVARIANTS
    TypeOK
    RoundTrip
    SessionsStayApart
PROPERTIES
    ImplementsLattice
CHECK_DEADLOCK FALSE
