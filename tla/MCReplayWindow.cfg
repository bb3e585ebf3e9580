CONSTANTS
    W = 3
    MaxSeq = 7
SPECIFICATION Spec
INVARIANTS
    TypeOK
    AtMostOnce
    CheckExact
    WindowExact
