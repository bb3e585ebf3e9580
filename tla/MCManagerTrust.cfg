CONSTANTS
    EpochSize = 2
    W = 3
    Lookahead = 1
    Cooldown = 2
    Addresses = {wifi, cellular}
    Home = wifi
    NoAddress = none
    MaxSeq = 3
    Lost = {}
    Delivered = {}
SPECIFICATION Spec
INVARIANTS
    TrustIsProven
