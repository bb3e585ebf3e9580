CONSTANTS
    EpochSize = 1
    W = 3
    Lookahead = 2
    Cooldown = 2
    Addresses = {wifi, cellular}
    Home = wifi
    NoAddress = none
    MaxSeq = 5
    Lost = {1, 3, 4}
    Delivered = {2}
SPECIFICATION FairSpec
INVARIANTS
    TypeOK
    RoutesAhead
    ChallengesSpaced
PROPERTIES
    PathValidated
    MigrationCompletes
    LookaheadSuffices
