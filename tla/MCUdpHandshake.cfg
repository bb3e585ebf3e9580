CONSTANTS
    Clients = {first, second}
    NoClient = none
    Retries = 2
    MaxSeq = 1
    MaxRestarts = 1
SPECIFICATION FairSpec
INVARIANTS
    TypeOK
    AckMeansSession
    SessionsApart
PROPERTIES
    HandshakeEnds
    LostAckHarmless
