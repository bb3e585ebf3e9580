CONSTANTS
    EpochSize = 1
    W = 3
    Lookahead = 3
    Cooldown = 1
    Addresses = {wifi, cellular}
    Home = wifi
    NoAddress = none
    MaxSeq = 4
    Lost = {1, 2, 3}
    Delivered = {0, 4}
SPECIFICATION FairSpec
PROPERTIES
    LastPacketArrives
