CONSTANTS
    EpochSize = 1
    LogSize = 1
    MaxSent = 2
    MaxHandled = 1
    BurnIn = 0
    EpochBurnIn = 1
    EvolveEvery = 1
    GridOf <- MCGridOf
    Filled <- MCFilled
SPECIFICATION FairDisplaySpec
INVARIANTS
    TypeOK
    DisplayTypeOK
    ShownTogether
    CountsExact
    PictureOfFrame
PROPERTIES
    NobodyWaits
    PictureCatchesUp
