CONSTANTS
    Front <- FrontPans
    Primary <- PrimaryPans
    Secondary <- SecondaryPans
    Outer <- NoPans
    Rear <- RearPans
    LowToHighPits = 2
    CompactLimit = 1
    MaxExpired = 1
    MaxKills = 0
SPECIFICATION FairSchedSpec
CHECK_DEADLOCK FALSE
INVARIANTS
    BatchFitsFront
    SupplyTracked
    PitHasBatch
    LoadsOntoEmptyPan
    CookingBatchWhole
PROPERTIES
    BatchEnds
    RefinesSausageFlow
