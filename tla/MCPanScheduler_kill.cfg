CONSTANTS
    Front <- FrontPans
    Primary <- PrimaryPans
    Secondary <- NoPans
    Outer <- NoPans
    Rear <- RearPans
    LowToHighPits = 2
    CompactLimit = 1
    MaxExpired = 1
    MaxKills = 2
SPECIFICATION SchedSpec
CHECK_DEADLOCK FALSE
INVARIANTS
    LowLeavesRearEmpty
