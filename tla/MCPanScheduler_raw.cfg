CONSTANTS
    Front <- FrontPans
    Primary <- PrimaryPans
    Secondary <- SecondaryPans
    Outer <- NoPans
    Rear <- RearPans
    LowToHighPits = 2
    CompactLimit = 1
    MaxExpired = 0
    MaxKills = 0
SPECIFICATION SchedSpec
CHECK_DEADLOCK FALSE
PROPERTIES
    CookingStaysPut
