SPECIFICATION IntakeSpec
CONSTANTS
    Order = {o1, o2}
    Movement = {1}
    Quantity = 2
    MaxDeliveries <- OneTwice
    MaxCrashes = 0
PROPERTIES
    NeverExecutedTwice
CHECK_DEADLOCK FALSE
