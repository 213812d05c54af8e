SPECIFICATION FairIntakeSpec
CONSTANTS
    Order = {o1, o2}
    Movement = {1}
    Quantity = 2
    MaxDeliveries <- OneTwice
    MaxCrashes = 1
CHECK_DEADLOCK FALSE
INVARIANTS
    ServedOncePerStart
    ArmStatusHasOwner
PROPERTIES
    NoSecondCoroutine
    RefinesOrderService
    EveryOrderEnds
