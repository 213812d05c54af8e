SPECIFICATION FairLinkedSpec
CONSTANTS
    MaxRetries = 2
    Packages = 4
CHECK_DEADLOCK FALSE
INVARIANTS
    SuccessNeedsMovement
    RetriesMoveNoMore
PROPERTIES
    TransactionEnds
