SPECIFICATION FairDeviceSpec
CONSTANTS
    MaxBusy = 2
INVARIANTS
    MaintenanceWhileWaiting
    FaultNotInService
    WorkHasOrder
PROPERTIES
    DisabledStaysDisabled
    SilentBoardLeavesService
    ClosedDeviceStopsSelling
