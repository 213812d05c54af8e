SPECIFICATION FairLinkSpec
CONSTANTS
    AutoReconnectTimeout = 4
    ReconnectStableDelay = 2
    ReconnectAttemptInterval = 2
    BackgroundRediscoveryInterval = 5
    MaxRound = 2
    Horizon = 5
INVARIANTS
    RecoveryNeedsStableLink
    SilentLinkEscalates
    AttemptsSpaced
PROPERTIES
    OnlyResetLeavesWaitManual
    RefinesCommunicationState
    BoardFoundAgain
    EveryCallbackRuns
