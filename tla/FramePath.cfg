CONSTANTS
    FallbackThreshold = 2
    MaxFrames = 3
    MaxPauses = 1
    MaxFills = 1
    MaxLosses = 1
    MaxMisses = 2
    MaxCommands = 2
    MaxPushFailures = 1
    MaxEvents = 2
SPECIFICATION Spec
INVARIANTS
    PauseIsFinal
    OneFramePerComposite
    DiesAtThreshold
    MaskHistoryIsCurrent
PROPERTIES
    MailboxesKeepLatest
    LatestReachesSink
CHECK_DEADLOCK FALSE
