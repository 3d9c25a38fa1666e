SPECIFICATION Spec
CONSTANTS
    Configs <- NamedDevice
    GraceOutlastsReload = FALSE
    MaxUnplugs = 2
    MaxFaults = 0
    MaxMishaps = 2
    MaxAttempts = 2
    MaxBurst = 1
    Generations = 8
INVARIANTS
    RecoveryOwnsPipeline
    NoFrameDuringReload
    RecoveredFailureNotSwallowed
    SlotOpenWhileRunning
    CleanExitWasAsked
