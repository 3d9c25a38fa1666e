SPECIFICATION FairSpec
CONSTANTS
    Configs <- SupervisedOnly
    GraceOutlastsReload = TRUE
    MaxUnplugs = 1
    MaxFaults = 1
    MaxMishaps = 1
    MaxAttempts = 1
    MaxBurst = 1
    Generations = 4
PROPERTIES
    DeadCameraHandled
    StoppedRunEnds
