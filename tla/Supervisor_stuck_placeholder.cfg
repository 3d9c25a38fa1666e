SPECIFICATION FairSpec
CONSTANTS
    Configs <- SupervisedOnly
    GraceOutlastsReload = TRUE
    MaxUnplugs = 0
    MaxFaults = 1
    MaxMishaps = 1
    MaxAttempts = 1
    MaxBurst = 1
    Generations = 8
PROPERTY
    PlayingCameraIsShown
