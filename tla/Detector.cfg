SPECIFICATION FairSpec
CONSTANTS
    MaxLost = 2
    MaxProbeErrors = 2
INVARIANTS
    VerdictMatchesCount
    BlindStaysUnknown
PROPERTIES
    DowngradeNeedsEvidence
    VerdictSettles
    StopHonoured
CHECK_DEADLOCK FALSE
