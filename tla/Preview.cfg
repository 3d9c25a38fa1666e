CONSTANTS
    Workers = {w1, w2}
    MaxWishes = 4
    MaxTroubles = 2
SPECIFICATION Spec
INVARIANT
    OneWorkerDrives
PROPERTIES
    LastWishWins
    PaneFollows
CHECK_DEADLOCK FALSE
