SPECIFICATION FairSpec
CONSTANTS
    Name = {"a", "b"}
    Startup = "a"
    Value = {0, 1}
    Absent = Absent
    Worker = {w1, w2, w3, w4}
    Files <- FileContents
    ChannelDepth = 2
    MaxEvents = 2
    MaxTroubles = 1
INVARIANTS MirrorIsTrue MarkerIsExact
PROPERTY SettlesDown
CHECK_DEADLOCK FALSE
