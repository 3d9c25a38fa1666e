SPECIFICATION Spec
CONSTANTS
    Name = {"a", "b"}
    Startup = "a"
    Value = {0}
    Absent = Absent
    Worker = {w1, w2, w3}
    Files <- SameFiles
    ChannelDepth = 1
    MaxEvents = 3
    MaxTroubles = 2
INVARIANT NameIsAuthoritative
CHECK_DEADLOCK FALSE
