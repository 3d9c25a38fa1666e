SPECIFICATION MCSpec
CONSTANTS
    FrameSizes <- SomeSizes
    MaxScenes = 2
    MaxWritten = 2
    Interval = 1
    BaseDelay = 1
    MaxDelay = 2
    Errors = {"Config", "InputDeviceUnavailable"}
    MaxTime = 10
    ReportEvery = 2
    PollEvery = 1
    Heartbeat = 5
    AlertAge = 3
    Bumped = {"frames_out", "idle_frames_pushed_total", "fallback_count"}
    MaxBumps = 3
    MaxClock = 9
    Stages = {"a", "b", "c"}
    RingSize = 2
    MaxSamples = 4
    Threads = {1, 2, 3}
    MainThread = 1
    MaxTicks = 1
    Limit = 2
    Depth = 2
    MaxBytes = 5
    MaxClients = 2
INVARIANTS
    EffectsHold
    ServicesHold
    ChoicesExact
    KernelsExact
CHECK_DEADLOCK FALSE
