SPECIFICATION Spec
CONSTANTS
    Effect = {"smooth", "blur", "fill"}
    Param = {"radius", "path", "fit"}
    Value = {"good", "bad", "corrupt"}
    Registry <- EffectRegistry
    Schema <- EffectSchema
    Needs <- EffectNeeds
    Refused <- OutOfRange
    Corrupt <- CorruptImage
    Name = {"default", "raw", "new"}
    Globals = {"auto", "autoCli", "path", "pathCli", "builtin"}
    DefaultGlobals = "builtin"
    AutoGlobals = {"auto", "autoCli"}
    Override <- CommandLine
    Savable = {"default", "raw", "new"}
    Requested = "default"
    Files <- OperatorFiles
    EditKinds = {"mask", "background"}
    Chains <- EditChains
    MaxCommands = 4
    MaxEdits = 1
    MaxBoots = 2
INVARIANTS
    ActiveBuilds
    LiveFollowsPreset
    RebuildShowsTheSame
    MirrorAgrees
PROPERTIES
    RefusedChangesNothing
    ReloadKeepsSaved
CHECK_DEADLOCK FALSE
