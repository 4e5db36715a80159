SPECIFICATION MCSpec
CONSTANTS
    Key <- MCKey
    Value <- MCValue
    Absent = Absent
    Clean = Clean
    None = None
    Root = "root"
    DefaultState = 0
    Tx = {"copy", "drop", "fail"}
    MaxHeight = 3
    SkipInitChain = TRUE
    InitialTrees <- MCLegacy
    Blocks <- MCBlocks
    Exec <- MCExec
    StopHeight = 2
    MaxSnapshots = 2
    MaxCrashes = 2
    Worker = {1, 2, 3}
    Outcomes = {"ok", "err", "stop", "panic"}
    Interval = 2
    First = 1
    Limit = 2
    Chunks = 2
    Modulus = 16
    MaxTip = 6
    MaxSyncCrashes = 2
    MaxResets = 1
INVARIANTS NothingRunsAfterKill HeightHasItsTree
PROPERTIES
    BlocksAreCommitted ShutdownCompletes SnapshotsAreSound SyncCompletes
CHECK_DEADLOCK FALSE
