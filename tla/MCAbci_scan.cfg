SPECIFICATION Spec
CONSTANTS
    Key <- MCKey
    Value <- MCValue
    Absent = Absent
    Clean = Clean
    Root = "root"
    DefaultState = 0
    Tx = {"copy", "drop", "fail"}
    MaxHeight = 3
    SkipInitChain = FALSE
    InitialTrees <- MCEmpty
    Blocks <- MCBlocks
    Exec <- MCExec
    StopHeight = 4
    MaxSnapshots = 2
    MaxCrashes = 1
INVARIANT ScansSeeEveryEntry
