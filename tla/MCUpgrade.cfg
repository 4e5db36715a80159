SPECIFICATION MCSpec
CONSTANTS
    Key <- MCKey
    Value <- MCValue
    Absent = Absent
    Clean = Clean
    Root = "root"
    DefaultState = 0
    Tx = {"copy", "drop", "fail", "bomb"}
    MaxHeight = 5
    SkipInitChain = FALSE
    InitialTrees <- MCEither
    Blocks <- MCAllBlocks
    Exec <- MCFailingExec
    StopHeight = 4
    MaxSnapshots = 2
    MaxCrashes = 1
    Defaults = {"seeds", "timeout_commit"}
    Edits = {"statesync"}
    MaxBlocks = 3
    A = A
    B = B
    C = C
    NoSignal = NoSignal
INVARIANTS InfoIsLastCommit QueriesSeeCommittedState NodesStartSound
PROPERTIES ImplementsLedger UpgradesAreSound
