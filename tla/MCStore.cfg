SPECIFICATION MCSpec
CONSTANTS
    MaxByte = 255
    Chains <- MCChains
    Plain <- MCPlain
    VERSION_KEY <- MCVersionKey
    Absent = Absent
    Clean = Clean
    BottomIsMerk = FALSE
INVARIANTS
    OrderedReadsMatchPointReads StoresAreConfined IterationIsExact
    MigrationKeepsState
CHECK_DEADLOCK FALSE
