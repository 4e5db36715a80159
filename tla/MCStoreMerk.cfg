SPECIFICATION MCSpec
CONSTANTS
    MaxByte = 255
    Chains <- MCChains
    Plain <- MCPlain
    VERSION_KEY <- MCVersionKey
    Absent = Absent
    Clean = Clean
    BottomIsMerk = TRUE
INVARIANT OrderedReadsMatchPointReads
CHECK_DEADLOCK FALSE
