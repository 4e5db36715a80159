SPECIFICATION MCSpec
CONSTANTS
    Key = {0, 1}
    SubKey = {x}
    Value = {1, 2}
    Careful = TRUE
    MaxIndex = 4
    Midpoint = 2
    Absent = Absent
    Clean = Clean
    Unit = 4
    MaxAmount = 3
    MaxDecimal = 14
    Rates = {0, 2, 3}
    OtherStake = 0
    MaxMinted = 5
    MaxRounded = 4
INVARIANTS
    YieldsEntriesInOrder NoGaps RewardsAreConserved
    CoinsAreAccountedFor EntriesComeBack
PROPERTIES ImplementsDictionary ImplementsQueue
CHECK_DEADLOCK FALSE
