CONSTANTS
  MaxByte = 255
  Chains <- LegacyKeys
  Plain <- MCPlain
  VERSION_KEY <- MCVersionKey
  Absent = Absent
  Clean = Clean
  BottomIsMerk = FALSE
SPECIFICATION MCSpec
INVARIANTS StoreHoldsState
