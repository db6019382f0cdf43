SPECIFICATION SortSpec
CONSTANTS
  M = 4
  NSorters = 2
  INT_MAX = 3
INVARIANTS SortedWhenMerged SuccessIsTrue
