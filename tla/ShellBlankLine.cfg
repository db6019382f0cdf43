SPECIFICATION ShellFairSpec
CONSTANTS
  Texts <- AllTexts
  ReadSize = 4
  PipeCap = 1
  MaxOutput = 1
  MaxFailures = 0
INVARIANT AssertionsHold
CHECK_DEADLOCK FALSE
