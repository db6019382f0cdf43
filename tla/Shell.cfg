SPECIFICATION ShellFairSpec
CONSTANTS
  Texts <- AllTexts
  ReadSize = 4
  PipeCap = 1
  MaxOutput = 2
  MaxFailures = 1
INVARIANTS ChunksDoNotMatter CrashesOnlyThen PipelineConnects
PROPERTY Termination
CHECK_DEADLOCK FALSE
