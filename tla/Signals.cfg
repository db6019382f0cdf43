SPECIFICATION SignalsFairSpec
CONSTANTS
  Bits = 2
  Messages <- Texts
  ForkMayFail = TRUE
INVARIANTS NoSignalLost InStep
PROPERTY Delivered
CHECK_DEADLOCK FALSE
