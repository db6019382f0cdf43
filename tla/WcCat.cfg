SPECIFICATION WcFairSpec
CONSTANTS
  Args <- AllArgs
  Complaint <- Message
  BUFFER_SIZE = 2
  PipeCap = 3
  MaxStops = 1
INVARIANTS CountsAreExact ReportIsComplete
PROPERTY Termination
CHECK_DEADLOCK FALSE
