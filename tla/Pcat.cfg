SPECIFICATION PcatFairSpec
CONSTANTS
  Capacity = 3
  NFiles = 4
  Offset <- Tight
  MaxFaults = 1
  MaxForkFails = 1
INVARIANTS SizeIsUnread NoOverwrite NoLostWakeup OutputInOrder ReleasedInOrder NothingLeaks
PROPERTIES Termination QueueSpec
CHECK_DEADLOCK FALSE
