SPECIFICATION FairSpec
CONSTANTS
  Capacity = 3
  NFiles = 4
  Offset <- Tight
  MaxFaults = 1
INVARIANTS NoLostWakeup OutputInOrder
PROPERTIES Termination QueueSpec
