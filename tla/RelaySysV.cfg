SPECIFICATION FairSpec
CONSTANTS
  N = 4
  MaxForkFails = 1
INVARIANTS AnnouncedMeansReady OneBaton
PROPERTY RaceFinishes
CHECK_DEADLOCK FALSE
