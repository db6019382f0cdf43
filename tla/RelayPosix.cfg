SPECIFICATION FairSpec
CONSTANTS
  N = 4
  MaxMsg = 4
  Races = 2
  MaxForkFails = 1
INVARIANTS AnnouncedMeansReady OneBaton SendNeverBlocks
PROPERTY RaceFinishes
CHECK_DEADLOCK FALSE
