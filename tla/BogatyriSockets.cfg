SPECIFICATION FairSpec
CONSTANTS
  N = 3
  Songs <- ShortSongs
  ReportTries = 2
  Tries = 2
  MaxForkFails = 1
  MaxBindFails = 1
INVARIANT OneTurn
PROPERTIES SongSpec Returns
CHECK_DEADLOCK FALSE
