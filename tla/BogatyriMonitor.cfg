SPECIFICATION FairSpec
CONSTANTS
  N = 3
  Songs <- ShortSongs
INVARIANTS AllNumberedFirst NoLostWakeup
PROPERTIES SongSpec Returns
