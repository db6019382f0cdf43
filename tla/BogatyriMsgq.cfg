SPECIFICATION FairSpec
CONSTANTS
  Pids = {11, 12, 13}
  Songs <- ShortSongs
  QueueLimit = 4
PROPERTIES SongSpec Returns
CHECK_DEADLOCK FALSE
