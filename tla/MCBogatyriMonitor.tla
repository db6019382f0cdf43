------------------------- MODULE MCBogatyriMonitor -------------------------
(* Instances of BogatyriMonitor for TLC.                                   *)
EXTENDS BogatyriMonitor

MaxSong == 3   \* longest song

\* All songs of up to MaxSong letters; letter N is one no thread has.
ShortSongs == UNION {[1 .. n -> 1 .. N] : n \in 0 .. MaxSong}
=============================================================================
