------------------------- MODULE MCBogatyriSockets -------------------------
(* Instances of BogatyriSockets for TLC.                                   *)
EXTENDS BogatyriSockets

MaxSong == 3   \* longest song

\* All songs of up to MaxSong letters, the empty one included.
ShortSongs == UNION {[1 .. n -> Ranks] : n \in 0 .. MaxSong}
=============================================================================
