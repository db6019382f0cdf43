-------------------------- MODULE MCBogatyriMsgq --------------------------
(* Instances of BogatyriMsgq for TLC.                                      *)
EXTENDS BogatyriMsgq

MaxSong == 3   \* longest song

\* All songs of up to MaxSong letters; letter N is one no process has.
ShortSongs == UNION {[1 .. n -> 1 .. N] : n \in 0 .. MaxSong}
=============================================================================
