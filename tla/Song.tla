-------------------------------- MODULE Song --------------------------------
(***************************************************************************)
(* What every version of the bogatyri promises: the letters of a song are  *)
(* said one at a time, in order, each once, and the song is declared to be *)
(* over only when all of it has been said.  Who says a letter, and how the *)
(* turn gets there, is what the versions differ in.                        *)
(***************************************************************************)
EXTENDS Integers, Sequences

VARIABLES
  song,   \* the letters
  said,   \* what has been said of it
  over    \* has somebody declared the end?

vars == <<song, said, over>>

Init == said = <<>> /\ over = FALSE

Say ==
  /\ ~over /\ Len(said) < Len(song)
  /\ said' = Append(said, song[Len(said) + 1])
  /\ UNCHANGED <<song, over>>

End ==
  /\ said = song /\ over' = TRUE
  /\ UNCHANGED <<song, said>>

Next == Say \/ End

Spec == Init /\ [][Next]_vars
=============================================================================
