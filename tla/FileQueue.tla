------------------------------ MODULE FileQueue ------------------------------
(***************************************************************************)
(* What the buffer of pcat promises: a FIFO of whole files that never      *)
(* holds more than Capacity bytes.  Files go in and come out in argument   *)
(* order; file f is the bytes Offset[f-1] .. Offset[f]-1 of the stream.    *)
(***************************************************************************)
EXTENDS Integers

CONSTANTS Capacity, NFiles, Offset

VARIABLES written, taken   \* how many files went in, how many came out

vars == <<written, taken>>

Init == written = 0 /\ taken = 0

Put ==
  /\ written < NFiles
  /\ Offset[written + 1] - Offset[taken] <= Capacity
  /\ written' = written + 1
  /\ UNCHANGED taken

\* An empty file holds nothing to wait for, so it may come out early.
Take ==
  /\ taken < NFiles
  /\ Offset[taken + 1] <= Offset[written]
  /\ taken' = taken + 1
  /\ UNCHANGED written

Next == Put \/ Take

Spec == Init /\ [][Next]_vars
=============================================================================
