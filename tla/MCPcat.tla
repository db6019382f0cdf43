------------------------------- MODULE MCPcat --------------------------------
(* Instance of Pcat for TLC.                                               *)
EXTENDS Pcat

\* Files of 2, 0, 2 and 2 bytes for a buffer of 3: the writer must wait for the
\* reader, an empty file lets the reader overtake, the third file runs past
\* the end of the storage, and the fourth would meet it there.
TightOffset == <<2, 2, 4, 6>>
Tight == [i \in 0 .. 4 |-> IF i = 0 THEN 0 ELSE TightOffset[i]]
=============================================================================
