------------------------------ MODULE MCPcatMon ------------------------------
(* Instance of PcatMon for TLC.                                          *)
EXTENDS PcatMon

\* Files of 2, 0, 2 and 2 bytes for a buffer of 3 (see MCPcatSem).
TightOffset == <<2, 2, 4, 6>>
Tight == [i \in 0 .. 4 |-> IF i = 0 THEN 0 ELSE TightOffset[i]]
=============================================================================
