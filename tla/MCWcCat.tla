------------------------------ MODULE MCWcCat ------------------------------
(* Instances of WcCat for TLC.                                             *)
EXTENDS WcCat

MaxLen == 4    \* longest text of the exhaustive part

\* One file of any short text, or standard input; two files around one that is
\* not there; and that one alone.
Short   == UNION {[1 .. n -> Chars] : n \in 0 .. MaxLen}
AllArgs == {<<t>> : t \in Short}
             \cup {<<Unreadable>>, <<<<"a", "a">>, Unreadable, <<"a", "n", "a">>>>}
Message == <<"a", " ", "a", "n">>
=============================================================================
