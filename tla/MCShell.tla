------------------------------ MODULE MCShell ------------------------------
(* Instances of Shell for TLC.                                             *)
EXTENDS Shell

MaxKeys == 4   \* longest script of the exhaustive part

\* Lines end in '\n' or in "\r\n"; a '\r' alone takes what follows for its '\n'.
Keys == {<<"a">>, <<" ">>, <<"|">>, <<"n">>, <<"r", "n">>, <<"r">>}

\* All short scripts; and pipelines after one another, of two and of three
\* commands, with one command after them.
Pair   == <<"a", "|", " ", "a", "n">>
TwoOf  == <<"a", " ", "|", "a", "n">>
ThreeOf == <<"a", " ", "|", "a", " ", "|", "a", "n">>
AllTexts ==
  {FlattenSeq(s) : s \in UNION {[1 .. n -> Keys] : n \in 0 .. MaxKeys}}
    \cup {ThreeOf \o <<"a", "n">>, TwoOf \o TwoOf, TwoOf \o ThreeOf, ThreeOf \o TwoOf, Pair}
=============================================================================
