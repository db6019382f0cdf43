------------------------------ MODULE MCSignals ------------------------------
(* Instances of Signals for TLC.                                           *)
EXTENDS Signals

MaxText == 3   \* longest text before the terminating zero

\* All texts of bytes of Bits bits, with zeros inside as well.
Texts == {t \o <<0>> : t \in UNION {[1 .. n -> 0 .. 2 ^ Bits - 1] : n \in 0 .. MaxText}}
=============================================================================
