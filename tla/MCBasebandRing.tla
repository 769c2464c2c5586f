--------------------------- MODULE MCBasebandRing ---------------------------
(* Instances of BasebandRing for TLC: values for its constants.            *)
EXTENDS BasebandRing

CONSTANTS r1, r2

TwoReaders == {r1, r2}
=============================================================================
