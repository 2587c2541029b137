--------------------------- MODULE MCMediaThreads ---------------------------
(* Small instances of MediaThreads for TLC. *)
EXTENDS MediaThreads

CONSTANTS c1, c2, f1, f2, f3

TwoCalls == {c1, c2}
TwoFds == {f1, f2}
ThreeFds == {f1, f2, f3}
=============================================================================
