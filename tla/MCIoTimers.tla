----------------------------- MODULE MCIoTimers -----------------------------
(* A small instance of IoTimers for TLC: the code's 5 s and 1 s. *)
EXTENDS IoTimers

ShortDelays == {0, 2}
=============================================================================
