---------------------------- MODULE MCThreadPool ----------------------------
(* Small instances of ThreadPool for TLC. *)
EXTENDS ThreadPool

CONSTANTS w1, w2, k1, k2

Workers == {w1, w2}
Clients == {k1, k2}
=============================================================================
