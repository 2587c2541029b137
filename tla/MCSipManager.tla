---------------------------- MODULE MCSipManager ----------------------------
(* Small instances of SipManager for TLC. *)
EXTENDS SipManager, TLC

CONSTANTS c1, c2, a1

Calls == {c1, c2}
OneCall == {c1}
Addresses == {a1}

Symmetry == Permutations(Calls)
=============================================================================
