-------------------------- MODULE MCSessionManager --------------------------
(* Small instances of SessionManager for TLC. *)
EXTENDS SessionManager, TLC

CONSTANTS c1, c2, a1

Calls == {c1, c2}
Addresses == {a1}

Symmetry == Permutations(Calls)

\* Everything but the header cache and the latest notifications: no guard
\* reads them, and of the properties only types look at their old values.
WithoutCache == <<initialized, registered, state, timer, remote, running, cb,
                  ctxVars>>
=============================================================================
