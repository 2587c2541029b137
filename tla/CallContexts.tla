---------------------------- MODULE CallContexts ----------------------------
(***************************************************************************)
(* What the rest of the program may rely on about call contexts, whoever   *)
(* keeps them: a call has at most one; it holds the same things (an        *)
(* address, sockets) from its creation to its removal; a user, which is a  *)
(* thread that works on it, finds it there until it leaves; it does leave. *)
(*                                                                         *)
(* SessionManager implements this for any sequence of SIP events, and      *)
(* MediaThreads for any interleaving of the threads, with the thread that  *)
(* runs the receive callbacks as user: creation and removal, which take    *)
(* many steps there, are single steps to it.                               *)
(***************************************************************************)
CONSTANTS
  Call,     \* calls
  User,     \* threads that work on contexts they did not create
  Nobody,   \* the call of a thread outside every context
  Nothing   \* what a call without a context holds

VARIABLES
  open,     \* calls that have a context
  holds,    \* what the context of each call was created with
  inside    \* the call whose context each thread is working on

contextVars == <<open, holds, inside>>

ContextsInit ==
  /\ open = {}
  /\ holds = [c \in Call |-> Nothing]
  /\ inside = [u \in User |-> Nobody]

\* Contexts come one at a time.
Create(c) ==
  /\ c \notin open
  /\ open' = open \cup {c}
  /\ \A d \in Call \ {c} : holds'[d] = holds[d]
  /\ UNCHANGED inside

\* They go one by one, or several at once, but never under a thread's feet.
Remove(C) ==
  /\ C # {} /\ C \subseteq open
  /\ \A u \in User : inside[u] \notin C
  /\ open' = open \ C
  /\ holds' = [c \in Call |-> IF c \in C THEN Nothing ELSE holds[c]]
  /\ UNCHANGED inside

Enter(u, c) ==
  /\ inside[u] = Nobody /\ c \in open
  /\ inside' = [inside EXCEPT ![u] = c]
  /\ UNCHANGED <<open, holds>>

Leave(u) ==
  /\ inside[u] # Nobody
  /\ inside' = [inside EXCEPT ![u] = Nobody]
  /\ UNCHANGED <<open, holds>>

ContextsNext ==
  \/ \E c \in Call : Create(c)
  \/ \E C \in SUBSET Call : Remove(C)
  \/ \E u \in User : Leave(u) \/ \E c \in Call : Enter(u, c)

ContextsSpec == ContextsInit /\ [][ContextsNext]_contextVars

FairContextsSpec == ContextsSpec /\ \A u \in User : WF_contextVars(Leave(u))

=============================================================================
