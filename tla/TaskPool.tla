------------------------------ MODULE TaskPool ------------------------------
(***************************************************************************)
(* What ThreadPool promises to its users, without mutex, condition         *)
(* variables or threads: tasks start in the order they were accepted, at   *)
(* most Width at a time, and each of them ends; WaitAll returns when all   *)
(* have ended.  Closing the pool may leave tasks that never start.         *)
(***************************************************************************)
EXTENDS Naturals, FiniteSets

CONSTANTS
  Waiter,   \* who may call WaitAll
  Width     \* tasks that may run at once

VARIABLES
  accepted,   \* tasks 1..accepted have been submitted
  started,    \* tasks 1..started have been started
  done,       \* tasks that have ended
  waiting,    \* who waits for all of them
  closed      \* the pool is being destroyed

taskPoolVars == <<accepted, started, done, waiting, closed>>

RunningTasks == (1..started) \ done

TasksInit ==
  /\ accepted = 0 /\ started = 0 /\ done = {}
  /\ waiting = {} /\ closed = FALSE

Accept ==
  /\ ~closed
  /\ accepted' = accepted + 1
  /\ UNCHANGED <<started, done, waiting, closed>>

StartTask ==
  /\ started < accepted
  /\ Cardinality(RunningTasks) < Width
  /\ started' = started + 1
  /\ UNCHANGED <<accepted, done, waiting, closed>>

EndTask(n) ==
  /\ n \in RunningTasks
  /\ done' = done \cup {n}
  /\ UNCHANGED <<accepted, started, waiting, closed>>

Wait(k) ==
  /\ ~closed /\ k \notin waiting
  /\ waiting' = waiting \cup {k}
  /\ UNCHANGED <<accepted, started, done, closed>>

Return(k) ==
  /\ k \in waiting /\ done = 1..accepted
  /\ waiting' = waiting \ {k}
  /\ UNCHANGED <<accepted, started, done, closed>>

\* The pool is destroyed when nobody waits for it.
Close ==
  /\ waiting = {} /\ closed' = TRUE
  /\ UNCHANGED <<accepted, started, done, waiting>>

TasksNext ==
  \/ Accept \/ StartTask \/ Close
  \/ \E n \in RunningTasks : EndTask(n)
  \/ \E k \in Waiter : Wait(k) \/ Return(k)

TasksSpec == TasksInit /\ [][TasksNext]_taskPoolVars

\* An open pool starts its tasks, a task that was started ends, and a wait
\* that may return does.
FairTasksSpec ==
  /\ TasksSpec
  /\ WF_taskPoolVars(~closed /\ StartTask)
  /\ WF_taskPoolVars(\E n \in RunningTasks : EndTask(n))
  /\ \A k \in Waiter : WF_taskPoolVars(Return(k))

=============================================================================
