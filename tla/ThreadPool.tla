----------------------------- MODULE ThreadPool -----------------------------
(***************************************************************************)
(* The worker pool: a queue under mutex_, workers waiting on cv_, clients  *)
(* waiting on done_cv_.                                                    *)
(*                                                                         *)
(* stop_ is written without mutex_, so a worker's wait on cv_ is kept in   *)
(* its parts: take the mutex, evaluate the predicate, then release the     *)
(* mutex and start to wait in one step.  Everything WaitAll reads changes  *)
(* under mutex_, so its test and the start of its wait are one step.       *)
(***************************************************************************)
EXTENDS Naturals, Sequences, FiniteSets

CONSTANTS
  Worker,     \* the pool's threads
  Client,     \* the threads that submit tasks and wait for them
  Free,       \* nobody holds mutex_
  NoTask,     \* the task of an idle worker
  MaxTasks    \* bound: tasks submitted in one run

ASSUME PoolAssumption ==
  /\ Worker # {} /\ IsFiniteSet(Worker)
  /\ Worker \cap Client = {} /\ Free \notin Worker
  /\ MaxTasks \in Nat /\ NoTask \notin 1..MaxTasks

VARIABLES
  mutex,      \* the worker inside mutex_ between two of its steps, or Free
  queue,      \* tasks_; tasks are numbered in the order they are pushed
  active,     \* active_tasks_
  stop,       \* stop_
  pc,         \* where every thread is
  task,       \* the task each worker has popped
  submitted,  \* number of tasks pushed so far
  executed,   \* tasks run to their end, by returning or throwing
  destructor  \* "no", "notify", "join" or "done"

taskVars == <<queue, active, task, submitted, executed>>
poolVars == <<mutex, stop, pc, taskVars, destructor>>

Thread == Worker \cup Client
At(t, label) == pc[t] = label
Goto(t, label) == pc' = [pc EXCEPT ![t] = label]
Waiting(label) == {t \in Thread : At(t, label)}

PoolInit ==
  /\ mutex = Free /\ stop = FALSE /\ destructor = "no"
  /\ pc = [t \in Thread |-> IF t \in Worker THEN "loop" ELSE "idle"]
  /\ queue = <<>> /\ active = 0 /\ submitted = 0 /\ executed = {}
  /\ task = [w \in Worker |-> NoTask]

(***************************************************************************)
(* WorkerLoop                                                              *)
(***************************************************************************)
LoopTest(w) ==
  /\ At(w, "loop") /\ Goto(w, IF stop THEN "gone" ELSE "lock")
  /\ UNCHANGED <<mutex, stop, taskVars, destructor>>

Lock(w) ==
  /\ At(w, "lock") /\ Goto(w, "test")
  /\ mutex = Free /\ mutex' = w
  /\ UNCHANGED <<stop, taskVars, destructor>>

\* The predicate is false: the worker is about to wait.
FoundNothing(w) ==
  /\ At(w, "test") /\ ~stop /\ queue = <<>> /\ Goto(w, "block")
  /\ UNCHANGED <<mutex, stop, taskVars, destructor>>

Block(w) ==
  /\ At(w, "block") /\ Goto(w, "wait")
  /\ mutex' = Free
  /\ UNCHANGED <<stop, taskVars, destructor>>

\* Mutant: the return leaves the mutex locked.
LeaveLocked(w) ==
  /\ At(w, "test") /\ stop /\ queue = <<>> /\ Goto(w, "gone")
  /\ UNCHANGED <<mutex, stop, taskVars, destructor>>

Leave(w) ==
  /\ At(w, "test") /\ stop /\ queue = <<>> /\ Goto(w, "gone")
  /\ mutex' = Free
  /\ UNCHANGED <<stop, taskVars, destructor>>

\* Mutant: front() without pop().
TakeTaskUnpopped(w) ==
  /\ At(w, "test") /\ queue # <<>> /\ Goto(w, "run")
  /\ task' = [task EXCEPT ![w] = Head(queue)]
  /\ active' = active + 1
  /\ mutex' = Free
  /\ UNCHANGED <<stop, queue, submitted, executed, destructor>>

TakeTask(w) ==
  /\ At(w, "test") /\ queue # <<>> /\ Goto(w, "run")
  /\ task' = [task EXCEPT ![w] = Head(queue)]
  /\ queue' = Tail(queue)
  /\ active' = active + 1
  /\ mutex' = Free
  /\ UNCHANGED <<stop, submitted, executed, destructor>>

\* An exception is caught and logged: it ends the task like a return.
Run(w) ==
  /\ At(w, "run") /\ Goto(w, "finish")
  /\ executed' = executed \cup {task[w]}
  /\ task' = [task EXCEPT ![w] = NoTask]
  /\ UNCHANGED <<mutex, stop, queue, active, submitted, destructor>>

Finish(w) ==
  /\ At(w, "finish") /\ Goto(w, "announce")
  /\ mutex = Free
  /\ active' = active - 1
  /\ UNCHANGED <<mutex, stop, queue, task, submitted, executed, destructor>>

\* Mutant: nobody is told that a task is done.
AnnounceNothing(w) ==
  /\ At(w, "announce") /\ Goto(w, "loop")
  /\ UNCHANGED <<mutex, stop, taskVars, destructor>>

\* done_cv_.notify_all.
Announce(w) ==
  /\ At(w, "announce")
  /\ pc' = [t \in Thread |-> CASE t = w -> "loop"
                               [] At(t, "waitdone") -> "retest"
                               [] OTHER -> pc[t]]
  /\ UNCHANGED <<mutex, stop, taskVars, destructor>>

(***************************************************************************)
(* Clients                                                                 *)
(***************************************************************************)
Submit(k) ==
  /\ At(k, "idle") /\ destructor = "no" /\ submitted < MaxTasks
  /\ mutex = Free
  /\ submitted' = submitted + 1
  /\ queue' = Append(queue, submitted')
  /\ Goto(k, "notify")
  /\ UNCHANGED <<mutex, stop, active, task, executed, destructor>>

\* cv_.notify_one, after mutex_ is released.
NotifyOne(k) ==
  /\ At(k, "notify")
  /\ IF Waiting("wait") = {}
       THEN Goto(k, "idle")
       ELSE \E w \in Waiting("wait") :
              pc' = [pc EXCEPT ![k] = "idle", ![w] = "lock"]
  /\ UNCHANGED <<mutex, stop, taskVars, destructor>>

\* Mutant: tasks that are still running are forgotten.
QueueDone == queue = <<>>

AllDone == queue = <<>> /\ active = 0

WaitAll(k) ==
  /\ \/ At(k, "retest")
     \/ At(k, "idle") /\ destructor = "no"
  /\ mutex = Free
  /\ Goto(k, IF AllDone THEN "idle" ELSE "waitdone")
  /\ UNCHANGED <<mutex, stop, taskVars, destructor>>

(***************************************************************************)
(* ~ThreadPool, when no client is inside a call                            *)
(***************************************************************************)
SetStop ==
  /\ destructor = "no" /\ \A k \in Client : At(k, "idle")
  /\ stop' = TRUE
  /\ destructor' = "notify"
  /\ UNCHANGED <<mutex, pc, taskVars>>

\* Mutant: one worker is woken.
NotifyAllOnce ==
  /\ destructor = "notify" /\ destructor' = "join"
  /\ IF Waiting("wait") = {} THEN UNCHANGED pc
       ELSE \E w \in Waiting("wait") : Goto(w, "lock")
  /\ UNCHANGED <<mutex, stop, taskVars>>

\* cv_.notify_all, without mutex_.
NotifyAll ==
  /\ destructor = "notify" /\ destructor' = "join"
  /\ pc' = [t \in Thread |-> IF At(t, "wait") THEN "lock" ELSE pc[t]]
  /\ UNCHANGED <<mutex, stop, taskVars>>

Joined ==
  /\ destructor = "join" /\ destructor' = "done"
  /\ \A w \in Worker : At(w, "gone")
  /\ UNCHANGED <<mutex, stop, pc, taskVars>>

(***************************************************************************)
(* Specification                                                           *)
(***************************************************************************)
\* A wait may return without a notification.
Spurious(t) ==
  /\ \/ At(t, "wait") /\ Goto(t, "lock")
     \/ At(t, "waitdone") /\ Goto(t, "retest")
  /\ UNCHANGED <<mutex, stop, taskVars, destructor>>

WorkerStep(w) ==
  \/ LoopTest(w)
  \/ FoundNothing(w) \/ Block(w) \/ Leave(w) \/ TakeTask(w)
  \/ Run(w) \/ Announce(w)

Retest(k) == At(k, "retest") /\ WaitAll(k)

Destroy == SetStop \/ NotifyAll \/ Joined

PoolNext ==
  \/ \E w \in Worker : WorkerStep(w) \/ Lock(w) \/ Finish(w)
  \/ \E k \in Client : Submit(k) \/ NotifyOne(k) \/ WaitAll(k)
  \/ \E t \in Thread : Spurious(t)
  \/ Destroy

PoolSpec == PoolInit /\ [][PoolNext]_poolVars

\* Threads that can run do run, tasks end, and a mutex that keeps being
\* released lets in each thread that waits for it.  Nothing makes a client
\* call, or a wait return without a notification.
FairPoolSpec ==
  /\ PoolSpec
  /\ \A w \in Worker : /\ WF_poolVars(WorkerStep(w))
                       /\ SF_poolVars(Lock(w)) /\ SF_poolVars(Finish(w))
  /\ \A k \in Client : WF_poolVars(NotifyOne(k)) /\ SF_poolVars(Retest(k))
  /\ WF_poolVars(NotifyAll) /\ WF_poolVars(Joined)

(***************************************************************************)
(* Properties                                                              *)
(***************************************************************************)
WorkerLine == {"loop", "lock", "test", "block", "wait", "run", "finish",
               "announce", "gone"}
ClientLine == {"idle", "notify", "waitdone", "retest"}

\* Threads are at lines they have, and the mutex is held across steps only by
\* the worker that evaluates its predicate.
PoolTypeOK ==
  /\ mutex \in Worker \cup {Free}
  /\ \A w \in Worker : mutex = w <=> pc[w] \in {"test", "block"}
  /\ queue \in Seq(1..MaxTasks)
  /\ active \in Nat
  /\ stop \in BOOLEAN
  /\ pc \in [Thread -> WorkerLine \cup ClientLine]
  /\ \A w \in Worker : pc[w] \in WorkerLine
  /\ \A k \in Client : pc[k] \in ClientLine
  /\ task \in [Worker -> 1..MaxTasks \cup {NoTask}]
  /\ submitted \in 0..MaxTasks
  /\ executed \subseteq 1..MaxTasks
  /\ destructor \in {"no", "notify", "join", "done"}

InHand == {task[w] : w \in Worker} \ {NoTask}
Queued == {queue[i] : i \in DOMAIN queue}

\* Every submitted task is at any time in exactly one place: in the queue, in
\* the hands of one worker, or executed; none is lost or run twice, whichever
\* workers wake up and compete for it.
TasksConserved ==
  /\ 1..submitted = Queued \cup InHand \cup executed
  /\ Queued \cap InHand = {} /\ (Queued \cup InHand) \cap executed = {}
  /\ \A i, j \in DOMAIN queue : queue[i] = queue[j] => i = j
  /\ \A v, w \in Worker : task[v] = task[w] /\ task[v] # NoTask => v = w

\* WaitAll returns only when everything submitted, by any thread, has been
\* executed: the test program reads its counter right after it.
WaitAllWaits ==
  [][\A k \in Client :
       WaitAll(k) /\ At(k, "idle")' => executed = 1..submitted]_poolVars

\* "Thread pool destroyed": a destructor returns if no worker had found its
\* predicate false, without waiting yet, when stop_ was set.
DestructorReturns ==
  destructor = "notify" /\ (\A w \in Worker : ~At(w, "block"))
    ~> destructor = "done"

Tasks == INSTANCE TaskPool
  WITH Waiter <- Client, Width <- Cardinality(Worker),
       accepted <- submitted, started <- submitted - Len(queue),
       done <- executed,
       waiting <- {k \in Client : pc[k] \in {"waitdone", "retest"}},
       closed <- stop

\* The pool is a task pool: whatever the workers, the lost and the spurious
\* wake-ups do, tasks start in the order of Submit and all end before WaitAll
\* returns; a task is executed unless the pool is destroyed first, even when
\* notify_one finds nobody waiting or wakes a worker that another overtakes,
\* and the last worker's notification ends every wait.
PoolRunsTasks == Tasks!FairTasksSpec

=============================================================================
