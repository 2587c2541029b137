-------------------------- MODULE ThreadPoolProofs --------------------------
(***************************************************************************)
(* The thread pool for any number of workers, clients and tasks: no task   *)
(* is lost or run twice, WaitAll waits for all of them, and the pool       *)
(* implements TaskPool.                                                    *)
(***************************************************************************)
EXTENDS ThreadPool, FiniteSetTheorems, TLAPS

\* The queue holds the tasks that were submitted last, in order.
QueueOK ==
  /\ Len(queue) <= submitted
  /\ \A i \in DOMAIN queue : queue[i] = submitted - Len(queue) + i

\* The tasks before those are with the workers that run, or executed.
HandsOK ==
  /\ \A w \in Worker : task[w] # NoTask <=> pc[w] = "run"
  /\ InHand \cup executed = 1..(submitted - Len(queue))
  /\ InHand \cap executed = {}
  /\ \A v, w \in Worker : task[v] = task[w] /\ task[v] # NoTask => v = w

Busy == {w \in Worker : pc[w] \in {"run", "finish"}}

\* active_tasks_ counts the workers between their two critical sections.
ActiveOK == active = Cardinality(Busy)

\* The destructor is reached only when no client is inside a call.
StopOK == destructor = "no" <=> ~stop

\* Types alone are not inductive: popping the right task needs QueueOK, and
\* that WaitAll may trust active_tasks_ needs HandsOK and ActiveOK.
PoolInv == PoolTypeOK /\ QueueOK /\ HandsOK /\ ActiveOK /\ StopOK

\* A step that leaves the tasks where they are.
TasksUntouched ==
  /\ UNCHANGED <<queue, task, submitted, executed>>
  /\ \A w \in Worker : pc'[w] = "run" <=> pc[w] = "run"

\* A step that leaves active_tasks_ and the workers it counts.
BusyUntouched == UNCHANGED active /\ Busy' = Busy

LEMMA UntouchedTasks ==
  ASSUME TasksUntouched, QueueOK, HandsOK
  PROVE  QueueOK' /\ HandsOK'
  BY DEF TasksUntouched, QueueOK, HandsOK, InHand

LEMMA UntouchedBusy ==
  ASSUME BusyUntouched, ActiveOK
  PROVE  ActiveOK'
  BY DEF BusyUntouched, ActiveOK

\* The pool starts with the invariant.
LEMMA PoolInitInv == PoolInit => PoolInv
  <1> SUFFICES ASSUME PoolInit PROVE PoolInv
    OBVIOUS
  <1> USE PoolAssumption DEF PoolInit, Thread
  <1>1. PoolTypeOK
    <2>1. /\ \A w \in Worker : pc[w] = "loop" /\ mutex # w
          /\ \A k \in Client : pc[k] = "idle"
      OBVIOUS
    <2>2. /\ pc \in [Thread -> WorkerLine \cup ClientLine]
          /\ \A w \in Worker : pc[w] \in WorkerLine /\ pc[w] \notin {"test", "block"}
          /\ \A k \in Client : pc[k] \in ClientLine
      BY <2>1 DEF WorkerLine, ClientLine
    <2>3. queue \in Seq(1..MaxTasks) /\ task \in [Worker -> 1..MaxTasks \cup {NoTask}]
      OBVIOUS
    <2>4. /\ mutex \in Worker \cup {Free} /\ active \in Nat
          /\ executed \subseteq 1..MaxTasks
          /\ destructor \in {"no", "notify", "join", "done"}
      OBVIOUS
    <2>5. submitted \in 0..MaxTasks
      OBVIOUS
    <2>6. stop \in BOOLEAN
      OBVIOUS
    <2>7. \A w \in Worker : mutex = w <=> pc[w] \in {"test", "block"}
      BY <2>1, <2>2
    <2> HIDE DEF PoolInit
    <2> QED  BY <2>2, <2>3, <2>4, <2>5, <2>6, <2>7 DEF PoolTypeOK
  <1>2. QueueOK /\ HandsOK
    <2>1. Len(queue) = 0 /\ DOMAIN queue = {} /\ InHand = {}
      BY DEF InHand
    <2> QED  BY <2>1 DEF QueueOK, HandsOK
  <1>3. ActiveOK
    <2>1. Busy = {}
      BY DEF Busy
    <2> QED  BY <2>1, FS_EmptySet DEF ActiveOK
  <1> QED  BY <1>1, <1>2, <1>3 DEF PoolInv, StopOK

\* Every step keeps the types.
LEMMA PoolTypesStep == PoolInv /\ [PoolNext]_poolVars => PoolTypeOK' /\ StopOK'
  <1> SUFFICES ASSUME PoolInv, [PoolNext]_poolVars PROVE PoolTypeOK' /\ StopOK'
    OBVIOUS
  <1> USE PoolAssumption
      DEF PoolInv, PoolTypeOK, WorkerLine, ClientLine, Thread, At, Goto,
          StopOK
  <1>1. ASSUME NEW w \in Worker,
               LoopTest(w) \/ FoundNothing(w) \/ Block(w) \/ Leave(w) \/ Lock(w)
        PROVE  PoolTypeOK' /\ StopOK'
    <2>1. CASE LoopTest(w)
      BY <2>1 DEF LoopTest, taskVars
    <2>2. CASE FoundNothing(w)
      BY <2>2 DEF FoundNothing, taskVars
    <2>3. CASE Block(w)
      BY <2>3 DEF Block, taskVars
    <2>4. CASE Leave(w)
      BY <2>4 DEF Leave, taskVars
    <2>5. CASE Lock(w)
      BY <2>5 DEF Lock, taskVars
    <2> QED  BY <1>1, <2>1, <2>2, <2>3, <2>4, <2>5
  <1>2. ASSUME NEW w \in Worker, TakeTask(w) PROVE PoolTypeOK' /\ StopOK'
    <2>1. Head(queue) \in 1..MaxTasks /\ Tail(queue) \in Seq(1..MaxTasks)
      BY <1>2 DEF TakeTask
    <2> QED  BY <1>2, <2>1 DEF TakeTask
  <1>3. ASSUME NEW w \in Worker, Run(w) PROVE PoolTypeOK' /\ StopOK'
    <2>1. task[w] \in 1..MaxTasks
      BY <1>3 DEF Run, HandsOK
    <2> QED  BY <1>3, <2>1 DEF Run
  <1>4. ASSUME NEW w \in Worker, Finish(w) PROVE PoolTypeOK' /\ StopOK'
    <2>1. active - 1 \in Nat
      <3>1. IsFiniteSet(Busy) /\ w \in Busy
        BY <1>4, FS_Subset DEF Finish, Busy
      <3>2. Cardinality(Busy) \in Nat /\ Cardinality(Busy) # 0
        BY <3>1, FS_CardinalityType, FS_EmptySet
      <3> QED  BY <3>2 DEF ActiveOK
    <2> QED  BY <1>4, <2>1 DEF Finish
  <1>5. ASSUME NEW w \in Worker, Announce(w) PROVE PoolTypeOK' /\ StopOK'
    BY <1>5 DEF Announce, taskVars
  <1>6. ASSUME NEW k \in Client, Submit(k) PROVE PoolTypeOK' /\ StopOK'
    BY <1>6 DEF Submit
  <1>7. ASSUME NEW k \in Client, NotifyOne(k) PROVE PoolTypeOK' /\ StopOK'
    BY <1>7 DEF NotifyOne, Waiting, taskVars
  <1>8. ASSUME NEW k \in Client, WaitAll(k) PROVE PoolTypeOK' /\ StopOK'
    BY <1>8 DEF WaitAll, taskVars
  <1>9. ASSUME NEW t \in Thread, Spurious(t) PROVE PoolTypeOK' /\ StopOK'
    BY <1>9 DEF Spurious, taskVars
  <1>10. CASE Destroy
    BY <1>10 DEF Destroy, SetStop, NotifyAll, Joined, taskVars
  <1>11. CASE UNCHANGED poolVars
    BY <1>11 DEF poolVars, taskVars
  <1> QED  BY <1>1, <1>2, <1>3, <1>4, <1>5, <1>6, <1>7, <1>8, <1>9, <1>10, <1>11
           DEF PoolNext, WorkerStep

(***************************************************************************)
(* The tasks                                                               *)
(***************************************************************************)
\* The front of the queue is the oldest task that has not been started.
LEMMA TakeTaskStep ==
  ASSUME PoolInv, NEW w \in Worker, TakeTask(w)
  PROVE  QueueOK' /\ HandsOK'
  <1> USE PoolAssumption DEF PoolInv, PoolTypeOK, TakeTask, At, Goto, Thread
  <1> DEFINE first == submitted - Len(queue) + 1
  <1>1. /\ queue \in Seq(1..MaxTasks) /\ Len(queue) \in Nat /\ Len(queue) > 0
        /\ submitted \in Nat
    OBVIOUS
  <1>2. Head(queue) = first
    BY <1>1 DEF QueueOK
  <1>3. Len(queue') = Len(queue) - 1 /\ submitted' = submitted
    BY <1>1
  <1>4. QueueOK'
    <2>1. \A i \in DOMAIN queue' : queue'[i] = queue[i + 1] /\ i + 1 \in DOMAIN queue
      BY <1>1
    <2> QED  BY <1>1, <1>3, <2>1 DEF QueueOK
  <1>5. task[w] = NoTask /\ first \in 1..MaxTasks /\ first # NoTask
    BY <1>2 DEF HandsOK
  <1>6. task' = [task EXCEPT ![w] = first] /\ executed' = executed
    BY <1>2
  <1>7. InHand' = InHand \cup {first}
    BY <1>5, <1>6 DEF InHand
  <1>8. first \notin InHand \cup executed
    BY <1>1 DEF HandsOK
  <1>9. 1..(submitted' - Len(queue')) = 1..(submitted - Len(queue)) \cup {first}
    BY <1>1, <1>3 DEF QueueOK
  <1>10. \A v \in Worker : task'[v] # NoTask <=> pc'[v] = "run"
    BY <1>5, <1>6 DEF HandsOK
  <1>11. \A v \in Worker : task[v] # first
    BY <1>5, <1>8 DEF InHand
  <1>12. \A u, v \in Worker : task'[u] = task'[v] /\ task'[u] # NoTask => u = v
    BY <1>6, <1>11 DEF HandsOK
  <1> HIDE DEF first
  <1>13. /\ InHand' \cup executed' = 1..(submitted' - Len(queue'))
         /\ InHand' \cap executed' = {}
    BY <1>6, <1>7, <1>8, <1>9 DEF HandsOK
  <1> QED  BY <1>4, <1>10, <1>12, <1>13 DEF HandsOK

\* A task goes from its worker to the executed ones.
LEMMA RunStep ==
  ASSUME PoolInv, NEW w \in Worker, Run(w)
  PROVE  QueueOK' /\ HandsOK'
  <1> USE PoolAssumption DEF PoolInv, PoolTypeOK, Run, At, Goto, Thread
  <1>1. QueueOK'
    BY DEF QueueOK
  <1>2. task[w] # NoTask
    BY DEF HandsOK
  <1>3. InHand' = InHand \ {task[w]} /\ task[w] \in InHand
    BY <1>2 DEF InHand, HandsOK
  <1>4. \A v \in Worker : task'[v] # NoTask <=> pc'[v] = "run"
    BY DEF HandsOK
  <1>5. /\ InHand' \cup executed' = 1..(submitted' - Len(queue'))
        /\ InHand' \cap executed' = {}
    BY <1>3 DEF HandsOK
  <1>6. \A u, v \in Worker : task'[u] = task'[v] /\ task'[u] # NoTask => u = v
    BY DEF HandsOK
  <1> QED  BY <1>1, <1>4, <1>5, <1>6 DEF HandsOK

\* A new task goes to the end of the queue.
LEMMA SubmitStep ==
  ASSUME PoolInv, NEW k \in Client, Submit(k)
  PROVE  QueueOK' /\ HandsOK'
  <1> USE PoolAssumption DEF PoolInv, PoolTypeOK, Submit, At, Goto, Thread
  <1>1. /\ queue \in Seq(1..MaxTasks) /\ Len(queue) \in Nat /\ submitted \in Nat
        /\ submitted' = submitted + 1 /\ queue' = Append(queue, submitted + 1)
    OBVIOUS
  <1>2. Len(queue') = Len(queue) + 1
    BY <1>1
  <1>3. QueueOK'
    <2>1. \A i \in DOMAIN queue' :
            \/ i \in DOMAIN queue /\ queue'[i] = queue[i]
            \/ i = Len(queue) + 1 /\ queue'[i] = submitted + 1
      BY <1>1
    <2> QED  BY <1>1, <1>2, <2>1 DEF QueueOK
  <1>4. submitted' - Len(queue') = submitted - Len(queue)
    BY <1>1, <1>2
  <1>5. \A w \in Worker : pc'[w] = "run" <=> pc[w] = "run"
    OBVIOUS
  <1>6. UNCHANGED <<task, executed>>
    OBVIOUS
  <1> QED  BY <1>3, <1>4, <1>5, <1>6 DEF HandsOK, InHand

\* Every step keeps the tasks in order and in one place.
LEMMA TasksStep == PoolInv /\ [PoolNext]_poolVars => QueueOK' /\ HandsOK'
  <1> SUFFICES ASSUME PoolInv, [PoolNext]_poolVars PROVE QueueOK' /\ HandsOK'
    OBVIOUS
  <1> USE PoolAssumption DEF PoolInv
  <1>1. ASSUME TasksUntouched PROVE QueueOK' /\ HandsOK'
    BY <1>1, UntouchedTasks
  <1> USE DEF PoolTypeOK, Thread, At, Goto, TasksUntouched, taskVars
  <1>2. ASSUME NEW w \in Worker,
               LoopTest(w) \/ FoundNothing(w) \/ Block(w) \/ Leave(w) \/ Lock(w)
        PROVE  TasksUntouched
    BY <1>2 DEF LoopTest, FoundNothing, Block, Leave, Lock
  <1>3. ASSUME NEW w \in Worker, Finish(w) \/ Announce(w) PROVE TasksUntouched
    BY <1>3 DEF Finish, Announce
  <1>4. ASSUME NEW k \in Client, NotifyOne(k) \/ WaitAll(k) PROVE TasksUntouched
    BY <1>4 DEF NotifyOne, WaitAll, Waiting
  <1>5. ASSUME NEW t \in Thread, Spurious(t) PROVE TasksUntouched
    BY <1>5 DEF Spurious
  <1>6. CASE Destroy
    BY <1>1, <1>6 DEF Destroy, SetStop, NotifyAll, Joined
  <1>7. CASE UNCHANGED poolVars
    BY <1>1, <1>7 DEF poolVars
  <1> QED  BY <1>1, <1>2, <1>3, <1>4, <1>5, <1>6, <1>7, TakeTaskStep, RunStep, SubmitStep
           DEF PoolNext, WorkerStep

(***************************************************************************)
(* active_tasks_                                                           *)
(***************************************************************************)
\* Every step keeps the count.
LEMMA ActiveStep == PoolInv /\ [PoolNext]_poolVars => ActiveOK'
  <1> SUFFICES ASSUME PoolInv, [PoolNext]_poolVars PROVE ActiveOK'
    OBVIOUS
  <1> USE PoolAssumption DEF PoolInv
  <1>1. ASSUME BusyUntouched PROVE ActiveOK'
    BY <1>1, UntouchedBusy
  <1>2. IsFiniteSet(Busy)
    BY FS_Subset DEF Busy
  <1> USE DEF PoolTypeOK, Thread, At, Goto, taskVars
  <1>3. ASSUME NEW w \in Worker,
               \/ LoopTest(w) \/ FoundNothing(w) \/ Block(w) \/ Leave(w) \/ Lock(w)
               \/ Run(w) \/ Announce(w)
        PROVE  BusyUntouched
    BY <1>3 DEF LoopTest, FoundNothing, Block, Leave, Lock, Run, Announce, Busy,
                BusyUntouched
  <1>4. ASSUME NEW w \in Worker, TakeTask(w) PROVE ActiveOK'
    <2>1. Busy' = Busy \cup {w} /\ w \notin Busy /\ active' = active + 1
      BY <1>4 DEF TakeTask, Busy
    <2> QED  BY <1>2, <2>1, FS_AddElement DEF ActiveOK
  <1>5. ASSUME NEW w \in Worker, Finish(w) PROVE ActiveOK'
    <2>1. Busy' = Busy \ {w} /\ w \in Busy /\ active' = active - 1
      BY <1>5 DEF Finish, Busy
    <2> QED  BY <1>2, <2>1, FS_RemoveElement DEF ActiveOK
  <1>6. ASSUME NEW k \in Client, Submit(k) \/ NotifyOne(k) \/ WaitAll(k)
        PROVE  BusyUntouched
    BY <1>6 DEF Submit, NotifyOne, WaitAll, Waiting, Busy, BusyUntouched
  <1>7. ASSUME NEW t \in Thread, Spurious(t) PROVE BusyUntouched
    BY <1>7 DEF Spurious, Busy, BusyUntouched
  <1>8. CASE Destroy
    BY <1>1, <1>8 DEF Destroy, SetStop, NotifyAll, Joined, Busy, BusyUntouched
  <1>9. CASE UNCHANGED poolVars
    BY <1>1, <1>9 DEF poolVars, Busy, BusyUntouched
  <1> QED  BY <1>1, <1>3, <1>4, <1>5, <1>6, <1>7, <1>8, <1>9 DEF PoolNext, WorkerStep

\* The invariant holds in every reachable state.
THEOREM PoolInvariant == PoolSpec => []PoolInv
  <1>1. PoolInv /\ [PoolNext]_poolVars => PoolInv'
    BY PoolTypesStep, TasksStep, ActiveStep DEF PoolInv
  <1> QED  BY PoolInitInv, <1>1, PTL DEF PoolSpec

\* The pool is type correct; mutex_ is held across steps only by a worker that
\* evaluates its predicate.
THEOREM PoolTypeCorrect == PoolSpec => []PoolTypeOK
  <1>1. PoolInv => PoolTypeOK
    BY DEF PoolInv
  <1> QED  BY <1>1, PoolInvariant, PTL

\* A task is in one place: queued, with one worker, or executed.
LEMMA TasksInOnePlace == PoolInv => TasksConserved
  <1> SUFFICES ASSUME PoolInv PROVE TasksConserved
    OBVIOUS
  <1> USE DEF PoolInv, PoolTypeOK
  <1> DEFINE oldest == submitted - Len(queue)
  <1>1. /\ queue \in Seq(1..MaxTasks) /\ Len(queue) \in Nat /\ submitted \in Nat
        /\ oldest \in Nat /\ DOMAIN queue = 1..Len(queue)
        /\ submitted = oldest + Len(queue)
    BY PoolAssumption DEF QueueOK
  <1>2. Queued = (oldest + 1)..submitted
    <2>1. \A i \in 1..Len(queue) : queue[i] = oldest + i
      BY <1>1 DEF QueueOK
    <2> HIDE DEF oldest, PoolInv, PoolTypeOK
    <2>2. \A n \in (oldest + 1)..submitted :
            n - oldest \in 1..Len(queue) /\ n = queue[n - oldest]
      BY <1>1, <2>1
    <2>3. \A i \in 1..Len(queue) : queue[i] \in (oldest + 1)..submitted
      BY <1>1, <2>1
    <2>4. Queued = {queue[i] : i \in 1..Len(queue)}
      BY <1>1 DEF Queued
    <2> QED  BY <2>2, <2>3, <2>4
  <1>3. InHand \cup executed = 1..oldest /\ InHand \cap executed = {}
    BY DEF HandsOK
  <1>4. \A i, j \in DOMAIN queue : queue[i] = queue[j] => i = j
    BY <1>1 DEF QueueOK
  <1> HIDE DEF oldest
  <1>5. 1..submitted = 1..oldest \cup (oldest + 1)..submitted
    <2>1. oldest <= submitted
      BY <1>1 DEF oldest
    <2> QED  BY <1>1, <2>1
  <1>6. 1..oldest \cap (oldest + 1)..submitted = {}
    BY <1>1
  <1>7. \A v, w \in Worker : task[v] = task[w] /\ task[v] # NoTask => v = w
    BY DEF HandsOK
  <1>8. 1..submitted = Queued \cup InHand \cup executed
    BY <1>2, <1>3, <1>5
  <1>9. Queued \cap InHand = {} /\ (Queued \cup InHand) \cap executed = {}
    BY <1>2, <1>3, <1>6
  <1> QED  BY <1>4, <1>7, <1>8, <1>9 DEF TasksConserved

\* No task is lost or run twice, for any number of workers.
THEOREM TasksNotLost == PoolSpec => []TasksConserved
  BY PoolInvariant, TasksInOnePlace, PTL

\* active_tasks_ and the queue tell WaitAll the truth.
LEMMA AllDoneMeansAll == PoolInv /\ AllDone => executed = 1..submitted
  <1> SUFFICES ASSUME PoolInv, AllDone PROVE executed = 1..submitted
    OBVIOUS
  <1> USE PoolAssumption DEF PoolInv, PoolTypeOK, AllDone
  <1>1. IsFiniteSet(Busy)
    BY FS_Subset DEF Busy
  <1>2. Busy = {}
    BY <1>1, FS_EmptySet DEF ActiveOK
  <1>3. InHand = {}
    BY <1>2 DEF InHand, HandsOK, Busy
  <1>4. submitted - Len(queue) = submitted
    OBVIOUS
  <1> QED  BY <1>3, <1>4 DEF HandsOK

\* WaitAll returns only when everything that was submitted has been executed.
THEOREM WaitAllSound == PoolSpec => WaitAllWaits
  <1>1. PoolInv /\ [PoolNext]_poolVars =>
          [\A k \in Client :
             WaitAll(k) /\ At(k, "idle")' => executed = 1..submitted]_poolVars
    <2> SUFFICES ASSUME PoolInv, NEW k \in Client, WaitAll(k), At(k, "idle")'
                 PROVE  executed = 1..submitted
      OBVIOUS
    <2>1. AllDone
      BY DEF WaitAll, At, Goto, PoolInv, PoolTypeOK, Thread
    <2> QED  BY <2>1, AllDoneMeansAll
  <1> QED  BY <1>1, PoolInvariant, PTL DEF PoolSpec, WaitAllWaits

(***************************************************************************)
(* The pool implements TaskPool                                            *)
(***************************************************************************)
\* A step that concerns mutex_, condition variables or threads only.
LEMMA Unnoticed ==
  ASSUME UNCHANGED <<queue, submitted, executed, stop>>,
         \A k \in Client : pc'[k] \in {"waitdone", "retest"}
                             <=> pc[k] \in {"waitdone", "retest"}
  PROVE  UNCHANGED Tasks!taskPoolVars
  BY DEF Tasks!taskPoolVars

\* A worker takes a task: it is the next to start, and Width leaves room for
\* it, because the worker itself had none.
LEMMA TakeStarts ==
  ASSUME PoolInv, NEW w \in Worker, TakeTask(w)
  PROVE  Tasks!StartTask
  <1> USE PoolAssumption DEF PoolInv, PoolTypeOK, TakeTask, At, Goto, Thread
  <1> DEFINE started == submitted - Len(queue)
             running == {v \in Worker : pc[v] = "run"}
             hold == [v \in running |-> task[v]]
  <1>1. /\ queue \in Seq(1..MaxTasks) /\ Len(queue) \in Nat /\ Len(queue) > 0
        /\ Len(queue') = Len(queue) - 1 /\ submitted' = submitted
        /\ submitted \in Nat
    OBVIOUS
  <1>2. started < submitted /\ submitted' - Len(queue') = started + 1
    BY <1>1
  <1>3. InHand = (1..started) \ executed
    BY DEF HandsOK
  <1>4. hold \in Surjection(running, InHand)
    <2>1. \A v \in running : task[v] \in InHand
      BY DEF HandsOK, InHand
    <2>2. \A n \in InHand : \E v \in running : task[v] = n
      BY DEF HandsOK, InHand
    <2> QED  BY <2>1, <2>2 DEF Surjection
  <1>5. running \subseteq Worker \ {w}
    OBVIOUS
  <1>6. /\ IsFiniteSet(Worker \ {w})
        /\ Cardinality(Worker \ {w}) = Cardinality(Worker) - 1
    BY FS_RemoveElement
  <1>7. IsFiniteSet(running) /\ Cardinality(running) <= Cardinality(Worker \ {w})
    BY <1>5, <1>6, FS_Subset
  <1>8. IsFiniteSet(InHand) /\ Cardinality(InHand) <= Cardinality(running)
    BY <1>4, <1>7, FS_Surjection
  <1>9. /\ Cardinality(Worker) \in Nat /\ Cardinality(running) \in Nat
        /\ Cardinality(InHand) \in Nat
    BY <1>7, <1>8, FS_CardinalityType
  <1>10. Cardinality(InHand) < Cardinality(Worker)
    BY <1>6, <1>7, <1>8, <1>9
  <1>11. {k \in Client : pc'[k] \in {"waitdone", "retest"}}
           = {k \in Client : pc[k] \in {"waitdone", "retest"}}
    OBVIOUS
  <1>12. submitted' = submitted /\ executed' = executed /\ stop' = stop
    OBVIOUS
  <1> HIDE DEF PoolInv, PoolTypeOK, TakeTask
  <1>13. Tasks!Cardinality(InHand) = Cardinality(InHand)
    BY DEF Tasks!Cardinality, Cardinality
  <1> QED  BY <1>2, <1>3, <1>10, <1>11, <1>12, <1>13
           DEF Tasks!StartTask, Tasks!RunningTasks

\* A worker ends the task it holds.
LEMMA RunEnds ==
  ASSUME PoolInv, NEW w \in Worker, Run(w)
  PROVE  task[w] \in Tasks!RunningTasks /\ Tasks!EndTask(task[w])
  <1> USE PoolAssumption DEF PoolInv, PoolTypeOK, Run, At, Goto, Thread
  <1>1. task[w] \in InHand
    BY DEF HandsOK, InHand
  <1>2. task[w] \in Tasks!RunningTasks
    BY <1>1 DEF HandsOK, Tasks!RunningTasks
  <1>3. \A k \in Client : pc'[k] = pc[k]
    OBVIOUS
  <1> QED  BY <1>2, <1>3 DEF Tasks!EndTask

\* WaitAll goes to wait, goes on waiting, or returns.
LEMMA WaitAllTurns ==
  ASSUME PoolInv, NEW k \in Client, WaitAll(k)
  PROVE  Tasks!Wait(k) \/ Tasks!Return(k) \/ UNCHANGED Tasks!taskPoolVars
  <1> USE PoolAssumption DEF PoolInv, PoolTypeOK, WaitAll, At, Goto, Thread, taskVars
  <1>1. pc' = [pc EXCEPT ![k] = IF AllDone THEN "idle" ELSE "waitdone"]
    OBVIOUS
  <1>2. CASE pc[k] = "retest" /\ AllDone
    <2>1. executed = 1..submitted
      BY <1>2, AllDoneMeansAll
    <2> QED  BY <1>1, <1>2, <2>1 DEF Tasks!Return
  <1>3. CASE pc[k] = "retest" /\ ~AllDone
    BY <1>1, <1>3, Unnoticed
  <1>4. CASE pc[k] = "idle" /\ AllDone
    BY <1>1, <1>4, Unnoticed
  <1>5. CASE pc[k] = "idle" /\ ~AllDone
    BY <1>1, <1>5 DEF Tasks!Wait, StopOK
  <1> QED  BY <1>2, <1>3, <1>4, <1>5

\* Every step of the pool is one of the task pool, or not noticed there.
LEMMA PoolStepRefines ==
  PoolInv /\ [PoolNext]_poolVars => [Tasks!TasksNext]_(Tasks!taskPoolVars)
  <1> SUFFICES ASSUME PoolInv, [PoolNext]_poolVars
               PROVE  [Tasks!TasksNext]_(Tasks!taskPoolVars)
    OBVIOUS
  <1> USE PoolAssumption DEF PoolInv, PoolTypeOK, Thread, At, Goto, taskVars
  <1>1. ASSUME NEW w \in Worker,
               LoopTest(w) \/ FoundNothing(w) \/ Block(w) \/ Leave(w) \/ Lock(w)
        PROVE  UNCHANGED Tasks!taskPoolVars
    BY <1>1, Unnoticed DEF LoopTest, FoundNothing, Block, Leave, Lock
  <1>2. ASSUME NEW w \in Worker, Finish(w) \/ Announce(w)
        PROVE  UNCHANGED Tasks!taskPoolVars
    BY <1>2, Unnoticed DEF Finish, Announce
  <1>3. ASSUME NEW w \in Worker, TakeTask(w) PROVE Tasks!TasksNext
    BY <1>3, TakeStarts DEF Tasks!TasksNext
  <1>4. ASSUME NEW w \in Worker, Run(w) PROVE Tasks!TasksNext
    BY <1>4, RunEnds DEF Tasks!TasksNext
  <1>5. ASSUME NEW k \in Client, Submit(k) PROVE Tasks!TasksNext
    <2>1. /\ queue \in Seq(1..MaxTasks) /\ Len(queue) \in Nat /\ submitted \in Nat
          /\ submitted' = submitted + 1 /\ Len(queue') = Len(queue) + 1
      BY <1>5 DEF Submit
    <2>2. submitted' - Len(queue') = submitted - Len(queue)
      BY <2>1
    <2>3. \A c \in Client : pc'[c] \in {"waitdone", "retest"}
                              <=> pc[c] \in {"waitdone", "retest"}
      BY <1>5 DEF Submit
    <2>4. ~stop /\ UNCHANGED <<executed, stop>>
      BY <1>5 DEF Submit, StopOK
    <2>5. Tasks!Accept
      BY <2>1, <2>2, <2>3, <2>4 DEF Tasks!Accept
    <2> QED  BY <2>5 DEF Tasks!TasksNext
  <1>6. ASSUME NEW k \in Client, NotifyOne(k) PROVE UNCHANGED Tasks!taskPoolVars
    BY <1>6, Unnoticed DEF NotifyOne, Waiting, ClientLine
  <1>7. ASSUME NEW k \in Client, WaitAll(k)
        PROVE  [Tasks!TasksNext]_(Tasks!taskPoolVars)
    BY <1>7, WaitAllTurns DEF Tasks!TasksNext
  <1>8. ASSUME NEW t \in Thread, Spurious(t) PROVE UNCHANGED Tasks!taskPoolVars
    BY <1>8, Unnoticed DEF Spurious, ClientLine
  <1>9. CASE SetStop
    <2>1. {k \in Client : pc[k] \in {"waitdone", "retest"}} = {}
      BY <1>9 DEF SetStop
    <2>2. Tasks!Close
      BY <1>9, <2>1 DEF SetStop, Tasks!Close
    <2> QED  BY <2>2 DEF Tasks!TasksNext
  <1>10. CASE NotifyAll \/ Joined
    BY <1>10, Unnoticed DEF NotifyAll, Joined, ClientLine
  <1>11. CASE UNCHANGED poolVars
    BY <1>11, Unnoticed DEF poolVars
  <1> QED  BY <1>1, <1>2, <1>3, <1>4, <1>5, <1>6, <1>7, <1>8, <1>9, <1>10, <1>11
           DEF PoolNext, WorkerStep, Destroy

\* However many workers, clients and tasks there are, the pool is a task pool:
\* tasks start in the order of Submit, at most one per worker, and WaitAll
\* returns after all of them.
THEOREM PoolImplementsTasks == PoolSpec => Tasks!TasksSpec
  <1>1. PoolInit => Tasks!TasksInit
    <2> SUFFICES ASSUME PoolInit PROVE Tasks!TasksInit
      OBVIOUS
    <2>1. {k \in Client : pc[k] \in {"waitdone", "retest"}} = {}
      BY PoolAssumption DEF PoolInit, Thread
    <2>2. submitted = 0 /\ Len(queue) = 0
      BY DEF PoolInit
    <2>3. executed = {} /\ stop = FALSE
      BY DEF PoolInit
    <2> QED  BY <2>1, <2>2, <2>3 DEF Tasks!TasksInit
  <1> QED  BY <1>1, PoolStepRefines, PoolInvariant, PTL DEF PoolSpec, Tasks!TasksSpec

=============================================================================
