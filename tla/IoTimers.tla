------------------------------ MODULE IoTimers ------------------------------
(***************************************************************************)
(* The timers of IoMultiplexer and the loop that fires them, in time.      *)
(*                                                                         *)
(* Every timer carries the time left until it is due, negative when it is  *)
(* late; Tick lets a unit of time pass.  The loop waits in epoll_wait for  *)
(* Timeout at most, reads the clock, takes timer_mutex_, and goes through  *)
(* the timers in the order of the vector, each callback with the mutex     *)
(* held.  Other threads add and remove timers, and stop the loop.          *)
(***************************************************************************)
EXTENDS Integers, Sequences, FiniteSets

CONSTANTS
  Interval,    \* of the RTCP timer
  Timeout,     \* what Run is called with
  Delays,      \* intervals other users give their timers
  MaxTimers,   \* bound: timers ever added
  MaxSignals,  \* bound: signals that interrupt one wait
  Busy         \* bound: time a round spends outside epoll_wait

ASSUME TimersAssumption ==
  /\ {Interval, Timeout} \cup Delays \subseteq Nat /\ IsFiniteSet(Delays)
  /\ {MaxTimers, MaxSignals, Busy} \subseteq Nat
  /\ Timeout > 0

VARIABLES
  timers,    \* timers_: [id, every, recurring, left]
  nextId,    \* next_timer_id_
  running,   \* running_
  loop,      \* [pc, at, age]: the timer reached; time since `now` was read
  spent,     \* time since the loop last entered or left epoll_wait
  signals,   \* signals since the wait began
  removed,   \* timers for which RemoveTimer has returned
  shots,     \* how often each callback ran, counted up to 2
  rest,      \* time between the clock readings of two runs of a callback
  up,        \* time the loop has been running
  halt       \* time since the loop was told to stop

timerVars == <<timers, nextId, running, loop, spent, signals, removed,
               shots, rest, up, halt>>
ghosts == <<removed, shots, rest, up, halt>>

TimerId == 1..MaxTimers

\* The longest a timer may wait: the round that read the clock too early, the
\* waits that signals cut off, and the round that finds it due.
Lateness == (MaxSignals + 1) * (Timeout + Busy) + Busy

Longest(S) == CHOOSE n \in S : \A m \in S : m <= n
Span == Busy + Longest({Interval, Lateness + 1} \cup Delays)

UpTo(n, cap) == IF n > cap THEN cap ELSE n
AtLeast(n, floor) == IF n < floor THEN floor ELSE n

Never == Span + 1   \* UINT64_MAX

At(label) == loop.pc = label
InRun == loop.pc \notin {"off", "born"}

\* FireTimers holds timer_mutex_ from the first timer to the erase.
MutexFree == loop.pc \notin {"sweep", "call"}

TimersInit ==
  /\ timers = <<>> /\ nextId = 1
  /\ running = FALSE
  /\ loop = [pc |-> "off", at |-> 1, age |-> 0]
  /\ spent = 0 /\ signals = 0
  /\ removed = {} /\ shots = [i \in TimerId |-> 0]
  /\ rest = [i \in TimerId |-> Span]
  /\ up = 0 /\ halt = 0

(***************************************************************************)
(* Users of the multiplexer                                                *)
(***************************************************************************)
\* Mutant: the new timer goes first.
PushedFirst(every, recurring) ==
  <<[id |-> nextId, every |-> every, recurring |-> recurring,
     left |-> every]>> \o timers

Pushed(every, recurring) ==
  Append(timers, [id |-> nextId, every |-> every, recurring |-> recurring,
                  left |-> every])

AddTimer(every, recurring) ==
  /\ MutexFree /\ nextId <= MaxTimers
  /\ timers' = Pushed(every, recurring)
  /\ nextId' = nextId + 1
  /\ UNCHANGED <<running, loop, spent, signals, ghosts>>

\* remove_if and erase: the timers at the given places stay, in their order.
Kept(places) ==
  LET f == CHOOSE g \in [1..Cardinality(places) -> places] :
             \A a, b \in DOMAIN g : a < b => g[a] < g[b]
  IN  [k \in DOMAIN f |-> timers[f[k]]]

Without(id) == Kept({k \in DOMAIN timers : timers[k].id # id})

\* Mutant: without timer_mutex_.
RemoveTimerUnlocked(id) ==
  /\ id < nextId
  /\ timers' = Without(id)
  /\ removed' = removed \cup {id}
  /\ UNCHANGED <<nextId, running, loop, spent, signals, shots, rest, up, halt>>

RemoveTimer(id) ==
  /\ MutexFree /\ id < nextId
  /\ timers' = Without(id)
  /\ removed' = removed \cup {id}
  /\ UNCHANGED <<nextId, running, loop, spent, signals, shots, rest, up, halt>>

Stop ==
  /\ running' = FALSE
  /\ halt' = IF running THEN 0 ELSE halt
  /\ UNCHANGED <<timers, nextId, loop, spent, signals, removed, shots, rest, up>>

(***************************************************************************)
(* The loop                                                                *)
(***************************************************************************)
\* RtpEventLoop, in the thread of each Start: a new RTCP timer, then Run ...
RtpEventLoop ==
  /\ At("off") /\ nextId <= MaxTimers
  /\ timers' = Pushed(Interval, TRUE)
  /\ nextId' = nextId + 1
  /\ loop' = [loop EXCEPT !.pc = "born"]
  /\ UNCHANGED <<running, spent, signals, ghosts>>

\* ... which sets running_, whatever Stop has done before.
EnterRun ==
  /\ At("born")
  /\ loop' = [loop EXCEPT !.pc = "top"]
  /\ running' = TRUE /\ up' = 0 /\ halt' = 0
  /\ UNCHANGED <<timers, nextId, spent, signals, removed, shots, rest>>

\* Where the loop goes, as the clock for its next stretch starts.
Turn(label) ==
  /\ loop' = [loop EXCEPT !.pc = label]
  /\ spent' = 0
  /\ UNCHANGED <<timers, nextId, running, ghosts>>

\* The test of the while loop, and the wait it lets begin.
EnterWait ==
  /\ At("top") /\ running
  /\ Turn("wait") /\ UNCHANGED signals

LeaveRun ==
  /\ At("top") /\ ~running
  /\ Turn("off") /\ signals' = 0

\* Mutant: an interrupted wait starts over without looking at running_.
InterruptedWaitsOn ==
  /\ At("wait") /\ signals < MaxSignals
  /\ Turn("wait") /\ signals' = signals + 1

\* EINTR: continue, past FireTimers and the events.
Interrupted ==
  /\ At("wait") /\ signals < MaxSignals
  /\ Turn("top") /\ signals' = signals + 1

\* Any other error ends the loop, with running_ still set.
WaitFails ==
  /\ At("wait")
  /\ Turn("off") /\ signals' = 0

\* Mutant: a wait that timed out goes straight to the next one.
AwakeForEvents ==
  /\ At("wait")
  /\ Turn(IF spent = Timeout THEN "top" ELSE "clock") /\ signals' = 0

\* Events are ready, or the timeout has passed.
Awake ==
  /\ At("wait")
  /\ Turn("clock") /\ signals' = 0

\* FireTimers reads the clock ...
ReadClock ==
  /\ At("clock")
  /\ loop' = [pc |-> "lock", at |-> 1, age |-> 0]
  /\ UNCHANGED <<timers, nextId, running, spent, signals, ghosts>>

\* ... then takes timer_mutex_.
LockTimers ==
  /\ At("lock")
  /\ loop' = [loop EXCEPT !.pc = "sweep"]
  /\ UNCHANGED <<timers, nextId, running, spent, signals, ghosts>>

Reached == timers[loop.at]
InReach == loop.at <= Len(timers)

\* now >= next_fire_ms
DueAtNow(t) == t.left + loop.age <= 0

SkipTimer ==
  /\ At("sweep") /\ InReach /\ ~DueAtNow(Reached)
  /\ loop' = [loop EXCEPT !.at = @ + 1]
  /\ UNCHANGED <<timers, nextId, running, spent, signals, ghosts>>

CallTimer ==
  /\ At("sweep") /\ InReach /\ DueAtNow(Reached)
  /\ loop' = [loop EXCEPT !.pc = "call"]
  /\ shots' = [shots EXCEPT ![Reached.id] = UpTo(@ + 1, 2)]
  /\ UNCHANGED <<timers, nextId, running, spent, signals, removed, rest, up, halt>>

Rearmed(left) ==
  /\ timers' = [timers EXCEPT ![loop.at].left = left]
  /\ rest' = [rest EXCEPT ![Reached.id] = UpTo(loop.age, Span)]
  /\ loop' = [loop EXCEPT !.pc = "sweep", !.at = @ + 1]
  /\ UNCHANGED <<nextId, running, spent, signals, removed, shots, up, halt>>

\* Mutant: the next time is counted from the one that was due, not from now.
CatchUp ==
  /\ At("call")
  /\ Rearmed(IF Reached.recurring THEN Reached.left + Reached.every ELSE Never)

\* Mutant: a one-shot timer is armed again.
RearmEvery ==
  /\ At("call")
  /\ Rearmed(Reached.every - loop.age)

\* The callback returns: now + interval_ms, for a recurring timer.
CallbackReturns ==
  /\ At("call")
  /\ Rearmed(IF Reached.recurring THEN Reached.every - loop.age ELSE Never)

\* Timers that will not fire again are erased and the mutex is released.
SweepDone ==
  /\ At("sweep") /\ ~InReach
  /\ timers' = Kept({k \in DOMAIN timers :
                       timers[k].recurring \/ timers[k].left # Never})
  /\ loop' = [pc |-> "dispatch", at |-> 1, age |-> 0]
  /\ UNCHANGED <<nextId, running, spent, signals, ghosts>>

\* The callbacks of the events that were reported.
Dispatched ==
  /\ At("dispatch")
  /\ loop' = [loop EXCEPT !.pc = "top"]
  /\ UNCHANGED <<timers, nextId, running, spent, signals, ghosts>>

(***************************************************************************)
(* Time                                                                    *)
(***************************************************************************)
\* epoll_wait returns when its timeout is over, and a round has an end.
Tick ==
  /\ At("wait") => spent < Timeout
  /\ InRun /\ ~At("wait") => spent < Busy
  /\ timers' = [k \in DOMAIN timers |->
                  IF timers[k].left = Never THEN timers[k]
                  ELSE [timers[k] EXCEPT !.left = AtLeast(@ - 1, -Lateness - 1)]]
  /\ loop' = IF loop.pc \in {"lock", "sweep", "call"}
               THEN [loop EXCEPT !.age = @ + 1] ELSE loop
  /\ spent' = IF InRun THEN spent + 1 ELSE 0
  /\ rest' = [i \in TimerId |-> UpTo(rest[i] + 1, Span)]
  /\ up' = IF InRun THEN UpTo(up + 1, Lateness + 1) ELSE 0
  /\ halt' = IF InRun /\ ~running THEN UpTo(halt + 1, Span) ELSE 0
  /\ UNCHANGED <<nextId, running, signals, removed, shots>>

(***************************************************************************)
(* Specification                                                           *)
(***************************************************************************)
UserNext ==
  \/ \E d \in Delays, r \in BOOLEAN : AddTimer(d, r)
  \/ \E i \in TimerId : RemoveTimer(i)
  \/ Stop \/ RtpEventLoop

FireTimersNext ==
  \/ ReadClock \/ LockTimers \/ SkipTimer \/ CallTimer \/ CallbackReturns
  \/ SweepDone

LoopStep == EnterRun \/ EnterWait \/ LeaveRun \/ Awake \/ FireTimersNext \/ Dispatched

TimersNext == UserNext \/ LoopStep \/ Interrupted \/ WaitFails \/ Tick

TimersSpec == TimersInit /\ [][TimersNext]_timerVars

(***************************************************************************)
(* Properties                                                              *)
(***************************************************************************)
\* timers_ holds timers in the order of their ids, and every counter is one
\* the clock can show.
TimersTypeOK ==
  /\ \A k \in DOMAIN timers :
       /\ timers[k] \in [id : TimerId, every : {Interval} \cup Delays,
                         recurring : BOOLEAN, left : -Lateness - 1 .. Never]
       /\ timers[k].id < nextId
       /\ \A j \in 1..k - 1 : timers[j].id < timers[k].id
  /\ nextId \in 1..MaxTimers + 1
  /\ running \in BOOLEAN
  /\ loop \in [pc : {"off", "born", "top", "wait", "clock", "lock", "sweep",
                     "call", "dispatch"},
               at : 1..MaxTimers + 1, age : 0..Busy]
  /\ spent \in 0..Longest({Timeout, Busy}) /\ signals \in 0..MaxSignals
  /\ removed \subseteq TimerId /\ shots \in [TimerId -> 0..2]
  /\ rest \in [TimerId -> 0..Span] /\ up \in 0..Lateness + 1 /\ halt \in 0..Span

\* No timer waits longer than a wait with its interruptions and the two rounds
\* around it, although the clock is read before the mutex is taken and an
\* interrupted wait skips FireTimers.
TimersOnTime ==
  up > Lateness => \A k \in DOMAIN timers : timers[k].left >= -Lateness

\* A callback runs at most once per interval, counted from the clock readings,
\* however long the loop was held up or switched off: what was missed is not
\* made up for.
NoBurst ==
  [][CallTimer => rest[Reached.id] - loop.age >= Reached.every]_timerVars

\* When RemoveTimer has returned, the callback of the timer is not running and
\* its timer is gone.
RemovedStaysQuiet ==
  /\ \A k \in DOMAIN timers : timers[k].id \notin removed
  /\ At("call") => InReach /\ Reached.id \notin removed

\* Whenever another thread can see the timers, a one-shot among them has not
\* run yet, and has not been forgotten.
OneShotsRunOnce ==
  MutexFree =>
    \A k \in DOMAIN timers :
      ~timers[k].recurring => shots[timers[k].id] = 0 /\ timers[k].left # Never

\* "1s timeout for checking rtp_running_": once told to stop, the loop ends
\* within the wait it is in and the round after it.
StopIsPrompt == InRun /\ ~running => halt <= Timeout + Busy

=============================================================================
