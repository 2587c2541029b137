# rtcom: specifications of the SIP/RTP server

TLA+ models of the rtcom server (SIP signalling, call contexts, RTP receive
loop, timers, jitter buffer, media packing, reports), the TLC runs that check them,
and TLAPS proofs of every safety property the passing runs check. File names below are
relative to the repository; `src/` in front of a file is its source directory.

## The system

| Component | State it keeps | Operations | Talks to |
|---|---|---|---|
| `SipManager`, `SipCall` (`sip/`) | `calls_` by Call-ID, the retransmission timer of each call, `registered_`, the `last_*` cache of the latest INVITE's headers | local API (MakeCall, AnswerCall, HangUp, CancelCall, Register, ...), one handler per SIP method and for responses, `ProcessTimers`, the builders of responses and SDP answers | calls `event_cb_` (SessionManager) synchronously in its handlers |
| `SessionManager` (`session/`) | `contexts_` (sockets, jitter buffers, codecs of each call) under `ctx_mutex_` | Start, Stop, MakeCall, send and information calls, `OnSipEvent`, receive callbacks, `OnRtcpTimer` | owns SipManager and IoMultiplexer; starts the RTP thread |
| `IoMultiplexer` (`net/`) | `fd_map_` under `fd_mutex_`, the epoll set, `timers_` under `timer_mutex_`, `running_` | AddFd, DelFd, AddTimer, RemoveTimer, Run, Stop, FireTimers | runs the callbacks of SessionManager on the RTP thread |
| `main.cpp` | one datagram buffer | boot, receive, answer INVITE and BYE, run the timers, stop | drives SessionManager and SipManager from one thread |
| `ThreadPool` (`net/`) | task queue, active count, `stop_` | Submit, WaitAll, WorkerLoop, destructor | used by the tests |
| `JitterBuffer` (`rtp/`) | sorted deque, expected number, delay, jitter estimate | Insert, Extract, Reset | called by the receive callbacks |
| `RtpSession`, `RtpPacket`, `H264Fragmenter`, `AacPacketizer` (`rtp/`) | sequence number, timestamp, counters, the learnt peer | SendPacket, ReceivePacket, Fragment, Defragment, Pack, Unpack | called by SessionManager's send and receive paths |
| `RtcpHandler` (`rtp/`) | the statistics of the last report read | BuildSenderReport, BuildReceiverReport, BuildSdes, Parse, UpdateFromReport | `OnRtcpTimer` sends what it builds; the server receives no RTCP |
| `SdpBuilder` (`common/`) | none | Parse, BuildOffer, BuildAnswer | `main.cpp` parses offers, SipManager builds answers |
| `UdpSocket`, `Config`, codecs, capture | descriptors, text | system and FFmpeg calls | leaf components |

What makes each of them correct:

- *Call table.* A listener of the notifications always knows which calls are
  established; timers do not end answered calls; late responses revive nothing;
  unanswered calls end.
- *Session layer.* Contexts exist exactly for established calls, keep what they
  were created with, and do not survive Stop; ports are assigned before they are
  advertised.
- *Program.* Every INVITE is answered with its own headers, whatever was
  repeated or interleaved; a BYE releases its call.
- *Threads.* Callbacks work on live contexts of their own although descriptor
  numbers are reused; what epoll watches agrees with `fd_map_` and `contexts_`; nobody
  changes the contexts under a sender; no deadlock; Stop returns.
- *Timers.* None is late by more than the loop's own waits explain, none fires in
  bursts, once too often or after its removal.
- *Pool.* No task is lost or run twice, no wake-up is lost.
- *Jitter buffer.* Loss is counted, also where the numbers wrap; the delay keeps its range.
- *Offers.* The address in force is that of the session's last complete connection line.
- *Media path.* Numbers and marks let a receiver find holes and frame ends, and
  what the encoder made is what the decoder gets; reports count what was sent, and
  a compound can be taken apart again.

The hard behaviours are the retransmission timers racing responses and
hang-ups, messages that arrive repeated and out of order, the two mutexes of
the session layer taken in both orders by two threads, registrations that fail, descriptor numbers the
kernel reuses while epoll events are pending, a clock read before a mutex is
taken, wake-ups of condition variables,
and the arithmetic of 16-bit and unsigned numbers. `PROJECT.json` lists them at
their lines under `hazards`.

## The modules

`SessionManager` EXTENDS `SipManager`, and `ServerLoop` EXTENDS
`SessionManager`: each layer conjoins its own effect with an action of the layer
below, the way the C++ calls nest. `MediaReports` EXTENDS `MediaPath` and
`RtcpHandler`; `ServerLoop` takes offers apart with `Sdp`. `CallContexts` and
`TaskPool` are abstract specifications:

| Abstract | Implemented by | As property | Proved (safety) |
|---|---|---|---|
| `CallContexts` | `SessionManager`, over SIP events | `ContextsKeepTheirInfo` | `ContextsKept` |
| `CallContexts` | `MediaThreads`, over interleavings | `ContextsAreAtomic` | `ThreadsImplementContexts` |
| `TaskPool` | `ThreadPool` | `PoolRunsTasks` | `PoolImplementsTasks` |
| `SessionManager` | `ServerLoop` | `SessionSpec` | `ServerImplementsSession` |

**CallContexts** says what anyone may rely on about call contexts: a call has at
most one; it holds the same things for life (an address in SessionManager,
sockets in MediaThreads); nobody removes it while one of its users works on it, and that
user does leave. In MediaThreads a context becomes visible when its
creation ends and stays visible until its removal does, and the user is the RTP
thread with its receive callbacks. The application is not one: Stop, which
joins the RTP thread, does not wait for it.

**SipManager.** `state[c]` is `GetCallState(c)`, with `"Idle"` for a Call-ID that
is not in `calls_`. `timer[c]` has the exponent of the wait (`level`), the
count (`retx`) and whether the clock has passed it. Each API call and each
`Handle...` function is one action; `ProcessIncomingMessage` is `Receive`. A
handler's `NotifyStateChange` calls are the set `notified` of that step.
`InitializeFails` is an `osip_init` that fails: nothing is initialized and `Start` returns false.
`ProcessTimers(late)` is one pass over the table: the code reads the clock
twice per call, and `late` is the set of calls whose timer runs out between the
two reads. `lastId` and `lastHeaders` are the cache that response builders use:
which INVITE it came from is all that matters of it.

**SessionManager.** Every action is one of SipManager together with what the
callback that is installed does for its notifications (`Callback`): `OnSipEvent`
after `Start`, nothing relevant after `SetSipEventCallback`. `contexts` are the
keys of `contexts_`, `ctxRemote` the addresses copied into them, `ports` the calls
whose `audio_local_port` and `video_local_port` were assigned (the fields have
no initializer), `reported` the contexts a report was sent for.

**ServerLoop.** `main` as a program counter over its boot sequence and the steps
of one iteration: receive, look for an SDP offer, reply, run timers. A message
of the constant `Message` may arrive at any iteration, any number of times, which is a
network that loses, repeats and reorders. `main` looks for the words INVITE and
BYE anywhere in the text, so a message carries both flags beside its method. Its
Call-ID is read twice, by osip's parser (`id`) and by `main`, which searches for the literal
`"Call-ID: "` (`seen`): the second finds nothing in a compact or lower-case header, and the
wrong name when an earlier header ends in that word. The offer is read into, and the answer's
body built for, the call `main` has found. The
body of a message is a sequence of SDP lines. Clock and RTCP timer interleave with every step.
`main` ends when `Start` has failed. `sent` is the set of responses of the
iteration, for the properties only.

**Sdp.** `SdpBuilder::Parse` as a loop over connection, media and other lines; what it
returns and what it leaves in its output argument.

**MediaThreads.** The main, RTP and one application thread, `ctx_mutex_` and
`fd_mutex_`. A critical section that takes no further lock is one step; creating
and removing a context, which take `fd_mutex_` inside `ctx_mutex_`, and dispatching
an event, which takes them the other way round, are cut where the second
mutex is taken. A socket may fail to open, and the context goes without it; or the kernel may refuse to
watch it, which `AddFd` reports to nobody. The
kernel reuses the descriptors of closed sockets. Stop
clears `contexts_` without a lock and without `DelFd`, which leaves callbacks in
`fd_map_`; a Start makes a new RTP thread over them. Stop waits for the RTP thread and for
nobody else: an application thread that is sending a frame then goes on with what is left
of its context, and `FrameSent` unlocks as before.

**IoTimers.** `timers_` with the time each has left, a clock that ticks while the
loop waits or works, signals that interrupt the wait, other threads that add and
remove timers and stop the loop, and the RTP thread of each Start with its own
RTCP timer. `FireTimers` is cut where it reads the clock, takes the mutex and
runs each callback. The last part of the state (`removed`, `shots`, `rest`, `up`,
`halt`) only measures; no guard reads it. The program itself adds recurring timers only and
removes none; one-shots and `RemoveTimer` are what the class offers to others.

**ThreadPool.** One step per critical section or notification. `stop_` is
written outside the mutex, so a worker's wait is kept in its parts (lock, test,
block). `notify_one` wakes any waiter, waits may return spuriously. `TaskPool` is
the same without threads: tasks start in order, at most `Width` at once, each
one started ends, and who waits for all returns when all have ended. A `WaitAll` that
finds everything done at its first test changes nothing and is no step of the model;
what `WaitAllWaits` looks at is the return after a wait, which tests the same predicate.

**JitterBuffer.** Packets are numbered by the sender; the code sees the number
modulo `SeqSpace` and a timestamp that starts anywhere and grows by `TsStep` per packet. Insert with
its sort, readiness pass, delay adaptation and overflow is one action, as it runs under one mutex.
The transit time is that of the code: the timestamp, which wraps, converted at the rate of the
configuration (`SampleRate`, 44100 in the server) whatever the clock rate of the stream is, subtracted
from the clock modulo 2^32 (`JMod`). Two's complement stands for the signed differences, which is what the
build does where C++ leaves an overflow undefined. The delay is adapted modulo 2^32 as well. A packet
arrives from a window (`Ahead`, `Behind`) around the latest one, possibly again; the window may be
wider than `LossWindow` (100 in the code), which is an outage. `stream` is
the sender's side: what has arrived, and which packets an outage skipped (`jumped`).

**MediaPath.** Send path (pack or fragment, number, stamp, serialize, send;
any subset of the sends may fail), network, receive path (insert, perhaps extract, unpack,
decode; of `OnRtpData` the branches of AAC and H.264). The order of extraction is left open, so the result does not depend on JitterBuffer.
Payload bytes are small sequences; FU headers are records of their fields.

**RtcpHandler, MediaReports.** RTCP packets as sequences of 32-bit words: every
builder and Parse, which steps through a compound by the length fields. A count
field holds `RcSpace` values (32 in the code). MediaReports lets `OnRtcpTimer` report what MediaPath has sent and a
caller use the receiving half, which the server leaves unused.

The modules whose names begin with `MC` give instances to TLC, those ending in `Proofs`
hold the theorems. Operators introduced by "Mutant:" are broken variants
of the definition that follows them; no specification uses them. They show for
each property a plausible error it would catch.

## Runs

| Run | Configuration | Shows |
|---|---|---|
| `session` | two calls, one address, `max_retransmit` 2, `max_sessions` 1 | the call table and the contexts over any order of API calls, messages, ticks, starts and stops: `NotificationsTrackCalls`, `EstablishedOutlivesTimers`, `LateAnswerIgnored`, `ContextsTrackCalls`, `AnswerPortsAssigned`, and `ContextsKeepTheirInfo` |
| `server` | 19 messages of two calls, five bodies, two addresses | `InvitesAnsweredInKind`, `OffersRead`, `AnswersAreBacked`, `ByeReclaims`, and that the program implements `SessionSpec` |
| `threads` | two calls, two descriptors, three threads | `CallbackSeesItsContext`, `RegistrationMatches`, `SendersUndisturbed`, `StopReturns`, `ContextsAreAtomic` |
| `timers` | RTCP interval 5, timeout 1, two timers, other delays 0 and 2, one signal, rounds of 1 | `TimersOnTime`, `NoBurst`, `RemovedStaysQuiet`, `OneShotsRunOnce`, `StopIsPrompt` |
| `pool` | two workers, two clients, three tasks | `TasksConserved`, `WaitAllWaits`, `DestructorReturns`, `PoolRunsTasks` |
| `jitter` | numbers modulo 9, loss window 2, packets up to 3 ahead and 2 behind, buffer of 3, 4 arrivals, initial delay 0 | `ExpectedTracksLatest`, `LossNotUndercounted`, `ArrivalOrderKept` |
| `path` | two frames of one to three packets, numbers modulo 4, receiver reports of 0 to 4 blocks with counts modulo 4, names of 5 and 6 bytes | `SequenceCountsSent`, `MarkerEndsFrame`, `FrameLeavesWhole`, `CompoundsParse`, `ReportsCountTraffic` |

Each of these but `server`, whose own variables are a program counter and a message, also checks
its module's type invariant. Five runs show where the code
departs from what the repository says (`findings` in `PROJECT.json` quotes both):

| Run | What TLC finds |
|---|---|
| `sip_unanswered` | a call nobody answers is retransmitted for ever: `StartTimer` resets the count compared with `max_retransmit` |
| `server_reports` | no RTCP report finds its address: the context copies the call information before the SDP offer is read |
| `threads_embrace` | AddFd under `ctx_mutex_` against a callback under `fd_mutex_`: deadlock |
| `jitter_filter` | the jitter estimate jumps to 1/16 of the unsigned range when jitter falls |
| `path_audio` | `AacPacketizer::Unpack` does not invert `Pack` |

### Bounds, and why they are enough

- *Two calls.* Handlers touch one call and the shared cache; a fault between
  calls needs one to act and one to disturb it. `MaxRetransmit` 1 or 2 has the first
  retransmission, a restarted timer, and the limit.
- *`session`* compares states without the header cache and the latest
  notifications (`VIEW`): no guard reads either, the properties of this run look
  at the notifications of the step being taken only, and TLC tests a step also when it leads
  to a state it has seen. `server`, whose answers depend on the cache, has no view.
- *Messages of `server`.* For each call: an INVITE with offer, an INVITE without
  the cached headers that lists BYE in an Allow header, an ACK that mentions
  both methods, BYE, CANCEL, 2xx and 3xx+ responses whose CSeq names INVITE;
  a second offer for the first call, an INVITE without Call-ID, one whose Call-ID `main` does not
  find, one in which it finds the other call's, and a text no handler
  takes. The bodies have connection lines before and after media, without
  address, or none; one has no media; one is empty. Every branch of `main`'s reading and
  of the dispatch is taken. The server has no outgoing calls, so 1xx adds nothing there.
- *Two descriptors.* Two calls ask for four: a context may be complete, lack
  one socket or have none, both calls may hold one, each registration may fail, and descriptors change
  hands between calls while an event of the first owner is pending. What a third would add is covered by
  the proofs, which are about any set.
- *Timers.* `Interval` and `Timeout` are the code's 5 s and 1 s in seconds. Two timers
  are enough for one to be late because of the other, to be removed while the other fires, and for
  a restart; `Delays` has an interval shorter than the timeout and 0.
- *Pool.* Two workers compete for one task and one waits while the other works;
  with two clients a task may be submitted while another client waits.
- *Jitter.* Widths are scaled: numbers modulo 9 instead of 2^16, a loss window
  of 2 instead of 100, a buffer of 3 instead of 500, delays of 5 to 20
  instead of 20 to 200, fields and timestamps modulo 2^16 instead of 2^32 (TLC's integers are
  32-bit). Clock rates, the initial delay and the steps of the delay are the code's: video at 90 kHz,
  which is converted at 44.1 kHz, so that each packet counts some 41 ms of jitter. The two first timestamps make
  one stream wrap. The module's assumptions leave the network what the 16-bit numbers demand (packets
  move less than half of the number space); `Ahead` exceeds the loss window. A stream begins at every number, so
  the numbers wrap at each of the 4 arrivals in some behaviour. The delay rises from 0 past the minimum
  to the maximum and falls again. `jitter_filter` has the code's limits and a stream at the configured rate.
- *Path.* A payload limit of 6 with a header of 1 gives fragments of 3 bytes: frames
  of exactly the limit, of two full fragments, and with a last fragment of one byte.
- *Reports.* Counts modulo 4 let a list of four blocks overflow the field as 32 do
  in the code; the two names lie on both sides of a word boundary.
- `session`, which checks no liveness, uses symmetry over the Call-IDs; the
  other runs use none. Deadlock checking is off: bounded streams, a stopped
  server and a destroyed pool do stop.

### Fairness

- `FairSipSpec`: timers run out and `main` keeps calling `ProcessTimers` (its loop never
  blocks). Nothing is assumed of the race between two clock reads.
- `FairServerSpec`: the RTCP timer keeps firing while the session runs, as
  `IoMultiplexer::Run` re-arms it.
- `FairThreadsSpec`: weak fairness of the main and RTP threads and of an
  application thread inside a call; none that makes an application call anything. As an
  application may send frame after frame while Stop waits, a receive callback that waits for
  `ctx_mutex_` gets it by strong fairness (`EnterCallback`): the mutex, free again and again, is not withheld
  from a waiter for ever.
- `FairPoolSpec`: weak fairness of the steps of a worker, client and destructor that block on no
  mutex, strong fairness of those that acquire it (it is released again and
  again). No fairness of spurious wake-ups or of clients submitting.
- `TimersSpec` needs none: its properties are bounds on measured time, and time
  passes only while the wait or the round it passes in may last (`Tick`).
- The abstract specifications ask of their implementations that a thread leaves
  a context it entered (`FairContextsSpec`) and that a task started ends
  (`FairTasksSpec`).

`StopReturns` and `DestructorReturns` have premises that name a window in which
the code does lose the request: a Stop before the RTP thread has entered `Run`
(whose first statement sets `running_`), and a pool destroyed while a worker has
tested its predicate and does not wait yet (`stop_` is set without the mutex).
Without the premises TLC refutes both.

## Proofs

The modules ending in `Proofs` are checked by TLAPS for every value of the
constants: any sets of Call-IDs, addresses, messages, bodies, descriptors, workers and
clients, every limit and every width of a number. They assume only the named
assumptions of the modules: the null values are outside the sets they complete (`CallAssumption`,
`AddrAssumption`), `MaxRetransmit` is positive, `MaxSessions` a natural number,
messages are records of `MessageType` in which a request's method occurs in its text,
with bodies of SDP lines (`MessageAssumption`), descriptors and workers are finitely many, and threads are not clients
(`ThreadsAssumption`, `PoolAssumption`), packets move by less than half of the sequence numbers (`JitterAssumption`),
the loop waits for a positive time and there are finitely many intervals (`TimersAssumption`),
encoders make NAL units of the types 1 to 23 with a body, and a packet has room for the FU-A header
(`PathAssumption`), no NAL unit fills more than half of the 16-bit sequence numbers, tens of megabytes
(`FragmentsAssumption`), and names and lists of report blocks fit into the length fields
(`ReportsAssumption`).

`NumberTheorems` has what several of these proofs need of numbers: wrapped numbers (`ModDifference`,
`ModNext`), least elements, the rank of a number in a finite set (which is how a vector keeps its order when
`remove_if` has been over it, and how the packets of a partly refused frame get their numbers), and
sums over finite sets, whose recursion in the library is shown to be defined.

1. *The call table.* `SipInv` joins the types with `CountsReset`: every count is 0 between steps,
   because `StartTimer` resets it. The types alone allow a count at the limit,
   and then a tick would fail the call; with `CountsReset` no tick finds a call there
   (`TimersSpareEstablished`). The same fact is why
   `sip_unanswered` fails. `NotificationsSound` and `LateAnswersLost` are action
   properties: every handler is one of five building blocks (`Create`, `Move`,
   `Disconnect`, `Ignore`, the timer pass), and each reports what it does.
2. *The session layer.* `SessionInv` joins types, `StoppedIsClean` (a stopped manager has no call and no context), `ContextsTrackCalls` and
   `AnswerPortsAssigned`. They need each other: `Start` installs `OnSipEvent`
   over a table that must be empty for the contexts to match it, which is what Stop
   leaves. The induction step uses the contract proved in 1 and never opens a SIP handler again.
   `ContextsKept` maps each step to a `Create`, a `Remove` or a stutter of CallContexts.
3. *The program.* `ServerImplementsSession` shows every step of `main` to be a
   step of SessionManager or a stutter, so 2 holds of the program. `ServerInv` adds
   that SessionManager listens from Register to the end (`Booted`), that the buffer holds a
   datagram, and that every call in the table has its ports (`TablePorts`, also for
   failed ones: a port is never taken back) and, once Registered,
   a context unless they failed (`TableSettled`). `AnswerInv` adds `InHand`: between its processing and its answer,
   an INVITE is the cached request. From these `InvitesAnswered`, which promises a body only when
   `main`'s search finds the Call-ID that osip has parsed, `AnswersBacked` and `ByeReleases`. `OffersAreRead` is about a loop inside one step: after n lines
   Parse has the address of the last connection line with one among them (`HasRead`), whichever
   lines they are; that it holds after all of them is shown by looking at the least n for which it
   would not. `OfferTaken` carries the result to the answer, for the call both readings
   of the Call-ID name.
4. *The threads.* `ThreadsInv`: each mutex is held at exactly the lines that hold it
   (`LocksOK`); main works on a context that is there (`MainOK`); a descriptor
   belongs to one socket of one context (`OwnersOK`); what epoll watches is among what
   main has handed to AddFd and not yet to DelFd, and `fd_map_` sends each of those to its
   owner (`RegistryOK`); every event still to be dispatched is dropped or goes to the
   present owner of its descriptor (`RtpOK`). The last part is the point: it
   survives a removal because `DelFd` clears `fd_map_` before the socket is closed, and the reuse of
   the number because `AddFd` overwrites the entry, and a callback that has been looked up
   because neither happens while `fd_mutex_` is held. From it `CallbacksSafe`,
   `RegistrationCorrect` and `ThreadsImplementContexts`; `SendersAlone` needs the mutexes only.
5. *The pool.* `PoolInv`: the queue is the tasks submitted last, in order
   (`QueueOK`), those before are in the hands of one worker each or executed
   (`HandsOK`), and `active_tasks_` counts the workers between their two
   critical sections (`ActiveOK`), without which an empty queue and a zero would not mean that
   everything is done. `TasksNotLost`, `WaitAllSound`, `PoolImplementsTasks`.
6. *The jitter buffer.* `JitterInv`: `expected_seq_` is the number after the latest packet, the
   buffer is sorted, and its packets were judged by one delay at one time
   (`JudgedTogether`). The loss count needs the first: the gap Insert computes
   is then the gap in the stream, because numbers that wrapped subtract like those that
   did not (`ModDifference`, `WindowArithmetic`) as long as packets move less than half of the
   number space; a gap as wide as the loss window adds nothing, so its packets are in `jumped` and
   excepted. The order of playout needs the
   other two, and that sorted numbers are in the order of the stream if they do not wrap in between.
   `ExpectedFollows`, `LossCounted`, `OrderKept`. `DelayInvariant` is the range of the delay: from its
   limits or the initial value, which may lie outside them, an adaptation leads to no value beyond.
   It assumes (`DelaysFit`) a minimum of at least 4 and a maximum 10 below the end of the 32-bit range,
   because the code subtracts 5 and adds 10 before it clamps. With it `JitterTypeCorrect`.
7. *The timers.* `TimersInv`. While `FireTimers` is at work its clock reading is `age` old, so what
   it knows of a timer differs by `age` from what is `left`. `Late` gives for each place of the loop how late a timer
   may be there (`Allowed`): in a wait, the round before and what the interruptions so far took; once the
   wait is over, all of a wait more; after the sweep, only the time since. A timer the sweep
   has passed is on time by the clock reading. `Ordered`: ids grow along the vector
   and a removed id is in it no more, so erasing by position forgets nothing else. `Once`: a one-shot that has run is still there only
   while the sweep that will erase it holds the mutex. `Rested`: since the last run of a timer at
   least its interval less what is left has passed. `Halting`: the time since Stop is at most what the wait and the round have taken.
   `TimersFireOnTime`, `RemovedTimersStayQuiet`, `OneShotsOnce`, `StopPrompt`, `NoBurstEver`.
8. *Media path and reports.* `PathInv`: `SequenceCountsSent` and `MarkerEndsFrame` are inductive
   with `Clocked` (the packets of earlier video frames carry earlier timestamps, so a marker is compared with packets of
   its own frame only), `Fitting` (nothing is larger than a datagram) and `Counted` (the
   counters of the audio session count its packets and their bytes). Sending is treated once, for any payloads
   and any subset of sends that succeed: the packet of rank i among the accepted ones has number
   `seq + i` (`RankOrder`, `RankOnto`). That fragments
   rebuild their NAL unit for every payload limit, and that Parse finds its way through a
   compound for every name length and number of blocks (`ParseRounds`), are lemmas about
   concatenation and about the loop. `NumbersHaveNoHoles`,
   `MarkersEndFrames`, `FramesLeaveWhole`, `CompoundsAreRead`, `ReportsCount`.

Model-checked only: liveness (`StopReturns`, `DestructorReturns`, the fair half of
`ContextsAreAtomic` and `PoolRunsTasks`), which needs ENABLED and the proof rules for
fairness.

What the code does where a run refutes a property is proved for four of the five, so that the
counterexample is not an accident of the instance:

| Run | Theorem |
|---|---|
| `sip_unanswered` | `NoCallTimesOut`: a tick whose two clock reads agree changes the state of no call, whatever `max_retransmit` is |
| `server_reports` | `NoReportLeaves`: `reported = {}` always, whatever peers send; a call is opened only by the datagram that creates it, before its offer is read (`OpensWithoutAddress`) |
| `jitter_filter` | `JitterNeverFalls`: no arrival lowers the estimate until it is within a sixteenth of the end of its range |
| `path_audio` | `UnpackShiftsFrame`: what Unpack returns for a frame below 8192 bytes is the size and all but the last two bytes of it |

The fifth, `threads_embrace`, is the reachability of one state, which needs the trace TLC gives.

## What else the models show

No run is kept for these, as the code makes no promise about them or as one
look at the action suffices:

- `ProcessTimers(late)` with `late` not empty fails a call, even a connected
  one, that has used no retransmission (`sip_manager.cpp:363`); `EstablishedOutlivesTimers` is stated for
  the ticks whose two reads agree.
- After the first retransmission the wait stays at 2 T1 (`sip_call.cpp:31`).
- `max_sessions` limits outgoing calls only (`session_manager.cpp:59`).
- An INVITE with a compact or lower-case Call-ID header creates a call and a context, but its offer is not read and its
  200 has no SDP, although `main.cpp:133` means the search to match osip and `main.cpp:155` sends a "200 OK with SDP
  answer"; `InvitesAnsweredInKind` and `OffersRead` are stated for two readings that agree.
- Stop clears `contexts_` without `ctx_mutex_` (`session_manager.cpp:51`) and destroys the context a thread in
  SendAudioFrame is working on with the mutex held; `WORKFLOW.md:400` calls the management of contexts thread-safe. This is the
  exception in `SendersUndisturbed`.
- A context whose registration the kernel refused stays, logged as registered, and hears nothing
  (`session_manager.cpp:257`, `:288`; `io_multiplexer.cpp:30`).
- A response whose CSeq names INVITE gets an automatic 200 with the Call-ID of the latest
  INVITE (`main.cpp:132`), and a failed call's repeated INVITE gets ports that are closed (`sip_manager.cpp:486`).
- `GetCallInfo` returns a pointer that a removal may leave dangling (`session_manager.cpp:132`).
- The sort compares numbers without wrap-around (`jitter_buffer.cpp:35`): where they wrap, packets leave in the wrong
  order, against the reordering of `README.md:45`; `ArrivalOrderKept` excepts such pairs. Readiness is per packet (`:84`).
- The server's buffers start at a delay of 0 ("Immediate output for testing", `session_manager.cpp:176`), below the minimum
  of 20 ms that `WORKFLOW.md:241` and `README.md:96` state, and without jitter nothing raises it: packets leave at once.
- An outage of 100 packets or more is not counted (`jitter_buffer.cpp:48`), although `WORKFLOW.md:239` and `:397` promise
  loss detection and statistics; `LossNotUndercounted` excepts it.
- Timestamps of video and of G.711 are converted at the audio rate of the configuration (`session_manager.cpp:175`), which shows as
  jitter (`jitter_buffer.cpp:25`).
- A minimum delay below 4 lets `current_delay_ms_ - 5` wrap (`jitter_buffer.cpp:70`); the server's is 20.
- Received fragments go to the decoder one by one (`session_manager.cpp:362`).
- A receive callback extracts at most one packet per arrival, so the buffer never
  gets shorter: a delay once built up stays, and the end of a burst waits for the
  next packet (`session_manager.cpp:272`).
- The first transit time is stored as 0, so the second packet counts the whole
  clock difference as jitter (`jitter_buffer.cpp:17`).
- A media-level `c=` line overrides the session's address (`sdp.cpp:35`), against the RFC 4566 that `sdp.h:18` names;
  `OffersRead` is stated for addresses ahead of the media. A re-INVITE without
  video leaves the old video port in place beside the new address.
- `audio_remote_port` and `video_remote_port` are copied into the context before they are
  assigned (`session_manager.cpp:155`).
- An outgoing INVITE offers ports at which no socket listens (`sip_manager.cpp:161`), and
  all calls ask for the same four local ports.
- The 64-bit NTP timestamp goes out with its halves exchanged; `Parse` leaves
  `cumulative_lost` in network order; the octet count includes headers and is narrowed from 64 to 32 bits, which
  the model leaves out; reports
  are sent for the audio stream only (`rtcp_handler.cpp`).
- `BuildSdes` writes the name three bytes further than its size allows for: up to
  three bytes lie behind the packet (`rtcp_handler.cpp:74`).
- Each Start adds an RTCP timer and none is removed: after a restart there are two
  (`session_manager.cpp:412`).
- A receive callback whose context is gone (`EnterCallback`, ELSE) cannot happen: the proof
  of `CallbacksSafe` shows that `DelFd` has taken the event away before.

## Not modelled

SIP and configuration text, SDP building, FFmpeg codecs and capture:
data without control; the models keep their outcome (an address or none, the
ports, a frame). `UdpSocket` beyond success or failure of its creation and sends. `RtpPacket::Parse`
of extensions and padding, which this sender never makes. In `OnRtpData` an empty payload, G.711 that is
handed through and unknown payload types (`session_manager.cpp:330`, `:352`, `:369`). H.264 start codes.
The wrap of the 32-bit millisecond clock. `ModFd` and `GetNextTimeout`, which
nothing calls. The self tests `main` runs before it boots, and the test programs.

## What could come next

A composition of MediaThreads with JitterBuffer, in which a buffer is destroyed
with its context. The part of `RtpPacket::Parse` that foreign senders exercise
(extensions, padding).
