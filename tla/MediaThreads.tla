---------------------------- MODULE MediaThreads ----------------------------
(***************************************************************************)
(* The threads of a running server and the two mutexes between them.       *)
(*                                                                         *)
(*   main  runs SIP handlers, which create and remove call contexts        *)
(*         (GetOrCreateContext, RemoveContext), and finally Stop;          *)
(*   rtp   runs RtpEventLoop: IoMultiplexer::Run, which dispatches epoll   *)
(*         events to the callbacks of RegisterRtpFds and fires OnRtcpTimer;*)
(*   app   is a thread of the embedding application that sends frames and  *)
(*         asks for call information.                                      *)
(*                                                                         *)
(* A critical section that takes no other lock is one step.  timer_mutex_  *)
(* is taken by the rtp thread alone here; IoTimers has it.  A socket may   *)
(* fail to open; the server may be started again after a Stop.             *)
(***************************************************************************)
EXTENDS Naturals, FiniteSets

CONSTANTS
  Call,     \* the calls that come and go
  Fd,       \* file descriptors the kernel may hand out for receive sockets
  None      \* no thread, no call, no descriptor

ASSUME ThreadsAssumption ==
  /\ None \notin Call \cup Fd \cup {"main", "rtp", "app"}
  /\ IsFiniteSet(Fd)

VARIABLES
  ctxMutex,   \* who holds ctx_mutex_
  fdMutex,    \* who holds fd_mutex_
  contexts,   \* keys of contexts_
  fds,        \* receive descriptors of each context: audio, then video
  epoll,      \* the interest set in the kernel
  fdMap,      \* fd_map_: the call id its callback captured, per descriptor
  running,    \* IoMultiplexer::running_
  main,       \* [pc, call, todo]: todo are descriptors still to (un)register
  rtp,        \* [pc, ready, fd, call]
  app         \* [pc, call]

registryVars == <<epoll, fdMap>>
threadVars == <<ctxMutex, fdMutex, contexts, fds, registryVars, running,
                main, rtp, app>>

Media == {"audio", "video"}
NoFds == [k \in Media |-> None]
Descriptors(c) == {fds[c][k] : k \in Media} \ {None}
Open == UNION {Descriptors(c) : c \in contexts}

AtMain(label) == main.pc = label
AtRtp(label) == rtp.pc = label

MainTo(label) == main' = [main EXCEPT !.pc = label]
RtpTo(label) == rtp' = [rtp EXCEPT !.pc = label]
MainIdle == main' = [pc |-> "idle", call |-> None, todo |-> {}]
NextEvent == rtp' = [rtp EXCEPT !.pc = "dispatch", !.fd = None, !.call = None]

ThreadsInit ==
  /\ ctxMutex = None /\ fdMutex = None
  /\ contexts = {}
  /\ fds = [c \in Call |-> NoFds]
  /\ epoll = {} /\ fdMap = [f \in Fd |-> None]
  /\ running = FALSE
  /\ main = [pc |-> "idle", call |-> None, todo |-> {}]
  /\ rtp = [pc |-> "born", ready |-> {}, fd |-> None, call |-> None]
  /\ app = [pc |-> "idle", call |-> None]

Registry == UNCHANGED registryVars
Contexts == UNCHANGED <<contexts, fds>>

(***************************************************************************)
(* main                                                                    *)
(***************************************************************************)
\* A new socket has a free descriptor, or none when the system grants none.
NewFd(taken) == (Fd \ taken) \cup {None}

\* GetOrCreateContext: under ctx_mutex_ the sockets are opened and the context
\* stored; the kernel reuses the descriptors of closed sockets.  A socket that
\* cannot be created leaves the context without it.
CreateContext(c) ==
  /\ AtMain("idle") /\ c \notin contexts
  /\ ctxMutex = None /\ ctxMutex' = "main"
  /\ \E a \in NewFd(Open) : \E v \in NewFd(Open \cup {a}) :
       /\ fds' = [fds EXCEPT ![c] = [k \in Media |-> IF k = "audio" THEN a ELSE v]]
       /\ main' = [pc |-> "add", call |-> c,
                   todo |-> {k \in Media : fds'[c][k] # None}]
  /\ contexts' = contexts \cup {c}
  /\ Registry /\ UNCHANGED <<fdMutex, running, rtp, app>>

\* The descriptor handled next: audio before video.
NextMedia == IF "audio" \in main.todo THEN "audio" ELSE "video"
MainDoes(k) == main' = [main EXCEPT !.todo = @ \ {k}]

\* Mutant: fd_mutex_ stays locked after the registration.
AddFdKeepingLock ==
  LET f == fds[main.call][NextMedia]
  IN  /\ AtMain("add") /\ main.todo # {}
      /\ fdMutex = None /\ fdMutex' = "main"
      /\ epoll' = epoll \cup {f}
      /\ fdMap' = [fdMap EXCEPT ![f] = main.call]
      /\ MainDoes(NextMedia)
      /\ Contexts /\ UNCHANGED <<ctxMutex, running, rtp, app>>

\* Mutant: an entry that is in fd_map_ already is kept (emplace).
AddFdKeepingEntry ==
  LET f == fds[main.call][NextMedia]
  IN  /\ AtMain("add") /\ main.todo # {}
      /\ fdMutex = None
      /\ epoll' = epoll \cup {f}
      /\ fdMap' = IF fdMap[f] = None THEN [fdMap EXCEPT ![f] = main.call]
                  ELSE fdMap
      /\ MainDoes(NextMedia)
      /\ Contexts /\ UNCHANGED <<ctxMutex, fdMutex, running, rtp, app>>

\* RegisterRtpFds calls AddFd, which takes fd_mutex_, with ctx_mutex_ held.
\* The kernel may refuse the descriptor; nobody looks at what AddFd returns.
AddFd ==
  LET f == fds[main.call][NextMedia]
  IN  /\ AtMain("add") /\ main.todo # {}
      /\ fdMutex = None
      /\ \/ /\ epoll' = epoll \cup {f}
            /\ fdMap' = [fdMap EXCEPT ![f] = main.call]
         \/ Registry
      /\ MainDoes(NextMedia)
      /\ Contexts /\ UNCHANGED <<ctxMutex, fdMutex, running, rtp, app>>

ContextCreated ==
  /\ AtMain("add") /\ main.todo = {}
  /\ ctxMutex' = None
  /\ MainIdle
  /\ Contexts /\ Registry /\ UNCHANGED <<fdMutex, running, rtp, app>>

\* Mutant: RemoveContext does not lock ctx_mutex_.
RemoveContextUnlocked(c) ==
  /\ AtMain("idle") /\ c \in contexts
  /\ main' = [pc |-> "del", call |-> c,
              todo |-> {k \in Media : fds[c][k] # None}]
  /\ Contexts /\ Registry /\ UNCHANGED <<ctxMutex, fdMutex, running, rtp, app>>

\* RemoveContext finds the context and unregisters its descriptors ...
RemoveContext(c) ==
  /\ AtMain("idle") /\ c \in contexts
  /\ ctxMutex = None /\ ctxMutex' = "main"
  /\ main' = [pc |-> "del", call |-> c,
              todo |-> {k \in Media : fds[c][k] # None}]
  /\ Contexts /\ Registry /\ UNCHANGED <<fdMutex, running, rtp, app>>

\* Deleting a descriptor that is not in the interest set fails, and fd_map_ is
\* left as it is.
DelFd ==
  LET f == fds[main.call][NextMedia]
  IN  /\ AtMain("del") /\ main.todo # {}
      /\ fdMutex = None
      /\ epoll' = epoll \ {f}
      /\ fdMap' = IF f \in epoll THEN [fdMap EXCEPT ![f] = None] ELSE fdMap
      /\ MainDoes(NextMedia)
      /\ Contexts
      /\ UNCHANGED <<ctxMutex, fdMutex, running, rtp, app>>

\* ... and destroys it: its sockets are closed, which the kernel's interest
\* set follows.
ContextRemoved ==
  /\ AtMain("del") /\ main.todo = {}
  /\ contexts' = contexts \ {main.call}
  /\ epoll' = epoll \ Descriptors(main.call)
  /\ fds' = [fds EXCEPT ![main.call] = NoFds]
  /\ ctxMutex' = None
  /\ MainIdle
  /\ UNCHANGED <<fdMutex, fdMap, running, rtp, app>>

\* Mutant: Stop waits for the rtp thread with ctx_mutex_ held.
StopHoldingLock ==
  /\ AtMain("idle")
  /\ ctxMutex = None /\ ctxMutex' = "main"
  /\ running' = FALSE
  /\ MainTo("join")
  /\ Contexts /\ Registry /\ UNCHANGED <<fdMutex, rtp, app>>

\* Stop: the loop is told to end and the rtp thread joined; then the contexts
\* go without ctx_mutex_ and without DelFd, whatever the application is doing.
\* A sender that is inside one goes on with what is left of it.
Stop ==
  /\ AtMain("idle")
  /\ running' = FALSE
  /\ MainTo("join")
  /\ Contexts /\ Registry /\ UNCHANGED <<ctxMutex, fdMutex, rtp, app>>

Joined ==
  /\ AtMain("join") /\ AtRtp("ended")
  /\ contexts' = {} /\ fds' = [c \in Call |-> NoFds]
  /\ epoll' = {}
  /\ MainTo("stopped")
  /\ UNCHANGED <<ctxMutex, fdMutex, fdMap, running, rtp, app>>

\* Start of a stopped server: a new rtp thread.
Start ==
  /\ AtMain("stopped") /\ MainIdle
  /\ RtpTo("born")
  /\ Contexts /\ Registry /\ UNCHANGED <<ctxMutex, fdMutex, running, app>>

(***************************************************************************)
(* rtp                                                                     *)
(***************************************************************************)
RtpLeaves == Contexts /\ Registry /\ UNCHANGED <<main, app>>

\* RtpEventLoop registers its timer and calls Run, whose first statement sets
\* running_, whatever Stop has done before.
EnterRun ==
  /\ AtRtp("born")
  /\ running' = TRUE
  /\ RtpTo("loop")
  /\ RtpLeaves /\ UNCHANGED <<ctxMutex, fdMutex>>

LeaveRun ==
  /\ AtRtp("loop") /\ ~running
  /\ RtpTo("ended")
  /\ RtpLeaves /\ UNCHANGED <<ctxMutex, fdMutex, running>>

\* epoll_wait fails for good: the loop ends with running_ still set.
EpollFails ==
  /\ AtRtp("loop") /\ running
  /\ RtpTo("ended")
  /\ RtpLeaves /\ UNCHANGED <<ctxMutex, fdMutex, running>>

\* epoll_wait reports some descriptors, or times out after a second.
EpollWait ==
  /\ AtRtp("loop") /\ running
  /\ \E ready \in SUBSET epoll :
       rtp' = [rtp EXCEPT !.pc = "timers", !.ready = ready]
  /\ RtpLeaves /\ UNCHANGED <<ctxMutex, fdMutex, running>>

\* FireTimers: OnRtcpTimer, when it is due, needs ctx_mutex_.
FireTimers ==
  /\ AtRtp("timers")
  /\ RtpTo("dispatch")
  /\ RtpLeaves /\ UNCHANGED <<ctxMutex, fdMutex, running>>

OnRtcpTimer ==
  /\ AtRtp("timers") /\ ctxMutex = None
  /\ RtpTo("dispatch")
  /\ RtpLeaves /\ UNCHANGED <<ctxMutex, fdMutex, running>>

\* Mutant: the callback is copied and runs without fd_mutex_.
DispatchUnlocked ==
  /\ AtRtp("dispatch") /\ fdMutex = None
  /\ \E f \in rtp.ready :
       rtp' = IF fdMap[f] = None
                THEN [rtp EXCEPT !.ready = @ \ {f}]
                ELSE [pc |-> "callback", ready |-> rtp.ready \ {f},
                      fd |-> f, call |-> fdMap[f]]
  /\ RtpLeaves /\ UNCHANGED <<ctxMutex, fdMutex, running>>

\* One event: under fd_mutex_ its callback is looked up by descriptor.
Dispatch ==
  /\ AtRtp("dispatch") /\ fdMutex = None
  /\ \E f \in rtp.ready :
       IF fdMap[f] = None
         THEN /\ rtp' = [rtp EXCEPT !.ready = @ \ {f}]
              /\ UNCHANGED fdMutex
         ELSE /\ rtp' = [pc |-> "callback", ready |-> rtp.ready \ {f},
                         fd |-> f, call |-> fdMap[f]]
              /\ fdMutex' = "rtp"
  /\ RtpLeaves /\ UNCHANGED <<ctxMutex, running>>

\* Mutant: the callback does without ctx_mutex_.
EnterCallbackUnlocked ==
  /\ AtRtp("callback")
  /\ IF rtp.call \in contexts
       THEN RtpTo("inside") /\ UNCHANGED <<ctxMutex, fdMutex>>
       ELSE NextEvent /\ fdMutex' = None /\ UNCHANGED ctxMutex
  /\ RtpLeaves /\ UNCHANGED running

\* The callback takes ctx_mutex_ with fd_mutex_ held and looks for its call.
EnterCallback ==
  /\ AtRtp("callback") /\ ctxMutex = None
  /\ IF rtp.call \in contexts
       THEN RtpTo("inside") /\ ctxMutex' = "rtp" /\ UNCHANGED fdMutex
       ELSE NextEvent /\ fdMutex' = None /\ UNCHANGED ctxMutex
  /\ RtpLeaves /\ UNCHANGED running

\* ReceivePacket, Insert, Extract and OnRtpData are done.
LeaveCallback ==
  /\ AtRtp("inside")
  /\ ctxMutex' = None /\ fdMutex' = None
  /\ NextEvent
  /\ RtpLeaves /\ UNCHANGED running

BatchDone ==
  /\ AtRtp("dispatch") /\ rtp.ready = {}
  /\ RtpTo("loop")
  /\ RtpLeaves /\ UNCHANGED <<ctxMutex, fdMutex, running>>

(***************************************************************************)
(* app                                                                     *)
(***************************************************************************)
AppLeaves == Contexts /\ Registry /\ UNCHANGED <<fdMutex, running, main, rtp>>

\* SendAudioFrame and SendVideoFrame work on the context under ctx_mutex_.
SendFrame(c) ==
  /\ app.pc = "idle"
  /\ ctxMutex = None /\ c \in contexts
  /\ ctxMutex' = "app"
  /\ app' = [pc |-> "sending", call |-> c]
  /\ AppLeaves

FrameSent ==
  /\ app.pc = "sending"
  /\ ctxMutex' = None
  /\ app' = [pc |-> "idle", call |-> None]
  /\ AppLeaves

\* GetCallInfo returns a pointer into the context and unlocks.
GetCallInfo(c) ==
  /\ app.pc = "idle"
  /\ ctxMutex = None /\ c \in contexts
  /\ app' = [pc |-> "reading", call |-> c]
  /\ AppLeaves /\ UNCHANGED ctxMutex

InfoRead ==
  /\ app.pc = "reading"
  /\ app' = [pc |-> "idle", call |-> None]
  /\ AppLeaves /\ UNCHANGED ctxMutex

(***************************************************************************)
(* Specification                                                           *)
(***************************************************************************)
MainNext ==
  \/ \E c \in Call : CreateContext(c) \/ RemoveContext(c)
  \/ AddFd \/ ContextCreated
  \/ DelFd \/ ContextRemoved
  \/ Stop \/ Joined

RtpNext ==
  \/ EnterRun \/ LeaveRun
  \/ EpollFails \/ EpollWait \/ FireTimers \/ OnRtcpTimer
  \/ Dispatch \/ EnterCallback \/ LeaveCallback \/ BatchDone

AppNext ==
  \/ \E c \in Call : SendFrame(c) \/ GetCallInfo(c)
  \/ FrameSent \/ InfoRead

ThreadsNext == MainNext \/ Start \/ RtpNext \/ AppNext

ThreadsSpec == ThreadsInit /\ [][ThreadsNext]_threadVars

\* The operating system runs every thread that can run, a thread of the
\* application leaves the calls it made, and it does not take ctx_mutex_ away
\* for ever from a receive callback that waits for it.
FairThreadsSpec ==
  /\ ThreadsSpec
  /\ WF_threadVars(MainNext)
  /\ WF_threadVars(RtpNext)
  /\ SF_threadVars(EnterCallback)
  /\ WF_threadVars(FrameSent \/ InfoRead)

(***************************************************************************)
(* Properties                                                              *)
(***************************************************************************)
\* Locks are held by threads, threads are at lines they have, and every map
\* holds values of its type.
ThreadsTypeOK ==
  /\ ctxMutex \in {None, "main", "rtp", "app"}
  /\ fdMutex \in {None, "rtp"}
  /\ contexts \subseteq Call
  /\ fds \in [Call -> [Media -> Fd \cup {None}]]
  /\ epoll \subseteq Fd
  /\ fdMap \in [Fd -> Call \cup {None}]
  /\ running \in BOOLEAN
  /\ main \in [pc : {"idle", "add", "del", "join", "stopped"},
               call : Call \cup {None}, todo : SUBSET Media]
  /\ rtp \in [pc : {"born", "loop", "timers", "dispatch", "callback", "inside",
                    "ended"},
              ready : SUBSET Fd, fd : Fd \cup {None}, call : Call \cup {None}]
  /\ app \in [pc : {"idle", "sending", "reading"}, call : Call \cup {None}]

\* A receive callback works on a context that stays alive until it returns,
\* and on the one its descriptor belongs to, even when the event was reported
\* before the context was removed and its descriptor number given to another
\* call.
CallbackSeesItsContext ==
  AtRtp("inside") =>
    /\ rtp.call \in contexts
    /\ \E k \in Media : fds[rtp.call][k] = rtp.fd
    /\ ctxMutex = "rtp"

\* Until Stop, a frame is sent through a context that nobody else changes, in
\* a table nobody else changes: SendAudioFrame and SendVideoFrame hold
\* ctx_mutex_ against the creation and the removal of contexts.
SendersUndisturbed ==
  [][app.pc = "sending" =>
       UNCHANGED <<contexts, fds>> \/ (AtMain("join") /\ AtMain("stopped")')]_threadVars

\* The kernel watches descriptors of live contexts only, and fd_map_ sends the
\* events of each to its owner: when the registration of another socket has
\* failed, and although Stop leaves callbacks behind whose descriptors come
\* back after a restart.
RegistrationMatches ==
  \A f \in epoll : fdMap[f] \in contexts /\ f \in Descriptors(fdMap[f])

\* WORKFLOW.md: thread-safe management of call contexts.  The main thread,
\* holding ctx_mutex_, and the rtp thread, holding fd_mutex_, never wait for
\* each other.
NoDeadlyEmbrace ==
  ~ /\ main.pc \in {"add", "del"} /\ main.todo # {} /\ ctxMutex = "main"
    /\ AtRtp("callback") /\ fdMutex = "rtp"

\* "Blocking epoll loop (runs until Stop() is called)": a Stop that finds the
\* rtp thread inside Run returns, whatever callback that thread is in and
\* whichever mutex it still has to take.
StopReturns ==
  AtMain("join") /\ ~running /\ ~AtRtp("born") ~> AtMain("stopped")

(***************************************************************************)
(* The contexts as CallContexts specifies them: one that main is creating  *)
(* is not there yet, one it is removing is there until the end; the rtp    *)
(* thread works on one inside a receive callback.  The application is not  *)
(* among the users: Stop does not wait for it.                             *)
(***************************************************************************)
Visible == contexts \ (IF AtMain("add") THEN {main.call} ELSE {})

Store == INSTANCE CallContexts
  WITH User <- {"rtp"}, Nobody <- None, Nothing <- NoFds,
       open <- Visible,
       holds <- [c \in Call |-> IF c \in Visible THEN fds[c] ELSE NoFds],
       inside <- [u \in {"rtp"} |-> IF AtRtp("inside") THEN rtp.call ELSE None]

\* WORKFLOW.md: thread-safe management of call contexts.  To the receive
\* callbacks contexts appear and disappear in one step, never while in use,
\* and hold the same sockets for life; each use ends.
ContextsAreAtomic == Store!FairContextsSpec

=============================================================================
