------------------------- MODULE MediaThreadsProofs -------------------------
(***************************************************************************)
(* The threads of a running server, for any number of calls and            *)
(* descriptors: receive callbacks work on live contexts of their own, and  *)
(* contexts are to them what CallContexts says; a sender is alone with the *)
(* contexts until Stop.                                                    *)
(***************************************************************************)
EXTENDS MediaThreads, TLAPS

\* Who holds a mutex is at one of the lines that hold it.
LocksOK ==
  /\ ctxMutex = "main" <=> main.pc \in {"add", "del"}
  /\ ctxMutex = "rtp" <=> rtp.pc = "inside"
  /\ ctxMutex = "app" <=> app.pc = "sending"
  /\ fdMutex = "rtp" <=> rtp.pc \in {"callback", "inside"}

\* The descriptor may be in the interest set: its context is there, and main,
\* if it works on that context, has tried to register it or has not yet deleted
\* it.
Live(c, k) ==
  /\ c \in contexts /\ fds[c][k] # None
  /\ AtMain("add") /\ c = main.call => k \notin main.todo
  /\ AtMain("del") /\ c = main.call => k \in main.todo

\* main works on a context that is there, on descriptors that are open.
MainOK ==
  /\ main.pc \in {"add", "del"} =>
       /\ main.call \in contexts
       /\ \A k \in main.todo : fds[main.call][k] # None
  /\ main.pc = "stopped" => contexts = {} /\ rtp.pc = "ended"

\* A descriptor belongs to one context, and to one of its sockets.
OwnersOK ==
  /\ \A c \in Call \ contexts : fds[c] = NoFds
  /\ \A c, d \in Call, k, l \in Media :
       fds[c][k] = fds[d][l] /\ fds[c][k] # None => c = d /\ k = l

\* What the kernel watches is live, and fd_map_ knows whose it is.
RegistryOK ==
  \A f \in epoll : \E k \in Media : Live(fdMap[f], k) /\ fds[fdMap[f]][k] = f

\* The events still to be dispatched: the descriptor of each is still watched,
\* or fd_map_ drops the event; the one a callback runs for stays watched.
RtpOK ==
  /\ rtp.pc \in {"timers", "dispatch", "callback", "inside"} =>
       \A f \in rtp.ready : fdMap[f] # None => f \in epoll
  /\ rtp.pc \in {"callback", "inside"} =>
       rtp.fd \in epoll /\ fdMap[rtp.fd] = rtp.call

\* None of these holds by itself: that fd_map_ is right needs the locks, the
\* callback needs fd_map_ to be right when its descriptor is used again, and
\* the locks need the lines.
ThreadsInv ==
  ThreadsTypeOK /\ LocksOK /\ MainOK /\ OwnersOK /\ RegistryOK /\ RtpOK

LEMMA ThreadsInitInv == ThreadsInit => ThreadsInv
  <1> SUFFICES ASSUME ThreadsInit PROVE ThreadsInv
    OBVIOUS
  <1> USE ThreadsAssumption DEF ThreadsInit, AtMain, Media, NoFds, MainIdle
  <1>1. ThreadsTypeOK
    BY DEF ThreadsTypeOK
  <1>2. LocksOK /\ MainOK /\ RtpOK
    BY DEF LocksOK, MainOK, RtpOK
  <1>3. OwnersOK
    BY DEF OwnersOK
  <1>4. RegistryOK
    BY DEF RegistryOK, Live
  <1> QED  BY <1>1, <1>2, <1>3, <1>4 DEF ThreadsInv

(***************************************************************************)
(* The steps of the application and of the rtp thread change neither the   *)
(* contexts nor what the kernel and fd_map_ know of them.                  *)
(***************************************************************************)
\* Those parts of the invariant speak of main, contexts and registrations.
LEMMA UntouchedContexts ==
  ASSUME ThreadsInv, UNCHANGED <<contexts, fds, epoll, fdMap, main>>
  PROVE  OwnersOK' /\ RegistryOK'
  BY DEF ThreadsInv, OwnersOK, RegistryOK, Live, AtMain

\* The steps of the application.
LEMMA AppStep ==
  ASSUME ThreadsInv, AppNext
  PROVE  ThreadsInv'
  <1> USE ThreadsAssumption
      DEF ThreadsInv, ThreadsTypeOK, LocksOK, MainOK, RtpOK, AtMain,
          AppLeaves, Contexts, Registry, registryVars
  <1>1. OwnersOK' /\ RegistryOK'
    BY UntouchedContexts DEF AppNext, SendFrame, GetCallInfo, FrameSent, InfoRead
  <1>2. ASSUME NEW c \in Call, SendFrame(c) PROVE ThreadsInv'
    BY <1>1, <1>2 DEF SendFrame
  <1>3. ASSUME NEW c \in Call, GetCallInfo(c) PROVE ThreadsInv'
    BY <1>1, <1>3 DEF GetCallInfo
  <1>4. CASE FrameSent
    BY <1>1, <1>4 DEF FrameSent
  <1>5. CASE InfoRead
    BY <1>1, <1>5 DEF InfoRead
  <1> QED  BY <1>2, <1>3, <1>4, <1>5 DEF AppNext

\* The steps of the rtp thread.
LEMMA RtpStep ==
  ASSUME ThreadsInv, RtpNext
  PROVE  ThreadsInv'
  <1> USE ThreadsAssumption
      DEF ThreadsInv, ThreadsTypeOK, LocksOK, MainOK, RtpOK, AtMain,
          AtRtp, RtpTo, NextEvent, RtpLeaves, Contexts, Registry, registryVars
  <1>1. OwnersOK' /\ RegistryOK'
    BY UntouchedContexts
       DEF RtpNext, EnterRun, LeaveRun, EpollFails, EpollWait, FireTimers,
           OnRtcpTimer, Dispatch, EnterCallback, LeaveCallback, BatchDone
  <1>2. CASE EnterRun \/ LeaveRun \/ EpollFails
    <2>1. rtp.pc \in {"born", "loop"} /\ rtp'.pc \in {"loop", "ended"}
      BY <1>2 DEF EnterRun, LeaveRun, EpollFails
    <2>2. UNCHANGED <<ctxMutex, fdMutex, contexts, fds, epoll, fdMap, main, app>>
      BY <1>2 DEF EnterRun, LeaveRun, EpollFails
    <2>3. rtp' = [rtp EXCEPT !.pc = rtp'.pc] /\ running' \in BOOLEAN
      BY <1>2 DEF EnterRun, LeaveRun, EpollFails
    <2>4. AtMain("stopped") => rtp'.pc = "ended"
      BY <1>2 DEF EnterRun, LeaveRun, EpollFails
    <2> HIDE DEF RtpTo
    <2> QED  BY <1>1, <2>1, <2>2, <2>3, <2>4
  <1>3. CASE EpollWait
    <2>1. PICK ready \in SUBSET epoll :
            rtp' = [rtp EXCEPT !.pc = "timers", !.ready = ready]
      BY <1>3 DEF EpollWait
    <2>2. rtp'.pc = "timers" /\ rtp'.ready = ready
      BY <2>1
    <2> QED  BY <1>1, <1>3, <2>1, <2>2 DEF EpollWait
  <1>4. CASE FireTimers \/ OnRtcpTimer
    BY <1>1, <1>4 DEF FireTimers, OnRtcpTimer
  <1>5. CASE Dispatch
    <2>1. PICK f \in rtp.ready :
            IF fdMap[f] = None
              THEN /\ rtp' = [rtp EXCEPT !.ready = @ \ {f}]
                   /\ UNCHANGED fdMutex
              ELSE /\ rtp' = [pc |-> "callback", ready |-> rtp.ready \ {f},
                              fd |-> f, call |-> fdMap[f]]
                   /\ fdMutex' = "rtp"
      BY <1>5 DEF Dispatch
    <2>2. CASE fdMap[f] = None
      BY <1>1, <1>5, <2>1, <2>2 DEF Dispatch
    <2>3. CASE fdMap[f] # None
      <3>1. f \in Fd /\ fdMap[f] \in Call /\ f \in epoll
        BY <1>5, <2>3 DEF Dispatch
      <3> QED  BY <1>1, <1>5, <2>1, <2>3, <3>1 DEF Dispatch
    <2> QED  BY <2>2, <2>3
  <1>6. CASE EnterCallback
    BY <1>1, <1>6 DEF EnterCallback
  <1>7. CASE LeaveCallback \/ BatchDone
    BY <1>1, <1>7 DEF LeaveCallback, BatchDone
  <1> QED  BY <1>2, <1>3, <1>4, <1>5, <1>6, <1>7 DEF RtpNext

(***************************************************************************)
(* The steps of main                                                       *)
(***************************************************************************)
\* The callbacks look at what these steps leave alone.
LEMMA UntouchedCallbacks ==
  ASSUME ThreadsInv, UNCHANGED <<epoll, fdMap, rtp>>
  PROVE  RtpOK'
  BY DEF ThreadsInv, RtpOK

\* What the kernel watches stays so if the descriptors stay with their calls
\* and stay live.
LEMMA StillLive ==
  ASSUME ThreadsInv, UNCHANGED <<epoll, fdMap>>,
         \A d \in Call, k \in Media :
           Live(d, k) => Live(d, k)' /\ fds'[d][k] = fds[d][k]
  PROVE  RegistryOK'
  <1> SUFFICES ASSUME NEW f \in epoll
               PROVE  \E k \in Media : Live(fdMap[f], k)' /\ fds'[fdMap[f]][k] = f
    BY DEF RegistryOK
  <1>1. PICK k \in Media : Live(fdMap[f], k) /\ fds[fdMap[f]][k] = f
    BY DEF ThreadsInv, RegistryOK
  <1>2. fdMap[f] \in Call
    BY <1>1 DEF Live, ThreadsInv, ThreadsTypeOK
  <1> QED  BY <1>1, <1>2

\* A new context has descriptors nobody owns, and none is registered yet.
LEMMA CreateContextStep ==
  ASSUME ThreadsInv, NEW c \in Call, CreateContext(c)
  PROVE  ThreadsInv'
  <1> USE ThreadsAssumption
      DEF ThreadsInv, ThreadsTypeOK, AtMain, Registry, registryVars
  <1> PICK a \in NewFd(Open), v \in Fd \cup {None} :
        /\ v \in NewFd(Open \cup {a})
        /\ fds' = [fds EXCEPT ![c] = [k \in Media |-> IF k = "audio" THEN a ELSE v]]
        /\ main' = [pc |-> "add", call |-> c,
                    todo |-> {k \in Media : fds'[c][k] # None}]
    BY DEF CreateContext, NewFd
  <1>1. /\ c \notin contexts /\ contexts' = contexts \cup {c}
        /\ main.pc = "idle" /\ ctxMutex = None /\ ctxMutex' = "main"
        /\ UNCHANGED <<epoll, fdMap, fdMutex, running, rtp, app>>
    BY DEF CreateContext
  <1>2. /\ a \in Fd \cup {None} /\ v \in Fd \cup {None}
        /\ fds'[c] = [k \in Media |-> IF k = "audio" THEN a ELSE v]
        /\ \A d \in Call \ {c} : fds'[d] = fds[d]
        /\ fds' \in [Call -> [Media -> Fd \cup {None}]]
    BY DEF NewFd
  <1>3. ThreadsTypeOK'
    BY <1>1, <1>2
  <1>4. LocksOK' /\ MainOK'
    BY <1>1, <1>2 DEF LocksOK, MainOK
  \* The kernel hands out descriptors that are not open.
  <1>5. /\ \A d \in contexts, k \in Media :
             fds[d][k] # None => fds[d][k] # a /\ fds[d][k] # v
        /\ a # None => a # v
    <2>1. ASSUME NEW d \in contexts, NEW k \in Media, fds[d][k] # None
          PROVE  fds[d][k] \in Open
      BY <2>1 DEF Open, Descriptors
    <2> QED  BY <2>1, <1>2 DEF NewFd
  <1>6. OwnersOK'
    <2>1. \A d \in Call \ contexts', k \in Media : fds'[d] = NoFds
      BY <1>1, <1>2 DEF OwnersOK
    <2>2. ASSUME NEW d \in Call, NEW e \in Call, NEW k \in Media, NEW l \in Media,
                 fds'[d][k] = fds'[e][l], fds'[d][k] # None
          PROVE  d = e /\ k = l
      <3>1. \A x \in Call \ {c}, m \in Media : fds'[x][m] # None => x \in contexts
        BY <1>2 DEF OwnersOK, NoFds
      <3>2. CASE d = c /\ e = c
        BY <1>2, <1>5, <2>2, <3>2 DEF Media
      <3>3. CASE d = c /\ e # c
        BY <1>2, <1>5, <2>2, <3>1, <3>3
      <3>4. CASE d # c /\ e = c
        BY <1>2, <1>5, <2>2, <3>1, <3>4
      <3>5. CASE d # c /\ e # c
        BY <1>2, <2>2, <3>5 DEF OwnersOK
      <3> QED  BY <3>2, <3>3, <3>4, <3>5
    <2> QED  BY <2>1, <2>2 DEF OwnersOK, Media
  <1>7. RegistryOK'
    <2>1. \A d \in Call, k \in Media : Live(d, k) => d # c
      BY <1>1 DEF Live
    <2>2. \A d \in Call, k \in Media :
            Live(d, k) => Live(d, k)' /\ fds'[d][k] = fds[d][k]
      BY <1>1, <1>2, <2>1 DEF Live
    <2> QED  BY <1>1, <2>2, StillLive
  <1>8. RtpOK'
    BY <1>1, UntouchedCallbacks
  <1> QED  BY <1>3, <1>4, <1>6, <1>7, <1>8 DEF ThreadsInv

\* The next descriptor is one of those still to do.
LEMMA NextMediaTodo ==
  ASSUME ThreadsInv, main.todo # {}
  PROVE  NextMedia \in main.todo /\ NextMedia \in Media
  BY DEF ThreadsInv, ThreadsTypeOK, NextMedia, Media

\* The kernel and fd_map_ learn of one descriptor more, or the kernel refuses.
LEMMA AddFdStep ==
  ASSUME ThreadsInv, AddFd
  PROVE  ThreadsInv'
  <1> USE ThreadsAssumption
      DEF ThreadsInv, ThreadsTypeOK, AtMain, Contexts
  <1>1. PICK c \in Call, m \in Media, f \in Fd :
          /\ c = main.call /\ m = NextMedia /\ f = fds[c][m]
          /\ c \in contexts /\ m \in main.todo
    <2>1. NextMedia \in main.todo /\ NextMedia \in Media
      BY NextMediaTodo DEF AddFd
    <2> QED  BY <2>1 DEF AddFd, MainOK
  <1>2. /\ main.pc = "add" /\ main' = [main EXCEPT !.todo = @ \ {m}]
        /\ fdMutex = None
        /\ UNCHANGED <<contexts, fds, ctxMutex, fdMutex, running, rtp, app>>
        /\ \/ epoll' = epoll \cup {f} /\ fdMap' = [fdMap EXCEPT ![f] = c]
           \/ UNCHANGED <<epoll, fdMap>>
    BY <1>1 DEF AddFd, MainDoes, Registry, registryVars
  <1>3. LocksOK' /\ MainOK' /\ OwnersOK'
    BY <1>2 DEF LocksOK, MainOK, OwnersOK
  <1>4. \A d \in Call, k \in Media : Live(d, k) => Live(d, k)'
    BY <1>2 DEF Live
  <1>5. Live(c, m)'
    BY <1>1, <1>2 DEF Live
  <1>6. CASE epoll' = epoll \cup {f} /\ fdMap' = [fdMap EXCEPT ![f] = c]
    <2>1. ThreadsTypeOK'
      BY <1>2, <1>6
    <2>2. RegistryOK'
      <3> SUFFICES ASSUME NEW g \in epoll'
                   PROVE  \E k \in Media : Live(fdMap[g], k)' /\ fds'[fdMap'[g]][k] = g
        BY DEF RegistryOK
      <3>1. CASE g = f
        <4>1. fdMap'[g] = c /\ fds'[c][m] = g
          BY <1>1, <1>2, <1>6, <3>1
        <4> QED  BY <1>5, <4>1 DEF Live
      <3>2. CASE g # f
        <4>1. g \in epoll /\ fdMap'[g] = fdMap[g]
          BY <1>6, <3>2
        <4>2. PICK k \in Media : Live(fdMap[g], k) /\ fds[fdMap[g]][k] = g
          BY <4>1 DEF RegistryOK
        <4>3. fdMap[g] \in Call
          BY <4>2 DEF Live
        <4>4. Live(fdMap[g], k)'
          BY <1>2, <4>1, <4>2 DEF Live
        <4> QED  BY <1>2, <4>1, <4>2, <4>4 DEF Live
      <3> QED  BY <3>1, <3>2
    <2>3. RtpOK'
      <3>1. rtp.pc \notin {"callback", "inside"}
        BY <1>2 DEF LocksOK
      <3> QED  BY <1>2, <1>6, <3>1 DEF RtpOK
    <2> QED  BY <1>3, <2>1, <2>2, <2>3 DEF ThreadsInv
  <1>7. CASE UNCHANGED <<epoll, fdMap>>
    <2>1. ThreadsTypeOK'
      BY <1>2, <1>7
    <2>2. RegistryOK' /\ RtpOK'
      BY <1>2, <1>4, <1>7, StillLive, UntouchedCallbacks
    <2> QED  BY <1>3, <2>1, <2>2 DEF ThreadsInv
  <1> QED  BY <1>2, <1>6, <1>7

\* Creation ends, removal begins, or Stop comes: nothing is
\* registered or unregistered, and what was live stays so.
LEMMA MainMovesStep ==
  ASSUME ThreadsInv, NEW c,
         ContextCreated \/ RemoveContext(c) \/ Stop
  PROVE  ThreadsInv'
  <1> USE ThreadsAssumption
      DEF ThreadsInv, ThreadsTypeOK, AtMain, MainTo, MainIdle, Contexts,
          Registry, registryVars
  <1>1. UNCHANGED <<contexts, fds, epoll, fdMap, fdMutex, rtp, app>>
    BY DEF ContextCreated, RemoveContext, Stop
  <1>2. ThreadsTypeOK' /\ LocksOK' /\ MainOK'
    <2>1. CASE ContextCreated
      BY <2>1 DEF ContextCreated, LocksOK, MainOK
    <2>2. CASE RemoveContext(c)
      BY <2>2 DEF RemoveContext, LocksOK, MainOK
    <2>3. CASE Stop
      BY <2>3 DEF Stop, LocksOK, MainOK
    <2> QED  BY <2>1, <2>2, <2>3
  <1>3. OwnersOK' /\ RtpOK'
    BY <1>1, UntouchedCallbacks DEF OwnersOK
  <1>4. \A d \in Call, k \in Media : Live(d, k) => Live(d, k)'
    BY <1>1 DEF ContextCreated, RemoveContext, Stop, Live
  <1>5. RegistryOK'
    BY <1>1, <1>4, StillLive
  <1> QED  BY <1>2, <1>3, <1>5 DEF ThreadsInv

\* A descriptor of the context leaves the interest set and fd_map_.
LEMMA DelFdStep ==
  ASSUME ThreadsInv, DelFd
  PROVE  ThreadsInv'
  <1> USE ThreadsAssumption
      DEF ThreadsInv, ThreadsTypeOK, AtMain, Contexts
  <1>1. PICK c \in Call, m \in Media, f \in Fd :
          /\ c = main.call /\ m = NextMedia /\ f = fds[c][m]
          /\ c \in contexts /\ m \in main.todo
    <2>1. NextMedia \in main.todo /\ NextMedia \in Media
      BY NextMediaTodo DEF DelFd
    <2> QED  BY <2>1 DEF DelFd, MainOK
  <1>2. /\ main.pc = "del" /\ main' = [main EXCEPT !.todo = @ \ {m}]
        /\ fdMutex = None /\ epoll' = epoll \ {f}
        /\ fdMap' = IF f \in epoll THEN [fdMap EXCEPT ![f] = None] ELSE fdMap
        /\ UNCHANGED <<contexts, fds, ctxMutex, fdMutex, running, rtp, app>>
    BY <1>1 DEF DelFd, MainDoes
  <1>3. ThreadsTypeOK'
    BY <1>2
  <1>4. LocksOK' /\ MainOK' /\ OwnersOK'
    BY <1>2 DEF LocksOK, MainOK, OwnersOK
  <1>5. RegistryOK'
    <2> SUFFICES ASSUME NEW g \in epoll'
                 PROVE  \E k \in Media : Live(fdMap[g], k)' /\ fds'[fdMap'[g]][k] = g
      BY DEF RegistryOK
    <2>1. g \in epoll /\ g # f /\ fdMap'[g] = fdMap[g]
      BY <1>2
    <2>2. PICK k \in Media : Live(fdMap[g], k) /\ fds[fdMap[g]][k] = g
      BY <2>1 DEF RegistryOK
    <2>3. Live(fdMap[g], k)'
      BY <1>1, <1>2, <2>1, <2>2 DEF Live
    <2> QED  BY <1>2, <2>1, <2>2, <2>3 DEF Live
  <1>6. RtpOK'
    <2>1. \A g \in Fd : (fdMap[g] # None => g \in epoll) =>
                          (fdMap'[g] # None => g \in epoll')
      BY <1>2
    <2>2. rtp.pc \notin {"callback", "inside"}
      BY <1>2 DEF LocksOK
    <2> QED  BY <1>2, <2>1, <2>2 DEF RtpOK
  <1> QED  BY <1>3, <1>4, <1>5, <1>6 DEF ThreadsInv

\* The context goes with descriptors that the kernel no longer watches, so
\* that no event still to be dispatched is its own.
LEMMA ContextRemovedStep ==
  ASSUME ThreadsInv, ContextRemoved
  PROVE  ThreadsInv'
  <1> USE ThreadsAssumption
      DEF ThreadsInv, ThreadsTypeOK, AtMain, MainIdle
  <1> DEFINE c == main.call
  <1>1. /\ main.pc = "del" /\ main.todo = {} /\ contexts' = contexts \ {c}
        /\ epoll' = epoll \ Descriptors(c)
        /\ fds' = [fds EXCEPT ![c] = NoFds] /\ ctxMutex' = None
        /\ main' = [pc |-> "idle", call |-> None, todo |-> {}]
        /\ UNCHANGED <<fdMutex, fdMap, running, rtp, app>>
    BY DEF ContextRemoved
  <1>2. c \in contexts /\ c \in Call /\ ctxMutex = "main"
    BY <1>1 DEF MainOK, LocksOK
  <1>3. \A d \in Call, k \in Media :
          Live(d, k) => d # c /\ Live(d, k)' /\ fds'[d][k] = fds[d][k]
    BY <1>1, <1>2 DEF Live
  <1> HIDE DEF c
  <1>4. NoFds \in [Media -> Fd \cup {None}] /\ \A k \in Media : NoFds[k] = None
    BY DEF NoFds
  <1>5. epoll' = epoll
    <2> SUFFICES ASSUME NEW f \in epoll, f \in Descriptors(c) PROVE FALSE
      BY <1>1
    <2>1. PICK k \in Media : Live(fdMap[f], k) /\ fds[fdMap[f]][k] = f
      BY DEF RegistryOK
    <2>2. fdMap[f] \in Call /\ fdMap[f] # c
      BY <1>3, <2>1 DEF Live
    <2>3. PICK l \in Media : fds[c][l] = f
      BY DEF Descriptors
    <2>4. f # None
      OBVIOUS
    <2> QED  BY <1>2, <2>1, <2>2, <2>3, <2>4 DEF OwnersOK
  <1>6. ThreadsTypeOK'
    BY <1>1, <1>2, <1>4
  <1>7. LocksOK' /\ MainOK'
    BY <1>1, <1>2 DEF LocksOK, MainOK
  <1>8. OwnersOK'
    BY <1>1, <1>2, <1>4 DEF OwnersOK
  <1>9. RegistryOK' /\ RtpOK'
    BY <1>1, <1>3, <1>5, StillLive, UntouchedCallbacks
  <1> QED  BY <1>6, <1>7, <1>8, <1>9 DEF ThreadsInv

\* No callback uses the contexts that Stop clears.
LEMMA JoinedStep ==
  ASSUME ThreadsInv, Joined
  PROVE  ThreadsInv'
  <1> USE ThreadsAssumption
      DEF ThreadsInv, ThreadsTypeOK, AtMain, AtRtp, MainTo
  <1>1. /\ rtp.pc = "ended" /\ contexts' = {}
        /\ fds' = [c \in Call |-> NoFds] /\ epoll' = {}
        /\ main' = [main EXCEPT !.pc = "stopped"] /\ main.pc = "join"
        /\ UNCHANGED <<ctxMutex, fdMutex, fdMap, running, rtp, app>>
    BY DEF Joined
  <1>2. NoFds \in [Media -> Fd \cup {None}] /\ \A k \in Media : NoFds[k] = None
    BY DEF NoFds
  <1>3. ThreadsTypeOK'
    BY <1>1, <1>2
  <1>4. LocksOK' /\ MainOK' /\ RtpOK' /\ RegistryOK'
    BY <1>1 DEF LocksOK, MainOK, RtpOK, RegistryOK
  <1>5. OwnersOK'
    BY <1>1, <1>2 DEF OwnersOK
  <1> QED  BY <1>3, <1>4, <1>5 DEF ThreadsInv

\* The new rtp thread starts with no event; what Stop left in fd_map_ is of
\* no descriptor that is watched.
LEMMA StartStep ==
  ASSUME ThreadsInv, Start
  PROVE  ThreadsInv'
  <1> USE ThreadsAssumption
      DEF ThreadsInv, ThreadsTypeOK, AtMain, MainIdle, RtpTo, Contexts,
          Registry, registryVars
  <1>1. /\ main.pc = "stopped" /\ contexts = {} /\ rtp.pc = "ended"
        /\ main' = [pc |-> "idle", call |-> None, todo |-> {}]
        /\ rtp' = [rtp EXCEPT !.pc = "born"]
        /\ UNCHANGED <<ctxMutex, fdMutex, contexts, fds, epoll, fdMap, running, app>>
    BY DEF Start, MainOK
  <1>2. ThreadsTypeOK' /\ LocksOK' /\ MainOK' /\ RtpOK' /\ OwnersOK'
    BY <1>1 DEF LocksOK, MainOK, RtpOK, OwnersOK
  <1>3. RegistryOK'
    BY <1>1 DEF RegistryOK, Live
  <1> QED  BY <1>2, <1>3 DEF ThreadsInv

\* Every step keeps the invariant.
LEMMA ThreadsInvStep == ThreadsInv /\ [ThreadsNext]_threadVars => ThreadsInv'
  <1> SUFFICES ASSUME ThreadsInv, [ThreadsNext]_threadVars PROVE ThreadsInv'
    OBVIOUS
  <1>1. CASE MainNext
    <2>1. ASSUME NEW c \in Call, CreateContext(c) PROVE ThreadsInv'
      BY <2>1, CreateContextStep
    <2>2. ASSUME NEW c \in Call, RemoveContext(c) PROVE ThreadsInv'
      BY <2>2, MainMovesStep
    <2>3. CASE ContextCreated \/ Stop
      BY <2>3, MainMovesStep
    <2>4. CASE AddFd
      BY <2>4, AddFdStep
    <2>5. CASE DelFd
      BY <2>5, DelFdStep
    <2>6. CASE ContextRemoved
      BY <2>6, ContextRemovedStep
    <2>7. CASE Joined
      BY <2>7, JoinedStep
    <2> QED  BY <1>1, <2>1, <2>2, <2>3, <2>4, <2>5, <2>6, <2>7 DEF MainNext
  <1>2. CASE Start
    BY <1>2, StartStep
  <1>3. CASE RtpNext
    BY <1>3, RtpStep
  <1>4. CASE AppNext
    BY <1>4, AppStep
  <1>5. CASE UNCHANGED threadVars
    BY <1>5 DEF threadVars, registryVars, ThreadsInv, ThreadsTypeOK, LocksOK,
                MainOK, OwnersOK, RegistryOK, RtpOK, Live, AtMain
  <1> QED  BY <1>1, <1>2, <1>3, <1>4, <1>5 DEF ThreadsNext

(***************************************************************************)
(* What the invariant gives                                                *)
(***************************************************************************)
LEMMA ThreadsInvariant == ThreadsSpec => []ThreadsInv
  <1>1. ThreadsInit => ThreadsInv
    BY ThreadsInitInv
  <1>2. ThreadsInv /\ [ThreadsNext]_threadVars => ThreadsInv'
    BY ThreadsInvStep
  <1> QED  BY <1>1, <1>2, PTL DEF ThreadsSpec

\* The state of the threads, the mutexes and the registry has its type, and
\* main registers only descriptors of a context it keeps.
THEOREM ThreadsTypeCorrect == ThreadsSpec => []ThreadsTypeOK
  <1>1. ThreadsInv => ThreadsTypeOK
    BY DEF ThreadsInv
  <1> QED  BY <1>1, ThreadsInvariant, PTL

\* A receive callback works on a context that is there and owns the descriptor
\* the event was reported for, however descriptor numbers are reused, whatever
\* registrations fail and whatever the application does.
THEOREM CallbacksSafe == ThreadsSpec => []CallbackSeesItsContext
  <1>1. ThreadsInv => CallbackSeesItsContext
    <2> SUFFICES ASSUME ThreadsInv, AtRtp("inside") PROVE CallbackSeesItsContext
      BY DEF CallbackSeesItsContext
    <2>1. rtp.fd \in epoll /\ fdMap[rtp.fd] = rtp.call /\ ctxMutex = "rtp"
      BY DEF ThreadsInv, RtpOK, LocksOK, AtRtp
    <2>2. PICK k \in Media : Live(rtp.call, k) /\ fds[rtp.call][k] = rtp.fd
      BY <2>1 DEF ThreadsInv, RegistryOK
    <2> QED  BY <2>1, <2>2 DEF CallbackSeesItsContext, Live
  <1> QED  BY <1>1, ThreadsInvariant, PTL

\* While a frame is being sent no context comes or goes, except for Stop.
THEOREM SendersAlone == ThreadsSpec => SendersUndisturbed
  <1> DEFINE Alone == app.pc = "sending" =>
                \/ UNCHANGED <<contexts, fds>>
                \/ AtMain("join") /\ AtMain("stopped")'
  <1>1. ThreadsInv /\ [ThreadsNext]_threadVars => [Alone]_threadVars
    <2> SUFFICES ASSUME ThreadsInv, ThreadsNext, app.pc = "sending"
                 PROVE  Alone
      OBVIOUS
    <2>1. ctxMutex # None /\ main.pc \notin {"add", "del"}
      BY ThreadsAssumption DEF ThreadsInv, LocksOK
    <2>2. CASE RtpNext \/ AppNext \/ Start
      BY <2>2 DEF RtpNext, EnterRun, LeaveRun, EpollFails, EpollWait, FireTimers,
                  OnRtcpTimer, Dispatch, EnterCallback, LeaveCallback, BatchDone,
                  RtpLeaves, AppNext, SendFrame, GetCallInfo, FrameSent, InfoRead,
                  AppLeaves, Start, Contexts
    <2>3. CASE Joined
      BY <2>3 DEF Joined, MainTo, AtMain, ThreadsInv, ThreadsTypeOK
    <2>4. CASE MainNext /\ ~Joined
      BY <2>1, <2>4 DEF MainNext, CreateContext, RemoveContext, AddFd,
                        ContextCreated, DelFd, ContextRemoved, Stop, AtMain, Contexts
    <2> QED  BY <2>2, <2>3, <2>4 DEF ThreadsNext
  <1> QED  BY <1>1, ThreadsInvariant, PTL DEF ThreadsSpec, SendersUndisturbed

\* The interest set and fd_map_ agree with the contexts at every step, also in
\* the middle of a creation or a removal.
THEOREM RegistrationCorrect == ThreadsSpec => []RegistrationMatches
  <1>1. ThreadsInv => RegistrationMatches
    <2> SUFFICES ASSUME ThreadsInv, NEW f \in epoll
                 PROVE  fdMap[f] \in contexts /\ f \in Descriptors(fdMap[f])
      BY DEF RegistrationMatches
    <2>1. PICK k \in Media : Live(fdMap[f], k) /\ fds[fdMap[f]][k] = f
      BY DEF ThreadsInv, RegistryOK
    <2> QED  BY <2>1 DEF Live, Descriptors
  <1> QED  BY <1>1, ThreadsInvariant, PTL

(***************************************************************************)
(* The threads implement CallContexts                                      *)
(***************************************************************************)
Holding == [c \in Call |-> IF c \in Visible THEN fds[c] ELSE NoFds]

Using == [u \in {"rtp"} |-> IF AtRtp("inside") THEN rtp.call ELSE None]

\* A step of Store.
StoreStep == Store!ContextsNext \/ UNCHANGED Store!contextVars

\* A step that nobody sees.
LEMMA Stutters ==
  ASSUME Visible' = Visible, Holding' = Holding, Using' = Using
  PROVE  StoreStep
  BY DEF StoreStep, Store!contextVars, Holding, Using

LEMMA StoreInit == ThreadsInit => Store!ContextsInit
  <1> SUFFICES ASSUME ThreadsInit PROVE Store!ContextsInit
    OBVIOUS
  <1>1. Visible = {} /\ ~AtRtp("inside")
    BY DEF ThreadsInit, Visible, AtRtp
  <1> HIDE DEF Visible
  <1> QED  BY <1>1 DEF Store!ContextsInit

\* The steps of the application change no context, and it is no user.
LEMMA AppRefines ==
  ASSUME ThreadsInv, AppNext
  PROVE  StoreStep
  <1>1. UNCHANGED <<contexts, fds, main, rtp>>
    BY DEF AppNext, SendFrame, GetCallInfo, FrameSent, InfoRead, AppLeaves, Contexts
  <1>2. Visible' = Visible /\ Holding' = Holding /\ Using' = Using
    BY <1>1 DEF Visible, Holding, Using, AtMain, AtRtp
  <1> QED  BY <1>2, Stutters

\* The rtp thread is inside a context between the two ends of its callback.
LEMMA RtpRefines ==
  ASSUME ThreadsInv, RtpNext
  PROVE  StoreStep
  <1> USE ThreadsAssumption DEF ThreadsInv
  <1>1. Visible' = Visible /\ Holding' = Holding
    BY DEF RtpNext, EnterRun, LeaveRun, EpollFails, EpollWait, FireTimers,
           OnRtcpTimer, Dispatch, EnterCallback, LeaveCallback, BatchDone,
           RtpLeaves, Contexts, Visible, Holding, AtMain
  <1>2. CASE EnterCallback
    <2>1. CASE rtp.call \in contexts
      <3>1. rtp.pc = "callback" /\ rtp'.pc = "inside" /\ rtp'.call = rtp.call
        BY <1>2, <2>1 DEF EnterCallback, RtpTo, AtRtp, ThreadsTypeOK
      <3>2. main.pc \notin {"add", "del"}
        BY <1>2 DEF EnterCallback, LocksOK, ThreadsTypeOK
      <3> PICK c \in Call : c = rtp.call
        BY <2>1 DEF ThreadsTypeOK
      <3>3. /\ c \in Visible /\ Using["rtp"] = None
            /\ Using' = [Using EXCEPT !["rtp"] = c]
        BY <1>1, <2>1, <3>1, <3>2 DEF Using, Visible, AtMain, AtRtp
      <3>4. Store!Enter("rtp", c)
        BY <1>1, <3>3 DEF Store!Enter, Holding, Using
      <3> QED  BY <3>4 DEF StoreStep, Store!ContextsNext
    <2>2. CASE rtp.call \notin contexts
      <3>1. rtp.pc = "callback" /\ rtp'.pc = "dispatch"
        BY <1>2, <2>2 DEF EnterCallback, NextEvent, AtRtp, ThreadsTypeOK
      <3>2. Using' = Using
        BY <1>1, <3>1 DEF Using, AtRtp
      <3> QED  BY <1>1, <3>2, Stutters
    <2> QED  BY <2>1, <2>2
  <1>3. CASE LeaveCallback
    <2>1. rtp.pc = "inside" /\ rtp.call \in Call /\ rtp'.pc = "dispatch"
      BY <1>3 DEF LeaveCallback, NextEvent, AtRtp, RtpOK, RegistryOK, Live,
                     ThreadsTypeOK
    <2>2. Using["rtp"] # None /\ Using' = [Using EXCEPT !["rtp"] = None]
      BY <1>1, <2>1 DEF Using, AtRtp
    <2>3. Store!Leave("rtp")
      BY <1>1, <2>2 DEF Store!Leave, Holding, Using
    <2> QED  BY <2>3 DEF StoreStep, Store!ContextsNext
  <1>4. CASE \/ EnterRun \/ LeaveRun \/ EpollFails \/ EpollWait \/ FireTimers
             \/ OnRtcpTimer \/ Dispatch \/ BatchDone
    <2>1. rtp.pc # "inside" /\ rtp'.pc # "inside"
      <3>1. CASE EpollWait
        BY <3>1 DEF EpollWait, AtRtp, ThreadsTypeOK
      <3>2. CASE Dispatch
        BY <3>2 DEF Dispatch, AtRtp, ThreadsTypeOK
      <3>3. CASE EnterRun \/ LeaveRun \/ EpollFails
        BY <3>3 DEF EnterRun, LeaveRun, EpollFails, RtpTo, AtRtp, ThreadsTypeOK
      <3>4. CASE FireTimers \/ OnRtcpTimer \/ BatchDone
        BY <3>4 DEF FireTimers, OnRtcpTimer, BatchDone, RtpTo, AtRtp, ThreadsTypeOK
      <3> QED  BY <1>4, <3>1, <3>2, <3>3, <3>4
    <2>2. Using' = Using
      BY <1>1, <2>1 DEF Using, AtRtp
    <2> QED  BY <1>1, <2>2, Stutters
  <1> QED  BY <1>2, <1>3, <1>4 DEF RtpNext

\* A context appears when its creation ends and disappears when its removal
\* does, when nobody is inside; Stop removes those that are left.
LEMMA MainRefines ==
  ASSUME ThreadsInv, MainNext \/ Start
  PROVE  StoreStep
  <1> USE ThreadsAssumption DEF ThreadsInv
  <1>1. ASSUME UNCHANGED rtp PROVE Using' = Using
    BY <1>1 DEF Using, AtRtp
  <1>2. ASSUME NEW c \in Call, CreateContext(c) PROVE StoreStep
    <2>1. Visible' = Visible /\ Visible = contexts /\ c \notin contexts
      BY <1>2 DEF CreateContext, Visible, AtMain
    <2>2. \A d \in Call \ {c} : fds'[d] = fds[d]
      BY <1>2 DEF CreateContext, ThreadsTypeOK
    <2>3. Holding' = Holding
      BY <2>1, <2>2 DEF Holding, NoFds, Media
    <2> QED  BY <1>1, <1>2, <2>1, <2>3, Stutters DEF CreateContext
  <1>3. CASE ContextCreated
    <2> PICK c \in Call : c = main.call
      BY <1>3 DEF ContextCreated, MainOK, AtMain, ThreadsTypeOK
    <2>1. /\ c \in contexts /\ main.pc = "add"
          /\ main'.pc = "idle" /\ UNCHANGED <<contexts, fds, rtp>>
      BY <1>3 DEF ContextCreated, MainOK, AtMain, MainIdle, Contexts, ThreadsTypeOK
    <2>2. c \notin Visible /\ Visible' = Visible \cup {c}
      BY <2>1 DEF Visible, AtMain
    <2>3. \A d \in Call \ {c} : Holding'[d] = Holding[d]
      BY <2>1, <2>2 DEF Holding
    <2>4. Store!Create(c)
      BY <1>1, <2>1, <2>2, <2>3 DEF Store!Create, Holding, Using
    <2> QED  BY <2>4 DEF StoreStep, Store!ContextsNext
  <1>4. CASE AddFd \/ DelFd
    <2>1. /\ main'.pc = main.pc /\ main'.call = main.call
          /\ UNCHANGED <<contexts, fds, rtp>>
      BY <1>4 DEF AddFd, DelFd, MainDoes, Contexts, ThreadsTypeOK
    <2>2. Visible' = Visible /\ Holding' = Holding
      BY <2>1 DEF Visible, Holding, AtMain
    <2> QED  BY <1>1, <2>1, <2>2, Stutters
  <1>5. ASSUME NEW c \in Call, RemoveContext(c) PROVE StoreStep
    <2>1. /\ main.pc = "idle" /\ main'.pc = "del"
          /\ UNCHANGED <<contexts, fds, rtp>>
      BY <1>5 DEF RemoveContext, AtMain, Contexts
    <2>2. Visible' = Visible /\ Holding' = Holding
      BY <2>1 DEF Visible, Holding, AtMain
    <2> QED  BY <1>1, <2>1, <2>2, Stutters
  <1>6. CASE ContextRemoved
    <2> PICK c \in Call : c = main.call
      BY <1>6 DEF ContextRemoved, MainOK, AtMain, ThreadsTypeOK
    <2>1. /\ c \in contexts /\ main.pc = "del" /\ main'.pc = "idle"
          /\ contexts' = contexts \ {c} /\ fds' = [fds EXCEPT ![c] = NoFds]
          /\ UNCHANGED rtp
      BY <1>6 DEF ContextRemoved, MainOK, AtMain, MainIdle, ThreadsTypeOK
    <2>2. c \in Visible /\ Visible' = Visible \ {c}
      BY <2>1 DEF Visible, AtMain
    <2>3. Holding' = [d \in Call |-> IF d \in {c} THEN NoFds ELSE Holding[d]]
      BY <2>1, <2>2 DEF Holding, ThreadsTypeOK
    <2>4. \A u \in {"rtp"} : Using[u] \notin {c}
      <3>1. rtp.pc # "inside"
        BY <2>1 DEF LocksOK
      <3> QED  BY <2>1, <3>1 DEF Using, AtRtp
    <2>5. Store!Remove({c})
      BY <1>1, <2>1, <2>2, <2>3, <2>4 DEF Store!Remove, Holding, Using
    <2> QED  BY <2>5 DEF StoreStep, Store!ContextsNext
  <1>7. CASE Joined
    <2>1. /\ contexts' = {} /\ main.pc = "join" /\ main'.pc = "stopped"
          /\ rtp.pc = "ended" /\ UNCHANGED rtp
          /\ fds' = [c \in Call |-> NoFds]
      BY <1>7 DEF Joined, MainTo, AtMain, AtRtp, ThreadsTypeOK
    <2>2. Visible = contexts /\ Visible' = {} /\ contexts \subseteq Call
      BY <2>1 DEF Visible, AtMain, ThreadsTypeOK
    <2>3. Holding' = [c \in Call |-> IF c \in contexts THEN NoFds ELSE Holding[c]]
      BY <2>1, <2>2 DEF Holding
    <2>4. \A u \in {"rtp"} : Using[u] \notin contexts
      BY <2>1, <2>2 DEF Using, AtRtp
    <2>5. CASE contexts = {}
      <3>1. Holding' = Holding
        BY <2>2, <2>3, <2>5 DEF Holding
      <3> QED  BY <1>1, <2>1, <2>2, <2>5, <3>1, Stutters
    <2>6. CASE contexts # {}
      <3> PICK C \in SUBSET Call : C = contexts
        BY <2>2
      <3>1. Store!Remove(C)
        BY <1>1, <2>1, <2>2, <2>3, <2>4, <2>6 DEF Store!Remove, Holding, Using
      <3> QED  BY <3>1 DEF StoreStep, Store!ContextsNext
    <2> QED  BY <2>5, <2>6
  <1>8. CASE Stop \/ Start
    <2>1. main.pc # "add" /\ main'.pc # "add" /\ UNCHANGED <<contexts, fds>>
      BY <1>8 DEF Stop, Start, MainTo, MainIdle, AtMain, Contexts, ThreadsTypeOK
    <2>2. Visible' = Visible /\ Holding' = Holding
      BY <2>1 DEF Visible, Holding, AtMain
    <2>3. Using' = Using
      <3>1. CASE Stop
        BY <1>1, <3>1 DEF Stop
      <3>2. CASE Start
        <4>1. rtp.pc = "ended" /\ rtp'.pc = "born"
          BY <3>2 DEF Start, RtpTo, AtMain, MainOK, ThreadsTypeOK
        <4> QED  BY <2>1, <4>1 DEF Using, AtRtp
      <3> QED  BY <1>8, <3>1, <3>2
    <2> QED  BY <2>2, <2>3, Stutters
  <1> QED  BY <1>2, <1>3, <1>4, <1>5, <1>6, <1>7, <1>8 DEF MainNext

\* Safety of ContextsAreAtomic: the steps of creating and removing a context
\* are to the receive callbacks one step each, taken when none is inside.
THEOREM ThreadsImplementContexts == ThreadsSpec => Store!ContextsSpec
  <1>1. ThreadsInit => Store!ContextsInit
    BY StoreInit
  <1>2. ThreadsInv /\ [ThreadsNext]_threadVars
          => [Store!ContextsNext]_(Store!contextVars)
    <2> SUFFICES ASSUME ThreadsInv, [ThreadsNext]_threadVars
                 PROVE  StoreStep
      BY DEF StoreStep
    <2>1. CASE MainNext \/ Start
      BY <2>1, MainRefines
    <2>2. CASE RtpNext
      BY <2>2, RtpRefines
    <2>3. CASE AppNext
      BY <2>3, AppRefines
    <2>4. CASE UNCHANGED threadVars
      <3>1. UNCHANGED <<contexts, fds, main, rtp>>
        BY <2>4 DEF threadVars
      <3>2. Visible' = Visible /\ Holding' = Holding /\ Using' = Using
        BY <3>1 DEF Visible, Holding, Using, AtMain, AtRtp
      <3> QED  BY <3>2, Stutters
    <2> QED  BY <2>1, <2>2, <2>3, <2>4 DEF ThreadsNext
  <1> QED  BY <1>1, <1>2, ThreadsInvariant, PTL DEF ThreadsSpec, Store!ContextsSpec

=============================================================================
