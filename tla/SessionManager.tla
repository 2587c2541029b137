--------------------------- MODULE SessionManager ---------------------------
(***************************************************************************)
(* SessionManager: starts and stops the server and keeps one CallContext   *)
(* (sockets, jitter buffers, codecs) per established call.  Contexts are   *)
(* created and removed only in OnSipEvent, the callback SipManager runs    *)
(* inside its handlers, so every SIP step of this module is a step of      *)
(* SipManager together with what OnSipEvent does for its notifications.    *)
(* The receive thread is in MediaThreads; here the steps are those of the  *)
(* thread that owns the SipManager, and the periodic RTCP report.          *)
(***************************************************************************)
EXTENDS SipManager, FiniteSets

CONSTANT MaxSessions   \* ServerConfig::max_sessions

ASSUME SessionsAssumption == MaxSessions \in Nat

VARIABLES
  running,     \* Start was called and Stop was not
  cb,          \* whose callback SipManager holds: "none", "user", "session"
  contexts,    \* the keys of contexts_
  ctxRemote,   \* info.remote_rtp_addr of each context, copied at creation
  ports,       \* calls whose SessionInfo has its local ports assigned
  reported     \* contexts an RTCP report was sent for

ctxVars == <<contexts, ctxRemote, ports, reported>>
sessionVars == <<sipVars, running, cb, ctxVars>>

SessionInit ==
  /\ SipInit
  /\ running = FALSE
  /\ cb = "none"
  /\ contexts = {}
  /\ ctxRemote = [c \in CallId |-> NoAddr]
  /\ ports = {}
  /\ reported = {}

(***************************************************************************)
(* Contexts                                                                *)
(***************************************************************************)
\* Mutant: the local ports are not written back to the call.
OnSipEventForgettingPorts ==
  LET opened == {c \in CallId : Opened(c)}
      closed == {c \in CallId : Closed(c)}
      fresh == opened \ contexts
  IN  /\ contexts' = (contexts \cup opened) \ closed
      /\ ctxRemote' = [c \in CallId |->
           CASE c \in fresh -> remote'[c]
             [] c \in closed -> NoAddr
             [] OTHER -> ctxRemote[c]]
      /\ ports' = {c \in ports : state'[c] # "Idle"}
      /\ reported' = reported \ (fresh \cup closed)

\* Mutant: a second kConnected event replaces the context.
OnSipEventReplacing ==
  LET opened == {c \in CallId : Opened(c)}
      closed == {c \in CallId : Closed(c)}
  IN  /\ contexts' = (contexts \cup opened) \ closed
      /\ ctxRemote' = [c \in CallId |->
           CASE c \in opened -> remote'[c]
             [] c \in closed -> NoAddr
             [] OTHER -> ctxRemote[c]]
      /\ ports' = opened \cup {c \in ports : state'[c] # "Idle"}
      /\ reported' = reported \ (opened \cup closed)

\* Mutant: a call beyond the limit gets its ports and no context.
OnSipEventLimited ==
  LET opened == {c \in CallId : Opened(c)}
      closed == {c \in CallId : Closed(c)}
      fresh == IF Cardinality(contexts) < MaxSessions THEN opened \ contexts ELSE {}
  IN  /\ contexts' = (contexts \cup fresh) \ closed
      /\ ctxRemote' = [c \in CallId |->
           CASE c \in fresh -> remote'[c]
             [] c \in closed -> NoAddr
             [] OTHER -> ctxRemote[c]]
      /\ ports' = opened \cup {c \in ports : state'[c] # "Idle"}
      /\ reported' = reported \ (fresh \cup closed)

\* GetOrCreateContext for the calls reported kConnected, RemoveContext for
\* those reported kDisconnected or kFailed.  A new context copies the
\* SessionInfo of its call, an existing one is returned as it is; either way
\* its local ports are written back to the call.
OnSipEvent ==
  LET opened == {c \in CallId : Opened(c)}
      closed == {c \in CallId : Closed(c)}
      fresh == opened \ contexts
  IN  /\ contexts' = (contexts \cup opened) \ closed
      /\ ctxRemote' = [c \in CallId |->
           CASE c \in fresh -> remote'[c]
             [] c \in closed -> NoAddr
             [] OTHER -> ctxRemote[c]]
      /\ ports' = opened \cup {c \in ports : state'[c] # "Idle"}
      /\ reported' = reported \ (fresh \cup closed)

\* Another callback, or none: the contexts do not follow the calls.
OtherCallback ==
  /\ ports' = {c \in ports : state'[c] # "Idle"}
  /\ UNCHANGED <<contexts, ctxRemote, reported>>

Callback == IF cb = "session" THEN OnSipEvent ELSE OtherCallback

(***************************************************************************)
(* Operations                                                              *)
(***************************************************************************)
\* A Start that returns false leaves the callback as it was.
Start ==
  /\ ~running
  /\ \/ Initialize /\ cb' = "session" /\ running' = TRUE
     \/ InitializeFails /\ UNCHANGED <<cb, running>>
  /\ UNCHANGED ctxVars

\* Shutdown may report kUnregistered, which OnSipEvent ignores.
Stop ==
  /\ Shutdown
  /\ running' = FALSE
  /\ contexts' = {}
  /\ ctxRemote' = [c \in CallId |-> NoAddr]
  /\ ports' = {}
  /\ reported' = {}
  /\ UNCHANGED cb

\* Replaces whatever callback SipManager holds, OnSipEvent included.
SetSipEventCallback ==
  /\ cb' = "user"
  /\ Ignore /\ Headers /\ Flags /\ UNCHANGED <<running, ctxVars>>

\* MakeCall of SessionManager: refused when the contexts are at the limit.
SessionMakeCall(c) ==
  /\ running
  /\ Cardinality(contexts) < MaxSessions
  /\ MakeCall(c)
  /\ Callback /\ UNCHANGED <<running, cb>>

\* Any other SIP step; the program drives the SIP layer between Start and
\* Stop only.
SessionSipStep ==
  /\ running
  /\ SipStep
  /\ Callback /\ UNCHANGED <<running, cb>>

\* One report per context that knows its peer's address.
OnRtcpTimer ==
  /\ running
  /\ reported' = reported \cup {c \in contexts : ctxRemote[c] # NoAddr}
  /\ Ignore /\ Headers /\ Flags
  /\ UNCHANGED <<running, cb, contexts, ctxRemote, ports>>

SessionNext ==
  \/ Start
  \/ Stop
  \/ SetSipEventCallback
  \/ \E c \in CallId : SessionMakeCall(c)
  \/ SessionSipStep
  \/ OnRtcpTimer

SessionSpec == SessionInit /\ [][SessionNext]_sessionVars

(***************************************************************************)
(* The contexts of the calls, as CallContexts specifies them: each holds   *)
(* the peer address it copied, and OnRtcpTimer is in and out in one step.  *)
(***************************************************************************)
NoUser == {}

Contexts == INSTANCE CallContexts
  WITH Call <- CallId, User <- NoUser, Nobody <- NoCall, Nothing <- NoAddr,
       open <- contexts, holds <- ctxRemote, inside <- [u \in NoUser |-> NoCall]

\* Whatever SIP brings, in whatever order, contexts are created and removed
\* whole, and the copy of the call information one took at its creation
\* (ctx->info) stays with it: a repeated kConnected finds it as it is.
ContextsKeepTheirInfo == Contexts!ContextsSpec

(***************************************************************************)
(* Properties                                                              *)
(***************************************************************************)
\* Every variable of the session layer, and of the SIP layer under it, holds
\* a value of its type.
SessionTypeOK ==
  /\ SipTypeOK
  /\ running \in BOOLEAN
  /\ cb \in {"none", "user", "session"}
  /\ contexts \subseteq CallId
  /\ ctxRemote \in [CallId -> Addr \cup {NoAddr}]
  /\ ports \subseteq CallId
  /\ reported \subseteq CallId

Serving == running /\ cb = "session"

\* No leak and no orphan: while SessionManager listens to SIP events, and
\* whenever it is stopped, the calls that own sockets, codecs and epoll
\* registrations are exactly the connected and disconnecting ones, whatever
\* the application, the network and the timers did in whatever order.
ContextsTrackCalls ==
  Serving \/ ~running => contexts = {c \in CallId : Established(c)}

\* BuildSdpAnswer adds 2 to audio_local_port and video_local_port, which have
\* no initializer: an established call has them assigned.
AnswerPortsAssigned ==
  Serving => \A c \in CallId : Established(c) => c \in ports

=============================================================================
