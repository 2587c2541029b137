------------------------ MODULE SessionManagerProofs ------------------------
(***************************************************************************)
(* Theorems about SipManager and SessionManager, for every set of calls,   *)
(* every set of addresses and every max_retransmit and max_sessions.       *)
(***************************************************************************)
EXTENDS SessionManager, TLAPS

(***************************************************************************)
(* The SIP layer                                                           *)
(***************************************************************************)
\* A timer between two steps has counted no retransmission: StartTimer resets
\* the count that ProcessTimers has just incremented.
CountsReset == \A c \in CallId : timer[c].retx = 0

\* What the type and timer theorems need of the call table.
TableOK ==
  /\ state \in [CallId -> SipCallState]
  /\ timer \in [CallId -> Timer]
  /\ remote \in [CallId -> Addr \cup {NoAddr}]
  /\ notified \subseteq Event
  /\ CountsReset

\* StartTimer yields a timer that has counted nothing.
LEMMA TimerTypes ==
  /\ NoTimer \in Timer /\ NoTimer.retx = 0
  /\ \A t : StartTimer(t, 0) \in Timer /\ StartTimer(t, 0).retx = 0
  /\ \A t \in Timer : t.retx = 0 =>
       /\ Retransmit(t) \in Timer /\ Retransmit(t).retx = 0
       /\ RunOut(t) \in Timer /\ RunOut(t).retx = 0
  BY RetransmitAssumption
     DEF Timer, NoTimer, StartTimer, Retransmit, IncrementRetransmit, RunOut

\* A new call keeps the table well formed when its events are events.
LEMMA CreateTable ==
  ASSUME TableOK, NEW c \in CallId, NEW s \in {"Calling", "Connected"},
         NEW ev \in SUBSET Event, Create(c, s, ev)
  PROVE  TableOK'
  BY TimerTypes DEF TableOK, CountsReset, Create, SipCallState

\* So does a change of state.
LEMMA MoveTable ==
  ASSUME TableOK, NEW c \in CallId,
         NEW s \in {"Connected", "Disconnecting", "Failed"}, Move(c, s)
  PROVE  TableOK'
  BY DEF TableOK, CountsReset, Move, SipCallState, Event

\* So does a disconnection.
LEMMA DisconnectTable ==
  ASSUME TableOK, NEW c \in CallId, Disconnect(c)
  PROVE  TableOK'
  BY TimerTypes DEF TableOK, CountsReset, Disconnect, SipCallState, Event

\* So does an early return.
LEMMA IgnoreTable ==
  ASSUME TableOK, Ignore
  PROVE  TableOK'
  BY DEF TableOK, CountsReset, Ignore

\* So does a round of the timers, late calls included.
LEMMA TimersTable ==
  ASSUME TableOK, NEW late \in SUBSET CallId, ProcessTimers(late)
  PROVE  TableOK'
  <1>1. state' \in [CallId -> SipCallState]
    BY DEF TableOK, ProcessTimers, SipCallState
  <1>2. /\ timer' \in [CallId -> Timer]
        /\ CountsReset'
    <2> SUFFICES ASSUME NEW c \in CallId
                 PROVE  timer'[c] \in Timer /\ timer'[c].retx = 0
      BY DEF ProcessTimers, CountsReset
    <2>1. timer[c] \in Timer /\ timer[c].retx = 0
      BY DEF TableOK, CountsReset
    <2>2. /\ Retransmit(timer[c]) \in Timer /\ Retransmit(timer[c]).retx = 0
          /\ RunOut(timer[c]) \in Timer /\ RunOut(timer[c]).retx = 0
      BY <2>1, TimerTypes
    <2> QED  BY <2>1, <2>2 DEF ProcessTimers
  <1>3. notified' \subseteq Event
    BY DEF ProcessTimers, Event
  <1> QED  BY <1>1, <1>2, <1>3 DEF TableOK, ProcessTimers

\* The part of the types no handler can disturb.
CacheOK ==
  /\ initialized \in BOOLEAN
  /\ registered \in BOOLEAN
  /\ lastId \in CallId \cup {NoCall}
  /\ lastHeaders \in CallId \cup {NoCall}

\* The types, cut into the table and the cache of headers.
LEMMA SipTypeSplit == SipTypeOK /\ CountsReset <=> TableOK /\ CacheOK
  BY DEF SipTypeOK, TableOK, CacheOK

\* Every message handler, whatever the Call-ID, keeps the types.
LEMMA ReceiveTypes == TableOK /\ CacheOK /\ Receive => TableOK' /\ CacheOK'
  <1> SUFFICES ASSUME TableOK, CacheOK, Receive
               PROVE  TableOK' /\ CacheOK'
    OBVIOUS
  <1>1. CASE HandleAck
    BY <1>1, IgnoreTable DEF HandleAck, Headers, Flags, CacheOK
  <1>2. ASSUME NEW c \in CallId \cup {NoCall}, NEW full \in BOOLEAN,
               HandleInvite(c, full)
        PROVE  TableOK' /\ CacheOK'
    <2>1. CacheOK'
      BY <1>2 DEF HandleInvite, Headers, Flags, CacheOK
    <2>2. CASE c = NoCall \/ InTable(c)
      BY <1>2, <2>1, <2>2, IgnoreTable DEF HandleInvite
    <2>3. CASE c # NoCall /\ ~InTable(c)
      <3>1. {<<c, "Ringing">>, <<c, "Connected">>} \in SUBSET Event
        BY <2>3 DEF Event
      <3> QED  BY <1>2, <2>1, <2>3, <3>1, CreateTable DEF HandleInvite
    <2> QED  BY <2>2, <2>3
  <1>3. ASSUME NEW c \in CallId \cup {NoCall}, HandleBye(c) \/ HandleCancel(c)
        PROVE  TableOK' /\ CacheOK'
    BY <1>3, DisconnectTable, IgnoreTable
       DEF HandleBye, HandleCancel, InTable, Headers, Flags, CacheOK
  <1>4. ASSUME NEW c \in CallId \cup {NoCall}, NEW status \in StatusClass,
               HandleResponse(c, status)
        PROVE  TableOK' /\ CacheOK'
    <2>1. CacheOK'
      BY <1>4 DEF HandleResponse, Headers, Flags, CacheOK
    <2>2. \/ Ignore
          \/ c \in CallId /\ Disconnect(c)
          \/ c \in CallId /\ Move(c, "Connected")
          \/ c \in CallId /\ Move(c, "Failed")
      BY <1>4 DEF HandleResponse, InTable
    <2> QED  BY <2>1, <2>2, IgnoreTable, DisconnectTable, MoveTable
  <1> QED  BY <1>1, <1>2, <1>3, <1>4 DEF Receive

\* So does every call of the local API.
LEMMA LocalTypes == TableOK /\ CacheOK /\ Local => TableOK' /\ CacheOK'
  <1> SUFFICES ASSUME TableOK, CacheOK, Local
               PROVE  TableOK' /\ CacheOK'
    OBVIOUS
  <1>1. CASE Register \/ Unregister
    <2>1. notified' \subseteq Event
      BY <1>1 DEF Register, Unregister, Event
    <2>2. registered' \in BOOLEAN
      BY <1>1 DEF Register, Unregister
    <2>3. UNCHANGED <<initialized, state, timer, remote, lastId, lastHeaders>>
      BY <1>1 DEF Register, Unregister, Headers
    <2> QED  BY <2>1, <2>2, <2>3 DEF TableOK, CountsReset, CacheOK
  <1>2. ASSUME NEW c \in CallId, NEW accept \in BOOLEAN, AnswerCall(c, accept)
        PROVE  TableOK' /\ CacheOK'
    BY <1>2, MoveTable, DisconnectTable DEF AnswerCall, Headers, Flags, CacheOK
  <1>3. ASSUME NEW c \in CallId, HangUp(c) \/ CancelCall(c)
        PROVE  TableOK' /\ CacheOK'
    BY <1>3, MoveTable, DisconnectTable
       DEF HangUp, CancelCall, Headers, Flags, CacheOK
  <1>4. ASSUME NEW c \in CallId, NEW a \in Addr \cup {NoAddr},
               ProcessIncomingSdp(c, a)
        PROVE  TableOK' /\ CacheOK'
    BY <1>4 DEF ProcessIncomingSdp, TableOK, CountsReset, CacheOK, Headers,
                Flags
  <1> QED  BY <1>1, <1>2, <1>3, <1>4 DEF Local

\* So do the clock and the timers.
LEMMA TimerStepTypes ==
  TableOK /\ CacheOK /\ (Tick \/ \E c \in CallId : Expire(c))
    => TableOK' /\ CacheOK'
  <1> SUFFICES ASSUME TableOK, CacheOK, Tick \/ \E c \in CallId : Expire(c)
               PROVE  TableOK' /\ CacheOK'
    OBVIOUS
  <1>1. CASE Tick
    BY <1>1, TimersTable DEF Tick, ProcessTimers, Headers, Flags, CacheOK
  <1>2. ASSUME NEW c \in CallId, Expire(c)
        PROVE  TableOK' /\ CacheOK'
    <2>1. timer[c] \in Timer /\ timer[c].retx = 0
      BY DEF TableOK, CountsReset
    <2>2. RunOut(timer[c]) \in Timer /\ RunOut(timer[c]).retx = 0
      BY <2>1, TimerTypes
    <2> QED  BY <1>2, <2>2 DEF Expire, TableOK, CountsReset, CacheOK,
                               Headers, Flags
  <1> QED  BY <1>1, <1>2

\* The operations SessionManager wraps.
LEMMA WrappedTypes ==
  TableOK /\ CacheOK
    /\ (Initialize \/ InitializeFails \/ Shutdown \/ \E c \in CallId : MakeCall(c))
      => TableOK' /\ CacheOK'
  <1> SUFFICES ASSUME TableOK, CacheOK
               PROVE  /\ Initialize \/ InitializeFails => TableOK' /\ CacheOK'
                      /\ Shutdown => TableOK' /\ CacheOK'
                      /\ \A c \in CallId : MakeCall(c) => TableOK' /\ CacheOK'
    OBVIOUS
  <1>1. Initialize \/ InitializeFails => TableOK' /\ CacheOK'
    BY IgnoreTable DEF Initialize, InitializeFails, Headers, CacheOK
  <1>2. Shutdown => TableOK' /\ CacheOK'
    <2> SUFFICES ASSUME Shutdown PROVE TableOK' /\ CacheOK'
      OBVIOUS
    <2>1. notified' \subseteq Event
      BY DEF Shutdown, Event
    <2>2. CacheOK'
      BY DEF Shutdown, CacheOK, Headers
    <2>3. TableOK'
      BY <2>1, TimerTypes DEF Shutdown, TableOK, CountsReset, SipCallState
    <2> QED  BY <2>2, <2>3
  <1>3. ASSUME NEW c \in CallId, MakeCall(c)
        PROVE  TableOK' /\ CacheOK'
    <2>1. {<<c, "Calling">>} \in SUBSET Event
      BY DEF Event
    <2> QED  BY <1>3, <2>1, CreateTable DEF MakeCall, Headers, Flags, CacheOK
  <1> QED  BY <1>1, <1>2, <1>3

\* Outside MakeCall, Initialize and Shutdown.
LEMMA SipStepTypes == TableOK /\ CacheOK /\ SipStep => TableOK' /\ CacheOK'
  BY ReceiveTypes, LocalTypes, TimerStepTypes DEF SipStep

\* An empty table is well formed.
LEMMA SipInitTypes == SipInit => TableOK /\ CacheOK
  BY TimerTypes DEF SipInit, TableOK, CountsReset, CacheOK, SipCallState, Event

\* The inductive invariant of the SIP layer.
SipInv == TableOK /\ CacheOK

\* No step of SipManager breaks its invariant.
LEMMA SipStepInv == SipInv /\ [SipNext]_sipVars => SipInv'
  <1> SUFFICES ASSUME TableOK, CacheOK, [SipNext]_sipVars
               PROVE  TableOK' /\ CacheOK'
    BY DEF SipInv
  <1>1. CASE UNCHANGED sipVars
    BY <1>1 DEF sipVars, TableOK, CountsReset, CacheOK
  <1>2. CASE SipNext
    BY <1>2, SipStepTypes, WrappedTypes DEF SipNext
  <1> QED  BY <1>1, <1>2

\* SipInv holds in every reachable state of SipManager.
LEMMA SipInvariant == SipSpec => []SipInv
  <1>1. SipInit => SipInv
    BY SipInitTypes DEF SipInv
  <1> QED  BY <1>1, SipStepInv, PTL DEF SipSpec

\* The SIP layer is type correct: in particular no retransmission timer ever
\* leaves the range of max_retransmit, because StartTimer resets the count.
THEOREM SipTypeCorrect == SipSpec => []SipTypeOK
  <1>1. SipInv => SipTypeOK
    BY SipTypeSplit DEF SipInv
  <1> QED  BY <1>1, SipInvariant, PTL

(***************************************************************************)
(* The SIP layer: what it reports                                          *)
(***************************************************************************)
\* A handler that keeps to the building blocks tells its listener of every
\* entry to and exit from the established states.
LEMMA BlocksReported ==
  ASSUME TableOK, NEW d \in CallId,
         \/ ~InTable(d) /\ Create(d, "Calling", {<<d, "Calling">>})
         \/ ~InTable(d) /\ Create(d, "Connected",
                                  {<<d, "Ringing">>, <<d, "Connected">>})
         \/ \E s \in {"Connected", "Failed"} : Move(d, s)
         \/ state[d] = "Connected" /\ Move(d, "Disconnecting")
         \/ Disconnect(d)
         \/ Ignore,
         NEW c \in CallId
  PROVE  Reported(c)
  <1> USE DEF Reported, Opened, Closed, Established, TableOK
  <1>1. CASE ~InTable(d) /\ Create(d, "Calling", {<<d, "Calling">>})
    BY <1>1 DEF Create, InTable
  <1>2. CASE ~InTable(d) /\ Create(d, "Connected",
                                  {<<d, "Ringing">>, <<d, "Connected">>})
    BY <1>2 DEF Create, InTable
  <1>3. CASE \E s \in {"Connected", "Failed"} : Move(d, s)
    BY <1>3 DEF Move
  <1>4. CASE state[d] = "Connected" /\ Move(d, "Disconnecting")
    BY <1>4 DEF Move
  <1>5. CASE Disconnect(d)
    BY <1>5 DEF Disconnect
  <1>6. CASE Ignore
    BY <1>6 DEF Ignore
  <1> QED  BY <1>1, <1>2, <1>3, <1>4, <1>5, <1>6

\* The contract OnSipEvent relies on, for every step of the SIP layer but
\* Initialize and Shutdown.
LEMMA StepsReported ==
  ASSUME TableOK, SipStep \/ \E d \in CallId : MakeCall(d)
  PROVE  \A c \in CallId : Reported(c)
  <1> SUFFICES ASSUME NEW c \in CallId PROVE Reported(c)
    OBVIOUS
  <1>1. ASSUME Ignore PROVE Reported(c)
    BY <1>1 DEF Ignore, Reported, Opened, Closed, Established
  <1>2. CASE Receive
    <2>1. CASE HandleAck
      BY <1>1, <2>1 DEF HandleAck
    <2>2. ASSUME NEW d \in CallId \cup {NoCall}, NEW full \in BOOLEAN,
                 HandleInvite(d, full)
          PROVE  Reported(c)
      BY <1>1, <2>2, BlocksReported DEF HandleInvite
    <2>3. ASSUME NEW d \in CallId \cup {NoCall}, HandleBye(d) \/ HandleCancel(d)
          PROVE  Reported(c)
      BY <1>1, <2>3, BlocksReported DEF HandleBye, HandleCancel, InTable
    <2>4. ASSUME NEW d \in CallId \cup {NoCall}, NEW status \in StatusClass,
                 HandleResponse(d, status)
          PROVE  Reported(c)
      BY <1>1, <2>4, BlocksReported DEF HandleResponse, InTable
    <2> QED  BY <1>2, <2>1, <2>2, <2>3, <2>4 DEF Receive
  <1>3. CASE Local
    <2>1. CASE Register \/ Unregister
      BY <2>1, CallAssumption
         DEF Register, Unregister, Reported, Opened, Closed, Established
    <2>2. ASSUME NEW d \in CallId, NEW accept \in BOOLEAN, AnswerCall(d, accept)
          PROVE  Reported(c)
      BY <2>2, BlocksReported DEF AnswerCall
    <2>3. ASSUME NEW d \in CallId, HangUp(d) \/ CancelCall(d)
          PROVE  Reported(c)
      BY <2>3, BlocksReported DEF HangUp, CancelCall
    <2>4. ASSUME NEW d \in CallId, NEW a \in Addr \cup {NoAddr},
                 ProcessIncomingSdp(d, a)
          PROVE  Reported(c)
      BY <2>4 DEF ProcessIncomingSdp, Reported, Opened, Closed, Established
    <2> QED  BY <1>3, <2>1, <2>2, <2>3, <2>4 DEF Local
  <1>4. CASE Tick
    BY <1>4 DEF Tick, ProcessTimers, Reported, Opened, Closed, Established,
                TableOK
  <1>5. CASE \E d \in CallId : Expire(d)
    BY <1>5 DEF Expire, Reported, Opened, Closed, Established
  <1>6. CASE \E d \in CallId : MakeCall(d)
    BY <1>6, BlocksReported DEF MakeCall
  <1> QED  BY <1>2, <1>3, <1>4, <1>5, <1>6 DEF SipStep

\* Outside Shutdown, a listener of the SIP events can keep track of the
\* established calls.
THEOREM NotificationsSound == SipSpec => NotificationsTrackCalls
  <1>1. SipInv /\ [SipNext]_sipVars
          => [Shutdown \/ \A c \in CallId : Reported(c)]_sipVars
    <2> SUFFICES ASSUME TableOK, SipNext, ~Shutdown
                 PROVE  \A c \in CallId : Reported(c)
      BY DEF SipInv
    <2>1. CASE Initialize \/ InitializeFails
      BY <2>1 DEF Initialize, InitializeFails, Ignore, Reported, Opened, Closed,
                  Established
    <2> QED  BY <2>1, StepsReported DEF SipNext
  <1> QED  BY <1>1, SipInvariant, PTL DEF SipSpec, NotificationsTrackCalls

\* As long as its two clock reads agree, ProcessTimers never fails a call: no
\* timer ever carries a count to the next tick.
THEOREM TimersSpareEstablished == SipSpec => EstablishedOutlivesTimers
  <1>1. SipInv /\ [SipNext]_sipVars
          => [ProcessTimers({}) =>
                \A c \in CallId : Established(c) => state'[c] = state[c]]_sipVars
    <2> SUFFICES ASSUME CountsReset, ProcessTimers({}), NEW c \in CallId
                 PROVE  state'[c] = state[c]
      BY DEF SipInv, TableOK
    <2>1. ~(timer[c].retx >= MaxRetransmit)
      BY RetransmitAssumption DEF CountsReset
    <2> QED  BY <2>1 DEF ProcessTimers
  <1> QED  BY <1>1, SipInvariant, PTL DEF SipSpec, EstablishedOutlivesTimers

\* Nor does it fail a call that nobody answers: max_retransmit is never reached,
\* and the branch for it is taken between two clock reads that disagree only.
THEOREM NoCallTimesOut == SipSpec => [][ProcessTimers({}) => UNCHANGED state]_sipVars
  <1>1. SipInv /\ [SipNext]_sipVars
          => [ProcessTimers({}) => UNCHANGED state]_sipVars
    <2> SUFFICES ASSUME TableOK, CountsReset, ProcessTimers({}) PROVE UNCHANGED state
      BY DEF SipInv, TableOK
    <2>1. ASSUME NEW c \in CallId PROVE ~(timer[c].retx >= MaxRetransmit)
      BY RetransmitAssumption DEF CountsReset
    <2>2. state' = [c \in CallId |-> state[c]]
      BY <2>1 DEF ProcessTimers
    <2> QED  BY <2>2 DEF TableOK
  <1> QED  BY <1>1, SipInvariant, PTL DEF SipSpec

\* No message sequence revives a call that failed, was hung up or is gone.
THEOREM LateAnswersLost == SipSpec => LateAnswerIgnored
  <1>1. SipInv /\ [SipNext]_sipVars
          => [\A c \in CallId :
                Revived(c) =>
                  Invited(c) \/ (~Receive /\ AnswerCall(c, TRUE))]_sipVars
    <2> SUFFICES ASSUME TableOK, SipNext, NEW c \in CallId, Revived(c)
                 PROVE  \/ Invited(c)
                        \/ ~Receive /\ AnswerCall(c, TRUE)
      BY DEF SipInv
    <2> USE DEF Revived
    <2>1. ASSUME Ignore PROVE FALSE
      BY <2>1 DEF Ignore
    <2>2. ASSUME NEW d \in CallId, Disconnect(d) PROVE FALSE
      BY <2>2 DEF Disconnect, TableOK
    <2>3. ASSUME NEW d \in CallId, NEW s, Move(d, s) PROVE d = c /\ s = "Connected"
      BY <2>3 DEF Move, TableOK
    <2>4. ASSUME NEW d \in CallId, NEW s, NEW ev, Create(d, s, ev)
          PROVE  d = c /\ s = "Connected"
      BY <2>4 DEF Create, TableOK
    <2>5. ASSUME Receive PROVE Invited(c)
      <3>1. CASE HandleAck
        BY <3>1, <2>1 DEF HandleAck
      <3>2. ASSUME NEW d \in CallId \cup {NoCall}, NEW full \in BOOLEAN,
                   HandleInvite(d, full)
            PROVE  Invited(c)
        <4>1. d # NoCall /\ ~InTable(d)
          BY <2>1, <3>2 DEF HandleInvite
        <4>2. d = c
          BY <2>4, <3>2, <4>1 DEF HandleInvite
        <4> QED  BY <3>2, <4>1, <4>2 DEF InTable, Invited
      <3>3. ASSUME NEW d \in CallId \cup {NoCall}, HandleBye(d) \/ HandleCancel(d)
            PROVE  FALSE
        BY <2>1, <2>2, <3>3 DEF HandleBye, HandleCancel, InTable
      <3>4. ASSUME NEW d \in CallId \cup {NoCall}, NEW status \in StatusClass,
                   HandleResponse(d, status)
            PROVE  FALSE
        <4>1. \/ Ignore
              \/ d \in CallId /\ Disconnect(d)
              \/ d \in CallId /\ state[d] = "Calling" /\ Move(d, "Connected")
              \/ d \in CallId /\ Move(d, "Failed")
          BY <3>4 DEF HandleResponse, InTable
        <4> QED  BY <2>1, <2>2, <2>3, <4>1
      <3> QED  BY <2>5, <3>1, <3>2, <3>3, <3>4 DEF Receive
    <2>6. ASSUME Local PROVE AnswerCall(c, TRUE)
      <3>1. ASSUME NEW d \in CallId, NEW accept \in BOOLEAN, AnswerCall(d, accept)
            PROVE  AnswerCall(c, TRUE)
        BY <2>2, <2>3, <3>1 DEF AnswerCall
      <3>2. ASSUME NEW d \in CallId, HangUp(d) \/ CancelCall(d) PROVE FALSE
        BY <2>2, <2>3, <3>2 DEF HangUp, CancelCall
      <3> QED  BY <2>6, <3>1, <3>2 DEF Local, Register, Unregister,
                                            ProcessIncomingSdp
    <2>7. CASE Tick
      BY <2>7 DEF Tick, ProcessTimers
    <2>8. CASE \E d \in CallId : MakeCall(d)
      BY <2>4, <2>8 DEF MakeCall
    <2>9. CASE Initialize \/ InitializeFails \/ Shutdown \/ \E d \in CallId : Expire(d)
      BY <2>1, <2>9 DEF Initialize, InitializeFails, Shutdown, Expire
    <2> QED  BY <2>5, <2>6, <2>7, <2>8, <2>9 DEF SipNext, SipStep
  <1> QED  BY <1>1, SipInvariant, PTL DEF SipSpec, LateAnswerIgnored

(***************************************************************************)
(* The session layer                                                       *)
(***************************************************************************)
SessionTypes ==
  /\ running \in BOOLEAN
  /\ cb \in {"none", "user", "session"}
  /\ contexts \subseteq CallId
  /\ ctxRemote \in [CallId -> Addr \cup {NoAddr}]
  /\ ports \subseteq CallId
  /\ reported \subseteq CallId

\* After Stop nothing of a call survives: no table entry, no context.
StoppedIsClean ==
  ~running => /\ contexts = {}
              /\ \A c \in CallId : state[c] = "Idle"

\* The inductive invariant: types, reset counts, and the three facts that
\* need each other.  Start finds no stale call because Stop leaves none;
\* without that, a call made before Start would have no context.
SessionInv ==
  /\ TableOK /\ CacheOK /\ SessionTypes
  /\ StoppedIsClean
  /\ ContextsTrackCalls
  /\ AnswerPortsAssigned

\* A SessionManager that was not started satisfies the invariant.
LEMMA SessionInitInv == SessionInit => SessionInv
  <1> SUFFICES ASSUME SessionInit PROVE SessionInv
    OBVIOUS
  <1>1. TableOK /\ CacheOK
    BY SipInitTypes DEF SessionInit
  <1>2. contexts = {} /\ \A c \in CallId : state[c] = "Idle"
    BY DEF SessionInit, SipInit
  <1> QED  BY <1>1, <1>2 DEF SessionInit, SessionInv, SessionTypes, StoppedIsClean,
              ContextsTrackCalls, AnswerPortsAssigned, Serving, Established

\* The callback keeps the types of the session layer.
LEMMA CallbackTypes ==
  ASSUME TableOK, TableOK', SessionTypes, Callback, UNCHANGED <<running, cb>>
  PROVE  SessionTypes'
  BY DEF TableOK, SessionTypes, Callback, OnSipEvent, OtherCallback

\* OnSipEvent turns the contract of NotifyStateChange into the two facts
\* about contexts and ports.
LEMMA CallbackTracks ==
  ASSUME SessionInv, running, cb = "session", OnSipEvent,
         \A c \in CallId : Reported(c)
  PROVE  /\ contexts' = {c \in CallId : Established(c)'}
         /\ \A c \in CallId : Established(c)' => c \in ports'
  <1>1. /\ contexts = {c \in CallId : Established(c)}
        /\ \A c \in CallId : Established(c) => c \in ports
    BY DEF SessionInv, ContextsTrackCalls, AnswerPortsAssigned, Serving
  <1>2. ASSUME NEW c \in CallId
        PROVE  /\ c \in contexts' <=> Established(c)'
               /\ Established(c)' => c \in ports'
    BY <1>1, <1>2 DEF OnSipEvent, Reported, Established
  <1>3. contexts' \subseteq CallId
    BY <1>1 DEF OnSipEvent
  <1> QED  BY <1>2, <1>3

\* A SIP step under the session layer, with its callback.
LEMMA CallbackStep ==
  ASSUME SessionInv, running, SipStep \/ \E c \in CallId : MakeCall(c),
         Callback, UNCHANGED <<running, cb>>
  PROVE  SessionInv'
  <1>1. TableOK' /\ CacheOK'
    BY SipStepTypes, WrappedTypes DEF SessionInv
  <1>2. SessionTypes'
    BY <1>1, CallbackTypes DEF SessionInv
  <1>3. ContextsTrackCalls' /\ AnswerPortsAssigned'
    <2>1. CASE cb = "session"
      <3>1. \A c \in CallId : Reported(c)
        BY StepsReported DEF SessionInv
      <3>2. OnSipEvent
        BY <2>1 DEF Callback
      <3> QED  BY <2>1, <3>1, <3>2, CallbackTracks
               DEF ContextsTrackCalls, AnswerPortsAssigned, Established
    <2>2. CASE cb # "session"
      BY <2>2 DEF ContextsTrackCalls, AnswerPortsAssigned, Serving
    <2> QED  BY <2>1, <2>2
  <1>4. StoppedIsClean'
    BY DEF StoppedIsClean
  <1> QED  BY <1>1, <1>2, <1>3, <1>4 DEF SessionInv

\* Start, Stop, calls, SIP steps and the RTCP timer keep the invariant.
LEMMA SessionStepInv == SessionInv /\ [SessionNext]_sessionVars => SessionInv'
  <1> SUFFICES ASSUME SessionInv, [SessionNext]_sessionVars
               PROVE  SessionInv'
    OBVIOUS
  <1>1. CASE Start
    <2>1. TableOK' /\ CacheOK'
      BY <1>1, WrappedTypes DEF Start, SessionInv
    <2>2. SessionTypes' /\ StoppedIsClean'
      BY <1>1 DEF Start, Initialize, InitializeFails, Ignore, SessionInv,
                  SessionTypes, StoppedIsClean, ctxVars
    <2>3. contexts' = {} /\ \A c \in CallId : ~Established(c)'
      BY <1>1 DEF Start, SessionInv, StoppedIsClean, ctxVars, Initialize,
                  InitializeFails, Ignore, Established
    <2>4. ContextsTrackCalls' /\ AnswerPortsAssigned'
      BY <2>3 DEF ContextsTrackCalls, AnswerPortsAssigned
    <2> QED  BY <2>1, <2>2, <2>4 DEF SessionInv
  <1>2. CASE Stop
    <2>1. TableOK' /\ CacheOK'
      BY <1>2, WrappedTypes DEF Stop, SessionInv
    <2>2. SessionTypes'
      BY <1>2 DEF Stop, SessionInv, SessionTypes
    <2>3. StoppedIsClean' /\ ContextsTrackCalls' /\ AnswerPortsAssigned'
      BY <1>2 DEF Stop, Shutdown, StoppedIsClean, ContextsTrackCalls,
                  AnswerPortsAssigned, Serving, Established
    <2> QED  BY <2>1, <2>2, <2>3 DEF SessionInv
  <1>3. CASE SetSipEventCallback
    <2>1. TableOK' /\ CacheOK'
      BY <1>3, IgnoreTable
         DEF SetSipEventCallback, SessionInv, Headers, Flags, CacheOK
    <2> QED  BY <1>3, <2>1
             DEF SetSipEventCallback, SessionInv, SessionTypes, StoppedIsClean,
                 ContextsTrackCalls, AnswerPortsAssigned, Serving, ctxVars,
                 Established, Ignore
  <1>4. ASSUME NEW c \in CallId, SessionMakeCall(c) PROVE SessionInv'
    BY <1>4, CallbackStep DEF SessionMakeCall
  <1>5. CASE SessionSipStep
    BY <1>5, CallbackStep DEF SessionSipStep
  <1>6. CASE OnRtcpTimer
    <2>1. TableOK' /\ CacheOK'
      BY <1>6, IgnoreTable DEF OnRtcpTimer, SessionInv, Headers, Flags, CacheOK
    <2> QED  BY <1>6, <2>1
             DEF OnRtcpTimer, SessionInv, SessionTypes, StoppedIsClean,
                 ContextsTrackCalls, AnswerPortsAssigned, Serving, Established,
                 Ignore
  <1>7. CASE UNCHANGED sessionVars
    BY <1>7 DEF sessionVars, sipVars, ctxVars, SessionInv, SessionTypes, TableOK,
                CountsReset, CacheOK, StoppedIsClean, ContextsTrackCalls,
                AnswerPortsAssigned, Serving, Established
  <1> QED  BY <1>1, <1>2, <1>3, <1>4, <1>5, <1>6, <1>7 DEF SessionNext

\* The session layer keeps its inductive invariant: types, contexts, ports and
\* the clean stopped state hold together in every reachable state.
THEOREM SessionInvariant == SessionSpec => []SessionInv
  BY SessionInitInv, SessionStepInv, PTL DEF SessionSpec

\* The session layer is type correct.
THEOREM SessionTypeCorrect == SessionSpec => []SessionTypeOK
  <1>1. SessionInv => SessionTypeOK
    BY SipTypeSplit DEF SessionInv, SessionTypes, SessionTypeOK
  <1> QED  BY <1>1, SessionInvariant, PTL

\* While SessionManager listens, the contexts are those of the established
\* calls.
THEOREM ContextsTrack == SessionSpec => []ContextsTrackCalls
  <1>1. SessionInv => ContextsTrackCalls
    BY DEF SessionInv
  <1> QED  BY <1>1, SessionInvariant, PTL

\* The SDP answer of an established call never reads an unassigned port.
THEOREM PortsAssigned == SessionSpec => []AnswerPortsAssigned
  <1>1. SessionInv => AnswerPortsAssigned
    BY DEF SessionInv
  <1> QED  BY <1>1, SessionInvariant, PTL

(***************************************************************************)
(* The contexts, as CallContexts specifies them                            *)
(***************************************************************************)
\* A step that reports a call connected reports nothing else.
OpensAlone(c) ==
  Opened(c) => notified' \subseteq {<<c, "Ringing">>, <<c, "Connected">>}

\* So does a handler that keeps to the building blocks ...
LEMMA BlocksOpenAlone ==
  ASSUME NEW d \in CallId,
         \/ \E s : Move(d, s)
         \/ Create(d, "Calling", {<<d, "Calling">>})
         \/ Create(d, "Connected", {<<d, "Ringing">>, <<d, "Connected">>})
         \/ Disconnect(d)
         \/ Ignore,
         NEW c \in CallId
  PROVE  OpensAlone(c)
  BY DEF OpensAlone, Opened, Move, Create, Disconnect, Ignore

\* ... and every step of the SIP layer under SessionManager.
LEMMA StepsOpenAlone ==
  ASSUME SipStep \/ \E d \in CallId : MakeCall(d), NEW c \in CallId
  PROVE  OpensAlone(c)
  <1>1. CASE Receive
    <2>1. CASE HandleAck
      BY <2>1, BlocksOpenAlone DEF HandleAck
    <2>2. ASSUME NEW d \in CallId \cup {NoCall}, NEW full \in BOOLEAN,
                 HandleInvite(d, full)
          PROVE  OpensAlone(c)
      <3>1. \/ Ignore
            \/ /\ d \in CallId
               /\ Create(d, "Connected", {<<d, "Ringing">>, <<d, "Connected">>})
        BY <2>2 DEF HandleInvite
      <3> QED  BY <3>1, BlocksOpenAlone
    <2>3. ASSUME NEW d \in CallId \cup {NoCall}, HandleBye(d) \/ HandleCancel(d)
          PROVE  OpensAlone(c)
      BY <2>3, BlocksOpenAlone DEF HandleBye, HandleCancel, InTable
    <2>4. ASSUME NEW d \in CallId \cup {NoCall}, NEW status \in StatusClass,
                 HandleResponse(d, status)
          PROVE  OpensAlone(c)
      BY <2>4, BlocksOpenAlone DEF HandleResponse, InTable
    <2> QED  BY <1>1, <2>1, <2>2, <2>3, <2>4 DEF Receive
  <1>2. CASE Local
    <2>1. ASSUME NEW d \in CallId, NEW accept \in BOOLEAN, AnswerCall(d, accept)
          PROVE  OpensAlone(c)
      BY <2>1, BlocksOpenAlone DEF AnswerCall
    <2>2. ASSUME NEW d \in CallId, HangUp(d) \/ CancelCall(d)
          PROVE  OpensAlone(c)
      BY <2>2, BlocksOpenAlone DEF HangUp, CancelCall
    <2> QED  BY <1>2, <2>1, <2>2
             DEF Local, Register, Unregister, ProcessIncomingSdp, OpensAlone, Opened
  <1>3. CASE Tick \/ \E d \in CallId : Expire(d)
    BY <1>3 DEF Tick, ProcessTimers, Expire, OpensAlone, Opened
  <1>4. ASSUME NEW d \in CallId, MakeCall(d) PROVE OpensAlone(c)
    BY <1>4, BlocksOpenAlone DEF MakeCall
  <1> QED  BY <1>1, <1>2, <1>3, <1>4 DEF SipStep

\* A call without a context has no copy of its information.
CopiesOwned == \A c \in CallId : c \notin contexts => ctxRemote[c] = NoAddr

\* OnSipEvent creates one context, or removes some, or does nothing.
LEMMA CallbackOnContexts ==
  ASSUME SessionTypes, SessionTypes', CopiesOwned, Callback,
         SipStep \/ \E d \in CallId : MakeCall(d)
  PROVE  CopiesOwned' /\ [Contexts!ContextsNext]_(Contexts!contextVars)
  <1> USE DEF Contexts!contextVars, SessionTypes
  <1>1. CASE cb # "session"
    BY <1>1 DEF Callback, OtherCallback, CopiesOwned
  <1>2. CASE cb = "session" /\ \E c \in CallId : Opened(c)
    <2>1. PICK c \in CallId : Opened(c)
      BY <1>2
    <2>2. notified' \subseteq {<<c, "Ringing">>, <<c, "Connected">>}
      BY <2>1, StepsOpenAlone DEF OpensAlone
    <2>3. {d \in CallId : Opened(d)} = {c} /\ {d \in CallId : Closed(d)} = {}
      BY <2>1, <2>2 DEF Opened, Closed
    <2>4. /\ contexts' = contexts \cup {c}
          /\ ctxRemote' = [d \in CallId |-> IF d = c /\ d \notin contexts
                                              THEN remote'[d] ELSE ctxRemote[d]]
      BY <1>2, <2>3 DEF Callback, OnSipEvent
    <2>5. CASE c \in contexts
      <3>1. ctxRemote' = ctxRemote /\ contexts' = contexts
        BY <2>4, <2>5
      <3> QED  BY <3>1 DEF CopiesOwned
    <2>6. CASE c \notin contexts
      <3>1. Contexts!Create(c)
        BY <2>4, <2>6 DEF Contexts!Create
      <3>2. CopiesOwned'
        BY <2>4 DEF CopiesOwned
      <3> QED  BY <3>1, <3>2 DEF Contexts!ContextsNext
    <2> QED  BY <2>5, <2>6
  <1>3. CASE cb = "session" /\ ~\E c \in CallId : Opened(c)
    <2> DEFINE gone == {c \in contexts : Closed(c)}
    <2>1. /\ contexts' = contexts \ gone
          /\ ctxRemote' = [c \in CallId |-> IF Closed(c) THEN NoAddr ELSE ctxRemote[c]]
      BY <1>3 DEF Callback, OnSipEvent
    <2>2. ctxRemote' = [c \in CallId |-> IF c \in gone THEN NoAddr ELSE ctxRemote[c]]
      BY <2>1 DEF CopiesOwned
    <2>3. CopiesOwned'
      BY <2>1, <2>2 DEF CopiesOwned
    <2>4. CASE gone = {}
      <3>1. ctxRemote' = ctxRemote /\ contexts' = contexts
        BY <2>1, <2>2, <2>4
      <3> QED  BY <2>3, <3>1
    <2>5. CASE gone # {}
      <3> HIDE DEF gone
      <3>1. gone \subseteq contexts
        BY DEF gone
      <3>2. Contexts!Remove(gone)
        BY <2>1, <2>2, <2>5, <3>1 DEF Contexts!Remove, NoUser
      <3>3. gone \in SUBSET CallId
        BY <3>1
      <3> QED  BY <2>3, <3>2, <3>3 DEF Contexts!ContextsNext
    <2> QED  BY <2>4, <2>5
  <1> QED  BY <1>1, <1>2, <1>3

\* Every step of the session layer is one CallContexts allows.
LEMMA SessionOnContexts ==
  ASSUME SessionInv, SessionInv', CopiesOwned, [SessionNext]_sessionVars
  PROVE  CopiesOwned' /\ [Contexts!ContextsNext]_(Contexts!contextVars)
  <1> USE DEF Contexts!contextVars, SessionInv
  <1>1. ASSUME UNCHANGED <<contexts, ctxRemote>>
        PROVE  CopiesOwned' /\ [Contexts!ContextsNext]_(Contexts!contextVars)
    BY <1>1 DEF CopiesOwned
  <1>2. CASE Start \/ SetSipEventCallback \/ OnRtcpTimer
    BY <1>1, <1>2 DEF Start, SetSipEventCallback, OnRtcpTimer, ctxVars
  <1>3. CASE Stop
    <2>1. contexts' = {} /\ ctxRemote' = [c \in CallId |-> NoAddr]
      BY <1>3 DEF Stop
    <2>2. CASE contexts = {}
      <3>1. ctxRemote' = ctxRemote
        BY <2>1, <2>2 DEF CopiesOwned, SessionTypes
      <3> QED  BY <1>1, <2>1, <2>2, <3>1
    <2>3. CASE contexts # {}
      <3>1. [c \in CallId |-> NoAddr] =
              [c \in CallId |-> IF c \in contexts THEN NoAddr ELSE ctxRemote[c]]
        BY DEF CopiesOwned
      <3>2. Contexts!Remove(contexts)
        BY <2>1, <2>3, <3>1 DEF Contexts!Remove, NoUser
      <3>3. contexts \in SUBSET CallId
        BY DEF SessionTypes
      <3> QED  BY <2>1, <3>2, <3>3 DEF Contexts!ContextsNext, CopiesOwned
    <2> QED  BY <2>2, <2>3
  <1>4. ASSUME NEW c \in CallId, SessionMakeCall(c)
        PROVE  CopiesOwned' /\ [Contexts!ContextsNext]_(Contexts!contextVars)
    BY <1>4, CallbackOnContexts DEF SessionMakeCall
  <1>5. CASE SessionSipStep
    BY <1>5, CallbackOnContexts DEF SessionSipStep
  <1>6. CASE UNCHANGED sessionVars
    BY <1>1, <1>6 DEF sessionVars, ctxVars
  <1> QED  BY <1>2, <1>3, <1>4, <1>5, <1>6 DEF SessionNext

\* SessionManager keeps its contexts as CallContexts demands: each is created
\* and removed whole and keeps the information it was created with.
THEOREM ContextsKept == SessionSpec => ContextsKeepTheirInfo
  <1>1. SessionInit => CopiesOwned /\ Contexts!ContextsInit
    BY DEF SessionInit, CopiesOwned, Contexts!ContextsInit
  <1>2. SessionInv /\ SessionInv' /\ CopiesOwned /\ [SessionNext]_sessionVars
          => CopiesOwned' /\ [Contexts!ContextsNext]_(Contexts!contextVars)
    BY SessionOnContexts
  <1> QED  BY <1>1, <1>2, SessionInvariant, PTL
           DEF SessionSpec, ContextsKeepTheirInfo, Contexts!ContextsSpec

=============================================================================
