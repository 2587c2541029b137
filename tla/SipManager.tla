----------------------------- MODULE SipManager -----------------------------
(***************************************************************************)
(* The call table of SipManager: one entry per Call-ID, moved by the local *)
(* API, by SIP messages from the network and by the retransmission timers. *)
(*                                                                         *)
(* Every handler ends by calling NotifyStateChange zero, one or two times; *)
(* `notified` holds the calls made by the latest step.  SessionManager     *)
(* runs its OnSipEvent on exactly those.                                   *)
(***************************************************************************)
EXTENDS Naturals

CONSTANTS
  CallId,         \* Call-IDs that local calls and remote INVITEs use
  NoCall,         \* the empty string in the place of a Call-ID
  Addr,           \* RTP addresses an SDP body may name in its c= line
  NoAddr,         \* the empty remote_rtp_addr
  MaxRetransmit   \* SipConfig::max_retransmit

ASSUME CallAssumption == NoCall \notin CallId
ASSUME AddrAssumption == NoAddr \notin Addr
ASSUME RetransmitAssumption == MaxRetransmit \in Nat \ {0}

VARIABLES
  initialized,  \* initialized_
  registered,   \* registered_
  state,        \* GetCallState of every Call-ID: "Idle" is "not in calls_"
  timer,        \* the retransmission timer of each call
  remote,       \* SessionInfo().remote_rtp_addr of each call
  lastId,       \* last_call_id_
  lastHeaders,  \* the INVITE the cached Via branch, From tag, CSeq came from
  notified      \* <<call, state>> pairs NotifyStateChange reported in this step

sipVars == <<initialized, registered, state, timer, remote,
             lastId, lastHeaders, notified>>

SipCallState == {"Idle", "Calling", "Ringing", "Connected",
                 "Disconnecting", "Failed"}

\* duration = T1 * 2^level; `expired` is what the clock says of it.
Timer == [level : 0..MaxRetransmit, retx : 0..MaxRetransmit, expired : BOOLEAN]

\* Mutant: the retransmission count survives a restart of the timer.
StartTimerKeepingCount(old, level) ==
  [level |-> level, retx |-> old.retx, expired |-> FALSE]

StartTimer(old, level) == [level |-> level, retx |-> 0, expired |-> FALSE]

NoTimer == [level |-> 0, retx |-> 0, expired |-> FALSE]

(***************************************************************************)
(* The table                                                               *)
(***************************************************************************)
InTable(c) == c \in CallId /\ state[c] # "Idle"

Headers == UNCHANGED <<lastId, lastHeaders>>

\* A call that did not exist enters the table with its timer running; `events`
\* are the notifications on the way to state s.
Create(c, s, events) ==
  /\ state' = [state EXCEPT ![c] = s]
  /\ timer' = [timer EXCEPT ![c] = StartTimer(NoTimer, 0)]
  /\ remote' = [remote EXCEPT ![c] = NoAddr]
  /\ notified' = events

\* SetState followed by NotifyStateChange; the timer is left as it was.
Move(c, s) ==
  /\ state' = [state EXCEPT ![c] = s]
  /\ notified' = {<<c, s>>}
  /\ UNCHANGED <<timer, remote>>

\* Mutant: the entry is erased without NotifyStateChange.
DisconnectSilently(c) ==
  /\ state' = [state EXCEPT ![c] = "Idle"]
  /\ timer' = [timer EXCEPT ![c] = NoTimer]
  /\ remote' = [remote EXCEPT ![c] = NoAddr]
  /\ notified' = {}

\* kDisconnected is set, reported, and the entry erased before the return.
Disconnect(c) ==
  /\ state' = [state EXCEPT ![c] = "Idle"]
  /\ timer' = [timer EXCEPT ![c] = NoTimer]
  /\ remote' = [remote EXCEPT ![c] = NoAddr]
  /\ notified' = {<<c, "Disconnected">>}

\* An early return.
Ignore == notified' = {} /\ UNCHANGED <<state, timer, remote>>

SipInit ==
  /\ initialized = FALSE
  /\ registered = FALSE
  /\ state = [c \in CallId |-> "Idle"]
  /\ timer = [c \in CallId |-> NoTimer]
  /\ remote = [c \in CallId |-> NoAddr]
  /\ lastId = NoCall
  /\ lastHeaders = NoCall
  /\ notified = {}

(***************************************************************************)
(* Local API                                                               *)
(***************************************************************************)
Initialize ==
  /\ initialized' = TRUE
  /\ Ignore /\ Headers /\ UNCHANGED registered

\* osip_init has failed.
InitializeFails == Ignore /\ Headers /\ UNCHANGED <<initialized, registered>>

\* The calls are dropped without any notification.
Shutdown ==
  /\ initialized' = FALSE
  /\ registered' = FALSE
  /\ state' = [c \in CallId |-> "Idle"]
  /\ timer' = [c \in CallId |-> NoTimer]
  /\ remote' = [c \in CallId |-> NoAddr]
  /\ notified' = IF registered THEN {<<NoCall, "Unregistered">>} ELSE {}
  /\ Headers

Register ==
  /\ initialized
  /\ registered' = TRUE
  /\ notified' = {<<NoCall, "Registered">>}
  /\ Headers /\ UNCHANGED <<initialized, state, timer, remote>>

Unregister ==
  /\ registered
  /\ registered' = FALSE
  /\ notified' = {<<NoCall, "Unregistered">>}
  /\ Headers /\ UNCHANGED <<initialized, state, timer, remote>>

Flags == UNCHANGED <<initialized, registered>>

\* c is the Call-ID GenerateCallId draws; it is not in use.
MakeCall(c) ==
  /\ initialized
  /\ ~InTable(c)
  /\ Create(c, "Calling", {<<c, "Calling">>})
  /\ Headers /\ Flags

\* There is no guard on the state of the call.
AnswerCall(c, accept) ==
  /\ InTable(c)
  /\ IF accept THEN Move(c, "Connected") ELSE Disconnect(c)
  /\ Headers /\ Flags

HangUp(c) ==
  /\ InTable(c) /\ state[c] = "Connected"
  /\ Move(c, "Disconnecting")
  /\ Headers /\ Flags

CancelCall(c) ==
  /\ InTable(c)
  /\ Disconnect(c)
  /\ Headers /\ Flags

(***************************************************************************)
(* Messages from the network; every handler accepts every Call-ID          *)
(***************************************************************************)
\* Mutant: the headers are cached for new calls only.
HandleInviteCachingNew(c, full) ==
  /\ IF c = NoCall \/ InTable(c)
       THEN Ignore /\ Headers
       ELSE /\ lastId' = c
            /\ lastHeaders' = IF full THEN c ELSE lastHeaders
            /\ Create(c, "Connected", {<<c, "Ringing">>, <<c, "Connected">>})
  /\ Flags

\* `full` says whether the INVITE carries the headers that are cached: a
\* missing one leaves the previous request's value in the cache.
HandleInvite(c, full) ==
  /\ IF c = NoCall
       THEN Ignore /\ Headers
       ELSE /\ lastId' = c
            /\ lastHeaders' = IF full THEN c ELSE lastHeaders
            /\ IF InTable(c)
                 THEN Ignore
                 ELSE Create(c, "Connected",
                             {<<c, "Ringing">>, <<c, "Connected">>})
  /\ Flags

\* Mutant: BYE erases the entry without NotifyStateChange.
HandleByeSilent(c) ==
  /\ IF InTable(c) THEN DisconnectSilently(c) ELSE Ignore
  /\ Headers /\ Flags

HandleBye(c) ==
  /\ IF InTable(c) THEN Disconnect(c) ELSE Ignore
  /\ Headers /\ Flags

HandleCancel(c) ==
  /\ IF InTable(c) THEN Disconnect(c) ELSE Ignore
  /\ Headers /\ Flags

HandleAck == Ignore /\ Headers /\ Flags

StatusClass == {"1xx", "2xx", "3xx+"}

\* Mutant: a 200 connects a call in any state.
HandleResponseUnguarded(c, status) ==
  /\ CASE InTable(c) /\ status = "2xx" -> Move(c, "Connected")
       [] InTable(c) /\ status = "3xx+" -> Move(c, "Failed")
       [] OTHER -> Ignore
  /\ Headers /\ Flags

HandleResponse(c, status) ==
  /\ CASE InTable(c) /\ status = "2xx" /\ state[c] = "Calling" ->
            Move(c, "Connected")
       [] InTable(c) /\ status = "2xx" /\ state[c] = "Disconnecting" ->
            Disconnect(c)
       [] InTable(c) /\ status = "3xx+" -> Move(c, "Failed")
       [] OTHER -> Ignore
  /\ Headers /\ Flags

\* A parsed SDP body: `addr` is its connection address, possibly missing.  A
\* body that does not parse changes nothing, as HandleAck.
ProcessIncomingSdp(c, addr) ==
  /\ remote' = IF InTable(c) THEN [remote EXCEPT ![c] = addr] ELSE remote
  /\ notified' = {}
  /\ Headers /\ Flags /\ UNCHANGED <<state, timer>>

(***************************************************************************)
(* Retransmission timers                                                   *)
(***************************************************************************)
RunOut(t) == [level |-> t.level, retx |-> t.retx, expired |-> TRUE]

\* The clock reaches the end of a running timer.
Expire(c) ==
  /\ InTable(c) /\ ~timer[c].expired
  /\ timer' = [timer EXCEPT ![c] = RunOut(timer[c])]
  /\ notified' = {}
  /\ Headers /\ Flags /\ UNCHANGED <<state, remote>>

Due(c) == InTable(c) /\ timer[c].expired

IncrementRetransmit(t) ==
  [level |-> t.level, retx |-> t.retx + 1, expired |-> t.expired]

\* Mutant: the shift grows with every retransmission, without the count.
RetransmitUncounted(t) == StartTimer(t, t.level + 1)

\* IncrementRetransmit, then StartTimer(T1 << count).
Retransmit(t) ==
  LET u == IncrementRetransmit(t) IN StartTimer(u, u.retx)

\* ProcessTimers reads the clock twice per call: `late` are the calls whose
\* timer runs out between the two reads, which take the branch for calls with
\* no retransmission left.
ProcessTimers(late) ==
  LET resend == {c \in CallId : Due(c) /\ timer[c].retx < MaxRetransmit}
      giveUp == {c \in CallId : Due(c) /\ timer[c].retx >= MaxRetransmit}
                  \cup late
  IN  /\ late \subseteq {c \in CallId : InTable(c) /\ ~Due(c)}
      /\ state' = [c \in CallId |->
                     IF c \in giveUp THEN "Failed" ELSE state[c]]
      /\ timer' = [c \in CallId |->
                     IF c \in resend THEN Retransmit(timer[c])
                     ELSE IF c \in late THEN RunOut(timer[c])
                     ELSE timer[c]]
      /\ notified' = {<<c, "Failed">> : c \in giveUp}
      /\ Headers /\ Flags /\ UNCHANGED remote

(***************************************************************************)
(* Specification                                                           *)
(***************************************************************************)
\* One SIP message: the dispatch of ProcessIncomingMessage.
Receive ==
  \/ \E c \in CallId \cup {NoCall} :
       \/ \E full \in BOOLEAN : HandleInvite(c, full)
       \/ HandleBye(c)
       \/ HandleCancel(c)
       \/ \E status \in StatusClass : HandleResponse(c, status)
  \/ HandleAck

Local ==
  \/ Register
  \/ Unregister
  \/ \E c \in CallId : \/ \E accept \in BOOLEAN : AnswerCall(c, accept)
                       \/ HangUp(c)
                       \/ CancelCall(c)
                       \/ \E a \in Addr \cup {NoAddr} : ProcessIncomingSdp(c, a)

Tick == \E late \in SUBSET CallId : ProcessTimers(late)

\* Everything but MakeCall, Initialize and Shutdown, which SessionManager
\* wraps in operations of its own.
SipStep == Receive \/ Local \/ Tick \/ \E c \in CallId : Expire(c)

SipNext ==
  \/ Initialize
  \/ InitializeFails
  \/ Shutdown
  \/ \E c \in CallId : MakeCall(c)
  \/ SipStep

SipSpec == SipInit /\ [][SipNext]_sipVars

\* Timers do run out, and the loop of main.cpp keeps calling ProcessTimers.
\* Nothing is assumed of the race between its two clock reads.
TimerFairness ==
  /\ \A c \in CallId : WF_sipVars(Expire(c))
  /\ WF_sipVars(ProcessTimers({}))

FairSipSpec == SipSpec /\ TimerFairness

(***************************************************************************)
(* Properties                                                              *)
(***************************************************************************)
Event == ((CallId \X {"Calling", "Ringing", "Connected", "Disconnecting",
                      "Disconnected", "Failed"})
          \cup ({NoCall} \X {"Registered", "Unregistered"}))

\* Every variable holds a value of its C++ type; in particular the level and
\* the count of a retransmission timer stay within max_retransmit.
SipTypeOK ==
  /\ initialized \in BOOLEAN
  /\ registered \in BOOLEAN
  /\ state \in [CallId -> SipCallState]
  /\ timer \in [CallId -> Timer]
  /\ remote \in [CallId -> Addr \cup {NoAddr}]
  /\ lastId \in CallId \cup {NoCall}
  /\ lastHeaders \in CallId \cup {NoCall}
  /\ notified \subseteq Event

\* The states in which a call owns media resources.
Established(c) == state[c] \in {"Connected", "Disconnecting"}

Opened(c) == <<c, "Connected">> \in notified'
\* Mutant: kFailed is taken for an event that closes nothing.
ClosedByDisconnect(c) == <<c, "Disconnected">> \in notified'

Closed(c) == \E s \in {"Disconnected", "Failed"} : <<c, s>> \in notified'

\* What NotifyStateChange promises a listener that follows kConnected,
\* kDisconnected and kFailed (SessionManager::OnSipEvent): outside Shutdown a
\* call becomes established exactly with a kConnected event, stops being
\* established only with a kDisconnected or kFailed event, and never gets both
\* kinds in one step.
Reported(c) ==
  /\ Opened(c) => state'[c] = "Connected"
  /\ Closed(c) => state'[c] \in {"Idle", "Failed"}
  /\ ~Opened(c) /\ ~Closed(c) => (Established(c) <=> Established(c)')

NotificationsTrackCalls ==
  [][Shutdown \/ \A c \in CallId : Reported(c)]_sipVars

\* A retransmission timer that is never stopped (nothing stops it when the
\* call is answered) must not tear down an established call: a tick of
\* ProcessTimers whose two clock reads agree fails no connected call.
EstablishedOutlivesTimers ==
  [][ProcessTimers({}) =>
       \A c \in CallId : Established(c) => state'[c] = state[c]]_sipVars

Revived(c) == /\ state[c] \notin {"Calling", "Connected"}
              /\ state'[c] = "Connected"

Invited(c) == /\ state[c] = "Idle"
              /\ \E full \in BOOLEAN : HandleInvite(c, full)

\* A 200 that arrives after the call failed, was cancelled, hung up or forgotten
\* does not bring it up, nor does any other message but an INVITE for a Call-ID
\* not in the table; besides, only the application's own answer does.
LateAnswerIgnored ==
  [][\A c \in CallId :
       Revived(c) => Invited(c) \/ (~Receive /\ AnswerCall(c, TRUE))]_sipVars

\* SipConfig::max_retransmit and the "Max retransmit" branch: a call nobody
\* answers does not stay in kCalling for ever.
UnansweredCallEnds ==
  \A c \in CallId : state[c] = "Calling" ~> state[c] # "Calling"

=============================================================================
