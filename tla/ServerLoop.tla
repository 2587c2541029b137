----------------------------- MODULE ServerLoop -----------------------------
(***************************************************************************)
(* The server program, main.cpp: boot, then a loop that receives at most   *)
(* one datagram, hands it to SipManager, answers it, and runs the timers.  *)
(* It is SessionManager driven by one thread and by a UDP network that     *)
(* loses, repeats and reorders: any message of Message may arrive at any   *)
(* iteration, any number of times.                                         *)
(***************************************************************************)
EXTENDS SessionManager

CONSTANTS
  Message,   \* the datagrams peers send
  Body       \* what is in their bodies, as lines of SDP

INSTANCE Sdp

Kind == {"INVITE", "ACK", "BYE", "CANCEL", "1xx", "2xx", "3xx+", "other"}

\* A text is read twice.  osip parses its Call-ID header in any spelling (`id`);
\* main searches for the first "Call-ID: " (`seen`), which finds nothing when
\* the header is compact or in another case, and another name when an earlier
\* header ends in that word.  `full`: the request carries a Via branch, a From
\* tag and a CSeq.  `invite` and `bye`: the word occurs somewhere in the text,
\* as it does in the Allow header of any request and in the CSeq header of a
\* response.
MessageType == [kind : Kind, id : CallId \cup {NoCall}, full : BOOLEAN,
                seen : CallId \cup {NoCall}, body : Body,
                invite : BOOLEAN, bye : BOOLEAN]

ASSUME MessageAssumption ==
  /\ Message \subseteq MessageType
  /\ \A m \in Message : /\ m.kind = "INVITE" => m.invite
                        /\ m.kind = "BYE" => m.bye
  /\ Body \subseteq Seq(Line)

VARIABLES
  pc,      \* where the main thread is
  msg,     \* the datagram in its buffer
  sent     \* the final responses this iteration has sent, for properties only

loopVars == <<pc, msg, sent>>
serverVars == <<sessionVars, loopVars>>

NoMessage == [kind |-> "other", id |-> NoCall, full |-> FALSE, seen |-> NoCall,
              body |-> <<>>, invite |-> FALSE, bye |-> FALSE]

Goto(label) == pc' = label

ServerInit ==
  /\ SessionInit
  /\ pc = "callback" /\ msg = NoMessage /\ sent = {}

(***************************************************************************)
(* Boot                                                                    *)
(***************************************************************************)
\* SetSipEventCallback, Start and Register, in this order; main returns when
\* Start has failed.
Boot ==
  \/ pc = "callback" /\ SetSipEventCallback /\ Goto("start")
  \/ pc = "start" /\ Start /\ Goto(IF running' THEN "register" ELSE "stopped")
  \/ /\ pc = "register" /\ Register /\ Goto("recv")
     /\ Callback /\ UNCHANGED <<running, cb>>

(***************************************************************************)
(* One iteration                                                           *)
(***************************************************************************)
\* Mutant: the SIP layer moves and SessionManager is not told.
ProcessIncomingMessageUnheard(m) ==
  /\ CASE m.kind = "INVITE" -> HandleInvite(m.id, m.full)
       [] m.kind = "BYE"    -> HandleBye(m.id)
       [] m.kind = "CANCEL" -> HandleCancel(m.id)
       [] m.kind \in StatusClass -> HandleResponse(m.id, m.kind)
       [] OTHER -> HandleAck
  /\ UNCHANGED <<ctxVars, running, cb>>

\* ProcessIncomingMessage; a method nobody handles and a text that does not
\* parse have no effect.
ProcessIncomingMessage(m) ==
  /\ CASE m.kind = "INVITE" -> HandleInvite(m.id, m.full)
       [] m.kind = "BYE"    -> HandleBye(m.id)
       [] m.kind = "CANCEL" -> HandleCancel(m.id)
       [] m.kind \in StatusClass -> HandleResponse(m.id, m.kind)
       [] OTHER -> HandleAck
  /\ Callback /\ UNCHANGED <<running, cb>>

Receive1 ==
  \E m \in Message :
    /\ pc = "recv" /\ Goto("sdp")
    /\ ProcessIncomingMessage(m)
    /\ msg' = m /\ UNCHANGED sent

\* The socket is non-blocking: the timers run also when nothing has arrived.
ReceiveNothing ==
  /\ pc = "recv" /\ Goto("timers")
  /\ msg' = NoMessage
  /\ UNCHANGED <<sessionVars, sent>>

\* The body of any text that mentions INVITE is taken for an SDP offer, of
\* the call main's own search has found.
ReadOffer ==
  /\ pc = "sdp" /\ Goto("reply")
  /\ IF msg.invite /\ Parses(msg.body) /\ msg.seen # NoCall
       THEN /\ ProcessIncomingSdp(msg.seen, Parsed(msg.body).addr)
            /\ Callback /\ UNCHANGED <<running, cb>>
       ELSE UNCHANGED sessionVars
  /\ UNCHANGED <<msg, sent>>

\* BuildSdpAnswer: no body for a call not in the table; otherwise the ports
\* of its SessionInfo, whatever they hold.
SdpAnswer(c) ==
  IF ~InTable(c) THEN "none" ELSE IF c \in ports THEN "ports" ELSE "garbage"

\* BuildInviteResponse echoes the cached request, not the one in hand; the
\* body is for the call main's search has found.
InviteResponse ==
  [answers |-> "INVITE", to |-> msg, id |-> lastId, headers |-> lastHeaders,
   body |-> SdpAnswer(msg.seen)]

\* BuildResponse: the Call-ID is drawn at random, so it is nobody's.
ByeResponse ==
  [answers |-> "BYE", to |-> msg, id |-> NoCall, headers |-> NoCall,
   body |-> "none"]

\* 180 and 200 to a text with INVITE, 200 to one with BYE; the 180 carries
\* the same headers as the 200 and no body.
Reply ==
  /\ pc = "reply" /\ Goto("timers")
  /\ sent' = (IF msg.invite THEN {InviteResponse} ELSE {})
               \cup (IF msg.bye THEN {ByeResponse} ELSE {})
  /\ UNCHANGED <<sessionVars, msg>>

RunTimers ==
  /\ pc = "timers" /\ Goto("recv")
  /\ Tick
  /\ Callback /\ UNCHANGED <<running, cb>>
  /\ sent' = {} /\ UNCHANGED msg

\* A signal clears g_running.
Quit ==
  /\ pc = "recv" /\ Goto("stopped")
  /\ Stop
  /\ UNCHANGED <<msg, sent>>

(***************************************************************************)
(* Specification                                                           *)
(***************************************************************************)
\* Time passes, and the RTP thread's timer fires, between any two steps.
Clock ==
  /\ \E c \in CallId : Expire(c)
  /\ Callback /\ UNCHANGED <<running, cb, loopVars>>

Report == OnRtcpTimer /\ UNCHANGED loopVars

ServerNext ==
  \/ Boot /\ UNCHANGED <<msg, sent>>
  \/ Receive1
  \/ ReceiveNothing
  \/ ReadOffer
  \/ Reply
  \/ RunTimers
  \/ Quit
  \/ Clock
  \/ Report

ServerSpec == ServerInit /\ [][ServerNext]_serverVars

\* The periodic timer of the RTP thread keeps firing while it runs.
FairServerSpec == ServerSpec /\ WF_serverVars(Report)

(***************************************************************************)
(* Properties                                                              *)
(***************************************************************************)
\* With retransmitted and interleaved INVITEs of several calls, each INVITE
\* that carries its headers is answered with its own Call-ID and headers; and
\* with a body, when main's search finds the Call-ID that osip has parsed.
InvitesAnsweredInKind ==
  \A r \in sent :
    r.answers = "INVITE" /\ r.to.kind = "INVITE" /\ r.to.id # NoCall =>
      /\ r.id = r.to.id
      /\ r.to.full => r.headers = r.to.id
      /\ r.to.seen = r.to.id => r.body # "none"

MediaLines(body) == {k \in DOMAIN body : body[k].field = "m"}

\* The connection lines that have an address.
FullConnections(body) ==
  {k \in DOMAIN body : body[k].field = "c" /\ body[k].addr # NoAddr}

\* a is the address of the last of the connection lines ks.
AddressOfLast(a, body, ks) ==
  \E k \in ks : a = body[k].addr /\ \A j \in ks : j <= k

\* The text in hand is about to be answered for a call of the table that
\* both readings of its Call-ID name.
Offering == /\ pc = "reply" /\ msg.invite
            /\ msg.seen = msg.id /\ InTable(msg.id)

\* WORKFLOW.md: SDP negotiation finds the peer's address by itself.  When an
\* INVITE whose addresses are all for the session, ahead of its media, is
\* answered, its call has the address of the last line that has one, or none.
OffersRead ==
  LET body == msg.body
      full == FullConnections(body)
      first == \A k \in full : \A m \in MediaLines(body) : k < m
  IN  Offering /\ MediaLines(body) # {} /\ first =>
        IF full = {} THEN remote[msg.id] = NoAddr
        ELSE AddressOfLast(remote[msg.id], body, full)

\* No answer names a port computed from an unassigned field, and one that
\* names ports is backed by a context that listens there, whatever text it
\* answers, unless the call has failed and is still in the table.
AnswersAreBacked ==
  \A r \in sent :
    /\ r.body # "garbage"
    /\ r.body = "ports" => r.to.seen \in contexts \/ state[r.to.seen] = "Failed"

\* The datagram the step takes from the socket is m.
Takes(m) == pc = "recv" /\ pc' = "sdp" /\ msg' = m

\* WORKFLOW.md: a BYE releases the RTP and RTCP resources of its call.  The
\* step that processes it leaves no context, and a context comes, then or
\* ever after, only with an INVITE for its call.
ByeReclaims ==
  [][/\ \A m \in Message :
          Takes(m) /\ m.kind = "BYE" => m.id \notin contexts'
     /\ \A c \in contexts' \ contexts :
          \E m \in Message : Takes(m) /\ m.kind = "INVITE" /\ m.id = c]_serverVars

\* WORKFLOW.md: every 5 s a report goes to remote_audio_port + 1.  A call
\* whose peer address is known gets a report, unless it ends first.
ReportsReachPeer ==
  \A c \in CallId :
    (c \in contexts /\ remote[c] # NoAddr)
       ~> (c \in reported \/ c \notin contexts)

=============================================================================
