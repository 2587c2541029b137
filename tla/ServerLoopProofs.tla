-------------------------- MODULE ServerLoopProofs --------------------------
(***************************************************************************)
(* The server program implements SessionManager's specification, so what   *)
(* is proved of any driver of SessionManager holds of main.cpp; and what   *)
(* the program answers, for every set of messages peers may send.          *)
(***************************************************************************)
EXTENDS ServerLoop, SessionManagerProofs, NumberTheorems

\* From Register until Stop the session manager runs, with its own callback.
Booted ==
  /\ pc \in {"callback", "start", "register", "recv", "sdp", "reply", "timers",
             "stopped"}
  /\ pc \in {"callback", "start", "stopped"} => ~running
  /\ pc \in {"register", "recv", "sdp", "reply", "timers"} => Serving

MessageOK == msg \in Message \cup {NoMessage}

\* A call of the server got its ports when it was answered, and keeps them
\* for as long as it is in the table.
TablePorts == \A c \in CallId : InTable(c) => c \in ports

ServerInv == SessionInv /\ Booted /\ MessageOK /\ TablePorts

(***************************************************************************)
(* Offers                                                                  *)
(***************************************************************************)
\* The connection lines with an address among the first n lines of a body.
FullLines(body, n) == {k \in 1..n : body[k].field = "c" /\ body[k].addr # NoAddr}

\* The address of the last of them, or none.
LastAddr(addr, body, n) ==
  IF FullLines(body, n) = {} THEN addr = NoAddr
  ELSE \E k \in FullLines(body, n) :
         addr = body[k].addr /\ \A j \in FullLines(body, n) : j <= k

\* What the loop of Parse has found after n lines.
HasRead(out, body, n) ==
  /\ out \in [addr : Addr \cup {NoAddr}, media : Seq(Line)]
  /\ out.media # <<>> <=> \E k \in 1..n : body[k].field = "m"
  /\ LastAddr(out.addr, body, n)

\* A line without an address leaves the one found.
LEMMA OtherLine ==
  ASSUME NEW body, NEW n \in Nat, NEW addr, LastAddr(addr, body, n),
         ~(body[n + 1].field = "c" /\ body[n + 1].addr # NoAddr)
  PROVE  LastAddr(addr, body, n + 1)
  <1>1. FullLines(body, n + 1) = FullLines(body, n)
    BY DEF FullLines
  <1> QED  BY <1>1 DEF LastAddr

\* A connection line with an address replaces it.
LEMMA FullLine ==
  ASSUME NEW body, NEW n \in Nat,
         body[n + 1].field = "c", body[n + 1].addr # NoAddr
  PROVE  LastAddr(body[n + 1].addr, body, n + 1)
  <1>1. n + 1 \in FullLines(body, n + 1)
    BY DEF FullLines
  <1>2. \A j \in FullLines(body, n + 1) : j <= n + 1
    BY DEF FullLines
  <1> QED  BY <1>1, <1>2 DEF LastAddr

\* One round of the loop.
LEMMA ReadLine ==
  ASSUME NEW body \in Seq(Line), NEW n \in Nat, n + 1 <= Len(body),
         NEW out, HasRead(out, body, n)
  PROVE  HasRead(ParseLine(out, body[n + 1]), body, n + 1)
  <1> DEFINE line == body[n + 1]
             next == ParseLine(out, line)
  <1>1. line \in Line
    OBVIOUS
  <1>2. /\ out \in [addr : Addr \cup {NoAddr}, media : Seq(Line)]
        /\ out.media # <<>> <=> \E k \in 1..n : body[k].field = "m"
        /\ LastAddr(out.addr, body, n)
    BY DEF HasRead
  <1>3. \A k \in 1..(n + 1) : k \in 1..n \/ k = n + 1
    OBVIOUS
  <1>4. n + 1 \in 1..(n + 1) /\ 1..n \subseteq 1..(n + 1)
    OBVIOUS
  <1>5. CASE line.field = "c" /\ line.addr # NoAddr
    <2>1. next = [out EXCEPT !.addr = line.addr]
      BY <1>5 DEF ParseLine
    <2>2. line.addr \in Addr
      BY <1>1, <1>5 DEF Line, Other
    <2>3. /\ next \in [addr : Addr \cup {NoAddr}, media : Seq(Line)]
          /\ next.addr = line.addr /\ next.media = out.media
      BY <1>2, <2>1, <2>2
    <2>4. (\E k \in 1..n : body[k].field = "m")
            <=> \E k \in 1..(n + 1) : body[k].field = "m"
      BY <1>3, <1>4, <1>5
    <2>5. LastAddr(next.addr, body, n + 1)
      BY <1>5, <2>3, FullLine
    <2> QED  BY <1>2, <2>3, <2>4, <2>5 DEF HasRead
  <1>6. CASE line.field = "m"
    <2>1. next = [out EXCEPT !.media = Append(@, line)]
      BY <1>6 DEF ParseLine
    <2>2. /\ next \in [addr : Addr \cup {NoAddr}, media : Seq(Line)]
          /\ next.addr = out.addr /\ next.media = Append(out.media, line)
      <3>1. out.addr \in Addr \cup {NoAddr} /\ out.media \in Seq(Line)
        BY <1>2
      <3>2. Append(out.media, line) \in Seq(Line)
        BY <1>1, <3>1
      <3>3. next = [addr |-> out.addr, media |-> Append(out.media, line)]
        BY <1>2, <2>1
      <3> QED  BY <3>1, <3>2, <3>3
    <2>3. next.media # <<>>
      <3>1. out.media \in Seq(Line)
        BY <1>2
      <3>2. Len(Append(out.media, line)) = Len(out.media) + 1 /\ Len(out.media) \in Nat
        BY <1>1, <3>1
      <3> QED  BY <2>2, <3>2
    <2>4. \E k \in 1..(n + 1) : body[k].field = "m"
      BY <1>4, <1>6
    <2>5. LastAddr(next.addr, body, n + 1)
      BY <1>2, <1>6, <2>2, OtherLine
    <2> QED  BY <2>2, <2>3, <2>4, <2>5 DEF HasRead
  <1>7. CASE ~(line.field = "c" /\ line.addr # NoAddr) /\ line.field # "m"
    <2>1. next = out
      BY <1>7 DEF ParseLine
    <2>2. (\E k \in 1..n : body[k].field = "m")
            <=> \E k \in 1..(n + 1) : body[k].field = "m"
      BY <1>3, <1>4, <1>7
    <2>3. LastAddr(out.addr, body, n + 1)
      BY <1>2, <1>7, OtherLine
    <2> QED  BY <1>2, <2>1, <2>2, <2>3 DEF HasRead
  <1> QED  BY <1>5, <1>6, <1>7

\* What Parse evaluates for the first n lines: h[k] is what k rounds find.
Reading(h, body, n) ==
  h = [k \in 0..n |-> IF k = 0 THEN EmptySession ELSE ParseLine(h[k - 1], body[k])]

\* The loop is defined however long the body is.
LEMMA ReadingExists ==
  ASSUME NEW body, NEW n \in Nat
  PROVE  \E h : Reading(h, body, n)
  <1> DEFINE Bad == {m \in Nat : ~ \E h : Reading(h, body, m)}
  <1> SUFFICES Bad = {}
    OBVIOUS
  <1> SUFFICES ASSUME Bad # {} PROVE FALSE
    OBVIOUS
  <1>1. Bad \subseteq Nat
    OBVIOUS
  <1>2. PICK m \in Bad : \A y \in Bad : m <= y
    <2> HIDE DEF Bad
    <2> QED  BY <1>1, LeastNat
  <1>3. m \in Nat /\ ~ \E h : Reading(h, body, m)
    OBVIOUS
  <1>4. CASE m = 0
    <2> DEFINE g == [k \in 0..0 |-> EmptySession]
    <2>1. \A k \in 0..0 : k = 0
      OBVIOUS
    <2>2. g = [k \in 0..0 |-> IF k = 0 THEN EmptySession ELSE ParseLine(g[k - 1], body[k])]
      BY <2>1, Zenon
    <2>3. Reading(g, body, 0)
      BY <2>2 DEF Reading
    <2> QED  BY <1>3, <1>4, <2>3
  <1>5. CASE m # 0
    <2>1. m - 1 \in Nat /\ ~(m <= m - 1)
      BY <1>3, <1>5
    <2>2. PICK h : Reading(h, body, m - 1)
      BY <1>2, <2>1
    <2>3. \A k \in 0..(m - 1) :
            h[k] = IF k = 0 THEN EmptySession ELSE ParseLine(h[k - 1], body[k])
      BY <2>2 DEF Reading
    <2> DEFINE g == [k \in 0..m |-> IF k = m THEN ParseLine(h[m - 1], body[m]) ELSE h[k]]
    <2>4. ASSUME NEW k \in 0..m
          PROVE  g[k] = IF k = 0 THEN EmptySession ELSE ParseLine(g[k - 1], body[k])
      <3>1. CASE k = m
        <4>1. m - 1 \in 0..m /\ m - 1 # m /\ m \in 0..m
          BY <1>3, <2>1
        <4>2. g[m] = ParseLine(h[m - 1], body[m]) /\ g[m - 1] = h[m - 1]
          BY <4>1
        <4> HIDE DEF g
        <4> QED  BY <1>5, <3>1, <4>2
      <3>2. CASE k # m /\ k # 0
        <4>1. k \in 0..(m - 1) /\ k - 1 \in 0..m /\ k - 1 # m
          BY <1>3, <3>2
        <4>2. g[k] = h[k] /\ g[k - 1] = h[k - 1]
          BY <3>2, <4>1
        <4> HIDE DEF g
        <4> QED  BY <2>3, <3>2, <4>1, <4>2
      <3>3. CASE k = 0
        <4>1. 0 \in 0..(m - 1) /\ 0 # m
          BY <1>5, <2>1
        <4>2. g[0] = h[0]
          BY <3>3, <4>1
        <4> HIDE DEF g
        <4> QED  BY <2>3, <3>3, <4>1, <4>2
      <3> QED  BY <3>1, <3>2, <3>3
    <2>5. g = [k \in 0..m |-> g[k]]
      OBVIOUS
    <2> HIDE DEF g
    <2>6. g = [k \in 0..m |-> IF k = 0 THEN EmptySession ELSE ParseLine(g[k - 1], body[k])]
      BY <2>4, <2>5
    <2>7. Reading(g, body, m)
      BY <2>6 DEF Reading
    <2> QED  BY <1>3, <2>7
  <1> QED  BY <1>4, <1>5

\* Parse has read the whole body.
LEMMA ParseReads ==
  ASSUME NEW body \in Seq(Line)
  PROVE  HasRead(Parsed(body), body, Len(body))
  <1> DEFINE N == Len(body)
  <1>1. N \in Nat
    OBVIOUS
  <1>2. PICK h : Reading(h, body, N) /\ Parsed(body) = h[N]
    <2>1. \E h : Reading(h, body, N)
      BY <1>1, ReadingExists
    <2>2. Reading(CHOOSE h : Reading(h, body, N), body, N)
      BY <2>1, Zenon
    <2>3. Parsed(body) = (CHOOSE h : Reading(h, body, N))[N]
      BY Zenon DEF Parsed, Reading
    <2> QED  BY <2>2, <2>3
  <1>3. \A k \in 0..N : h[k] = IF k = 0 THEN EmptySession ELSE ParseLine(h[k - 1], body[k])
    BY <1>2 DEF Reading
  <1> DEFINE Bad == {k \in 0..N : ~HasRead(h[k], body, k)}
  <1>4. Bad = {}
    <2> SUFFICES ASSUME Bad # {} PROVE FALSE
      OBVIOUS
    <2>1. Bad \subseteq Nat
      OBVIOUS
    <2>2. PICK k \in Bad : \A y \in Bad : k <= y
      <3> HIDE DEF Bad
      <3> QED  BY <2>1, LeastNat
    <2>3. k \in 0..N /\ ~HasRead(h[k], body, k)
      OBVIOUS
    <2>4. k # 0
      <3>1. h[0] = EmptySession
        BY <1>1, <1>3
      <3>2. 1..0 = {} /\ FullLines(body, 0) = {}
        BY DEF FullLines
      <3>3. HasRead(EmptySession, body, 0)
        BY <3>2 DEF HasRead, EmptySession, LastAddr
      <3> QED  BY <2>3, <3>1, <3>3
    <2>5. /\ k - 1 \in 0..N /\ ~(k <= k - 1) /\ k - 1 \in Nat
          /\ k - 1 + 1 = k /\ k <= Len(body)
      BY <1>1, <2>3, <2>4
    <2>6. HasRead(h[k - 1], body, k - 1)
      BY <2>2, <2>5
    <2>7. h[k] = ParseLine(h[k - 1], body[k])
      BY <1>3, <2>3, <2>4
    <2>8. HasRead(ParseLine(h[k - 1], body[k - 1 + 1]), body, k - 1 + 1)
      BY <2>5, <2>6, ReadLine
    <2> QED  BY <2>3, <2>5, <2>7, <2>8
  <1> QED  BY <1>1, <1>2, <1>4

(***************************************************************************)
(* The invariant                                                           *)
(***************************************************************************)
\* What MessageAssumption says of the datagram in hand.
LEMMA MessageFields ==
  ASSUME NEW m \in Message \cup {NoMessage}
  PROVE  /\ m.kind \in Kind /\ m.id \in CallId \cup {NoCall}
         /\ m.seen \in CallId \cup {NoCall} /\ m.full \in BOOLEAN
         /\ m.invite => Parsed(m.body).addr \in Addr \cup {NoAddr}
         /\ m.invite \in BOOLEAN /\ m.bye \in BOOLEAN
         /\ m.kind = "INVITE" => m \in Message /\ m.invite
  <1>1. CASE m \in Message
    <2>1. m.body \in Seq(Line)
      BY <1>1, MessageAssumption DEF MessageType
    <2>2. Parsed(m.body).addr \in Addr \cup {NoAddr}
      BY <2>1, ParseReads DEF HasRead
    <2> QED  BY <1>1, <2>2, MessageAssumption DEF MessageType
  <1>2. CASE m = NoMessage
    BY <1>2 DEF NoMessage, Kind
  <1> QED  BY <1>1, <1>2

\* A datagram is one SIP step.
LEMMA DatagramStep ==
  ASSUME NEW m \in Message, running, ProcessIncomingMessage(m)
  PROVE  Receive /\ SessionSipStep
  <1>1. m.kind \in Kind /\ m.id \in CallId \cup {NoCall} /\ m.full \in BOOLEAN
    BY MessageFields
  <1>2. Receive
    BY <1>1 DEF ProcessIncomingMessage, Receive
  <1> QED  BY <1>2 DEF ProcessIncomingMessage, SessionSipStep, SipStep

\* Every step of the program is a step of SessionManager or leaves it alone.
LEMMA ServerStepRefines ==
  ASSUME ServerInv, [ServerNext]_serverVars
  PROVE  [SessionNext]_sessionVars
  <1> USE DEF ServerInv, Booted, Serving
  <1>1. CASE Boot
    <2>1. CASE pc = "callback" /\ SetSipEventCallback
      BY <2>1 DEF SessionNext
    <2>2. CASE pc = "start" /\ Start
      BY <2>2 DEF SessionNext
    <2>3. CASE pc = "register" /\ Register /\ Callback /\ UNCHANGED <<running, cb>>
      BY <2>3 DEF SessionNext, SessionSipStep, SipStep, Local
    <2> QED  BY <1>1, <2>1, <2>2, <2>3 DEF Boot
  <1>2. CASE Receive1
    BY <1>2, DatagramStep DEF Receive1, SessionNext
  <1>3. CASE ReceiveNothing \/ Reply
    BY <1>3 DEF ReceiveNothing, Reply
  <1>4. CASE ReadOffer
    <2>1. CASE UNCHANGED sessionVars
      BY <2>1
    <2>2. CASE /\ msg.invite /\ Parses(msg.body) /\ msg.seen # NoCall
               /\ ProcessIncomingSdp(msg.seen, Parsed(msg.body).addr)
               /\ Callback /\ UNCHANGED <<running, cb>>
      <3>1. msg.seen \in CallId /\ Parsed(msg.body).addr \in Addr \cup {NoAddr}
        BY <2>2, MessageFields DEF MessageOK
      <3> QED  BY <1>4, <2>2, <3>1
               DEF ReadOffer, SessionNext, SessionSipStep, SipStep, Local
    <2> QED  BY <1>4, <2>1, <2>2 DEF ReadOffer
  <1>5. CASE RunTimers
    BY <1>5 DEF RunTimers, SessionNext, SessionSipStep, SipStep
  <1>6. CASE Quit
    BY <1>6 DEF Quit, SessionNext
  <1>7. CASE Clock
    <2>1. running
      BY <1>7 DEF Clock, Expire, InTable, SessionInv, StoppedIsClean
    <2> QED  BY <1>7, <2>1 DEF Clock, SessionNext, SessionSipStep, SipStep
  <1>8. CASE Report
    BY <1>8 DEF Report, SessionNext
  <1>9. CASE UNCHANGED serverVars
    BY <1>9 DEF serverVars
  <1> QED  BY <1>1, <1>2, <1>3, <1>4, <1>5, <1>6, <1>7, <1>8, <1>9 DEF ServerNext

\* Without MakeCall a call enters the table connected, and reported so.
LEMMA EntersConnected ==
  ASSUME TableOK, SipStep, NEW c \in CallId, ~InTable(c), InTable(c)'
  PROVE  Opened(c)
  <1> USE DEF InTable, TableOK
  <1>1. ASSUME UNCHANGED state PROVE FALSE
    BY <1>1
  <1>2. ASSUME NEW d \in CallId, Disconnect(d) PROVE FALSE
    BY <1>2 DEF Disconnect
  <1>3. ASSUME NEW d \in CallId, InTable(d), NEW s, Move(d, s) PROVE FALSE
    BY <1>3 DEF Move
  <1>4. CASE Receive
    <2>1. CASE HandleAck
      BY <1>1, <2>1 DEF HandleAck, Ignore
    <2>2. ASSUME NEW d \in CallId \cup {NoCall}, NEW full \in BOOLEAN,
                 HandleInvite(d, full)
          PROVE  Opened(c)
      <3>1. /\ d \in CallId
            /\ Create(d, "Connected", {<<d, "Ringing">>, <<d, "Connected">>})
        BY <1>1, <2>2 DEF HandleInvite, Ignore
      <3>2. d = c
        BY <3>1 DEF Create
      <3> QED  BY <3>1, <3>2 DEF Create, Opened
    <2>3. ASSUME NEW d \in CallId \cup {NoCall}, HandleBye(d) \/ HandleCancel(d)
          PROVE  FALSE
      BY <1>1, <1>2, <2>3 DEF HandleBye, HandleCancel, Ignore
    <2>4. ASSUME NEW d \in CallId \cup {NoCall}, NEW status \in StatusClass,
                 HandleResponse(d, status)
          PROVE  FALSE
      <3>1. \/ Ignore
            \/ d \in CallId /\ Disconnect(d)
            \/ InTable(d) /\ Move(d, "Connected")
            \/ InTable(d) /\ Move(d, "Failed")
        BY <2>4 DEF HandleResponse
      <3> QED  BY <1>1, <1>2, <1>3, <3>1 DEF Ignore
    <2> QED  BY <1>4, <2>1, <2>2, <2>3, <2>4 DEF Receive
  <1>5. CASE Local
    <2>1. ASSUME NEW d \in CallId, NEW accept \in BOOLEAN, AnswerCall(d, accept)
          PROVE  FALSE
      BY <1>2, <1>3, <2>1 DEF AnswerCall
    <2>2. ASSUME NEW d \in CallId, HangUp(d) \/ CancelCall(d) PROVE FALSE
      BY <1>2, <1>3, <2>2 DEF HangUp, CancelCall
    <2> QED  BY <1>1, <1>5, <2>1, <2>2
             DEF Local, Register, Unregister, ProcessIncomingSdp
  <1>6. CASE Tick
    <2>1. PICK late \in SUBSET CallId : ProcessTimers(late)
      BY <1>6 DEF Tick
    <2> QED  BY <2>1 DEF ProcessTimers, Due
  <1>7. CASE \E d \in CallId : Expire(d)
    BY <1>1, <1>7 DEF Expire
  <1> QED  BY <1>4, <1>5, <1>6, <1>7 DEF SipStep

\* So the ports of every call in the server's table stay assigned.
LEMMA StepPorts ==
  ASSUME TableOK, TablePorts, SipStep, cb = "session", Callback
  PROVE  TablePorts'
  <1> SUFFICES ASSUME NEW c \in CallId, InTable(c)' PROVE c \in ports'
    BY DEF TablePorts
  <1>1. InTable(c) \/ Opened(c)
    BY EntersConnected
  <1> QED  BY <1>1 DEF Callback, OnSipEvent, TablePorts, InTable

\* The program starts with the invariant.
LEMMA ServerInitInv == ServerInit => ServerInv
  <1> SUFFICES ASSUME ServerInit PROVE ServerInv
    OBVIOUS
  <1>1. SessionInv
    BY SessionInitInv DEF ServerInit
  <1>2. TablePorts
    BY DEF ServerInit, SessionInit, SipInit, TablePorts, InTable
  <1> QED  BY <1>1, <1>2 DEF ServerInit, SessionInit, ServerInv, Booted, MessageOK

\* No line of main breaks it.
LEMMA ServerStepInv == ServerInv /\ [ServerNext]_serverVars => ServerInv'
  <1> SUFFICES ASSUME ServerInv, [ServerNext]_serverVars
               PROVE  ServerInv'
    OBVIOUS
  <1>1. SessionInv'
    BY ServerStepRefines, SessionStepInv DEF ServerInv
  <1> USE DEF ServerInv, Booted, Serving, Goto
  <1>2. CASE Boot /\ UNCHANGED <<msg, sent>>
    <2>1. CASE pc = "callback" /\ SetSipEventCallback /\ Goto("start")
      BY <1>1, <1>2, <2>1 DEF SetSipEventCallback, Ignore, ctxVars, TablePorts,
                              InTable, MessageOK
    <2>2. CASE pc = "start" /\ Start /\ Goto(IF running' THEN "register" ELSE "stopped")
      BY <1>1, <1>2, <2>2 DEF Start, Initialize, InitializeFails, Ignore, ctxVars,
                              TablePorts, InTable, MessageOK
    <2>3. CASE /\ pc = "register" /\ Register /\ Goto("recv")
               /\ Callback /\ UNCHANGED <<running, cb>>
      <3>1. SipStep
        BY <2>3 DEF SipStep, Local
      <3>2. TablePorts'
        BY <2>3, <3>1, StepPorts DEF SessionInv
      <3> QED  BY <1>1, <1>2, <2>3, <3>2 DEF MessageOK
    <2> QED  BY <1>2, <2>1, <2>2, <2>3 DEF Boot
  <1>3. CASE Receive1
    <2>1. PICK m \in Message :
            /\ pc = "recv" /\ pc' = "sdp"
            /\ ProcessIncomingMessage(m) /\ msg' = m
      BY <1>3 DEF Receive1
    <2>2. SipStep /\ Callback /\ UNCHANGED <<running, cb>>
      BY <2>1, DatagramStep DEF SipStep, ProcessIncomingMessage
    <2>3. TablePorts'
      BY <2>1, <2>2, StepPorts DEF SessionInv
    <2> QED  BY <1>1, <2>1, <2>2, <2>3 DEF MessageOK
  <1>4. CASE ReceiveNothing \/ Reply
    BY <1>1, <1>4 DEF ReceiveNothing, Reply, sessionVars, sipVars, ctxVars,
                      TablePorts, InTable, MessageOK
  <1>5. CASE ReadOffer
    <2>1. CASE UNCHANGED sessionVars
      BY <1>1, <1>5, <2>1 DEF ReadOffer, sessionVars, sipVars, ctxVars,
                              TablePorts, InTable, MessageOK
    <2>2. CASE /\ msg.invite /\ Parses(msg.body) /\ msg.seen # NoCall
               /\ ProcessIncomingSdp(msg.seen, Parsed(msg.body).addr)
               /\ Callback /\ UNCHANGED <<running, cb>>
      <3>1. pc = "sdp" /\ pc' = "reply" /\ UNCHANGED <<msg, sent>>
        BY <1>5 DEF ReadOffer
      <3>2. msg.seen \in CallId /\ Parsed(msg.body).addr \in Addr \cup {NoAddr}
        BY <2>2, MessageFields DEF MessageOK
      <3>3. SipStep
        BY <2>2, <3>2 DEF SipStep, Local
      <3>4. TablePorts'
        BY <2>2, <3>1, <3>3, StepPorts DEF SessionInv
      <3> QED  BY <1>1, <2>2, <3>1, <3>4 DEF MessageOK
    <2> QED  BY <1>5, <2>1, <2>2 DEF ReadOffer
  <1>6. CASE RunTimers
    <2>1. SipStep
      BY <1>6 DEF RunTimers, SipStep
    <2>2. TablePorts'
      BY <1>6, <2>1, StepPorts DEF RunTimers, SessionInv
    <2> QED  BY <1>1, <1>6, <2>2 DEF RunTimers, MessageOK
  <1>7. CASE Quit
    BY <1>1, <1>7 DEF Quit, Stop, Shutdown, TablePorts, InTable, MessageOK
  <1>8. CASE Clock
    <2>1. PICK c \in CallId : Expire(c)
      BY <1>8 DEF Clock
    <2>2. UNCHANGED <<running, cb, state, pc, msg, sent>>
      BY <1>8, <2>1 DEF Clock, Expire, loopVars
    <2>3. running
      BY <2>1 DEF Expire, InTable, SessionInv, StoppedIsClean
    <2>4. SipStep /\ cb = "session" /\ Callback
      BY <1>8, <2>1, <2>3 DEF Clock, SipStep
    <2>5. TablePorts'
      BY <2>4, StepPorts DEF SessionInv
    <2> QED  BY <1>1, <2>2, <2>5 DEF MessageOK
  <1>9. CASE Report
    BY <1>1, <1>9 DEF Report, OnRtcpTimer, Ignore, loopVars, TablePorts, InTable,
                      MessageOK
  <1>10. CASE UNCHANGED serverVars
    BY <1>1, <1>10 DEF serverVars, loopVars, sessionVars, sipVars, ctxVars,
                       TablePorts, InTable, MessageOK
  <1> QED  BY <1>2, <1>3, <1>4, <1>5, <1>6, <1>7, <1>8, <1>9, <1>10 DEF ServerNext

\* ServerInv holds in every reachable state of the program.
THEOREM ServerInvariant == ServerSpec => []ServerInv
  BY ServerInitInv, ServerStepInv, PTL DEF ServerSpec

\* main.cpp drives SessionManager as its specification allows, so everything
\* proved of SessionSpec is proved of the program.
THEOREM ServerImplementsSession == ServerSpec => SessionSpec
  <1>1. ServerInit => SessionInit
    BY DEF ServerInit
  <1>2. ServerInv /\ [ServerNext]_serverVars => [SessionNext]_sessionVars
    BY ServerStepRefines
  <1> QED  BY <1>1, <1>2, ServerInvariant, PTL DEF ServerSpec, SessionSpec

\* In the program the contexts are those of the established calls.
THEOREM ServerContexts == ServerSpec => []ContextsTrackCalls
  BY ServerImplementsSession, ContextsTrack, PTL

(***************************************************************************)
(* What the program answers                                                *)
(***************************************************************************)
\* Between its processing and its answer an INVITE is the cached request and
\* its call is in the table; a BYE has released its call.
InHand ==
  pc \in {"sdp", "reply"} =>
    /\ msg.kind = "INVITE" /\ msg.id # NoCall =>
         /\ lastId = msg.id
         /\ msg.full => lastHeaders = msg.id
         /\ InTable(msg.id)
    /\ msg.kind = "BYE" => ~InTable(msg.id)

\* The server places no calls, so a call in its table is established or failed.
TableSettled ==
  \A c \in CallId : InTable(c) => Established(c) \/ state[c] = "Failed"

\* What an iteration has sent is for the datagram of that iteration.
SentNow == /\ sent # {} => pc = "timers"
           /\ \A r \in sent : r.to = msg

AnswerInv ==
  /\ SentNow /\ InHand /\ TableSettled
  /\ InvitesAnsweredInKind /\ AnswersAreBacked

\* HandleInvite caches its request and leaves its call in the table.
LEMMA InviteHandled ==
  ASSUME TableOK, NEW c \in CallId, c # NoCall, NEW full, HandleInvite(c, full)
  PROVE  /\ lastId' = c
         /\ full => lastHeaders' = c
         /\ InTable(c)'
  <1>1. lastId' = c /\ (full => lastHeaders' = c)
    BY DEF HandleInvite
  <1>2. CASE InTable(c)
    BY <1>2 DEF HandleInvite, Ignore, InTable
  <1>3. CASE ~InTable(c)
    BY <1>3 DEF HandleInvite, Create, InTable, TableOK
  <1> QED  BY <1>1, <1>2, <1>3

\* HandleBye takes its call out of the table.
LEMMA ByeHandled ==
  ASSUME TableOK, NEW c, HandleBye(c)
  PROVE  ~InTable(c)'
  <1>1. CASE InTable(c)
    BY <1>1 DEF HandleBye, Disconnect, InTable, TableOK
  <1>2. CASE ~InTable(c)
    BY <1>2 DEF HandleBye, Ignore, InTable
  <1> QED  BY <1>1, <1>2

\* Processing a datagram establishes InHand.
LEMMA ProcessedInHand ==
  ASSUME TableOK, NEW m \in Message, ProcessIncomingMessage(m), msg' = m
  PROVE  InHand'
  <1>1. m.id \in CallId \cup {NoCall}
    BY MessageFields
  <1>2. ASSUME m.kind = "INVITE", m.id # NoCall
        PROVE  /\ lastId' = m.id
               /\ m.full => lastHeaders' = m.id
               /\ InTable(m.id)'
    <2>1. HandleInvite(m.id, m.full) /\ m.id \in CallId
      BY <1>1, <1>2 DEF ProcessIncomingMessage, StatusClass
    <2> QED  BY <1>2, <2>1, InviteHandled
  <1>3. ASSUME m.kind = "BYE" PROVE ~InTable(m.id)'
    <2>1. HandleBye(m.id)
      BY <1>3 DEF ProcessIncomingMessage, StatusClass
    <2> QED  BY <1>1, <2>1, ByeHandled
  <1> QED  BY <1>2, <1>3 DEF InHand

\* A SIP step moves a call only into the settled states.
LEMMA SettledMoves ==
  ASSUME TableOK, SipStep, NEW c \in CallId
  PROVE  \/ state'[c] = state[c]
         \/ state'[c] \in {"Idle", "Connected", "Disconnecting", "Failed"}
  <1> USE DEF TableOK
  <1> DEFINE Settles == \/ state'[c] = state[c]
                        \/ state'[c] \in {"Idle", "Connected", "Disconnecting", "Failed"}
  <1>1. ASSUME UNCHANGED state PROVE Settles
    BY <1>1
  <1>2. ASSUME NEW d \in CallId, Disconnect(d) PROVE Settles
    BY <1>2 DEF Disconnect
  <1>3. ASSUME NEW d \in CallId, NEW s \in {"Connected", "Disconnecting", "Failed"},
               Move(d, s)
        PROVE  Settles
    BY <1>3 DEF Move
  <1>4. CASE Receive
    <2>1. CASE HandleAck
      BY <1>1, <2>1 DEF HandleAck, Ignore
    <2>2. ASSUME NEW d \in CallId \cup {NoCall}, NEW full \in BOOLEAN,
                 HandleInvite(d, full)
          PROVE  Settles
      <3>1. \/ Ignore
            \/ /\ d \in CallId
               /\ Create(d, "Connected", {<<d, "Ringing">>, <<d, "Connected">>})
        BY <2>2 DEF HandleInvite
      <3> QED  BY <1>1, <3>1 DEF Create, Ignore
    <2>3. ASSUME NEW d \in CallId \cup {NoCall}, HandleBye(d) \/ HandleCancel(d)
          PROVE  Settles
      BY <1>1, <1>2, <2>3 DEF HandleBye, HandleCancel, Ignore, InTable
    <2>4. ASSUME NEW d \in CallId \cup {NoCall}, NEW status \in StatusClass,
                 HandleResponse(d, status)
          PROVE  Settles
      <3>1. \/ Ignore
            \/ d \in CallId /\ Disconnect(d)
            \/ d \in CallId /\ Move(d, "Connected")
            \/ d \in CallId /\ Move(d, "Failed")
        BY <2>4 DEF HandleResponse, InTable
      <3> QED  BY <1>1, <1>2, <1>3, <3>1 DEF Ignore
    <2> QED  BY <1>4, <2>1, <2>2, <2>3, <2>4 DEF Receive
  <1>5. CASE Local
    <2>1. ASSUME NEW d \in CallId, NEW accept \in BOOLEAN, AnswerCall(d, accept)
          PROVE  Settles
      BY <1>2, <1>3, <2>1 DEF AnswerCall
    <2>2. ASSUME NEW d \in CallId, HangUp(d) \/ CancelCall(d) PROVE Settles
      BY <1>2, <1>3, <2>2 DEF HangUp, CancelCall
    <2> QED  BY <1>1, <1>5, <2>1, <2>2
             DEF Local, Register, Unregister, ProcessIncomingSdp
  <1>6. CASE Tick
    <2>1. PICK late \in SUBSET CallId : ProcessTimers(late)
      BY <1>6 DEF Tick
    <2> QED  BY <2>1 DEF ProcessTimers
  <1>7. CASE \E d \in CallId : Expire(d)
    BY <1>1, <1>7 DEF Expire
  <1> QED  BY <1>4, <1>5, <1>6, <1>7 DEF SipStep

\* So the table of the server stays settled: no call of SessionManager but
\* MakeCall creates one that is not.
LEMMA SettledStep ==
  ASSUME ServerInv, [ServerNext]_serverVars, TableSettled
  PROVE  TableSettled'
  <1> USE DEF TableSettled, InTable, Established, ServerInv, SessionInv
  <1>1. ASSUME UNCHANGED state PROVE TableSettled'
    BY <1>1
  <1>2. ASSUME SipStep PROVE TableSettled'
    BY <1>2, SettledMoves
  <1>3. CASE Boot
    BY <1>1, <1>2, <1>3
       DEF Boot, SetSipEventCallback, Start, Initialize, InitializeFails, Ignore,
           SipStep, Local
  <1>4. CASE Receive1
    BY <1>2, <1>4, DatagramStep DEF Receive1, SipStep, ProcessIncomingMessage,
                                    Booted, Serving
  <1>5. CASE ReceiveNothing \/ Reply \/ UNCHANGED serverVars
    BY <1>1, <1>5 DEF ReceiveNothing, Reply, serverVars, sessionVars, sipVars
  <1>6. CASE ReadOffer
    BY <1>1, <1>6 DEF ReadOffer, ProcessIncomingSdp, sessionVars, sipVars
  <1>7. CASE RunTimers
    BY <1>2, <1>7 DEF RunTimers, SipStep
  <1>8. CASE Quit
    BY <1>8 DEF Quit, Stop, Shutdown
  <1>9. CASE Clock \/ Report
    BY <1>1, <1>9 DEF Clock, Report, Expire, OnRtcpTimer, Ignore
  <1> QED  BY <1>3, <1>4, <1>5, <1>6, <1>7, <1>8, <1>9 DEF ServerNext

\* An answer prepared in such a state is a right one.
LEMMA RightAnswer ==
  ASSUME ServerInv, AnswerInv, Reply
  PROVE  (InvitesAnsweredInKind /\ AnswersAreBacked)'
  <1>1. /\ sent' \subseteq {InviteResponse, ByeResponse} /\ pc = "reply"
        /\ UNCHANGED <<state, contexts>>
    BY DEF Reply, sessionVars, sipVars, ctxVars
  <1>2. SdpAnswer(msg.seen) # "garbage"
    BY DEF SdpAnswer, ServerInv, TablePorts, InTable
  <1>3. msg.kind = "INVITE" /\ msg.id # NoCall /\ msg.seen = msg.id =>
          SdpAnswer(msg.seen) = "ports"
    BY <1>1 DEF AnswerInv, InHand, SdpAnswer, ServerInv, TablePorts, InTable
  <1>4. SdpAnswer(msg.seen) = "ports" =>
          msg.seen \in contexts \/ state[msg.seen] = "Failed"
    BY <1>1 DEF SdpAnswer, AnswerInv, TableSettled, ServerInv, Booted, SessionInv,
                ContextsTrackCalls, InTable
  <1>5. InvitesAnsweredInKind'
    BY <1>1, <1>2, <1>3
       DEF AnswerInv, InHand, InvitesAnsweredInKind, InviteResponse, ByeResponse
  <1>6. AnswersAreBacked'
    BY <1>1, <1>2, <1>4 DEF AnswersAreBacked, InviteResponse, ByeResponse
  <1> QED  BY <1>5, <1>6

\* The answers of an iteration are gone before the next datagram.
LEMMA SentStep ==
  ASSUME ServerInv, AnswerInv, [ServerNext]_serverVars
  PROVE  SentNow'
  <1> USE DEF AnswerInv, SentNow, Goto
  <1>1. CASE Boot /\ UNCHANGED <<msg, sent>>
    BY <1>1 DEF Boot
  <1>2. CASE Receive1
    BY <1>2 DEF Receive1
  <1>3. CASE ReceiveNothing
    BY <1>3 DEF ReceiveNothing
  <1>4. CASE ReadOffer
    BY <1>4 DEF ReadOffer
  <1>5. CASE Reply
    <2>1. \A r \in sent' : r.to = msg
      BY <1>5 DEF Reply, InviteResponse, ByeResponse
    <2> QED  BY <1>5, <2>1 DEF Reply
  <1>6. CASE RunTimers \/ Quit
    BY <1>6 DEF RunTimers, Quit
  <1>7. CASE Clock \/ Report \/ UNCHANGED serverVars
    BY <1>7 DEF Clock, Report, loopVars, serverVars
  <1> QED  BY <1>1, <1>2, <1>3, <1>4, <1>5, <1>6, <1>7 DEF ServerNext

\* The invariant about answers survives every line of main.
LEMMA AnswerStep ==
  ServerInv /\ AnswerInv /\ [ServerNext]_serverVars => AnswerInv'
  <1> SUFFICES ASSUME ServerInv, AnswerInv, [ServerNext]_serverVars
               PROVE  AnswerInv'
    OBVIOUS
  <1>a. SentNow' /\ TableSettled'
    BY SentStep, SettledStep DEF AnswerInv
  <1>b. ServerInv'
    BY ServerStepInv
  <1> DEFINE AnswersOK == InvitesAnsweredInKind /\ AnswersAreBacked
  <1>1. ASSUME sent' = {} PROVE AnswersOK'
    BY <1>1 DEF InvitesAnsweredInKind, AnswersAreBacked
  <1>2. ASSUME sent = {}, UNCHANGED sent PROVE AnswersOK'
    BY <1>1, <1>2
  <1>3. ASSUME UNCHANGED <<sent, state, pc>> PROVE AnswersOK'
    <2>1. ASSUME sent # {} PROVE UNCHANGED contexts
      BY <1>3, <1>b, <2>1
         DEF AnswerInv, SentNow, ServerInv, Booted, Serving, SessionInv,
             ContextsTrackCalls, Established
    <2> QED  BY <1>2, <1>3, <2>1
             DEF AnswerInv, InvitesAnsweredInKind, AnswersAreBacked
  <1>4. ASSUME UNCHANGED <<msg, state, lastId, lastHeaders>>,
               pc' \in {"sdp", "reply"} => pc \in {"sdp", "reply"}
        PROVE  InHand'
    BY <1>4 DEF AnswerInv, InHand, InTable
  <1>5. ASSUME pc' \notin {"sdp", "reply"} PROVE InHand'
    BY <1>5 DEF InHand
  <1>6. pc # "timers" => sent = {}
    BY DEF AnswerInv, SentNow
  <1> HIDE DEF AnswersOK
  <1>7. ASSUME InHand', AnswersOK' PROVE AnswerInv'
    BY <1>7, <1>a DEF AnswerInv, AnswersOK
  <1>8. CASE Boot /\ UNCHANGED <<msg, sent>>
    BY <1>2, <1>5, <1>6, <1>7, <1>8 DEF Boot, Goto
  <1>9. CASE Receive1
    BY <1>2, <1>6, <1>7, <1>9, ProcessedInHand DEF Receive1, ServerInv, SessionInv
  <1>10. CASE ReceiveNothing
    BY <1>2, <1>5, <1>6, <1>7, <1>10 DEF ReceiveNothing, Goto
  <1>11. CASE ReadOffer
    <2>1. UNCHANGED <<msg, sent, state, lastId, lastHeaders>> /\ pc = "sdp"
      BY <1>11 DEF ReadOffer, ProcessIncomingSdp, Headers, sessionVars, sipVars
    <2> QED  BY <1>2, <1>4, <1>6, <1>7, <2>1
  <1>12. CASE Reply
    <2>1. AnswersOK'
      BY <1>a, <1>12, RightAnswer DEF AnswersOK
    <2> QED  BY <1>5, <1>7, <1>12, <2>1 DEF Reply, Goto
  <1>13. CASE RunTimers \/ Quit
    BY <1>1, <1>2, <1>5, <1>6, <1>7, <1>13 DEF RunTimers, Quit, Goto
  <1>14. CASE Clock
    BY <1>3, <1>4, <1>7, <1>14 DEF Clock, Expire, Headers, loopVars
  <1>15. CASE Report
    BY <1>3, <1>4, <1>7, <1>15 DEF Report, OnRtcpTimer, Ignore, Headers, loopVars
  <1>16. CASE UNCHANGED serverVars
    BY <1>3, <1>4, <1>7, <1>16 DEF serverVars, loopVars, sessionVars, sipVars
  <1> QED  BY <1>8, <1>9, <1>10, <1>11, <1>12, <1>13, <1>14, <1>15, <1>16
           DEF ServerNext

\* It holds in every reachable state of the program.
LEMMA AnswerInvariant == ServerSpec => []AnswerInv
  <1>1. ServerInit => AnswerInv
    BY DEF ServerInit, AnswerInv, InHand, InvitesAnsweredInKind, AnswersAreBacked,
           SentNow, TableSettled, SessionInit, SipInit, InTable
  <1> QED  BY <1>1, AnswerStep, ServerInvariant, PTL DEF ServerSpec

\* However INVITEs of different calls are interleaved, lost and repeated, each
\* gets the answer to itself; and with a body, when main's search for its
\* Call-ID finds what osip has parsed.
THEOREM InvitesAnswered == ServerSpec => []InvitesAnsweredInKind
  <1>1. AnswerInv => InvitesAnsweredInKind
    BY DEF AnswerInv
  <1> QED  BY <1>1, AnswerInvariant, PTL

\* No answer names an unassigned port, and the ports one names belong to a
\* context that is there, or to a call that has failed.
THEOREM AnswersBacked == ServerSpec => []AnswersAreBacked
  <1>1. AnswerInv => AnswersAreBacked
    BY DEF AnswerInv
  <1> QED  BY <1>1, AnswerInvariant, PTL

\* A datagram opens a call only when it is an INVITE that creates it.
LEMMA OpensByInvite ==
  ASSUME TableOK, TableSettled, NEW m \in Message, ProcessIncomingMessage(m),
         NEW c \in CallId, Opened(c)
  PROVE  m.kind = "INVITE" /\ m.id = c /\ remote'[c] = NoAddr
  <1> USE DEF Opened
  <1>1. ASSUME Ignore PROVE FALSE
    BY <1>1 DEF Ignore
  <1>2. ASSUME NEW d \in CallId, Disconnect(d) PROVE FALSE
    BY <1>2 DEF Disconnect
  <1>3. /\ m.id \in CallId \cup {NoCall} /\ m.full \in BOOLEAN
        /\ m.kind \in Kind
    BY MessageFields
  <1>4. CASE m.kind = "INVITE"
    <2>1. HandleInvite(m.id, m.full)
      BY <1>4 DEF ProcessIncomingMessage, StatusClass
    <2>2. /\ m.id \in CallId
          /\ Create(m.id, "Connected", {<<m.id, "Ringing">>, <<m.id, "Connected">>})
      BY <1>1, <1>3, <2>1 DEF HandleInvite
    <2>3. c = m.id
      BY <2>2 DEF Create
    <2> QED  BY <1>4, <2>2, <2>3 DEF Create, TableOK
  <1>5. ASSUME HandleBye(m.id) \/ HandleCancel(m.id) PROVE FALSE
    BY <1>1, <1>2, <1>5 DEF HandleBye, HandleCancel, InTable
  <1>6. ASSUME m.kind \in StatusClass, HandleResponse(m.id, m.kind)
        PROVE  FALSE
    <2>1. \/ Ignore
          \/ InTable(m.id) /\ Disconnect(m.id)
          \/ InTable(m.id) /\ state[m.id] = "Calling"
          \/ Move(m.id, "Failed")
      BY <1>6 DEF HandleResponse
    <2>2. ~Move(m.id, "Failed")
      BY DEF Move
    <2> QED  BY <1>1, <1>2, <2>1, <2>2 DEF InTable, TableSettled, Established
  <1>7. ASSUME HandleAck PROVE FALSE
    BY <1>1, <1>7 DEF HandleAck
  <1> QED  BY <1>3, <1>4, <1>5, <1>6, <1>7
           DEF ProcessIncomingMessage, Kind, StatusClass

\* A context is created only for a call that is reported connected.
LEMMA CallbackCreates ==
  ASSUME Callback, NEW c \in contexts' \ contexts
  PROVE  c \in CallId /\ Opened(c)
  BY DEF Callback, OnSipEvent, OtherCallback

\* The server gives a call a context only when it takes an INVITE for it.
LEMMA ContextsByInvite ==
  ASSUME ServerInv, TableSettled, [ServerNext]_serverVars,
         NEW c \in contexts' \ contexts
  PROVE  \E m \in Message : Takes(m) /\ m.kind = "INVITE" /\ m.id = c
  <1>1. ASSUME UNCHANGED contexts PROVE FALSE
    BY <1>1
  <1>2. ASSUME Callback, \A d \in CallId : ~Opened(d) PROVE FALSE
    BY <1>2, CallbackCreates
  <1>3. CASE Boot
    <2>1. ASSUME pc = "register", Register, Callback PROVE FALSE
      <3>1. \A d \in CallId : ~Opened(d)
        BY <2>1, CallAssumption DEF Register, Opened
      <3> QED  BY <1>2, <2>1, <3>1
    <2> QED  BY <1>1, <1>3, <2>1 DEF Boot, SetSipEventCallback, Start, ctxVars
  <1>4. CASE Receive1
    <2>1. PICK m \in Message : Takes(m) /\ ProcessIncomingMessage(m)
      BY <1>4 DEF Receive1, Takes, Goto
    <2>2. c \in CallId /\ Opened(c)
      BY <2>1, CallbackCreates DEF ProcessIncomingMessage
    <2>3. TableOK
      BY DEF ServerInv, SessionInv
    <2> QED  BY <2>1, <2>2, <2>3, OpensByInvite
  <1>5. CASE ReadOffer
    BY <1>1, <1>2, <1>5
       DEF ReadOffer, ProcessIncomingSdp, Opened, sessionVars, ctxVars
  <1>6. CASE RunTimers
    <2>1. PICK late \in SUBSET CallId : ProcessTimers(late)
      BY <1>6 DEF RunTimers, Tick
    <2>2. \A d \in CallId : ~Opened(d)
      BY <2>1 DEF ProcessTimers, Opened
    <2> QED  BY <1>2, <1>6, <2>2 DEF RunTimers
  <1>7. CASE ReceiveNothing \/ Reply \/ Report \/ UNCHANGED serverVars
    BY <1>1, <1>7
       DEF ReceiveNothing, Reply, Report, OnRtcpTimer, serverVars, sessionVars, ctxVars
  <1>8. CASE Quit
    BY <1>8 DEF Quit, Stop
  <1>9. CASE Clock
    BY <1>2, <1>9 DEF Clock, Expire, Opened
  <1> QED  BY <1>3, <1>4, <1>5, <1>6, <1>7, <1>8, <1>9 DEF ServerNext

\* A processed BYE has released the resources of its call, until the next
\* INVITE for it.
THEOREM ByeReleases == ServerSpec => ByeReclaims
  <1> DEFINE Released == \A m \in Message :
                Takes(m) /\ m.kind = "BYE" => m.id \notin contexts'
             Created == \A c \in contexts' \ contexts :
                \E m \in Message : Takes(m) /\ m.kind = "INVITE" /\ m.id = c
  <1>1. ServerInv /\ ServerInv' /\ AnswerInv /\ AnswerInv' /\ [ServerNext]_serverVars
          => [Released /\ Created]_serverVars
    <2> SUFFICES ASSUME ServerInv, ServerInv', AnswerInv, AnswerInv',
                        [ServerNext]_serverVars
                 PROVE  Released /\ Created
      OBVIOUS
    <2>1. ASSUME NEW m \in Message, Takes(m), m.kind = "BYE"
          PROVE  m.id \notin contexts'
      <3>1. ~InTable(m.id)'
        BY <2>1 DEF AnswerInv, InHand, Takes
      <3>2. contexts' = {c \in CallId : Established(c)'}
        BY <2>1 DEF ServerInv, Booted, SessionInv, ContextsTrackCalls, Takes
      <3> QED  BY <3>1, <3>2 DEF Established, InTable
    <2>2. Created
      BY ContextsByInvite DEF AnswerInv
    <2> QED  BY <2>1, <2>2
  <1> QED  BY <1>1, AnswerInvariant, ServerInvariant, PTL DEF ServerSpec, ByeReclaims

(***************************************************************************)
(* The offers                                                              *)
(***************************************************************************)
\* The call main finds named in the datagram in hand has the address Parse
\* found there.
OfferTaken ==
  pc = "reply" /\ msg.invite /\ InTable(msg.seen) /\ Parses(msg.body) =>
    remote[msg.seen] = Parsed(msg.body).addr

\* ReadOffer takes the address over; until the answer nothing touches it.
LEMMA OfferStep ==
  ASSUME ServerInv, [ServerNext]_serverVars, OfferTaken
  PROVE  OfferTaken'
  <1>1. ASSUME pc' # "reply" PROVE OfferTaken'
    BY <1>1 DEF OfferTaken
  <1>2. ASSUME UNCHANGED <<pc, msg, state, remote>> PROVE OfferTaken'
    BY <1>2 DEF OfferTaken, InTable
  <1>3. CASE ReadOffer
    <2>1. msg' = msg
      BY <1>3 DEF ReadOffer
    <2>2. SUFFICES ASSUME msg.invite, InTable(msg.seen)', Parses(msg.body)
                   PROVE  remote'[msg.seen] = Parsed(msg.body).addr
      BY <2>1 DEF OfferTaken
    <2>3. msg.seen \in CallId
      BY <2>1, <2>2 DEF InTable
    <2>4. msg.seen # NoCall
      BY <2>3, CallAssumption
    <2>5. ProcessIncomingSdp(msg.seen, Parsed(msg.body).addr)
      BY <1>3, <2>2, <2>4 DEF ReadOffer
    <2>6. InTable(msg.seen)
      BY <2>1, <2>2, <2>3, <2>5 DEF ProcessIncomingSdp, InTable
    <2>7. remote \in [CallId -> Addr \cup {NoAddr}]
      BY DEF ServerInv, SessionInv, SessionTypeOK, SipTypeOK, TableOK
    <2>8. remote' = [remote EXCEPT ![msg.seen] = Parsed(msg.body).addr]
      BY <2>5, <2>6 DEF ProcessIncomingSdp
    <2> QED  BY <2>3, <2>7, <2>8
  <1>4. CASE Boot \/ Receive1 \/ ReceiveNothing \/ Reply \/ RunTimers \/ Quit
    BY <1>1, <1>4 DEF Boot, Receive1, ReceiveNothing, Reply, RunTimers, Quit, Goto
  <1>5. CASE Clock
    BY <1>2, <1>5 DEF Clock, Expire, loopVars
  <1>6. CASE Report
    BY <1>2, <1>6 DEF Report, OnRtcpTimer, Ignore, loopVars
  <1>7. CASE UNCHANGED serverVars
    BY <1>2, <1>7 DEF serverVars, loopVars, sessionVars, sipVars
  <1> QED  BY <1>3, <1>4, <1>5, <1>6, <1>7 DEF ServerNext

\* The address taken is that of the last connection line that has one.
LEMMA TakenIsRead == ServerInv /\ OfferTaken => OffersRead
  <1> SUFFICES ASSUME ServerInv, OfferTaken PROVE OffersRead
    OBVIOUS
  <1> DEFINE body == msg.body
             full == FullConnections(body)
  <1> SUFFICES ASSUME Offering, MediaLines(body) # {}
               PROVE  IF full = {} THEN remote[msg.id] = NoAddr
                      ELSE AddressOfLast(remote[msg.id], body, full)
    BY DEF OffersRead
  <1>1. body \in Seq(Line)
    <2>1. msg \in Message
      BY DEF ServerInv, MessageOK, NoMessage, Offering
    <2> QED  BY <2>1, MessageAssumption DEF MessageType
  <1>2. DOMAIN body = 1..Len(body)
    BY <1>1
  <1>3. full = FullLines(body, Len(body))
    BY <1>2 DEF FullConnections, FullLines
  <1>4. HasRead(Parsed(body), body, Len(body))
    BY <1>1, ParseReads
  <1>5. Parses(body)
    BY <1>2, <1>4 DEF Parses, HasRead, MediaLines
  <1>6. remote[msg.id] = Parsed(body).addr
    BY <1>5 DEF OfferTaken, Offering
  <1> HIDE DEF full, body
  <1> QED  BY <1>3, <1>4, <1>6 DEF HasRead, LastAddr, AddressOfLast

\* An INVITE whose addresses are all for the session is answered for a call
\* that has the last of them, if main finds the call it names.
THEOREM OffersAreRead == ServerSpec => []OffersRead
  <1>1. ServerInit => OfferTaken
    BY DEF ServerInit, OfferTaken
  <1>2. ServerInv /\ [ServerNext]_serverVars /\ OfferTaken => OfferTaken'
    BY OfferStep
  <1>3. ServerInv /\ OfferTaken => OffersRead
    BY TakenIsRead
  <1> QED  BY <1>1, <1>2, <1>3, ServerInvariant, PTL DEF ServerSpec

(***************************************************************************)
(* The reports                                                             *)
(***************************************************************************)
\* No context has an address, and none has been reported.
Silent == ctxRemote = [c \in CallId |-> NoAddr] /\ reported = {}

\* The callback copies the addresses of calls that are opened.
LEMMA CallbackSilent ==
  ASSUME Silent, Callback, \A c \in CallId : Opened(c) => remote'[c] = NoAddr
  PROVE  Silent'
  <1>1. CASE OnSipEvent
    <2>1. ctxRemote' = [c \in CallId |-> NoAddr]
      BY <1>1 DEF OnSipEvent, Silent
    <2>2. reported' = {}
      BY <1>1 DEF OnSipEvent, Silent
    <2> QED  BY <2>1, <2>2 DEF Silent
  <1>2. CASE OtherCallback
    BY <1>2 DEF OtherCallback, Silent
  <1> QED  BY <1>1, <1>2 DEF Callback

\* So the address is never there when a context copies it.
LEMMA SilentStep ==
  ASSUME ServerInv, TableSettled, [ServerNext]_serverVars, Silent
  PROVE  Silent'
  <1>1. ASSUME UNCHANGED <<ctxRemote, reported>> PROVE Silent'
    BY <1>1 DEF Silent
  <1>2. ASSUME Callback, \A c \in CallId : ~Opened(c) PROVE Silent'
    BY <1>2, CallbackSilent
  <1>3. CASE Boot
    <2>1. ASSUME pc = "register", Register, Callback PROVE Silent'
      <3>1. \A c \in CallId : ~Opened(c)
        BY <2>1, CallAssumption DEF Register, Opened
      <3> QED  BY <1>2, <2>1, <3>1
    <2> QED  BY <1>1, <1>3, <2>1 DEF Boot, SetSipEventCallback, Start, ctxVars
  <1>4. CASE Receive1
    <2>1. PICK m \in Message : ProcessIncomingMessage(m)
      BY <1>4 DEF Receive1
    <2>2. TableOK
      BY DEF ServerInv, SessionInv
    <2>3. \A c \in CallId : Opened(c) => remote'[c] = NoAddr
      BY <2>1, <2>2, OpensByInvite
    <2> QED  BY <2>1, <2>3, CallbackSilent DEF ProcessIncomingMessage
  <1>5. CASE ReadOffer
    BY <1>1, <1>2, <1>5
       DEF ReadOffer, ProcessIncomingSdp, Opened, sessionVars, ctxVars
  <1>6. CASE RunTimers
    <2>1. PICK late \in SUBSET CallId : ProcessTimers(late)
      BY <1>6 DEF RunTimers, Tick
    <2>2. \A c \in CallId : ~Opened(c)
      BY <2>1 DEF ProcessTimers, Opened
    <2> QED  BY <1>2, <1>6, <2>2 DEF RunTimers
  <1>7. CASE ReceiveNothing \/ Reply \/ UNCHANGED serverVars
    BY <1>1, <1>7 DEF ReceiveNothing, Reply, serverVars, sessionVars, ctxVars
  <1>8. CASE Quit
    BY <1>8 DEF Quit, Stop, Silent
  <1>9. CASE Clock
    BY <1>2, <1>9 DEF Clock, Expire, Opened
  <1>10. CASE Report
    <2>1. contexts \subseteq CallId
      BY DEF ServerInv, SessionInv, SessionTypes
    <2>2. {c \in contexts : ctxRemote[c] # NoAddr} = {}
      BY <2>1 DEF Silent
    <2> QED  BY <1>10, <2>2 DEF Report, OnRtcpTimer, Silent
  <1> QED  BY <1>3, <1>4, <1>5, <1>6, <1>7, <1>8, <1>9, <1>10 DEF ServerNext

\* What WORKFLOW.md says of the RTCP reports is not the exception but never
\* the case: whatever peers send, no report leaves the server, because
\* GetOrCreateContext runs before the offer of its INVITE is read.
THEOREM NoReportLeaves == ServerSpec => [](reported = {})
  <1>1. ServerInit => Silent
    BY DEF ServerInit, SessionInit, Silent
  <1>2. ServerInv /\ AnswerInv /\ [ServerNext]_serverVars /\ Silent => Silent'
    BY SilentStep DEF AnswerInv
  <1>3. Silent => reported = {}
    BY DEF Silent
  <1> QED  BY <1>1, <1>2, <1>3, ServerInvariant, AnswerInvariant, PTL DEF ServerSpec

=============================================================================
