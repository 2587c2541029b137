--------------------------------- MODULE Sdp ---------------------------------
(***************************************************************************)
(* SdpBuilder::Parse: a body is a sequence of lines, of which Parse looks  *)
(* at three kinds: connection lines c= with an address (or too short to    *)
(* have one), media lines m= with a type and a port, and a=rtpmap lines,   *)
(* which nothing reads later and which count as "other" here.              *)
(***************************************************************************)
EXTENDS Naturals, Sequences

CONSTANTS
  Addr,     \* addresses
  NoAddr    \* the empty address

Connection(addr) == [field |-> "c", addr |-> addr]
MediaLine(type, port) == [field |-> "m", type |-> type, port |-> port]
Other == [field |-> "other"]

Line == [field : {"c"}, addr : Addr \cup {NoAddr}]
          \cup [field : {"m"}, type : STRING, port : Nat]
          \cup {Other}

EmptySession == [addr |-> NoAddr, media |-> <<>>]

\* Mutant: a connection line without an address empties it.
ParseLineShort(out, line) ==
  CASE line.field = "c" -> [out EXCEPT !.addr = line.addr]
    [] line.field = "m" -> [out EXCEPT !.media = Append(@, line)]
    [] OTHER -> out

\* One round of the loop.  A connection line in a media section counts for
\* the whole session.
ParseLine(out, line) ==
  CASE line.field = "c" /\ line.addr # NoAddr -> [out EXCEPT !.addr = line.addr]
    [] line.field = "m" -> [out EXCEPT !.media = Append(@, line)]
    [] OTHER -> out

\* What Parse leaves in its second argument.
Parsed(body) ==
  LET After[n \in 0..Len(body)] ==
        IF n = 0 THEN EmptySession ELSE ParseLine(After[n - 1], body[n])
  IN  After[Len(body)]

\* Parse returns true when it has found a media line.
Parses(body) == Parsed(body).media # <<>>

==============================================================================
