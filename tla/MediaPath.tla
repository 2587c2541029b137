----------------------------- MODULE MediaPath -----------------------------
(***************************************************************************)
(* One direction of the media of a call between two peers that run this    *)
(* code: the sender encodes frames, packs or fragments them into RTP       *)
(* packets and sends these; the receiver buffers the packets that arrive   *)
(* and hands what it extracts to its decoders.  UDP loses, repeats and     *)
(* reorders; the order in which the jitter buffer releases its packets is  *)
(* left open here (module JitterBuffer has it).                            *)
(***************************************************************************)
EXTENDS Integers, FiniteSets, SequencesExt

CONSTANTS
  MaxPayload,   \* kRtpMaxPayloadSize
  HeaderSize,   \* kRtpHeaderSize
  SeqSpace,       \* 2^16
  Nal,          \* what the video encoder may produce
  AacFrame,     \* what the audio encoder may produce: sequences of bytes
  MaxFrames     \* bound: frames sent in one run

Media == {"audio", "video"}
FuA == 28       \* NAL type of a fragment

ASSUME PathAssumption ==
  /\ HeaderSize \in Nat \ {0} /\ MaxPayload \in Nat /\ MaxPayload > HeaderSize + 2
  /\ SeqSpace \in Nat \ {0} /\ MaxFrames \in Nat
  /\ \A n \in Nal : /\ n \in [nri : 0..3, type : 1..23, body : Seq(0..255)]
                    /\ n.body # <<>>
  /\ AacFrame \subseteq Seq(0..255)

VARIABLES
  known,      \* media whose destination is in the call info or was learnt
  seq,        \* current_seq_
  ts,         \* current_timestamp_, in frames since the start
  sent,       \* packets_sent_
  bytes,      \* bytes_sent_
  frames,     \* frames the encoders produced, for each medium
  wire,       \* packets sent: any of them may arrive, at any time and again
  buffered,   \* packets in the receiver's jitter buffer
  decoder     \* what a decoder was given last: a sequence of at most one input

senderVars == <<known, seq, ts, sent, bytes, frames, wire>>
pathVars == <<senderVars, buffered, decoder>>

PathInit ==
  /\ known \in SUBSET Media
  /\ seq = [m \in Media |-> 0] /\ ts = [m \in Media |-> 0]
  /\ sent = [m \in Media |-> 0] /\ bytes = [m \in Media |-> 0]
  /\ frames = [m \in Media |-> <<>>]
  /\ wire = [m \in Media |-> {}] /\ buffered = [m \in Media |-> {}]
  /\ decoder = [m \in Media |-> <<>>]

(***************************************************************************)
(* Payloads                                                                *)
(***************************************************************************)
\* A payload is a NAL unit, or a fragment: its type is FuA and fu holds the
\* start bit, the end bit and the type of the NAL.
WholeNal(n) == [nri |-> n.nri, type |-> n.type, fu |-> <<>>, body |-> n.body]

\* Mutant: a fragment as large as the payload leaves no room for its header.
FuPayloadFull == MaxPayload

\* kMaxFuPayload: data bytes of a fragment.
FuPayload == MaxPayload - HeaderSize - 2

Chunks(body) ==
  LET n == (Len(body) + FuPayload - 1) \div FuPayload
  IN  [k \in 1..n |-> SubSeq(body, (k - 1) * FuPayload + 1,
                             IF k = n THEN Len(body) ELSE k * FuPayload)]

Fragment(n) ==
  IF 1 + Len(n.body) <= MaxPayload
    THEN <<WholeNal(n)>>
    ELSE LET c == Chunks(n.body)
         IN  [k \in DOMAIN c |->
                [nri |-> n.nri, type |-> FuA,
                 fu |-> <<k = 1, k = Len(c), n.type>>, body |-> c[k]]]

\* No NAL unit takes up more than half of the sequence numbers: that would be
\* tens of megabytes for a picture of 640 by 480.
ASSUME FragmentsAssumption ==
  \A n \in Nal : Len(Fragment(n)) <= SeqSpace \div 2 + 1

\* Defragment: the header comes from the first fragment.
Defragment(f) ==
  [nri |-> f[1].nri, type |-> f[1].fu[3],
   body |-> FlattenSeq([k \in DOMAIN f |-> f[k].body])]

PayloadSize(p) == Len(p.body) + (IF p.type = FuA THEN 2 ELSE 1)

\* AacPacketizer: an AU-headers-length of 0, a 13-bit size, the data.
Pack(a) ==
  <<0, 0, (Len(a) \div 32) % 256, (Len(a) % 32) * 8>> \o a

\* <<>> when Unpack returns false, else the frame it finds, in a sequence.
Unpack(b) ==
  LET size == (b[3] * 32 + b[4] \div 8) % 8192
      offset == 2 + (b[1] * 256 + b[2]) \div 8
  IN  IF Len(b) < 4 \/ offset + size > Len(b) THEN <<>>
      ELSE <<SubSeq(b, offset + 1, offset + size)>>

(***************************************************************************)
(* Sender                                                                  *)
(***************************************************************************)
\* The payloads SendPacket gets through when SendTo succeeds for those in ok:
\* a destination is needed, and Serialize must find room in its buffer.
Accepted(m, sizes, ok) ==
  {i \in ok : m \in known /\ sizes[i] <= MaxPayload}

\* What those packets add to bytes_sent_, with their headers.
TotalSize(sizes, acc) ==
  SumFunctionOnSet([i \in DOMAIN sizes |-> sizes[i] + HeaderSize], acc)

\* Mutant: the sequence number advances also when the packet is not sent.
SendPacketsCountingAll(m, payloads, sizes, ok, t, marked) ==
  LET acc == Accepted(m, sizes, ok)
  IN  /\ wire' = [wire EXCEPT ![m] = @ \cup
           {[seq |-> (seq[m] + i - 1) % SeqSpace, ts |-> t,
             marker |-> marked /\ i = Len(payloads),
             payload |-> payloads[i]] : i \in acc}]
      /\ seq' = [seq EXCEPT ![m] = (@ + Len(payloads)) % SeqSpace]
      /\ sent' = [sent EXCEPT ![m] = @ + Cardinality(acc)]
      /\ bytes' = [bytes EXCEPT ![m] = @ + TotalSize(sizes, acc)]

\* SendPacket for each payload in turn, with the timestamp t; a packet that is
\* not sent does not use up a sequence number.
SendPackets(m, payloads, sizes, ok, t, marked) ==
  LET acc == Accepted(m, sizes, ok)
      Number(i) == seq[m] + Cardinality({j \in acc : j < i})
  IN  /\ wire' = [wire EXCEPT ![m] = @ \cup
           {[seq |-> Number(i) % SeqSpace, ts |-> t,
             marker |-> marked /\ i = Len(payloads),
             payload |-> payloads[i]] : i \in acc}]
      /\ seq' = [seq EXCEPT ![m] = (@ + Cardinality(acc)) % SeqSpace]
      /\ sent' = [sent EXCEPT ![m] = @ + Cardinality(acc)]
      /\ bytes' = [bytes EXCEPT ![m] = @ + TotalSize(sizes, acc)]

FramesLeft == Len(frames["audio"]) + Len(frames["video"]) < MaxFrames

\* The encoder produced frame a; the timestamp advances before the send.
SendAudioFrame(a, ok) ==
  /\ FramesLeft
  /\ ok \subseteq {1}
  /\ frames' = [frames EXCEPT !["audio"] = Append(@, a)]
  /\ ts' = [ts EXCEPT !["audio"] = @ + 1]
  /\ SendPackets("audio", <<Pack(a)>>, <<Len(Pack(a))>>, ok, ts'["audio"], FALSE)
  /\ UNCHANGED <<known, buffered, decoder>>

\* Mutant: the timestamp stays the same from frame to frame.
SendVideoFrameSameTime(n, ok) ==
  LET f == Fragment(n)
  IN  /\ FramesLeft
      /\ ok \subseteq DOMAIN f
      /\ frames' = [frames EXCEPT !["video"] = Append(@, n)]
      /\ SendPackets("video", f, [i \in DOMAIN f |-> PayloadSize(f[i])], ok,
                     ts["video"], TRUE)
      /\ UNCHANGED <<known, ts, buffered, decoder>>

\* All fragments are tried, whatever became of the ones before; the last one
\* is marked, and then the timestamp advances.
SendVideoFrame(n, ok) ==
  LET f == Fragment(n)
  IN  /\ FramesLeft
      /\ ok \subseteq DOMAIN f
      /\ frames' = [frames EXCEPT !["video"] = Append(@, n)]
      /\ SendPackets("video", f, [i \in DOMAIN f |-> PayloadSize(f[i])], ok,
                     ts["video"], TRUE)
      /\ ts' = [ts EXCEPT !["video"] = @ + 1]
      /\ UNCHANGED <<known, buffered, decoder>>

\* The sender's ReceivePacket learns the destination from the first packet
\* that comes the other way.
LearnRemote(m) ==
  /\ m \notin known
  /\ known' = known \cup {m}
  /\ UNCHANGED <<seq, ts, sent, bytes, frames, wire, buffered, decoder>>

(***************************************************************************)
(* Receiver                                                                *)
(***************************************************************************)
\* OnRtpData: what the decoder of the medium gets for an extracted packet.
OnRtpData(m, p) == IF m = "audio" THEN Unpack(p.payload) ELSE <<p.payload>>

\* One arrival: the packet is inserted and at most one is extracted.
Receive(m, p) ==
  /\ p \in wire[m]
  /\ \/ /\ buffered' = [buffered EXCEPT ![m] = @ \cup {p}]
        /\ UNCHANGED decoder
     \/ \E q \in buffered[m] \cup {p} :
          /\ buffered' = [buffered EXCEPT ![m] = (@ \cup {p}) \ {q}]
          /\ decoder' = [decoder EXCEPT ![m] =
               IF OnRtpData(m, q) = <<>> THEN @ ELSE OnRtpData(m, q)]
  /\ UNCHANGED senderVars

(***************************************************************************)
(* Specification                                                           *)
(***************************************************************************)
SendSomeVideo ==
  \E n \in Nal : \E ok \in SUBSET DOMAIN Fragment(n) : SendVideoFrame(n, ok)

PathNext ==
  \/ \E a \in AacFrame : \E ok \in SUBSET {1} : SendAudioFrame(a, ok)
  \/ SendSomeVideo
  \/ \E m \in Media : LearnRemote(m)
  \/ \E m \in Media : \E p \in wire[m] : Receive(m, p)

PathSpec == PathInit /\ [][PathNext]_pathVars

(***************************************************************************)
(* Properties                                                              *)
(***************************************************************************)
\* Counters and packets hold values of their types, and no packet on the wire
\* is larger than a datagram may be.
PathTypeOK ==
  /\ known \subseteq Media
  /\ \A m \in Media :
       /\ seq[m] \in 0..(SeqSpace - 1)
       /\ ts[m] \in 0..MaxFrames
       /\ sent[m] \in Nat /\ bytes[m] \in Nat
       /\ buffered[m] \subseteq wire[m]
       /\ \A p \in wire[m] : p.seq \in 0..(SeqSpace - 1) /\ p.marker \in BOOLEAN
  /\ \A p \in wire["video"] : PayloadSize(p.payload) <= MaxPayload

\* Over any mix of successful, refused and failed sends the sequence numbers
\* on the wire are consecutive from 0, so that a hole means a lost packet.
SequenceCountsSent ==
  \A m \in Media :
    /\ seq[m] = sent[m] % SeqSpace
    /\ {p.seq : p \in wire[m]} = {i % SeqSpace : i \in 0..(sent[m] - 1)}

NewPackets == wire'["video"] \ wire["video"]

\* The payload of the packet that was sent as number i of the new ones.
PayloadAt(i) ==
  (CHOOSE p \in NewPackets : p.seq = (seq["video"] + i - 1) % SeqSpace).payload

\* When every SendTo succeeds, a frame of any length leaves in full, in
\* packets that rebuild it.
FrameLeavesWhole ==
  [][\A n \in Nal :
       SendVideoFrame(n, DOMAIN Fragment(n)) /\ "video" \in known =>
         LET k == Cardinality(NewPackets)
             f == [i \in 1..k |-> PayloadAt(i)]
         IN  /\ k = Len(Fragment(n))
             /\ IF k = 1 THEN f[1] = WholeNal(n) ELSE Defragment(f) = n]_pathVars

\* A receiver can tell frames apart: packets of one timestamp belong to one
\* frame, and none of them comes after its marked packet.
MarkerEndsFrame ==
  \A p, q \in wire["video"] :
    p.ts = q.ts /\ p.marker /\ p # q =>
      /\ ~q.marker
      /\ (p.seq - q.seq) % SeqSpace \in 1..(SeqSpace \div 2)

\* WORKFLOW.md: pt=96 (AAC) -> AAC unpacking -> decoder.  What the audio
\* decoder is given is a frame that the audio encoder produced.
DecoderGetsAacFrames ==
  \A i \in DOMAIN decoder["audio"] :
    \E j \in DOMAIN frames["audio"] : frames["audio"][j] = decoder["audio"][i]

=============================================================================
