---------------------------- MODULE MediaReports ----------------------------
(***************************************************************************)
(* MediaPath with the RTCP reports about it: OnRtcpTimer, which tells the  *)
(* peer what the audio session has sent, and a caller's use of the other   *)
(* half of RtcpHandler: receiver reports, Parse and UpdateFromReport.  One *)
(* compound is on its way at a time; one that is overtaken is lost.        *)
(***************************************************************************)
EXTENDS MediaPath, RtcpHandler

CONSTANTS
  BlockLists,    \* the report blocks a receiver may send
  NameLengths,   \* lengths of callee_uri
  NoBlock        \* a handler that has seen no report

Byte == 0..255

Block == [ssrc : Nat, fraction : Byte, lost : [1..3 -> Byte], highest : Nat,
          jitter : Nat, lsr : Nat, dlsr : Nat]

MaxLength == 65535

\* Names and reports are short enough for a length of 16 bits.
ASSUME ReportsAssumption ==
  /\ NameLengths \subseteq 0..MaxLength
  /\ \A l \in BlockLists : l \in Seq(Block) /\ 1 + BlockWordCount * Len(l) <= MaxLength

VARIABLES
  informed,   \* the call info has the peer's address
  compound,   \* the compound on its way, <<>> when there is none
  stats       \* what UpdateFromReport has stored

reportVars == <<pathVars, informed, compound, stats>>

AudioSsrc == "audio ssrc"
Ntp == [sec |-> "seconds", frac |-> "fraction"]   \* NowNtp

ReportsInit ==
  /\ PathInit
  /\ informed \in BOOLEAN /\ (informed => "audio" \in known)
  /\ compound = <<>> /\ stats = NoBlock

\* Mutant: the packets of the video session are reported.
OnRtcpTimerVideo ==
  /\ informed
  /\ \E n \in NameLengths :
       compound' = BuildCompound(AudioSsrc, n, Ntp, ts["video"], sent["video"],
                                 bytes["video"])
  /\ UNCHANGED <<pathVars, informed, stats>>

\* Every call is reported by its audio session, to the address in its call
\* info; one that was only learnt from a packet does not count.
OnRtcpTimer ==
  /\ informed
  /\ \E n \in NameLengths :
       compound' = BuildCompound(AudioSsrc, n, Ntp, ts["audio"], sent["audio"],
                                 bytes["audio"])
  /\ UNCHANGED <<pathVars, informed, stats>>

SendReceiverReport(blocks) ==
  /\ \E n \in NameLengths :
       compound' = BuildReceiverReport(AudioSsrc, blocks) \o BuildSdes(AudioSsrc, n)
  /\ UNCHANGED <<pathVars, informed, stats>>

\* Mutant: the count of lost packets keeps its old value.
UpdateFromReportPartly(b) ==
  stats' = IF stats = NoBlock THEN b ELSE [b EXCEPT !.lost = stats.lost]

UpdateFromReport(b) == stats' = b

ReceiveReport ==
  /\ Parse(compound).blocks # <<>>
  /\ UpdateFromReport(Last(Parse(compound).blocks))
  /\ UNCHANGED <<pathVars, informed, compound>>

ReportsNext ==
  \/ PathNext /\ UNCHANGED <<informed, compound, stats>>
  \/ OnRtcpTimer
  \/ \E b \in BlockLists : SendReceiverReport(b)
  \/ ReceiveReport

ReportsSpec == ReportsInit /\ [][ReportsNext]_reportVars

(***************************************************************************)
(* Properties                                                              *)
(***************************************************************************)
\* A block as it comes out of Parse.
AsParsed(b) == [b EXCEPT !.lost = Reverse(@)]

\* What a handler has stored is one block of one report, whole.
ReportsTypeOK ==
  /\ PathTypeOK
  /\ informed \in BOOLEAN
  /\ stats = NoBlock \/ \E b \in BlockLists : stats \in {AsParsed(b[i]) : i \in DOMAIN b}

\* Parse gets through every compound, whatever the length of its name and the
\* number of its blocks, and finds the sender and the blocks that five bits
\* can count.
CompoundsParse ==
  compound # <<>> =>
    /\ Parse(compound).reporter = AudioSsrc
    /\ \/ compound[1].pt = SR /\ Parse(compound).blocks = <<>>
       \/ \E b \in BlockLists, n \in NameLengths :
            /\ compound = BuildReceiverReport(AudioSsrc, b) \o BuildSdes(AudioSsrc, n)
            /\ Parse(compound).blocks =
                 [i \in 1..(Len(b) % RcSpace) |-> AsParsed(b[i])]

\* A sender report counts the audio packets that are out and their bytes, the
\* headers included, after any mix of sent, refused and failed packets.
ReportsCountTraffic ==
  [][OnRtcpTimer =>
       /\ compound'[6] = Cardinality(wire["audio"])
       /\ compound'[7] =
            SumFunction([p \in wire["audio"] |-> Len(p.payload) + HeaderSize])
    ]_reportVars

=============================================================================
