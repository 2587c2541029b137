---------------------------- MODULE RtcpHandler ----------------------------
(***************************************************************************)
(* RTCP packets, in 32-bit words: a header word is a record, the others are *)
(* what they carry.  A compound is the concatenation of packets; Parse     *)
(* finds its way through one by the length fields.                         *)
(***************************************************************************)
EXTENDS Integers, SequencesExt

CONSTANTS
  RcSpace,   \* 2^5: report counts are kept in five bits
  NoSsrc     \* reporter_ssrc when Parse did not set it

ASSUME RtcpAssumption == RcSpace \in Nat \ {0}

SR == 200
RR == 201
SDES == 202

BlockWordCount == 6

Header(rc, pt, words) == [rc |-> rc % RcSpace, pt |-> pt, length |-> words - 1]

\* Each half of the NTP timestamp is put in network order, but not the halves:
\* the fraction comes first.
BuildSenderReport(ssrc, ntp, ts, packets, octets) ==
  <<Header(0, SR, 7), ssrc, ntp.frac, ntp.sec, ts, packets, octets>>

\* Mutant: two fields are exchanged.
BlockWordsExchanged(b) ==
  <<b.ssrc, [fraction |-> b.fraction, lost |-> b.lost], b.highest, b.jitter,
    b.dlsr, b.lsr>>

\* A block on the wire; its count of lost packets is three bytes, the most
\* significant one first.
BlockWords(b) ==
  <<b.ssrc, [fraction |-> b.fraction, lost |-> b.lost], b.highest, b.jitter,
    b.lsr, b.dlsr>>

BuildReceiverReport(ssrc, blocks) ==
  LET words == 2 + BlockWordCount * Len(blocks)
  IN  <<Header(Len(blocks), RR, words), ssrc>> \o
        FlattenSeq([i \in DOMAIN blocks |-> BlockWords(blocks[i])])

\* Seven bytes and the name, rounded up to words.  The name is written at
\* offset 10: up to three bytes of it come to lie behind the packet.
BuildSdes(ssrc, nameLen) ==
  LET words == (nameLen + 10) \div 4
  IN  <<Header(1, SDES, words), ssrc>> \o [i \in 1..(words - 2) |-> "item"]

BuildCompound(ssrc, nameLen, ntp, ts, packets, octets) ==
  BuildSenderReport(ssrc, ntp, ts, packets, octets) \o BuildSdes(ssrc, nameLen)

\* memcpy of a block: every field is brought back to the host's order except
\* the three bytes of cumulative_lost, which are read from the other end.
BlockAt(data, o) ==
  [ssrc |-> data[o + 1], fraction |-> data[o + 2].fraction,
   lost |-> Reverse(data[o + 2].lost), highest |-> data[o + 3],
   jitter |-> data[o + 4], lsr |-> data[o + 5], dlsr |-> data[o + 6]]

NothingFound == [at |-> 0, blocks |-> <<>>, reporter |-> NoSsrc]

\* One round of the loop: the packet in the words from out.at + 1 on.  One
\* that is cut off ends the loop.
ParsePacket(data, out) ==
  LET h == data[out.at + 1]
      next == out.at + h.length + 1
      room == (h.length - 1) \div BlockWordCount
      n == IF h.rc < room THEN h.rc ELSE room
  IN  IF out.at = Len(data) \/ next > Len(data) THEN out
      ELSE IF h.pt \notin {SR, RR} THEN [out EXCEPT !.at = next]
      ELSE [at |-> next,
            blocks |-> out.blocks \o
              [i \in 1..n |-> BlockAt(data, out.at + 2 + BlockWordCount * (i - 1))],
            reporter |-> data[out.at + 2]]

\* The blocks found, and the last reporter; a packet has at least a word.
Parse(data) ==
  LET After[k \in 0..Len(data)] ==
        IF k = 0 THEN NothingFound ELSE ParsePacket(data, After[k - 1])
  IN  IF Len(data) < 2 THEN NothingFound ELSE After[Len(data)]

=============================================================================
