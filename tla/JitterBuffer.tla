---------------------------- MODULE JitterBuffer ----------------------------
(***************************************************************************)
(* The adaptive jitter buffer of one media stream.  A sender numbers its   *)
(* packets 0, 1, 2, ...; packet n carries the sequence number n % SeqSpace *)
(* and a timestamp that grows by TsStep.  The network loses, repeats,      *)
(* delays and reorders them.  Insert and Extract run under mutex_, so each *)
(* is a step.                                                              *)
(***************************************************************************)
EXTENDS Integers, Sequences, FiniteSets, TLC

CONSTANTS
  SeqSpace,       \* 2^16 in the code
  LossWindow,     \* 100
  MaxBufferSize,  \* kMaxBufferSize, 500
  JMod,           \* 2^32: the fields and the timestamps are uint32_t
  MinDelay, MaxDelay, InitialDelay, SampleRate,  \* JitterBufferConfig
  FirstStamp,     \* sender: timestamps of its packet 0
  TsStep,         \* sender: timestamp ticks between packets
  Boot,           \* the receiver's clock, in ms, when the model starts
  Gap,            \* ms that pass between two arrivals
  Ahead, Behind,  \* network: how far a packet overtakes, or trails, the latest
  MaxInserted     \* bound: packets that arrive

ASSUME JitterAssumption ==
  /\ {SeqSpace, LossWindow, MaxBufferSize, JMod, SampleRate, TsStep}
       \subseteq Nat \ {0}
  /\ {MinDelay, MaxDelay, InitialDelay} \subseteq 0..(JMod - 1)
  /\ {Boot, Ahead, Behind, MaxInserted} \subseteq Nat
  /\ MinDelay <= MaxDelay /\ Gap \subseteq Nat
  /\ FirstStamp \subseteq 0..(JMod - 1) /\ FirstStamp # {}
  /\ 2 * (Ahead + 1) < SeqSpace /\ 2 * (Behind + 1) < SeqSpace

VARIABLES
  buffer,       \* buffer_: [n, arrival, ready], in the order of the deque
  initialized,  \* initialized_
  expected,     \* expected_seq_
  delay,        \* current_delay_ms_
  lost,         \* packets_lost_
  inserted,     \* packets_inserted_
  extracted,    \* packets_extracted_
  jitter,       \* [init, value, last]: the three fields of CalculateJitter
  jitterMs,     \* current_jitter_ms_
  now,          \* the receiver's clock, less Boot
  stream        \* since the last Reset, [base, first, latest, got, jumped]:
                \* the timestamp of packet 0, what has arrived, and the
                \* packets skipped LossWindow or more at a time

jitterVars == <<buffer, initialized, expected, delay, lost, inserted, extracted,
                jitter, jitterMs, now, stream>>

SeqOf(n) == n % SeqSpace
NoStream == [base |-> 0, first |-> 0, latest |-> -1, got |-> {}, jumped |-> {}]

JitterInit ==
  /\ buffer = <<>> /\ initialized = FALSE /\ expected = 0
  /\ delay = InitialDelay
  /\ lost = 0 /\ inserted = 0 /\ extracted = 0
  /\ jitter = [init |-> FALSE, value |-> 0, last |-> 0] /\ jitterMs = 0
  /\ now = 0 /\ stream = NoStream

(***************************************************************************)
(* Insert                                                                  *)
(***************************************************************************)
\* The RTP timestamp of packet n.
Stamp(n) == (stream.base + n * TsStep) % JMod

\* Transit time of packet n arriving at t, in ms and modulo 2^32: its timestamp
\* is converted at the rate of the configuration, not at that of the stream.
Transit(n, t) == (Boot + t - (Stamp(n) * 1000) \div SampleRate) % JMod

\* std::abs of a 32-bit difference.
Distance(a, b) ==
  LET d == (a - b) % JMod IN IF 2 * d < JMod THEN d ELSE JMod - d

\* (D - J) / 16 in unsigned arithmetic.
Smooth(j, d) == (j + ((d - j) % JMod) \div 16) % JMod

CalculateJitter(n, t) ==
  IF jitter.init
    THEN LET d == Distance(Transit(n, t), jitter.last)
         IN  /\ jitter' = [init |-> TRUE, value |-> Smooth(jitter.value, d),
                           last |-> Transit(n, t)]
             /\ jitterMs' = jitter'.value
    ELSE /\ jitter' = [init |-> TRUE, value |-> 0, last |-> 0]
         /\ UNCHANGED jitterMs

\* Mutant: the numbers are compared as they are.
NotSmaller(seq, e) == seq >= e

\* Mutant: off by one at the end of the window.
CountedGapShort(seq, e) ==
  LET g == (seq - e) % SeqSpace IN IF g < LossWindow - 1 THEN g ELSE 0

\* seq - expected_seq_ is computed modulo 2^16; read as a signed number it is
\* negative for the upper half of the range.
NotBefore(seq, e) == 2 * ((seq - e) % SeqSpace) < SeqSpace
CountedGap(seq, e) ==
  LET g == (seq - e) % SeqSpace IN IF g < LossWindow THEN g ELSE 0
NextExpected(seq, e) == IF NotBefore(seq, e) THEN (seq + 1) % SeqSpace ELSE e

\* Mutant: the buffer keeps the order of arrival.
UnsortedBuffer(b) == {b}

\* The arrangements of a sequence.
Rearranged(b) ==
  {[i \in DOMAIN b |-> b[p[i]]] :
     p \in Permutations(DOMAIN b) \cap [DOMAIN b -> DOMAIN b]}

\* std::sort by sequence number; it is not stable.
SortBuffer(b) ==
  {s \in Rearranged(b) :
     \A i, j \in DOMAIN b : i < j => SeqOf(s[i].n) <= SeqOf(s[j].n)}

\* GetBufferDepthMs: the arrival times of a reordered buffer may differ by a
\* negative number, which is large as an unsigned one.
Depth(b) ==
  IF Len(b) < 2 THEN 0 ELSE (b[Len(b)].arrival - b[1].arrival) % JMod

MarkReady(b, t) ==
  [i \in DOMAIN b |-> [b[i] EXCEPT !.ready = t - b[i].arrival >= delay]]

Smaller(a, b) == IF a < b THEN a ELSE b
Larger(a, b) == IF a < b THEN b ELSE a

\* Mutant: the delay grows past the maximum.
AdaptDelayUncapped(depth, jit) ==
  IF jit > delay THEN (delay + 10) % JMod
  ELSE IF delay > MinDelay /\ depth < delay \div 2
         THEN Larger(MinDelay, (delay - 5) % JMod)
  ELSE delay

\* std::min and std::max of values that have wrapped already.
AdaptDelay(depth, jit) ==
  IF jit > delay THEN Smaller(MaxDelay, (delay + 10) % JMod)
  ELSE IF delay > MinDelay /\ depth < delay \div 2
         THEN Larger(MinDelay, (delay - 5) % JMod)
  ELSE delay

\* The packets beyond kMaxBufferSize are dropped from the front.
Overflow(b) == IF Len(b) > MaxBufferSize THEN Len(b) - MaxBufferSize ELSE 0

Insert(n, t) ==
  LET seq == SeqOf(n)
      e == IF initialized THEN expected ELSE seq
  IN  /\ CalculateJitter(n, t)
      /\ initialized' = TRUE
      /\ expected' = NextExpected(seq, e)
      /\ inserted' = inserted + 1
      /\ \E s \in SortBuffer(
                    Append(buffer, [n |-> n, arrival |-> t, ready |-> FALSE])) :
           /\ buffer' = SubSeq(MarkReady(s, t), Overflow(s) + 1, Len(s))
           /\ delay' = AdaptDelay(Depth(s), jitterMs')
           /\ lost' = lost + CountedGap(seq, e) + Overflow(s)
      /\ UNCHANGED extracted

(***************************************************************************)
(* Extract and Reset                                                       *)
(***************************************************************************)
\* The first ready packet is moved out; without one nothing changes.
ExtractAt(i) ==
  /\ buffer[i].ready /\ \A j \in 1..(i - 1) : ~buffer[j].ready
  /\ buffer' = SubSeq(buffer, 1, i - 1) \o SubSeq(buffer, i + 1, Len(buffer))
  /\ extracted' = extracted + 1
  /\ UNCHANGED <<initialized, expected, delay, lost, inserted, jitter, jitterMs,
                 now, stream>>

Extract == \E i \in DOMAIN buffer : ExtractAt(i)

\* current_jitter_ms_ and the two packet counters keep their values.
Reset ==
  /\ buffer' = <<>> /\ initialized' = FALSE /\ expected' = 0
  /\ delay' = InitialDelay /\ lost' = 0
  /\ jitter' = [jitter EXCEPT !.init = FALSE]
  /\ stream' = NoStream
  /\ UNCHANGED <<inserted, extracted, jitterMs, now>>

(***************************************************************************)
(* The network, and the specification                                      *)
(***************************************************************************)
Latest == stream.latest

\* A stream starts anywhere below SeqSpace; then packets arrive from a window
\* around the latest one.
Deliverable ==
  IF stream.got = {} THEN 0..(SeqSpace - 1)
  ELSE {n \in (Latest - Behind)..(Latest + Ahead) : n >= 0}

\* The packets that n skips, when it skips too many for Insert to count.
Outage(n) ==
  IF stream.got # {} /\ n - Latest > LossWindow THEN (Latest + 1)..(n - 1)
  ELSE {}

Arrive(n, gap) ==
  /\ inserted < MaxInserted
  /\ now' = now + gap
  /\ Insert(n, now')
  /\ \E base \in IF stream.got = {} THEN FirstStamp ELSE {stream.base} :
       stream' = [base |-> base,
                  first |-> IF stream.got = {} THEN n ELSE stream.first,
                  latest |-> IF n > Latest THEN n ELSE Latest,
                  got |-> stream.got \cup {n},
                  jumped |-> stream.jumped \cup Outage(n)]

JitterNext ==
  \/ \E n \in Deliverable, gap \in Gap : Arrive(n, gap)
  \/ Extract
  \/ Reset

JitterSpec == JitterInit /\ [][JitterNext]_jitterVars

(***************************************************************************)
(* Properties                                                              *)
(***************************************************************************)
\* Every field holds a value of its type, the deque never ends an operation
\* with more than kMaxBufferSize packets, each of them handed in and not yet
\* out, and the adaptive delay, which starts at 0 in the server, stays between
\* its limits or between its initial value and them.
JitterTypeOK ==
  /\ Len(buffer) <= MaxBufferSize
  /\ \A i \in DOMAIN buffer :
       buffer[i].n \in Nat /\ buffer[i].arrival \in 0..now
         /\ buffer[i].ready \in BOOLEAN
  /\ initialized \in BOOLEAN
  /\ expected \in 0..(SeqSpace - 1)
  /\ delay \in Smaller(InitialDelay, MinDelay)..Larger(InitialDelay, MaxDelay)
  /\ lost \in Nat
  /\ inserted \in 0..MaxInserted /\ extracted \in Nat
  /\ extracted + Len(buffer) <= inserted
  /\ jitter.init \in BOOLEAN /\ jitter.value \in 0..(JMod - 1)
  /\ jitterMs \in 0..(JMod - 1)

\* Across wrap-around of the 16-bit numbers, duplicates and late packets,
\* expected_seq_ is the number after the latest packet that ever arrived.
ExpectedTracksLatest ==
  initialized => expected = (Latest + 1) % SeqSpace

\* Every packet that the stream skipped and that never arrived is in
\* packets_lost_, also when the numbers wrap around, except those that were
\* skipped LossWindow (100) or more at a time.
LossNotUndercounted ==
  lost >= Cardinality(((stream.first..Latest) \ stream.got) \ stream.jumped)

\* Each packet becomes ready by its own arrival time and the delay changes
\* between two evaluations; still no packet overtakes an earlier one of the
\* stream that has been in the buffer at least as long.  Packets between which
\* the numbers wrap are excepted: the sort puts the later one first.
ArrivalOrderKept ==
  [][\A i, j \in DOMAIN buffer :
       /\ ExtractAt(i) /\ buffer[j].n < buffer[i].n
       /\ SeqOf(buffer[j].n) < SeqOf(buffer[i].n)
       => buffer[i].arrival < buffer[j].arrival]_jitterVars

\* WORKFLOW.md: J = J + (|D| - J) / 16, which lies between J and |D|.
JitterSmooths ==
  [][\A n \in Deliverable, gap \in Gap :
       Arrive(n, gap) /\ jitter.init =>
         \/ jitter'.value <= jitter.value
         \/ jitter'.value <= Distance(Transit(n, now'), jitter.last)]_jitterVars

=============================================================================
