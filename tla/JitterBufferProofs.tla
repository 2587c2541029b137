------------------------- MODULE JitterBufferProofs -------------------------
(***************************************************************************)
(* The jitter buffer for every width of the sequence numbers, window and   *)
(* size of the buffer: it follows the stream across the wrap, counts the   *)
(* losses other than outages, and keeps its order of playout where the     *)
(* numbers do not wrap.                                                    *)
(***************************************************************************)
EXTENDS JitterBuffer, NumberTheorems, SequenceTheorems

(***************************************************************************)
(* The invariant                                                           *)
(***************************************************************************)
\* The assumptions, one constant at a time.
LEMMA Constants ==
  /\ SeqSpace \in Nat \ {0} /\ LossWindow \in Nat \ {0}
  /\ MaxBufferSize \in Nat \ {0} /\ JMod \in Nat \ {0}
  /\ SampleRate \in Nat \ {0} /\ TsStep \in Nat \ {0}
  /\ MinDelay \in Nat /\ MaxDelay \in Nat /\ InitialDelay \in Nat /\ Boot \in Nat
  /\ Ahead \in Nat /\ Behind \in Nat /\ MaxInserted \in Nat
  /\ MinDelay <= MaxDelay /\ Gap \subseteq Nat /\ FirstStamp \subseteq Nat
  /\ 2 * (Ahead + 1) < SeqSpace /\ 2 * (Behind + 1) < SeqSpace
  BY JitterAssumption DEF JitterAssumption

Item == [n : Nat, arrival : Nat, ready : BOOLEAN]

\* What the fields hold, whatever the initial delay.
FieldsOK ==
  /\ buffer \in Seq(Item) /\ Len(buffer) <= MaxBufferSize
  /\ \A i \in DOMAIN buffer : buffer[i].arrival <= now
  /\ initialized \in BOOLEAN /\ expected \in 0..(SeqSpace - 1)
  /\ delay \in Nat /\ lost \in Nat
  /\ inserted \in 0..MaxInserted /\ extracted \in Nat
  /\ extracted + Len(buffer) <= inserted
  /\ jitter \in [init : BOOLEAN, value : 0..(JMod - 1), last : Int]
  /\ jitterMs \in 0..(JMod - 1)
  /\ now \in Nat

\* initialized_ says that a packet has arrived; the latest is one of those.
StreamOK ==
  /\ stream.base \in Nat /\ stream.got \subseteq Nat
  /\ initialized <=> stream.got # {}
  /\ stream.got = {} => stream = NoStream
  /\ stream.got # {} => stream.first \in Nat /\ Latest \in Nat

\* Packets that the stream skipped, not in an outage, and that have not arrived.
Missing == ((stream.first..Latest) \ stream.got) \ stream.jumped

\* std::sort ran after the last insertion, and extraction keeps the order.
SortedOK ==
  \A i, j \in DOMAIN buffer : i < j => SeqOf(buffer[i].n) <= SeqOf(buffer[j].n)

\* All packets were last judged at one time by one delay.
JudgedTogether ==
  \A i, j \in DOMAIN buffer :
    buffer[i].ready /\ ~buffer[j].ready => buffer[i].arrival < buffer[j].arrival

\* The loss count needs expected_seq_ to be right, and the order of playout
\* needs both the sort and that readiness was judged for all at once.
JitterInv ==
  /\ FieldsOK /\ StreamOK /\ ExpectedTracksLatest /\ LossNotUndercounted
  /\ SortedOK /\ JudgedTogether

LEMMA JitterInitInv == JitterInit => JitterInv
  <1> SUFFICES ASSUME JitterInit PROVE JitterInv
    OBVIOUS
  <1> USE Constants DEF JitterInit, NoStream, Latest
  <1>1. buffer \in Seq(Item) /\ Len(buffer) = 0 /\ DOMAIN buffer = {}
    OBVIOUS
  <1>2. SortedOK /\ JudgedTogether
    BY <1>1 DEF SortedOK, JudgedTogether
  <1>3. FieldsOK
    <2>1. /\ buffer \in Seq(Item) /\ Len(buffer) <= MaxBufferSize
          /\ \A i \in DOMAIN buffer : buffer[i].arrival <= now
          /\ extracted + Len(buffer) <= inserted
      BY <1>1
    <2>2. /\ initialized \in BOOLEAN /\ expected \in 0..(SeqSpace - 1)
          /\ delay \in Nat /\ lost \in Nat /\ extracted \in Nat
      <3>1. 0 \in 0..(SeqSpace - 1) /\ InitialDelay \in Nat
        OBVIOUS
      <3> QED  BY ONLY <3>1, JitterInit DEF JitterInit
    <2>4. inserted \in 0..MaxInserted
      OBVIOUS
    <2>3. /\ jitter \in [init : BOOLEAN, value : 0..(JMod - 1), last : Int]
          /\ jitterMs \in 0..(JMod - 1) /\ now \in Nat
      <3>1. 0 \in 0..(JMod - 1)
        OBVIOUS
      <3> QED  BY ONLY <3>1, JitterInit DEF JitterInit
    <2> QED  BY <2>1, <2>2, <2>3, <2>4 DEF FieldsOK
  <1>4. StreamOK /\ ExpectedTracksLatest
    BY DEF StreamOK, ExpectedTracksLatest
  <1>5. LossNotUndercounted
    <2>1. ((stream.first..Latest) \ stream.got) \ stream.jumped = {}
      OBVIOUS
    <2> QED  BY <2>1, FS_EmptySet DEF LossNotUndercounted
  <1> QED  BY <1>2, <1>3, <1>4, <1>5 DEF JitterInv

(***************************************************************************)
(* What Insert is made of                                                  *)
(***************************************************************************)
\* Sorting rearranges the packets.
LEMMA SortBufferSorts ==
  ASSUME NEW b \in Seq(Item), NEW s \in SortBuffer(b)
  PROVE  /\ s \in Seq(Item) /\ Len(s) = Len(b)
         /\ \A i \in 1..Len(s) : \E j \in 1..Len(b) : s[i] = b[j]
         /\ \A i, j \in 1..Len(s) : i < j => SeqOf(s[i].n) <= SeqOf(s[j].n)
  <1>1. PICK p \in [DOMAIN b -> DOMAIN b] : s = [i \in DOMAIN b |-> b[p[i]]]
    BY DEF SortBuffer, Rearranged
  <1>2. DOMAIN b = 1..Len(b) /\ Len(b) \in Nat
    OBVIOUS
  <1>3. s \in Seq(Item) /\ Len(s) = Len(b)
    BY <1>1, <1>2
  <1>4. \A i \in 1..Len(s) : s[i] = b[p[i]] /\ p[i] \in 1..Len(b)
    BY <1>1, <1>2, <1>3
  <1>5. \A i, j \in DOMAIN b : i < j => SeqOf(s[i].n) <= SeqOf(s[j].n)
    BY DEF SortBuffer
  <1> QED  BY <1>2, <1>3, <1>4, <1>5

\* The gap that Insert counts before packet n, when l is the latest.
Skips(n, l) == IF n - l - 1 < LossWindow THEN n - l - 1 ELSE 0

\* The new number is the expected one, later or earlier by the distance in the
\* stream, wherever the 16-bit numbers wrap.
LEMMA WindowArithmetic ==
  ASSUME NEW n \in Nat, NEW l \in Nat, n >= l - Behind, n <= l + Ahead
  PROVE  /\ n > l => /\ NextExpected(SeqOf(n), (l + 1) % SeqSpace) = (n + 1) % SeqSpace
                     /\ CountedGap(SeqOf(n), (l + 1) % SeqSpace) = Skips(n, l)
         /\ n <= l => /\ NextExpected(SeqOf(n), (l + 1) % SeqSpace) = (l + 1) % SeqSpace
                      /\ CountedGap(SeqOf(n), (l + 1) % SeqSpace) \in Nat
  <1> DEFINE g == (SeqOf(n) - ((l + 1) % SeqSpace)) % SeqSpace
             d == n - (l + 1)
  <1>0. /\ SeqSpace \in Nat \ {0} /\ LossWindow \in Nat /\ Ahead \in Nat /\ Behind \in Nat
        /\ 2 * (Ahead + 1) < SeqSpace /\ 2 * (Behind + 1) < SeqSpace
    BY Constants
  <1>00. n \in Int /\ l + 1 \in Int
    OBVIOUS
  <1>1. g = d % SeqSpace
    <2>1. \A y \in Int : ((n % SeqSpace) - (y % SeqSpace)) % SeqSpace = (n - y) % SeqSpace
      BY <1>0, <1>00, ModDifference, Zenon
    <2> QED  BY <2>1, <1>00 DEF SeqOf
  <1>2. d \in Int /\ d >= -(Behind + 1) /\ d <= Ahead - 1 /\ d < SeqSpace
    BY <1>0
  <1>3. CASE n > l
    <2>1. d \in 0..(SeqSpace - 1)
      BY <1>0, <1>2, <1>3
    <2>2. g = d
      <3> HIDE DEF d
      <3> QED  BY <1>0, <1>1, <2>1, ModSmall
    <2>3. 2 * g < SeqSpace
      <3> HIDE DEF g, d
      <3> QED  BY <1>0, <1>2, <2>1, <2>2
    <2>4. ((n % SeqSpace) + 1) % SeqSpace = (n + 1) % SeqSpace
      BY <1>0, <1>00, ModNext, Zenon
    <2>5. NotBefore(SeqOf(n), (l + 1) % SeqSpace) <=> 2 * g < SeqSpace
      BY DEF NotBefore
    <2>6. CountedGap(SeqOf(n), (l + 1) % SeqSpace) = IF g < LossWindow THEN g ELSE 0
      BY DEF CountedGap
    <2>7. d = n - l - 1
      OBVIOUS
    <2> HIDE DEF g, d
    <2>8. NextExpected(SeqOf(n), (l + 1) % SeqSpace) = (SeqOf(n) + 1) % SeqSpace
      BY <2>3, <2>5 DEF NextExpected
    <2>9. CountedGap(SeqOf(n), (l + 1) % SeqSpace) = Skips(n, l)
      BY <2>2, <2>6, <2>7 DEF Skips
    <2> QED  BY <1>3, <2>4, <2>8, <2>9 DEF SeqOf
  <1>4. CASE n <= l
    <2>1. d + SeqSpace \in 0..(SeqSpace - 1) /\ 2 * (d + SeqSpace) >= SeqSpace
      BY <1>0, <1>2, <1>4
    <2>2. (d + SeqSpace) % SeqSpace = d % SeqSpace
      <3> HIDE DEF d
      <3>1. \A k \in Int : (d + k * SeqSpace) % SeqSpace = d % SeqSpace
        BY <1>0, <1>2, ModShift
      <3>2. (d + 1 * SeqSpace) % SeqSpace = d % SeqSpace
        <4>1. 1 \in Int
          OBVIOUS
        <4> QED  BY <3>1, <4>1, Zenon
      <3>3. 1 * SeqSpace = SeqSpace
        BY <1>0
      <3> QED  BY <3>2, <3>3, Zenon
    <2>3. g = d + SeqSpace
      <3> HIDE DEF d
      <3>1. (d + SeqSpace) % SeqSpace = d + SeqSpace
        BY <1>0, <1>2, <2>1, ModSmall
      <3> QED  BY <1>1, <2>2, <3>1
    <2>4. ~(2 * g < SeqSpace) /\ g \in Nat
      <3> HIDE DEF g, d
      <3> QED  BY <1>0, <1>2, <2>1, <2>3
    <2>5. NotBefore(SeqOf(n), (l + 1) % SeqSpace) <=> 2 * g < SeqSpace
      BY DEF NotBefore
    <2>6. CountedGap(SeqOf(n), (l + 1) % SeqSpace) = IF g < LossWindow THEN g ELSE 0
      BY DEF CountedGap
    <2> HIDE DEF g, d
    <2>7. NextExpected(SeqOf(n), (l + 1) % SeqSpace) = (l + 1) % SeqSpace
      BY <2>4, <2>5 DEF NextExpected
    <2>8. CountedGap(SeqOf(n), (l + 1) % SeqSpace) \in Nat
      BY <2>4, <2>6
    <2> QED  BY <1>4, <2>7, <2>8
  <1> QED  BY <1>3, <1>4

\* Marking a packet leaves its number and its arrival.
LEMMA MarkedItem ==
  ASSUME NEW r \in Item, NEW v \in BOOLEAN
  PROVE  /\ [r EXCEPT !.ready = v] \in Item
         /\ [r EXCEPT !.ready = v].n = r.n
         /\ [r EXCEPT !.ready = v].arrival = r.arrival
         /\ [r EXCEPT !.ready = v].ready = v
  BY DEF Item

\* The buffer after an insertion: sorted, judged at one time, and shortened.
LEMMA InsertBuffer ==
  ASSUME JitterInv, NEW n \in Nat, NEW gap \in Gap, Arrive(n, gap)
  PROVE  \E s \in Seq(Item), o \in Nat :
           /\ Len(s) = Len(buffer) + 1 /\ o = Overflow(s)
           /\ \A i \in 1..Len(s) : s[i].arrival <= now'
           /\ \A i, j \in 1..Len(s) : i < j => SeqOf(s[i].n) <= SeqOf(s[j].n)
           /\ buffer' \in Seq(Item) /\ Len(buffer') = Len(s) - o
           /\ \A k \in 1..Len(buffer') :
                /\ k + o \in 1..Len(s)
                /\ buffer'[k].n = s[k + o].n /\ buffer'[k].arrival = s[k + o].arrival
                /\ buffer'[k].ready = (now' - s[k + o].arrival >= delay)
           /\ delay' = AdaptDelay(Depth(s), jitterMs')
           /\ lost' = lost + CountedGap(SeqOf(n), IF initialized THEN expected ELSE SeqOf(n)) + o
  <1> USE DEF JitterInv
  <1> DEFINE new == [n |-> n, arrival |-> now', ready |-> FALSE]
             b == Append(buffer, new)
  <1>1. /\ now' = now + gap /\ now' \in Nat /\ now <= now' /\ Len(buffer) \in Nat
        /\ delay \in Nat
    <2>1. now' = now + gap
      BY DEF Arrive
    <2>2. now \in Nat /\ delay \in Nat /\ Len(buffer) \in Nat
      BY DEF FieldsOK
    <2>3. gap \in Nat
      BY Constants
    <2> QED  BY <2>1, <2>2, <2>3
  <1>2. /\ b \in Seq(Item) /\ Len(b) = Len(buffer) + 1
        /\ \A i \in 1..Len(b) : b[i].arrival <= now'
    <2>1. new \in Item /\ buffer \in Seq(Item)
      BY <1>1 DEF Item, FieldsOK
    <2>2. /\ b \in Seq(Item) /\ Len(b) = Len(buffer) + 1
          /\ \A i \in 1..Len(buffer) : b[i] = buffer[i]
          /\ b[Len(buffer) + 1] = new
      <3> HIDE DEF new
      <3> QED  BY <2>1, AppendProperties
    <2>3. \A i \in 1..Len(buffer) : buffer[i] \in Item /\ buffer[i].arrival <= now
      BY <2>1 DEF FieldsOK
    <2>4. ASSUME NEW i \in 1..Len(b) PROVE b[i].arrival <= now'
      <3>1. CASE i = Len(buffer) + 1
        <4>1. b[i].arrival = now'
          BY <2>2, <3>1
        <4> DEFINE a == b[i].arrival
        <4>2. a \in Nat
          BY <1>1, <4>1
        <4>3. a = now'
          BY <4>1
        <4> HIDE DEF a
        <4>4. a <= now'
          BY <1>1, <4>2, <4>3
        <4> QED  BY <4>4 DEF a
      <3>2. CASE i # Len(buffer) + 1
        <4> HIDE DEF b
        <4>1. i \in 1..Len(buffer) /\ b[i] = buffer[i]
          BY <1>1, <2>2, <3>2
        <4>2. buffer[i].arrival \in Nat /\ buffer[i].arrival <= now
          BY <2>3, <4>1 DEF Item
        <4>3. now \in Nat
          BY DEF FieldsOK
        <4>4. buffer[i].arrival <= now'
          BY ONLY <1>1, <4>2, <4>3
        <4> QED  BY ONLY <4>1, <4>4
      <3> QED  BY <3>1, <3>2
    <2> QED  BY <2>2, <2>4
  <1>3. PICK s \in SortBuffer(b) :
          /\ buffer' = SubSeq(MarkReady(s, now'), Overflow(s) + 1, Len(s))
          /\ delay' = AdaptDelay(Depth(s), jitterMs')
          /\ lost' = lost + CountedGap(SeqOf(n), IF initialized THEN expected ELSE SeqOf(n))
                       + Overflow(s)
    BY DEF Arrive, Insert
  <1> DEFINE o == Overflow(s)
             m == MarkReady(s, now')
  <1> HIDE DEF b
  <1>4. /\ s \in Seq(Item) /\ Len(s) = Len(b)
        /\ \A i \in 1..Len(s) : \E j \in 1..Len(b) : s[i] = b[j]
        /\ \A i, j \in 1..Len(s) : i < j => SeqOf(s[i].n) <= SeqOf(s[j].n)
    BY <1>2, SortBufferSorts
  <1>5. \A i \in 1..Len(s) : s[i].arrival <= now'
    BY <1>2, <1>4
  <1>6. o \in Nat /\ o <= Len(s)
    BY <1>4, Constants DEF Overflow
  <1>7. /\ m \in Seq(Item) /\ Len(m) = Len(s)
        /\ \A i \in 1..Len(s) :
             /\ m[i].n = s[i].n /\ m[i].arrival = s[i].arrival
             /\ m[i].ready = (now' - s[i].arrival >= delay)
    <2> DEFINE mark(i) == [s[i] EXCEPT !.ready = now' - s[i].arrival >= delay]
    <2>1. /\ DOMAIN s = 1..Len(s) /\ Len(s) \in Nat
          /\ \A i \in 1..Len(s) : s[i] \in Item
      BY <1>4
    <2>2. m = [i \in 1..Len(s) |-> mark(i)]
      BY <2>1 DEF MarkReady
    <2>3. \A i \in 1..Len(s) :
            /\ mark(i) \in Item
            /\ mark(i).n = s[i].n /\ mark(i).arrival = s[i].arrival
            /\ mark(i).ready = (now' - s[i].arrival >= delay)
      <3> SUFFICES ASSUME NEW i \in 1..Len(s)
                   PROVE  /\ mark(i) \in Item
                          /\ mark(i).n = s[i].n /\ mark(i).arrival = s[i].arrival
                          /\ mark(i).ready = (now' - s[i].arrival >= delay)
        OBVIOUS
      <3>1. s[i] \in Item /\ (now' - s[i].arrival >= delay) \in BOOLEAN
        BY <2>1
      <3> DEFINE v == now' - s[i].arrival >= delay
      <3> HIDE DEF v
      <3>2. /\ [s[i] EXCEPT !.ready = v] \in Item
            /\ [s[i] EXCEPT !.ready = v].n = s[i].n
            /\ [s[i] EXCEPT !.ready = v].arrival = s[i].arrival
            /\ [s[i] EXCEPT !.ready = v].ready = v
        BY <3>1, MarkedItem DEF v
      <3> QED  BY <3>2 DEF v
    <2> HIDE DEF m, mark
    <2>4. m \in Seq(Item) /\ Len(m) = Len(s)
      BY <2>1, <2>2, <2>3
    <2>5. \A i \in 1..Len(s) : m[i] = mark(i)
      BY <2>2
    <2> QED  BY <2>3, <2>4, <2>5
  <1> HIDE DEF o, m
  <1>8. /\ buffer' \in Seq(Item) /\ Len(buffer') = Len(s) - o
        /\ \A k \in 1..Len(buffer') : k + o \in 1..Len(s) /\ buffer'[k] = m[k + o]
    <2>1. buffer' = SubSeq(m, o + 1, Len(s)) /\ Len(s) \in Nat
      BY <1>3, <1>4 DEF o, m
    <2> QED  BY <1>6, <1>7, <2>1
  <1>9. \A k \in 1..Len(buffer') :
          /\ k + o \in 1..Len(s)
          /\ buffer'[k].n = s[k + o].n /\ buffer'[k].arrival = s[k + o].arrival
          /\ buffer'[k].ready = (now' - s[k + o].arrival >= delay)
    BY <1>7, <1>8
  <1>10. /\ delay' = AdaptDelay(Depth(s), jitterMs') /\ o = Overflow(s)
         /\ lost' = lost + CountedGap(SeqOf(n), IF initialized THEN expected ELSE SeqOf(n)) + o
    BY <1>3 DEF o
  <1>11. Len(s) = Len(buffer) + 1
    BY <1>2, <1>4
  <1> QED  BY <1>4, <1>5, <1>6, <1>8, <1>9, <1>10, <1>11

(***************************************************************************)
(* A packet arrives                                                        *)
(***************************************************************************)
\* expected_seq_ follows the latest packet, and the gap that Insert counts is
\* the one in the stream.
LEMMA ArriveFollows ==
  ASSUME JitterInv, NEW n \in Deliverable, NEW gap \in Gap, Arrive(n, gap)
  PROVE  LET e == IF initialized THEN expected ELSE SeqOf(n)
         IN  /\ n \in Nat /\ StreamOK' /\ ExpectedTracksLatest'
             /\ expected' \in 0..(SeqSpace - 1)
             /\ CountedGap(SeqOf(n), e) \in Nat
             /\ initialized /\ n > Latest => CountedGap(SeqOf(n), e) = Skips(n, Latest)
  <1> DEFINE e == IF initialized THEN expected ELSE SeqOf(n)
  <1>1. /\ initialized' = TRUE /\ expected' = NextExpected(SeqOf(n), e)
        /\ stream'.first = IF stream.got = {} THEN n ELSE stream.first
        /\ Latest' = IF n > Latest THEN n ELSE Latest
        /\ stream'.got = stream.got \cup {n}
    BY DEF Arrive, Insert, Latest
  <1>0. stream'.base \in Nat
    <2>1. StreamOK /\ FirstStamp \subseteq Nat
      BY Constants DEF JitterInv
    <2> QED  BY <2>1 DEF Arrive, StreamOK
  <1>2. SeqSpace \in Nat \ {0} /\ LossWindow \in Nat \ {0}
    BY Constants
  <1>3. StreamOK /\ initialized \in BOOLEAN /\ (initialized => expected = (Latest + 1) % SeqSpace)
    BY DEF JitterInv, FieldsOK, ExpectedTracksLatest
  <1>4. CASE ~initialized
    <2>1. stream.got = {} /\ Latest = -1 /\ n \in 0..(SeqSpace - 1) /\ n \in Nat
      BY <1>2, <1>3, <1>4 DEF StreamOK, NoStream, Latest, Deliverable
    <2>2. stream'.first = n /\ Latest' = n /\ stream'.got = {n}
      BY <1>1, <2>1
    <2>3. SeqOf(n) \in Int /\ e = SeqOf(n)
      BY <1>2, <1>4, <2>1 DEF SeqOf
    <2>4. (SeqOf(n) - e) % SeqSpace = 0
      <3>1. SeqOf(n) - e = 0
        BY <2>3
      <3>2. 0 % SeqSpace = 0
        BY <1>2
      <3> QED  BY <3>1, <3>2
    <2>5. NextExpected(SeqOf(n), e) = (SeqOf(n) + 1) % SeqSpace /\ CountedGap(SeqOf(n), e) = 0
      <3> HIDE DEF e
      <3> QED  BY <1>2, <2>4 DEF NextExpected, NotBefore, CountedGap
    <2>6. (SeqOf(n) + 1) % SeqSpace = (n + 1) % SeqSpace
      <3>1. n \in Int
        BY <2>1
      <3> QED  BY <1>2, <3>1, ModNext, Zenon DEF SeqOf
    <2>7. (n + 1) % SeqSpace \in 0..(SeqSpace - 1)
      BY <1>2, <2>1
    <2>8. StreamOK' /\ ExpectedTracksLatest'
      BY <1>0, <1>1, <2>1, <2>2, <2>5, <2>6 DEF StreamOK, ExpectedTracksLatest
    <2> HIDE DEF e
    <2> QED  BY <1>1, <1>4, <2>1, <2>5, <2>6, <2>7, <2>8 DEF e
  <1>5. CASE initialized
    <2>1. /\ stream.got # {} /\ stream.got \subseteq Nat /\ Latest \in Nat
          /\ stream.first \in Nat /\ e = (Latest + 1) % SeqSpace
      BY <1>3, <1>5 DEF StreamOK
    <2>2. Behind \in Nat /\ Ahead \in Nat
      BY Constants
    <2>3. n \in Nat /\ n >= Latest - Behind /\ n <= Latest + Ahead
      <3>1. n \in {m \in (Latest - Behind)..(Latest + Ahead) : m >= 0}
        BY <2>1 DEF Deliverable
      <3> QED  BY <2>1, <2>2, <3>1
    <2>4. /\ n > Latest => /\ NextExpected(SeqOf(n), e) = (n + 1) % SeqSpace
                           /\ CountedGap(SeqOf(n), e) = Skips(n, Latest)
          /\ n <= Latest => /\ NextExpected(SeqOf(n), e) = (Latest + 1) % SeqSpace
                            /\ CountedGap(SeqOf(n), e) \in Nat
      <3>1. PICK l \in Nat : l = Latest
        BY <2>1
      <3> HIDE DEF e
      <3>2. /\ n > l => /\ NextExpected(SeqOf(n), (l + 1) % SeqSpace) = (n + 1) % SeqSpace
                        /\ CountedGap(SeqOf(n), (l + 1) % SeqSpace) = Skips(n, l)
            /\ n <= l => /\ NextExpected(SeqOf(n), (l + 1) % SeqSpace) = (l + 1) % SeqSpace
                         /\ CountedGap(SeqOf(n), (l + 1) % SeqSpace) \in Nat
        BY <2>3, <3>1, WindowArithmetic
      <3>3. (l + 1) % SeqSpace = e
        BY <2>1, <3>1
      <3> QED  BY <3>1, <3>2, <3>3
    <2> HIDE DEF e
    <2>5. /\ stream'.first = stream.first /\ stream'.got = stream.got \cup {n}
          /\ Latest' = IF n > Latest THEN n ELSE Latest
      BY <1>1, <2>1
    <2>6. StreamOK'
      BY <1>0, <1>1, <2>1, <2>3, <2>5 DEF StreamOK
    <2>7. expected' = (Latest' + 1) % SeqSpace
      BY <1>1, <2>1, <2>3, <2>4, <2>5
    <2>8. expected' \in 0..(SeqSpace - 1) /\ ExpectedTracksLatest'
      <3>1. Latest' \in Nat
        BY <2>1, <2>3, <2>5
      <3>2. \A m \in Nat : (m + 1) % SeqSpace \in 0..(SeqSpace - 1)
        BY <1>2
      <3>3. expected' \in 0..(SeqSpace - 1)
        BY <2>7, <3>1, <3>2, Zenon
      <3>4. ExpectedTracksLatest'
        BY <2>7 DEF ExpectedTracksLatest
      <3> QED  BY <3>3, <3>4
    <2>9. CountedGap(SeqOf(n), e) \in Nat
      BY <2>1, <2>3, <2>4 DEF Skips
    <2> QED  BY <2>3, <2>4, <2>6, <2>8, <2>9 DEF e
  <1> QED  BY <1>3, <1>4, <1>5

\* What the stream skips, other than in an outage, is counted when it is skipped.
LEMMA ArriveCounts ==
  ASSUME JitterInv, NEW n \in Deliverable, NEW gap \in Gap, Arrive(n, gap)
  PROVE  LossNotUndercounted' /\ lost' \in Nat
  <1> DEFINE e == IF initialized THEN expected ELSE SeqOf(n)
             g == CountedGap(SeqOf(n), e)
  <1>1. /\ n \in Nat /\ g \in Nat /\ (initialized /\ n > Latest => g = Skips(n, Latest))
    BY ArriveFollows
  <1>2. \E o \in Nat : lost' = lost + g + o
    <2>1. \E s \in Seq(Item), o \in Nat : lost' = lost + g + o
      BY InsertBuffer, <1>1
    <2> QED  BY <2>1
  <1> HIDE DEF g
  <1>3. lost \in Nat /\ lost' \in Nat /\ lost' >= lost + g
    <2>1. lost \in Nat
      BY DEF JitterInv, FieldsOK
    <2> QED  BY <1>1, <1>2, <2>1
  <1>4. /\ stream'.first = IF stream.got = {} THEN n ELSE stream.first
        /\ Latest' = IF n > Latest THEN n ELSE Latest
        /\ stream'.got = stream.got \cup {n}
        /\ stream'.jumped = stream.jumped \cup Outage(n)
    BY DEF Arrive, Latest
  <1>5. StreamOK /\ initialized \in BOOLEAN /\ lost >= Cardinality(Missing)
    BY DEF JitterInv, FieldsOK, LossNotUndercounted, Missing
  <1>6. LossNotUndercounted' <=> lost' >= Cardinality(Missing')
    BY DEF LossNotUndercounted, Missing
  <1>7. CASE ~initialized
    <2>1. stream.got = {} /\ Latest = -1
      BY <1>5, <1>7 DEF StreamOK, NoStream, Latest
    <2>2. Missing' = {}
      BY <1>1, <1>4, <2>1 DEF Missing
    <2>3. Cardinality(Missing') = 0
      BY <2>2, FS_EmptySet
    <2> QED  BY <1>3, <1>6, <2>3
  <1>8. CASE initialized
    <2>1. /\ stream.got # {} /\ Latest \in Nat /\ stream.first \in Nat
          /\ LossWindow \in Nat
      BY <1>5, <1>8, Constants DEF StreamOK
    <2>2. IsFiniteSet(Missing) /\ Cardinality(Missing) \in Nat
      <3>1. IsFiniteSet(stream.first..Latest)
        BY <2>1, FS_Interval
      <3>2. Missing \in SUBSET (stream.first..Latest)
        BY DEF Missing
      <3>3. IsFiniteSet(Missing)
        BY <3>1, <3>2, FS_Subset
      <3> QED  BY <3>3, FS_CardinalityType
    <2>3. CASE n <= Latest \/ n - Latest > LossWindow
      <3>1. Missing' \in SUBSET Missing
        <4>1. CASE n <= Latest
          BY <1>1, <1>4, <2>1, <4>1 DEF Missing
        <4>2. CASE n > Latest /\ n - Latest > LossWindow
          <5>1. Outage(n) = (Latest + 1)..(n - 1)
            BY <2>1, <4>2 DEF Outage
          <5> QED  BY <1>1, <1>4, <2>1, <4>2, <5>1 DEF Missing
        <4> QED  BY <1>1, <2>1, <2>3, <4>1, <4>2
      <3>2. Cardinality(Missing') <= Cardinality(Missing) /\ IsFiniteSet(Missing')
        BY <2>2, <3>1, FS_Subset
      <3>3. Cardinality(Missing') \in Nat
        BY <3>2, FS_CardinalityType
      <3> QED  BY <1>1, <1>3, <1>5, <1>6, <2>2, <3>2, <3>3
    <2>4. CASE n > Latest /\ ~(n - Latest > LossWindow)
      <3> DEFINE skipped == (Latest + 1)..(n - 1)
                 both == Missing \cup skipped
      <3>1. IsFiniteSet(skipped) /\ Cardinality(skipped) = n - Latest - 1
        <4>1. /\ IsFiniteSet(skipped)
              /\ Cardinality(skipped) = IF Latest + 1 > n - 1 THEN 0 ELSE (n - 1) - (Latest + 1) + 1
          <5>1. Latest + 1 \in Int /\ n - 1 \in Int
            BY <1>1, <2>1
          <5> QED  BY <5>1, FS_Interval
        <4> HIDE DEF skipped
        <4> QED  BY <1>1, <2>1, <2>4, <4>1
      <3>2. Missing' \in SUBSET both
        BY <1>1, <1>4, <2>1, <2>4 DEF Missing
      <3> HIDE DEF skipped
      <3>3. IsFiniteSet(both) /\ Cardinality(both) <= Cardinality(Missing) + Cardinality(skipped)
        <4>1. /\ IsFiniteSet(both)
              /\ Cardinality(both) =
                   Cardinality(Missing) + Cardinality(skipped) - Cardinality(Missing \cap skipped)
          BY <2>2, <3>1, FS_Union
        <4>2. Cardinality(Missing \cap skipped) \in Nat
          <5>1. Missing \cap skipped \in SUBSET Missing
            OBVIOUS
          <5>2. IsFiniteSet(Missing \cap skipped)
            BY <2>2, <5>1, FS_Subset
          <5> QED  BY <5>2, FS_CardinalityType
        <4>3. Cardinality(skipped) \in Nat
          BY <3>1, FS_CardinalityType
        <4> HIDE DEF both
        <4> QED  BY <2>2, <4>1, <4>2, <4>3
      <3> HIDE DEF both
      <3>4. /\ Cardinality(Missing') <= Cardinality(both) /\ IsFiniteSet(Missing')
            /\ Cardinality(both) \in Nat
        BY <3>2, <3>3, FS_Subset, FS_CardinalityType
      <3>5. Cardinality(Missing') \in Nat
        BY <3>4, FS_CardinalityType
      <3>6. g = n - Latest - 1
        BY <1>1, <1>8, <2>1, <2>4 DEF Skips
      <3> QED  BY <1>1, <1>3, <1>5, <1>6, <2>1, <2>2, <3>1, <3>3, <3>4, <3>5, <3>6
    <2> QED  BY <1>1, <2>1, <2>3, <2>4
  <1> QED  BY <1>3, <1>5, <1>7, <1>8

\* The buffer stays sorted, and its packets were judged by one delay.
LEMMA ArriveSorts ==
  ASSUME JitterInv, NEW n \in Deliverable, NEW gap \in Gap, Arrive(n, gap)
  PROVE  /\ SortedOK' /\ JudgedTogether'
         /\ buffer' \in Seq(Item) /\ Len(buffer') <= MaxBufferSize
         /\ Len(buffer') <= Len(buffer) + 1
         /\ \A i \in DOMAIN buffer' : buffer'[i].arrival <= now'
  <1>1. n \in Nat
    BY ArriveFollows
  <1>2. PICK s \in Seq(Item), o \in Nat :
           /\ Len(s) = Len(buffer) + 1 /\ o = Overflow(s)
           /\ \A i \in 1..Len(s) : s[i].arrival <= now'
           /\ \A i, j \in 1..Len(s) : i < j => SeqOf(s[i].n) <= SeqOf(s[j].n)
           /\ buffer' \in Seq(Item) /\ Len(buffer') = Len(s) - o
           /\ \A k \in 1..Len(buffer') :
                /\ k + o \in 1..Len(s)
                /\ buffer'[k].n = s[k + o].n /\ buffer'[k].arrival = s[k + o].arrival
                /\ buffer'[k].ready = (now' - s[k + o].arrival >= delay)
    BY <1>1, InsertBuffer
  <1>3. DOMAIN buffer' = 1..Len(buffer') /\ Len(buffer') \in Nat /\ Len(s) \in Nat
    BY <1>2
  <1>4. now' \in Nat /\ delay \in Nat
    <2>1. gap \in Nat /\ now \in Nat /\ delay \in Nat
      BY Constants DEF JitterInv, FieldsOK
    <2> QED  BY <2>1 DEF Arrive
  <1>5. SortedOK'
    <2> SUFFICES ASSUME NEW i \in 1..Len(buffer'), NEW j \in 1..Len(buffer'), i < j
                 PROVE  SeqOf(buffer'[i].n) <= SeqOf(buffer'[j].n)
      BY <1>3 DEF SortedOK, SeqOf
    <2>1. i + o \in 1..Len(s) /\ j + o \in 1..Len(s) /\ i + o < j + o
      BY <1>2, <1>3
    <2>2. SeqOf(s[i + o].n) <= SeqOf(s[j + o].n)
      BY <1>2, <2>1
    <2>3. buffer'[i].n = s[i + o].n /\ buffer'[j].n = s[j + o].n
      BY <1>2
    <2> QED  BY <2>2, <2>3, Zenon
  <1>6. JudgedTogether'
    <2> SUFFICES ASSUME NEW i \in 1..Len(buffer'), NEW j \in 1..Len(buffer'),
                        buffer'[i].ready, ~buffer'[j].ready
                 PROVE  buffer'[i].arrival < buffer'[j].arrival
      BY <1>3 DEF JudgedTogether
    <2> DEFINE a == s[i + o].arrival
               b == s[j + o].arrival
    <2>0. i + o \in 1..Len(s) /\ j + o \in 1..Len(s)
      BY <1>2
    <2>1. a \in Nat /\ b \in Nat
      <3>1. s[i + o] \in Item /\ s[j + o] \in Item
        BY <1>2, <2>0
      <3> QED  BY <3>1 DEF Item
    <2>2. now' - a >= delay /\ ~(now' - b >= delay)
      BY <1>2
    <2>3. buffer'[i].arrival = a /\ buffer'[j].arrival = b
      BY <1>2
    <2> HIDE DEF a, b
    <2>4. a < b
      <3>1. \A t \in Nat, d \in Nat, u \in Nat, v \in Nat : t - u >= d /\ ~(t - v >= d) => u < v
        OBVIOUS
      <3> QED  BY <1>4, <2>1, <2>2, <3>1, Zenon
    <2> QED  BY <2>3, <2>4, Zenon
  <1>7. \A i \in DOMAIN buffer' : buffer'[i].arrival <= now'
    <2> SUFFICES ASSUME NEW i \in 1..Len(buffer') PROVE buffer'[i].arrival <= now'
      BY <1>3
    <2>1. buffer'[i].arrival = s[i + o].arrival /\ i + o \in 1..Len(s)
      BY <1>2
    <2>2. s[i + o].arrival <= now'
      BY <1>2, <2>1
    <2> QED  BY <2>1, <2>2, Zenon
  <1>8. Len(buffer') <= MaxBufferSize /\ Len(buffer') <= Len(buffer) + 1
    <2>1. MaxBufferSize \in Nat /\ Len(buffer) \in Nat
      BY Constants DEF JitterInv, FieldsOK
    <2>2. /\ Len(s) = Len(buffer) + 1 /\ Len(buffer') = Len(s) - o
          /\ o = IF Len(s) > MaxBufferSize THEN Len(s) - MaxBufferSize ELSE 0
      BY <1>2 DEF Overflow
    <2>3. \A c, d \in Nat, m \in Nat, p \in Nat :
            /\ c = d + 1 /\ m = c - p /\ p = (IF c > MaxBufferSize THEN c - MaxBufferSize ELSE 0)
            => m <= MaxBufferSize /\ m <= d + 1
      BY <2>1
    <2> QED  BY <1>3, <2>1, <2>2, <2>3, Zenon
  <1> QED  BY <1>2, <1>5, <1>6, <1>7, <1>8

\* The delay after an insertion is a number, whatever wraps.
LEMMA AdaptedDelay ==
  ASSUME delay \in Nat, NEW depth, NEW jit
  PROVE  AdaptDelay(depth, jit) \in Nat
  <1>1. MinDelay \in Nat /\ MaxDelay \in Nat /\ JMod \in Nat \ {0}
    BY Constants
  <1>2. (delay + 10) % JMod \in Nat /\ (delay - 5) % JMod \in Nat
    BY <1>1
  <1> QED  BY <1>1, <1>2 DEF AdaptDelay, Smaller, Larger

\* Transit times and their distances are numbers.
LEMMA TransitType ==
  ASSUME StreamOK, NEW n \in Nat, NEW t \in Nat
  PROVE  Transit(n, t) \in Int
  <1>1. JMod \in Nat \ {0} /\ SampleRate \in Nat \ {0} /\ TsStep \in Nat /\ Boot \in Nat
    BY Constants
  <1>2. n * TsStep \in Int /\ stream.base \in Int
    BY <1>1 DEF StreamOK
  <1>3. Stamp(n) \in Int
    <2> DEFINE x == stream.base + n * TsStep
    <2>1. x \in Int
      BY <1>2
    <2> HIDE DEF x
    <2>2. x % JMod \in Int
      BY <1>1, <2>1
    <2> QED  BY <2>2 DEF Stamp, x
  <1> DEFINE ms == (Stamp(n) * 1000) \div SampleRate
             y == Boot + t - ms
  <1>4. ms \in Int
    <2>1. Stamp(n) * 1000 \in Int
      BY <1>3
    <2> QED  BY <1>1, <2>1, ModRange
  <1> HIDE DEF ms
  <1>5. y \in Int
    BY <1>1, <1>4
  <1> HIDE DEF y
  <1>6. y % JMod \in Int
    BY <1>1, <1>5
  <1> QED  BY <1>6 DEF Transit, y, ms

LEMMA DistanceType ==
  ASSUME NEW a \in Int, NEW b \in Int
  PROVE  Distance(a, b) \in Int
  <1>1. JMod \in Nat \ {0} /\ a - b \in Int
    BY Constants
  <1>2. (a - b) % JMod \in Int
    BY <1>1, ModRange
  <1> QED  BY <1>1, <1>2 DEF Distance

LEMMA ArriveTypes ==
  ASSUME JitterInv, NEW n \in Deliverable, NEW gap \in Gap, Arrive(n, gap)
  PROVE  FieldsOK'
  <1>1. n \in Nat /\ expected' \in 0..(SeqSpace - 1)
    BY ArriveFollows
  <1>2. lost' \in Nat
    BY ArriveCounts
  <1>3. /\ buffer' \in Seq(Item) /\ Len(buffer') <= MaxBufferSize
        /\ Len(buffer') <= Len(buffer) + 1
        /\ \A i \in DOMAIN buffer' : buffer'[i].arrival <= now'
    BY ArriveSorts
  <1>4. FieldsOK
    BY DEF JitterInv
  <1>5. /\ initialized' = TRUE /\ inserted' = inserted + 1 /\ extracted' = extracted
        /\ inserted < MaxInserted /\ now' = now + gap
    BY DEF Arrive, Insert
  <1>6. JMod \in Nat \ {0} /\ gap \in Nat /\ MaxInserted \in Nat
    BY Constants
  <1>7. now' \in Nat
    <2>1. now \in Nat
      BY <1>4 DEF FieldsOK
    <2> QED  BY <1>5, <1>6, <2>1
  <1>8. delay' \in Nat
    <2>1. \E s \in Seq(Item) : delay' = AdaptDelay(Depth(s), jitterMs')
      BY <1>1, InsertBuffer
    <2>2. delay \in Nat
      BY <1>4 DEF FieldsOK
    <2> QED  BY <2>1, <2>2, AdaptedDelay
  <1>9. inserted' \in 0..MaxInserted /\ extracted' \in Nat /\ extracted' + Len(buffer') <= inserted'
    <2>1. /\ inserted \in 0..MaxInserted /\ extracted \in Nat /\ Len(buffer) \in Nat
          /\ extracted + Len(buffer) <= inserted
      BY <1>4 DEF FieldsOK
    <2>2. Len(buffer') \in Nat
      BY <1>3
    <2> QED  BY <1>3, <1>5, <1>6, <2>1, <2>2
  <1>10. /\ jitter' \in [init : BOOLEAN, value : 0..(JMod - 1), last : Int]
         /\ jitterMs' \in 0..(JMod - 1)
    <2>1. CalculateJitter(n, now')
      BY DEF Arrive, Insert
    <2>2. /\ jitter.value \in 0..(JMod - 1) /\ jitter.last \in Int
          /\ jitterMs \in 0..(JMod - 1)
      BY <1>4 DEF FieldsOK
    <2>3. CASE jitter.init
      <3> DEFINE tr == Transit(n, now')
                 d == Distance(tr, jitter.last)
      <3>1. tr \in Int
        BY <1>1, <1>7, TransitType DEF JitterInv
      <3>2. d \in Int
        <4> HIDE DEF tr
        <4> QED  BY <2>2, <3>1, DistanceType
      <3>3. /\ jitter' = [init |-> TRUE, value |-> Smooth(jitter.value, d), last |-> tr]
            /\ jitterMs' = jitter'.value
        BY <2>1, <2>3 DEF CalculateJitter
      <3>4. Smooth(jitter.value, d) \in 0..(JMod - 1)
        <4> HIDE DEF d
        <4> DEFINE r == (d - jitter.value) % JMod
                   k == r \div 16
                   x == jitter.value + k
        <4>1. r \in Nat
          BY <1>6, <2>2, <3>2
        <4> HIDE DEF r
        <4>2. k \in Int
          BY <4>1
        <4> HIDE DEF k
        <4>3. x \in Int
          BY <2>2, <4>2
        <4> HIDE DEF x
        <4>4. x % JMod \in 0..(JMod - 1)
          BY <1>6, <4>3
        <4> QED  BY <4>4 DEF Smooth, r, k, x
      <3> HIDE DEF tr, d
      <3> QED  BY <3>1, <3>3, <3>4
    <2>4. CASE ~jitter.init
      <3>1. jitter' = [init |-> TRUE, value |-> 0, last |-> 0] /\ jitterMs' = jitterMs
        BY <2>1, <2>4 DEF CalculateJitter
      <3>2. 0 \in 0..(JMod - 1)
        BY <1>6
      <3> QED  BY <2>2, <3>1, <3>2
    <2> QED  BY <2>3, <2>4
  <1> QED  BY <1>1, <1>2, <1>3, <1>5, <1>7, <1>8, <1>9, <1>10 DEF FieldsOK

(***************************************************************************)
(* A packet leaves, and a new stream begins                                *)
(***************************************************************************)
\* Extraction keeps the packets and their order.
LEMMA ExtractBuffer ==
  ASSUME JitterInv, NEW i \in DOMAIN buffer, ExtractAt(i)
  PROVE  /\ buffer' \in Seq(Item) /\ Len(buffer') = Len(buffer) - 1
         /\ \A k \in 1..Len(buffer') :
              LET m == IF k < i THEN k ELSE k + 1
              IN  m \in DOMAIN buffer /\ buffer'[k] = buffer[m]
  <1> DEFINE L == Len(buffer)
             front == SubSeq(buffer, 1, i - 1)
             back == SubSeq(buffer, i + 1, L)
  <1>1. /\ buffer \in Seq(Item) /\ L \in Nat /\ DOMAIN buffer = 1..L /\ i \in 1..L
        /\ \A k \in 1..L : buffer[k] \in Item
    BY DEF JitterInv, FieldsOK
  <1>2. buffer' = front \o back
    BY DEF ExtractAt
  <1>3. /\ front \in Seq(Item) /\ Len(front) = i - 1
        /\ \A k \in 1..(i - 1) : front[k] = buffer[k]
    BY <1>1
  <1>4. /\ back \in Seq(Item) /\ Len(back) = L - i
        /\ \A k \in 1..(L - i) : back[k] = buffer[i + k]
    <2>1. i + 1 \in Int /\ L \in Int /\ \A k \in (i + 1)..L : buffer[k] \in Item
      BY <1>1
    <2> HIDE DEF L
    <2>2. /\ back \in Seq(Item)
          /\ Len(back) = IF i + 1 <= L THEN L - (i + 1) + 1 ELSE 0
          /\ \A k \in 1..(L - (i + 1) + 1) : back[k] = buffer[(i + 1) + k - 1]
      BY <2>1, SubSeqProperties
    <2>3. /\ L - (i + 1) + 1 = L - i /\ (i + 1 <= L \/ L - i = 0)
          /\ \A k \in 1..(L - i) : (i + 1) + k - 1 = i + k
      BY <1>1
    <2> HIDE DEF back
    <2>4. Len(back) = L - i
      BY <1>1, <2>2, <2>3
    <2>5. \A k \in 1..(L - i) : back[k] = buffer[i + k]
      BY <2>2, <2>3
    <2> QED  BY <2>2, <2>4, <2>5
  <1> HIDE DEF front, back, L
  <1>5. /\ buffer' \in Seq(Item) /\ Len(buffer') = Len(front) + Len(back)
        /\ \A k \in 1..(Len(front) + Len(back)) :
             buffer'[k] = IF k <= Len(front) THEN front[k] ELSE back[k - Len(front)]
    BY <1>2, <1>3, <1>4, ConcatProperties
  <1>6. Len(buffer') = L - 1
    BY <1>1, <1>3, <1>4, <1>5
  <1>7. ASSUME NEW k \in 1..Len(buffer')
        PROVE  LET m == IF k < i THEN k ELSE k + 1
               IN  m \in DOMAIN buffer /\ buffer'[k] = buffer[m]
    <2>1. buffer'[k] = IF k <= i - 1 THEN front[k] ELSE back[k - (i - 1)]
      BY <1>1, <1>3, <1>4, <1>5, <1>6
    <2>2. CASE k < i
      BY <1>1, <1>3, <1>6, <2>1, <2>2
    <2>3. CASE k >= i
      <3>0. k \in Nat /\ k <= L - 1
        BY <1>1, <1>6
      <3>1. k - (i - 1) \in 1..(L - i) /\ i + (k - (i - 1)) = k + 1
        BY <1>1, <2>3, <3>0
      <3>2. buffer'[k] = buffer[k + 1]
        <4>1. ~(k <= i - 1)
          BY <1>1, <2>3, <3>0
        <4>2. buffer'[k] = back[k - (i - 1)]
          BY <2>1, <4>1, Zenon
        <4>3. back[k - (i - 1)] = buffer[i + (k - (i - 1))]
          BY <1>4, <3>1, Zenon
        <4> QED  BY <3>1, <4>2, <4>3, Zenon
      <3> QED  BY <1>1, <1>6, <2>3, <3>2
    <2> QED  BY <1>1, <1>6, <2>2, <2>3
  <1> QED  BY <1>5, <1>6, <1>7 DEF L

LEMMA ExtractInv ==
  ASSUME JitterInv, NEW i \in DOMAIN buffer, ExtractAt(i)
  PROVE  JitterInv'
  <1>1. /\ buffer' \in Seq(Item) /\ Len(buffer') = Len(buffer) - 1
        /\ \A k \in 1..Len(buffer') :
             LET m == IF k < i THEN k ELSE k + 1
             IN  m \in DOMAIN buffer /\ buffer'[k] = buffer[m]
    BY ExtractBuffer
  <1>2. /\ extracted' = extracted + 1
        /\ UNCHANGED <<initialized, expected, delay, lost, inserted, jitter, jitterMs, now, stream>>
    BY DEF ExtractAt
  <1>3. /\ FieldsOK /\ StreamOK /\ ExpectedTracksLatest /\ LossNotUndercounted
        /\ SortedOK /\ JudgedTogether
    BY DEF JitterInv
  <1>4. DOMAIN buffer' = 1..Len(buffer') /\ DOMAIN buffer \subseteq Nat /\ i \in Nat
    BY <1>1, <1>3 DEF FieldsOK
  <1> DEFINE from(k) == IF k < i THEN k ELSE k + 1
  <1>5. /\ \A k \in DOMAIN buffer' : from(k) \in DOMAIN buffer /\ buffer'[k] = buffer[from(k)]
        /\ \A k, l \in DOMAIN buffer' : k < l => from(k) < from(l)
    <2>1. \A k \in DOMAIN buffer' : k \in Nat
      BY <1>4
    <2>2. \A k, l \in Nat : k < l => from(k) < from(l)
      BY <1>4
    <2>3. \A k \in DOMAIN buffer' : from(k) \in DOMAIN buffer /\ buffer'[k] = buffer[from(k)]
      BY <1>1, <1>4
    <2> QED  BY <2>1, <2>2, <2>3
  <1> HIDE DEF from
  <1>6. FieldsOK'
    <2>1. \A k \in DOMAIN buffer' : buffer'[k].arrival <= now'
      <3> SUFFICES ASSUME NEW k \in DOMAIN buffer' PROVE buffer'[k].arrival <= now'
        OBVIOUS
      <3>1. buffer[from(k)].arrival <= now
        BY <1>3, <1>5 DEF FieldsOK
      <3>2. buffer'[k].arrival = buffer[from(k)].arrival /\ now' = now
        BY <1>2, <1>5
      <3> QED  BY <3>1, <3>2, Zenon
    <2>2. Len(buffer) \in Nat /\ Len(buffer) <= MaxBufferSize /\ MaxBufferSize \in Nat
      BY <1>3, Constants DEF FieldsOK
    <2>3. Len(buffer') <= MaxBufferSize
      BY <1>1, <2>2
    <2>4. extracted' \in Nat /\ extracted' + Len(buffer') <= inserted'
      <3>1. extracted \in Nat /\ inserted \in Nat /\ extracted + Len(buffer) <= inserted
        BY <1>3, Constants DEF FieldsOK
      <3> QED  BY <1>1, <1>2, <2>2, <3>1
    <2>5. /\ initialized' \in BOOLEAN /\ expected' \in 0..(SeqSpace - 1)
          /\ delay' \in Nat /\ lost' \in Nat /\ inserted' \in 0..MaxInserted
          /\ jitter' \in [init : BOOLEAN, value : 0..(JMod - 1), last : Int]
          /\ jitterMs' \in 0..(JMod - 1) /\ now' \in Nat
      BY <1>2, <1>3, Zenon DEF FieldsOK
    <2> QED  BY <1>1, <2>1, <2>3, <2>4, <2>5 DEF FieldsOK
  <1>7. SortedOK'
    <2> SUFFICES ASSUME NEW k \in DOMAIN buffer', NEW l \in DOMAIN buffer', k < l
                 PROVE  SeqOf(buffer'[k].n) <= SeqOf(buffer'[l].n)
      BY DEF SortedOK, SeqOf
    <2>1. SeqOf(buffer[from(k)].n) <= SeqOf(buffer[from(l)].n)
      BY <1>3, <1>5 DEF SortedOK
    <2> QED  BY <1>5, <2>1, Zenon
  <1>8. JudgedTogether'
    <2> SUFFICES ASSUME NEW k \in DOMAIN buffer', NEW l \in DOMAIN buffer',
                        buffer'[k].ready, ~buffer'[l].ready
                 PROVE  buffer'[k].arrival < buffer'[l].arrival
      BY DEF JudgedTogether
    <2>1. buffer[from(k)].arrival < buffer[from(l)].arrival
      BY <1>3, <1>5 DEF JudgedTogether
    <2> QED  BY <1>5, <2>1, Zenon
  <1>9. StreamOK' /\ ExpectedTracksLatest' /\ LossNotUndercounted'
    BY <1>2, <1>3 DEF StreamOK, ExpectedTracksLatest, LossNotUndercounted, Latest
  <1> QED  BY <1>6, <1>7, <1>8, <1>9 DEF JitterInv

LEMMA ResetInv == ASSUME JitterInv, Reset PROVE JitterInv'
  <1>1. /\ buffer' = <<>> /\ initialized' = FALSE /\ expected' = 0
        /\ delay' = InitialDelay /\ lost' = 0
        /\ jitter' = [jitter EXCEPT !.init = FALSE] /\ stream' = NoStream
        /\ inserted' = inserted /\ extracted' = extracted
        /\ jitterMs' = jitterMs /\ now' = now
    BY DEF Reset
  <1>2. buffer' \in Seq(Item) /\ Len(buffer') = 0 /\ DOMAIN buffer' = {}
    BY <1>1
  <1>3. SortedOK' /\ JudgedTogether'
    BY <1>2 DEF SortedOK, JudgedTogether
  <1>4. FieldsOK'
    <2>1. FieldsOK
      BY DEF JitterInv
    <2>2. 0 \in 0..(SeqSpace - 1) /\ InitialDelay \in Nat /\ MaxBufferSize \in Nat
      BY Constants
    <2>3. extracted \in Nat /\ extracted <= inserted
      <3>1. /\ Len(buffer) \in Nat /\ extracted \in Nat /\ inserted \in Nat
            /\ extracted + Len(buffer) <= inserted
        BY <2>1 DEF FieldsOK
      <3> QED  BY <3>1
    <2>4. jitter' \in [init : BOOLEAN, value : 0..(JMod - 1), last : Int]
      BY <1>1, <2>1 DEF FieldsOK
    <2>5. extracted' \in Nat /\ extracted' + Len(buffer') <= inserted'
      BY <1>1, <1>2, <2>3
    <2>6. /\ initialized' \in BOOLEAN /\ expected' \in 0..(SeqSpace - 1)
          /\ delay' \in Nat /\ lost' \in Nat
      BY <1>1, <2>2
    <2>7. /\ inserted' \in 0..MaxInserted /\ jitterMs' \in 0..(JMod - 1) /\ now' \in Nat
      BY <1>1, <2>1 DEF FieldsOK
    <2>8. /\ Len(buffer') <= MaxBufferSize
          /\ \A i \in DOMAIN buffer' : buffer'[i].arrival <= now'
      BY <1>2, <2>2
    <2> QED  BY <1>2, <2>4, <2>5, <2>6, <2>7, <2>8 DEF FieldsOK
  <1>5. StreamOK' /\ ExpectedTracksLatest'
    BY <1>1 DEF StreamOK, ExpectedTracksLatest, NoStream, Latest
  <1>6. LossNotUndercounted'
    <2>1. ((stream'.first..Latest') \ stream'.got) \ stream'.jumped = {}
      BY <1>1 DEF NoStream, Latest
    <2>2. Cardinality(((stream'.first..Latest') \ stream'.got) \ stream'.jumped) = 0
      BY <2>1, FS_EmptySet
    <2> QED  BY <1>1, <2>2 DEF LossNotUndercounted
  <1> QED  BY <1>3, <1>4, <1>5, <1>6 DEF JitterInv

LEMMA JitterStep == JitterInv /\ [JitterNext]_jitterVars => JitterInv'
  <1> SUFFICES ASSUME JitterInv, [JitterNext]_jitterVars PROVE JitterInv'
    OBVIOUS
  <1>1. ASSUME NEW n \in Deliverable, NEW gap \in Gap, Arrive(n, gap) PROVE JitterInv'
    BY <1>1, ArriveFollows, ArriveCounts, ArriveSorts, ArriveTypes DEF JitterInv
  <1>2. ASSUME NEW i \in DOMAIN buffer, ExtractAt(i) PROVE JitterInv'
    BY <1>2, ExtractInv
  <1>3. CASE Reset
    BY <1>3, ResetInv
  <1>4. CASE UNCHANGED jitterVars
    BY <1>4 DEF jitterVars, JitterInv, FieldsOK, StreamOK, ExpectedTracksLatest,
      LossNotUndercounted, SortedOK, JudgedTogether, Latest, NoStream
  <1> QED  BY <1>1, <1>2, <1>3, <1>4 DEF JitterNext, Extract

\* The invariant the theorems below rest on.
THEOREM JitterInvariant == JitterSpec => []JitterInv
  <1> QED  BY JitterInitInv, JitterStep, PTL DEF JitterSpec

(***************************************************************************)
(* The theorems                                                            *)
(***************************************************************************)
\* Insert's comparison in 16 bits: whatever arrives late, twice or after a
\* wrap, expected_seq_ is the number after the latest packet.
THEOREM ExpectedFollows == JitterSpec => []ExpectedTracksLatest
  <1>1. JitterInv => ExpectedTracksLatest
    BY DEF JitterInv
  <1> QED  BY <1>1, JitterInvariant, PTL

\* Insert's count of the gap: no packet the stream skipped and that never came
\* is left out of packets_lost_, except in an outage, where LossWindow or more
\* are skipped at once.
THEOREM LossCounted == JitterSpec => []LossNotUndercounted
  <1>1. JitterInv => LossNotUndercounted
    BY DEF JitterInv
  <1> QED  BY <1>1, JitterInvariant, PTL

\* Extract takes the first ready packet of a sorted buffer: unless the numbers
\* wrap between the two, none overtakes an earlier one that is there as long.
THEOREM OrderKept == JitterSpec => ArrivalOrderKept
  <1> DEFINE Kept ==
        \A i, j \in DOMAIN buffer :
          /\ ExtractAt(i) /\ buffer[j].n < buffer[i].n
          /\ SeqOf(buffer[j].n) < SeqOf(buffer[i].n)
          => buffer[i].arrival < buffer[j].arrival
  <1>1. JitterInv => Kept
    <2> SUFFICES ASSUME JitterInv, NEW i \in DOMAIN buffer, NEW j \in DOMAIN buffer, ExtractAt(i),
                        SeqOf(buffer[j].n) < SeqOf(buffer[i].n)
                 PROVE  buffer[i].arrival < buffer[j].arrival
      BY DEF SeqOf
    <2>1. DOMAIN buffer = 1..Len(buffer) /\ Len(buffer) \in Nat
      BY DEF JitterInv, FieldsOK
    <2>2. SeqOf(buffer[i].n) \in Int /\ SeqOf(buffer[j].n) \in Int
      <3>1. buffer[i] \in Item /\ buffer[j] \in Item
        BY DEF JitterInv, FieldsOK
      <3>2. buffer[i].n \in Nat /\ buffer[j].n \in Nat
        BY <3>1 DEF Item
      <3>3. \A m \in Nat : m % SeqSpace \in Int
        BY Constants
      <3> QED  BY <3>2, <3>3, Zenon DEF SeqOf
    <2>3. i < j => SeqOf(buffer[i].n) <= SeqOf(buffer[j].n)
      BY DEF JitterInv, SortedOK
    <2>4. ~(i < j) /\ i # j
      <3>1. \A x \in Int, y \in Int : x < y => ~(y <= x) /\ y # x
        OBVIOUS
      <3> QED  BY <2>2, <2>3, <3>1, Zenon
    <2>5. j \in 1..(i - 1)
      BY <2>1, <2>4
    <2>6. buffer[i].ready /\ ~buffer[j].ready
      BY <2>5 DEF ExtractAt
    <2> QED  BY <2>6 DEF JitterInv, JudgedTogether
  <1>2. JitterInv => [Kept]_jitterVars
    BY <1>1
  <1> QED  BY <1>2, JitterInvariant, PTL DEF ArrivalOrderKept

(***************************************************************************)
(* The adaptive delay                                                      *)
(***************************************************************************)
Least == Smaller(InitialDelay, MinDelay)
Most == Larger(InitialDelay, MaxDelay)

\* The configuration keeps the additions and subtractions of the delay within
\* 32 bits; the server's does (20, 200, initially 0).
DelaysFit == MinDelay >= 4 /\ Most + 10 < JMod

DelayOK == delay \in Least..Most

\* One adaptation stays between the limits, or between the initial delay and
\* them.
LEMMA AdaptedWithin ==
  ASSUME DelaysFit, DelayOK, NEW depth, NEW jit
  PROVE  AdaptDelay(depth, jit) \in Least..Most
  <1>1. /\ MinDelay \in Nat /\ MaxDelay \in Nat /\ InitialDelay \in Nat
        /\ MinDelay <= MaxDelay /\ JMod \in Nat \ {0}
    BY Constants
  <1>2. /\ Least \in Nat /\ Most \in Nat /\ delay \in Least..Most /\ delay \in Nat
        /\ Least <= MinDelay /\ MaxDelay <= Most /\ MinDelay >= 4 /\ Most + 10 < JMod
    BY <1>1 DEF Least, Most, Smaller, Larger, DelaysFit, DelayOK
  <1>3. CASE jit > delay
    <2>1. delay + 10 \in 0..(JMod - 1)
      BY <1>1, <1>2
    <2>2. (delay + 10) % JMod = delay + 10
      BY <1>1, <2>1, ModSmall
    <2>3. AdaptDelay(depth, jit) = Smaller(MaxDelay, delay + 10)
      BY <1>3, <2>2 DEF AdaptDelay
    <2> QED  BY <1>1, <1>2, <2>3 DEF Smaller
  <1>4. CASE delay > MinDelay
    <2>1. delay - 5 \in 0..(JMod - 1)
      BY <1>1, <1>2, <1>4
    <2>2. (delay - 5) % JMod = delay - 5
      BY <1>1, <2>1, ModSmall
    <2>3. ~(jit > delay) => AdaptDelay(depth, jit) \in {Larger(MinDelay, delay - 5), delay}
      BY <2>2 DEF AdaptDelay
    <2>4. Larger(MinDelay, delay - 5) \in Least..Most
      BY <1>1, <1>2, <1>4 DEF Larger
    <2> QED  BY <1>2, <1>3, <2>3, <2>4
  <1>5. CASE ~(jit > delay) /\ ~(delay > MinDelay)
    BY <1>2, <1>5 DEF AdaptDelay
  <1> QED  BY <1>3, <1>4, <1>5

\* The inductive invariant of the delay alone (AdaptDelay is its only change but
\* for Reset): it never leaves the range of the limits and the initial value.
THEOREM DelayInvariant ==
  ASSUME DelaysFit
  PROVE  JitterSpec => []DelayOK
  <1>0. InitialDelay \in Least..Most
    BY Constants DEF Least, Most, Smaller, Larger
  <1>1. JitterInit => DelayOK
    BY <1>0 DEF JitterInit, DelayOK
  <1>2. JitterInv /\ DelayOK /\ [JitterNext]_jitterVars => DelayOK'
    <2> SUFFICES ASSUME JitterInv, DelayOK, [JitterNext]_jitterVars PROVE DelayOK'
      OBVIOUS
    <2>0. DelayOK' <=> delay' \in Least..Most
      BY DEF DelayOK, Least, Most, Smaller, Larger
    <2>1. ASSUME NEW n \in Deliverable, NEW gap \in Gap, Arrive(n, gap)
          PROVE  delay' \in Least..Most
      <3>1. n \in Nat
        BY <2>1, ArriveFollows
      <3>2. \E s \in Seq(Item) : delay' = AdaptDelay(Depth(s), jitterMs')
        BY <2>1, <3>1, InsertBuffer
      <3> QED  BY <3>2, AdaptedWithin
    <2>2. ASSUME NEW i \in DOMAIN buffer, ExtractAt(i) PROVE delay' \in Least..Most
      BY <2>2 DEF ExtractAt, DelayOK
    <2>3. CASE Reset
      <3>1. delay' = InitialDelay
        BY <2>3 DEF Reset
      <3> QED  BY <1>0, <2>0, <3>1, Zenon
    <2>4. CASE UNCHANGED jitterVars
      BY <2>4 DEF jitterVars, DelayOK
    <2> QED  BY <2>0, <2>1, <2>2, <2>3, <2>4 DEF JitterNext, Extract
  <1> QED  BY <1>1, <1>2, JitterInvariant, PTL DEF JitterSpec

\* The range of the adaptive delay, the limit of the deque and the account of
\* its packets (Insert, Extract and Reset leave every field in its range), also
\* for the server's initial delay, which lies below the minimum.
THEOREM JitterTypeCorrect ==
  ASSUME DelaysFit
  PROVE  JitterSpec => []JitterTypeOK
  <1>1. JitterInv /\ DelayOK => JitterTypeOK
    <2> SUFFICES ASSUME JitterInv, DelayOK PROVE JitterTypeOK
      OBVIOUS
    <2>1. FieldsOK
      BY DEF JitterInv
    <2>2. ASSUME NEW i \in DOMAIN buffer
          PROVE  buffer[i].n \in Nat /\ buffer[i].arrival \in 0..now /\ buffer[i].ready \in BOOLEAN
      <3>1. buffer[i] \in Item /\ buffer[i].arrival <= now /\ now \in Nat
        BY <2>1 DEF FieldsOK
      <3> QED  BY <3>1 DEF Item
    <2> QED  BY <2>1, <2>2 DEF FieldsOK, DelayOK, Least, Most, JitterTypeOK
  <1> QED  BY <1>1, JitterInvariant, DelayInvariant, PTL

(***************************************************************************)
(* The estimate of the jitter                                              *)
(***************************************************************************)
\* Unsigned arithmetic only adds.
LEMMA SmoothAdds ==
  ASSUME NEW j \in 0..(JMod - 1), NEW d \in Int, j + JMod \div 16 < JMod
  PROVE  Smooth(j, d) >= j
  <1> DEFINE x == (d - j) % JMod
             q == x \div 16
  <1>1. JMod \in Nat \ {0}
    BY Constants
  <1>2. x \in 0..(JMod - 1)
    <2>1. d - j \in Int
      BY <1>1
    <2> QED  BY <1>1, <2>1, ModRange
  <1> HIDE DEF x
  <1>3. q \in Nat /\ q <= JMod \div 16
    BY <1>1, <1>2
  <1>4. Smooth(j, d) = (j + q) % JMod
    BY DEF Smooth, x
  <1> HIDE DEF q
  <1>5. j + q \in 0..(JMod - 1)
    BY <1>1, <1>3
  <1>6. (j + q) % JMod = j + q
    BY <1>1, <1>5, ModSmall
  <1> QED  BY <1>1, <1>3, <1>4, <1>6

\* The filter of CalculateJitter smooths nothing: whatever arrives, and however
\* even the arrivals have become, the estimate does not fall before it is
\* within a sixteenth of the end of its range.
THEOREM JitterNeverFalls ==
  JitterSpec =>
    [][\A n \in Deliverable, gap \in Gap :
         Arrive(n, gap) /\ jitter.init /\ jitter.value + JMod \div 16 < JMod
           => jitter'.value >= jitter.value]_jitterVars
  <1>1. JitterInv /\ [JitterNext]_jitterVars
          => [\A n \in Deliverable, gap \in Gap :
                Arrive(n, gap) /\ jitter.init /\ jitter.value + JMod \div 16 < JMod
                  => jitter'.value >= jitter.value]_jitterVars
    <2> SUFFICES ASSUME JitterInv, NEW n \in Deliverable, NEW gap \in Gap,
                        Arrive(n, gap), jitter.init,
                        jitter.value + JMod \div 16 < JMod
                 PROVE  jitter'.value >= jitter.value
      OBVIOUS
    <2> DEFINE d == Distance(Transit(n, now'), jitter.last)
    <2>1. /\ jitter.value \in 0..(JMod - 1) /\ jitter.last \in Int
          /\ now \in Nat
      BY DEF JitterInv, FieldsOK
    <2>2. now' = now + gap /\ CalculateJitter(n, now')
      BY DEF Arrive, Insert
    <2>3. jitter'.value = Smooth(jitter.value, d)
      BY <2>2 DEF CalculateJitter
    <2>4. d \in Int
      <3>1. n \in Nat /\ gap \in Nat
        BY ArriveFollows, Constants
      <3>2. Transit(n, now') \in Int
        BY <2>1, <2>2, <3>1, TransitType DEF JitterInv
      <3> QED  BY <2>1, <3>2, DistanceType
    <2> QED  BY <2>1, <2>3, <2>4, SmoothAdds
  <1> QED  BY <1>1, JitterInvariant, PTL DEF JitterSpec

=============================================================================
