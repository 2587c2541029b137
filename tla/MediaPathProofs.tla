-------------------------- MODULE MediaPathProofs --------------------------
(***************************************************************************)
(* The media path and its reports for every set of frames, any payload     *)
(* size and any number of sequence numbers: what is on the wire is         *)
(* numbered without a hole, frames can be told apart, and the reports      *)
(* count what was sent and can be read.                                    *)
(***************************************************************************)
EXTENDS MediaReports, NumberTheorems, SequenceTheorems

(***************************************************************************)
(* The constants                                                           *)
(***************************************************************************)
\* The assumptions, one constant at a time.
LEMMA PathConstants ==
  /\ HeaderSize \in Nat \ {0} /\ MaxPayload \in Nat /\ FuPayload \in Nat \ {0}
  /\ FuPayload + 2 + HeaderSize = MaxPayload
  /\ SeqSpace \in Nat \ {0} /\ MaxFrames \in Nat
  /\ \A n \in Nal : /\ n = [nri |-> n.nri, type |-> n.type, body |-> n.body]
                    /\ n.nri \in 0..3 /\ n.type \in 1..23
                    /\ n.body \in Seq(0..255) /\ n.body # <<>>
                    /\ Len(n.body) \in Nat \ {0}
                    /\ Len(Fragment(n)) <= SeqSpace \div 2 + 1
  /\ \A a \in AacFrame : a \in Seq(0..255)
  <1>1. HeaderSize \in Nat \ {0} /\ MaxPayload \in Nat /\ MaxPayload > HeaderSize + 2
    BY PathAssumption DEF PathAssumption
  <1>2. FuPayload \in Nat \ {0} /\ FuPayload + 2 + HeaderSize = MaxPayload
    BY <1>1 DEF FuPayload
  <1>3. \A n \in Nal : /\ n = [nri |-> n.nri, type |-> n.type, body |-> n.body]
                       /\ n.nri \in 0..3 /\ n.type \in 1..23
                       /\ n.body \in Seq(0..255) /\ n.body # <<>>
    BY PathAssumption DEF PathAssumption
  <1>4. \A n \in Nal : Len(n.body) \in Nat \ {0}
    BY <1>3, EmptySeq
  <1>5. SeqSpace \in Nat \ {0} /\ MaxFrames \in Nat /\ \A a \in AacFrame : a \in Seq(0..255)
    BY PathAssumption DEF PathAssumption
  <1>6. \A n \in Nal : Len(Fragment(n)) <= SeqSpace \div 2 + 1
    BY FragmentsAssumption DEF FragmentsAssumption
  <1> QED  BY <1>1, <1>2, <1>3, <1>4, <1>5, <1>6

(***************************************************************************)
(* Fragments                                                               *)
(***************************************************************************)
\* A function on 1..n is a sequence of length n.
LEMMA ListIsSeq ==
  ASSUME NEW n \in Nat, NEW T, NEW f \in [1..n -> T]
  PROVE  f \in Seq(T) /\ Len(f) = n /\ DOMAIN f = 1..n
  <1>1. f \in Seq(T)
    BY SeqDef
  <1>2. DOMAIN f = 1..n /\ DOMAIN f = 1..Len(f) /\ Len(f) \in Nat
    BY <1>1, LenProperties
  <1>3. Len(f) = n
    BY <1>2
  <1> QED  BY <1>1, <1>2, <1>3

\* Where the pieces of a body begin and end.
LEMMA ChunkBounds ==
  ASSUME NEW l \in Nat \ {0}, NEW F \in Nat \ {0}
  PROVE  LET n == (l + F - 1) \div F
         IN  /\ n \in Nat \ {0}
             /\ (n - 1) * F < l /\ l <= n * F
             /\ \A k \in 1..n : (k - 1) * F \in Nat /\ k * F = (k - 1) * F + F
             /\ \A k \in 1..(n - 1) : k * F < l
  <1> DEFINE x == l + F - 1
             n == x \div F
             r == x % F
  <1>1. x \in Nat /\ x = n * F + r /\ r \in 0..(F - 1) /\ n \in Int
    <2>1. x \in Nat /\ x \in Int
      OBVIOUS
    <2> HIDE DEF x
    <2> QED  BY <2>1, ModRange
  <1>2. x = l + F - 1
    OBVIOUS
  <1> HIDE DEF x, n, r
  <1>3. n * F \in Int
    BY <1>1
  <1>4. l <= n * F /\ n * F < l + F
    BY <1>1, <1>2, <1>3
  <1>5. \A k \in Int : (k - 1) * F = k * F - F /\ k * F \in Int
    OBVIOUS
  <1>6. \A j, k \in Int : j <= k => j * F <= k * F
    <2> SUFFICES ASSUME NEW j \in Int, NEW k \in Int, j <= k PROVE j * F <= k * F
      OBVIOUS
    <2> DEFINE d == k - j
    <2>1. d \in Nat /\ k = j + d
      OBVIOUS
    <2> HIDE DEF d
    <2>2. d * F \in Nat
      BY <2>1
    <2>3. k * F = j * F + d * F
      BY <2>1
    <2> QED  BY <2>2, <2>3
  <1>7. n \in Nat \ {0}
    <2>1. ~(n <= 0)
      <3>1. 0 * F = 0 /\ 0 \in Int
        OBVIOUS
      <3>2. n <= 0 => n * F <= 0
        BY <1>1, <1>6, <3>1
      <3> QED  BY <1>3, <1>4, <3>2
    <2> QED  BY <1>1, <2>1
  <1>8. (n - 1) * F < l
    BY <1>1, <1>3, <1>4, <1>5
  <1>9. \A k \in 1..n : (k - 1) * F \in Nat /\ k * F = (k - 1) * F + F
    <2> SUFFICES ASSUME NEW k \in 1..n PROVE (k - 1) * F \in Nat /\ k * F = (k - 1) * F + F
      OBVIOUS
    <2>1. k - 1 \in Nat /\ k \in Int
      BY <1>7
    <2> QED  BY <2>1
  <1>10. ASSUME NEW k \in 1..(n - 1) PROVE k * F < l
    <2>1. k \in Int /\ n - 1 \in Int /\ k <= n - 1
      BY <1>7
    <2>2. k * F <= (n - 1) * F /\ k * F \in Int /\ (n - 1) * F \in Int
      BY <1>5, <1>6, <2>1
    <2> QED  BY <1>8, <2>2
  <1> QED  BY <1>4, <1>7, <1>8, <1>9, <1>10 DEF n, x

\* The pieces, in terms of what SubSeq returns.
LEMMA ChunkFacts ==
  ASSUME NEW b \in Seq(0..255), Len(b) \in Nat \ {0}
  PROVE  LET c == Chunks(b)
             n == (Len(b) + FuPayload - 1) \div FuPayload
         IN  /\ n \in Nat \ {0}
             /\ c \in Seq(Seq(0..255)) /\ Len(c) = n /\ DOMAIN c = 1..n
             /\ \A k \in 1..n :
                  /\ c[k] = SubSeq(b, (k - 1) * FuPayload + 1,
                                   IF k = n THEN Len(b) ELSE k * FuPayload)
                  /\ Len(c[k]) = (IF k = n THEN Len(b) ELSE k * FuPayload) - (k - 1) * FuPayload
                  /\ Len(c[k]) \in 1..FuPayload
  <1> DEFINE F == FuPayload
             l == Len(b)
             n == (l + F - 1) \div F
             lo(k) == (k - 1) * F + 1
             hi(k) == IF k = n THEN l ELSE k * F
  <1>1. F \in Nat \ {0} /\ l \in Nat \ {0}
    BY PathConstants
  <1>2. /\ n \in Nat \ {0}
        /\ (n - 1) * F < l /\ l <= n * F
        /\ \A k \in 1..n : (k - 1) * F \in Nat /\ k * F = (k - 1) * F + F
        /\ \A k \in 1..(n - 1) : k * F < l
    <2> HIDE DEF F, l
    <2> QED  BY <1>1, ChunkBounds
  <1>3. Chunks(b) = [k \in 1..n |-> SubSeq(b, lo(k), hi(k))]
    BY DEF Chunks
  <1>4. b \in [1..l -> 0..255]
    BY LenProperties
  <1> HIDE DEF n, F, l
  <1>5. ASSUME NEW k \in 1..n
        PROVE  /\ lo(k) \in Int /\ hi(k) \in Int /\ 1 <= lo(k) /\ lo(k) <= hi(k) /\ hi(k) <= l
               /\ hi(k) - lo(k) + 1 = hi(k) - (k - 1) * F
               /\ hi(k) - lo(k) + 1 \in 1..F
    <2>1. (k - 1) * F \in Nat /\ k * F = (k - 1) * F + F
      BY <1>2
    <2> DEFINE a == (k - 1) * F
    <2>2. CASE k = n
      <3>1. hi(k) = l /\ a < l /\ l <= a + F /\ a \in Nat
        BY <1>2, <2>1, <2>2
      <3> HIDE DEF a
      <3>2. l - (a + 1) + 1 = l - a /\ l - a \in 1..F /\ 1 <= a + 1 /\ a + 1 <= l /\ l <= l
        BY <1>1, <3>1
      <3> QED  BY <1>1, <3>1, <3>2 DEF a
    <2>3. CASE k # n
      <3>1. k \in 1..(n - 1)
        BY <1>2, <2>3
      <3>2. hi(k) = a + F /\ k * F < l /\ a \in Nat /\ k * F = a + F
        BY <1>2, <2>1, <2>3, <3>1
      <3> HIDE DEF a
      <3>3. (a + F) - (a + 1) + 1 = (a + F) - a /\ (a + F) - a \in 1..F /\ a + 1 <= a + F /\ a + F <= l
            /\ 1 <= a + 1
        BY <1>1, <3>2
      <3> QED  BY <1>1, <3>2, <3>3 DEF a
    <2> QED  BY <2>2, <2>3
  <1> HIDE DEF lo, hi
  <1>6. ASSUME NEW k \in 1..n
        PROVE  /\ SubSeq(b, lo(k), hi(k)) \in Seq(0..255)
               /\ Len(SubSeq(b, lo(k), hi(k))) = hi(k) - lo(k) + 1
    <2>1. \A i \in lo(k)..hi(k) : b[i] \in 0..255
      BY <1>1, <1>4, <1>5
    <2> QED  BY <1>5, <2>1, SubSeqProperties
  <1>7. Chunks(b) \in [1..n -> Seq(0..255)]
    BY <1>3, <1>6
  <1>8. Chunks(b) \in Seq(Seq(0..255)) /\ Len(Chunks(b)) = n /\ DOMAIN Chunks(b) = 1..n
    <2>1. n \in Nat
      BY <1>2
    <2> QED  BY <1>7, <2>1, ListIsSeq
  <1>9. \A k \in 1..n : Chunks(b)[k] = SubSeq(b, lo(k), hi(k))
    BY <1>3
  <1>10. \A k \in 1..n :
           /\ Chunks(b)[k] = SubSeq(b, lo(k), hi(k))
           /\ Len(Chunks(b)[k]) = hi(k) - (k - 1) * F
           /\ Len(Chunks(b)[k]) \in 1..F
    BY <1>5, <1>6, <1>9
  <1> QED  BY <1>2, <1>8, <1>10 DEF n, F, l, lo, hi

\* A NAL unit leaves in a sequence of payloads.
LEMMA FragmentFacts ==
  ASSUME NEW n \in Nal
  PROVE  /\ Len(Fragment(n)) \in Nat \ {0} /\ DOMAIN Fragment(n) = 1..Len(Fragment(n))
         /\ Fragment(n) = [i \in 1..Len(Fragment(n)) |-> Fragment(n)[i]]
         /\ Len(Fragment(n)) <= SeqSpace \div 2 + 1
  <1>1. n.body \in Seq(0..255) /\ Len(n.body) \in Nat \ {0}
        /\ Len(Fragment(n)) <= SeqSpace \div 2 + 1
    BY PathConstants
  <1>2. CASE 1 + Len(n.body) <= MaxPayload
    <2>1. Fragment(n) = <<WholeNal(n)>>
      BY <1>2 DEF Fragment
    <2> DEFINE w == WholeNal(n)
    <2>2. /\ Len(<<w>>) = 1 /\ DOMAIN <<w>> = 1..1
          /\ <<w>> = [i \in 1..1 |-> <<w>>[i]]
      OBVIOUS
    <2> HIDE DEF w
    <2> QED  BY <1>1, <2>1, <2>2 DEF w
  <1>3. CASE ~(1 + Len(n.body) <= MaxPayload)
    <2> DEFINE c == Chunks(n.body)
               p(k) == [nri |-> n.nri, type |-> FuA,
                        fu |-> <<k = 1, k = Len(c), n.type>>, body |-> c[k]]
    <2>1. Len(c) \in Nat \ {0} /\ DOMAIN c = 1..Len(c)
      BY <1>1, ChunkFacts
    <2>2. Fragment(n) = [k \in 1..Len(c) |-> p(k)]
      BY <1>3, <2>1 DEF Fragment
    <2> HIDE DEF c, p
    <2> DEFINE T == {p(k) : k \in 1..Len(c)}
    <2>3. Fragment(n) \in [1..Len(c) -> T]
      BY <2>2
    <2> HIDE DEF T
    <2>4. Len(Fragment(n)) = Len(c) /\ DOMAIN Fragment(n) = 1..Len(c)
      BY <2>1, <2>3, ListIsSeq
    <2>5. Fragment(n) = [k \in 1..Len(c) |-> Fragment(n)[k]]
      BY <2>2
    <2> QED  BY <1>1, <2>1, <2>4, <2>5
  <1> QED  BY <1>2, <1>3

(***************************************************************************)
(* Invariant                                                               *)
(***************************************************************************)
AudioPayload == {Pack(a) : a \in AacFrame}
VideoPayload == UNION {{Fragment(n)[i] : i \in DOMAIN Fragment(n)} : n \in Nal}

Packet(m) ==
  [seq : 0..(SeqSpace - 1), ts : Nat, marker : BOOLEAN,
   payload : IF m = "audio" THEN AudioPayload ELSE VideoPayload]

Shape ==
  /\ known \subseteq Media
  /\ seq \in [Media -> 0..(SeqSpace - 1)]
  /\ ts \in [Media -> Nat] /\ sent \in [Media -> Nat] /\ bytes \in [Media -> Nat]
  /\ frames = [m \in Media |-> frames[m]]
  /\ frames["audio"] \in Seq(AacFrame) /\ frames["video"] \in Seq(Nal)
  /\ wire = [m \in Media |-> wire[m]] /\ buffered = [m \in Media |-> buffered[m]]
  /\ \A m \in Media : wire[m] \subseteq Packet(m) /\ buffered[m] \subseteq wire[m]

\* The clock of a medium counts its frames.  The packets of a video frame are
\* older than the clock; those of the last audio frame are not.
Clocked ==
  /\ \A m \in Media : ts[m] = Len(frames[m])
  /\ Len(frames["audio"]) + Len(frames["video"]) <= MaxFrames
  /\ \A p \in wire["audio"] : p.ts <= ts["audio"]
  /\ \A p \in wire["video"] : p.ts < ts["video"]

Fitting == \A p \in wire["video"] : PayloadSize(p.payload) <= MaxPayload

\* The counters of a medium that sends one packet for each frame.
Counted ==
  /\ IsFiniteSet(wire["audio"]) /\ sent["audio"] = Cardinality(wire["audio"])
  /\ bytes["audio"] =
       SumFunction([p \in wire["audio"] |-> Len(p.payload) + HeaderSize])

PathInv ==
  Shape /\ Clocked /\ Fitting /\ SequenceCountsSent /\ MarkerEndsFrame /\ Counted

(***************************************************************************)
(* Sending                                                                 *)
(***************************************************************************)
\* The packet that SendPackets makes of payload i.
PacketOf(m, payloads, acc, t, marked, i) ==
  [seq |-> (seq[m] + Rank(acc, i)) % SeqSpace, ts |-> t,
   marker |-> marked /\ i = Len(payloads), payload |-> payloads[i]]

\* All packets of the payloads in acc.
PacketsOf(m, payloads, acc, t, marked) ==
  {PacketOf(m, payloads, acc, t, marked, i) : i \in acc}

\* Their numbers, and a run of numbers that wrap around.
Numbers(w) == {p.seq : p \in w}
Wrapped(a, b) == {i % SeqSpace : i \in a..b}

\* More packets on the wire.
Grown(m, new) == [wire EXCEPT ![m] = @ \cup new]

\* The payloads that are sent are some of those that there are.
LEMMA AcceptedFacts ==
  ASSUME NEW m, NEW sizes, NEW n \in Nat, NEW ok \in SUBSET (1..n)
  PROVE  LET acc == Accepted(m, sizes, ok)
         IN  /\ acc \subseteq ok /\ acc \in SUBSET (1..n) /\ acc \in SUBSET Nat
             /\ IsFiniteSet(acc) /\ Cardinality(acc) \in 0..n
             /\ \A i \in acc : sizes[i] <= MaxPayload
  <1> DEFINE acc == Accepted(m, sizes, ok)
  <1>1. acc \subseteq ok /\ \A i \in acc : sizes[i] <= MaxPayload
    BY DEF Accepted
  <1> HIDE DEF acc
  <1>2. acc \subseteq 1..n
    BY <1>1
  <1>3. IsFiniteSet(1..n) /\ Cardinality(1..n) = n
    <2>1. n > 0 => n - 1 + 1 = n
      OBVIOUS
    <2> QED  BY FS_Interval
  <1>4. IsFiniteSet(acc) /\ Cardinality(acc) \in Nat /\ Cardinality(acc) <= n
    BY <1>2, <1>3, FS_Subset, FS_CardinalityType
  <1>5. acc \in SUBSET Nat
    BY <1>2
  <1> QED  BY <1>1, <1>2, <1>4, <1>5 DEF acc

\* What SendPackets does to each variable.
LEMMA SendEffect ==
  ASSUME NEW m, NEW payloads, NEW sizes, NEW ok, NEW t, NEW marked,
         SendPackets(m, payloads, sizes, ok, t, marked)
  PROVE  LET acc == Accepted(m, sizes, ok)
         IN  /\ wire' = Grown(m, PacketsOf(m, payloads, acc, t, marked))
             /\ seq' = [seq EXCEPT ![m] = (@ + Cardinality(acc)) % SeqSpace]
             /\ sent' = [sent EXCEPT ![m] = @ + Cardinality(acc)]
             /\ bytes' = [bytes EXCEPT ![m] = @ + TotalSize(sizes, acc)]
  BY DEF SendPackets, PacketsOf, PacketOf, Rank, Grown

\* The new packets continue the numbers that are out.
LEMMA SendNumbers ==
  ASSUME NEW m, NEW payloads, NEW t, NEW marked, NEW k \in Nat,
         NEW acc \in SUBSET Nat, IsFiniteSet(acc), seq[m] = k % SeqSpace
  PROVE  LET c == Cardinality(acc)
         IN  /\ (seq[m] + c) % SeqSpace = (k + c) % SeqSpace
             /\ Numbers(PacketsOf(m, payloads, acc, t, marked)) = Wrapped(k, k + c - 1)
  <1> DEFINE c == Cardinality(acc)
             P(i) == PacketOf(m, payloads, acc, t, marked, i)
             new == {P(i) : i \in acc}
  <1>1. SeqSpace \in Nat \ {0} /\ k \in Int
    BY PathConstants
  <1>2. c \in Nat /\ \A i \in acc : Rank(acc, i) \in 0..(c - 1)
    BY FS_CardinalityType, RankOrder
  <1>3. \A r \in 0..(c - 1) : \E i \in acc : Rank(acc, i) = r
    BY RankOnto
  <1>4. \A i \in acc : P(i).seq = (seq[m] + Rank(acc, i)) % SeqSpace
    BY DEF PacketOf
  <1> HIDE DEF c, P
  <1>5. \A r \in Int : (seq[m] + r) % SeqSpace = (k + r) % SeqSpace
    BY <1>1, ModAdd
  <1>6. (seq[m] + c) % SeqSpace = (k + c) % SeqSpace
    BY <1>2, <1>5
  <1>7. \A i \in acc : P(i).seq = (k + Rank(acc, i)) % SeqSpace
    BY <1>2, <1>4, <1>5
  <1>8. {p.seq : p \in new} = {i % SeqSpace : i \in k..(k + c - 1)}
    <2>1. ASSUME NEW p \in new PROVE p.seq \in {i % SeqSpace : i \in k..(k + c - 1)}
      <3>1. PICK i \in acc : p = P(i)
        OBVIOUS
      <3>2. k + Rank(acc, i) \in k..(k + c - 1)
        BY <1>2
      <3> QED  BY <1>7, <3>1, <3>2
    <2>2. ASSUME NEW x \in k..(k + c - 1) PROVE \E p \in new : x % SeqSpace = p.seq
      <3>1. x - k \in 0..(c - 1) /\ k + (x - k) = x
        BY <1>2
      <3>2. PICK i \in acc : Rank(acc, i) = x - k
        BY <1>3, <3>1
      <3>3. P(i) \in new
        OBVIOUS
      <3>4. P(i).seq = x % SeqSpace
        BY <1>7, <3>1, <3>2
      <3> QED  BY <3>3, <3>4
    <2> QED  BY <2>1, <2>2
  <1> QED  BY <1>6, <1>8 DEF c, P, Numbers, Wrapped, PacketsOf

\* Numbers that go on: the wire after the new packets.
LEMMA NumbersGoOn ==
  ASSUME NEW k \in Nat, NEW c \in Nat, NEW w, NEW new,
         Numbers(w) = Wrapped(0, k - 1), Numbers(new) = Wrapped(k, k + c - 1)
  PROVE  Numbers(w \cup new) = Wrapped(0, k + c - 1)
  <1>1. 0..(k + c - 1) = (0..(k - 1)) \cup (k..(k + c - 1))
    OBVIOUS
  <1>2. Numbers(w \cup new) = Numbers(w) \cup Numbers(new)
    BY DEF Numbers
  <1> DEFINE W(i) == i % SeqSpace
  <1>3. \A a, b : Wrapped(a, b) = {W(i) : i \in a..b}
    BY DEF Wrapped
  <1> HIDE DEF W
  <1>4. {W(i) : i \in 0..(k + c - 1)} = {W(i) : i \in 0..(k - 1)} \cup {W(i) : i \in k..(k + c - 1)}
    BY <1>1
  <1> QED  BY <1>2, <1>3, <1>4

\* Of the packets of one frame only the last is marked, and none comes after it.
LEMMA SendMarks ==
  ASSUME NEW m, NEW payloads, NEW t, NEW n \in Nat, NEW k \in Nat,
         Len(payloads) = n, n <= SeqSpace \div 2 + 1,
         NEW acc \in SUBSET (1..n), seq[m] = k % SeqSpace,
         NEW i \in acc, NEW j \in acc, i # j,
         PacketOf(m, payloads, acc, t, TRUE, i).marker
  PROVE  LET p == PacketOf(m, payloads, acc, t, TRUE, i)
             q == PacketOf(m, payloads, acc, t, TRUE, j)
         IN  ~q.marker /\ (p.seq - q.seq) % SeqSpace \in 1..(SeqSpace \div 2)
  <1> DEFINE p == PacketOf(m, payloads, acc, t, TRUE, i)
             q == PacketOf(m, payloads, acc, t, TRUE, j)
             c == Cardinality(acc)
             x == Rank(acc, i)
             y == Rank(acc, j)
             h == SeqSpace \div 2
  <1>1. p.marker = (i = n) /\ q.marker = (j = n)
    BY DEF PacketOf
  <1>2. i = n /\ j < i /\ ~q.marker /\ i \in Nat /\ j \in Nat
    <2>1. i \in 1..n /\ j \in 1..n /\ i # j /\ p.marker
      OBVIOUS
    <2> HIDE DEF p, q
    <2>2. i = n
      BY <1>1, <2>1, Zenon
    <2>3. j # n
      BY <2>1, <2>2, Zenon
    <2>4. ~q.marker
      BY <1>1, <2>3, Zenon
    <2> QED  BY <2>1, <2>2, <2>3, <2>4
  <1>3. acc \in SUBSET Nat /\ IsFiniteSet(acc) /\ c \in Nat /\ c <= n
    <2>1. IsFiniteSet(1..n) /\ Cardinality(1..n) = n
      <3>1. n > 0 => n - 1 + 1 = n
        OBVIOUS
      <3> QED  BY FS_Interval
    <2>2. acc \subseteq 1..n
      OBVIOUS
    <2>3. IsFiniteSet(acc) /\ Cardinality(acc) <= Cardinality(1..n) /\ Cardinality(acc) \in Nat
      BY <2>1, <2>2, FS_Subset, FS_CardinalityType
    <2>4. acc \in SUBSET Nat
      BY <2>2
    <2> QED  BY <2>1, <2>3, <2>4
  <1>4. x \in 0..(c - 1) /\ y \in 0..(c - 1) /\ y < x
    BY <1>2, <1>3, RankOrder
  <1>5. SeqSpace \in Nat \ {0} /\ h \in Nat /\ h < SeqSpace
    BY PathConstants
  <1>6. n <= h + 1
    OBVIOUS
  <1>7. p.seq = (k + x) % SeqSpace /\ q.seq = (k + y) % SeqSpace
    <2>1. p.seq = (seq[m] + x) % SeqSpace /\ q.seq = (seq[m] + y) % SeqSpace
      BY DEF PacketOf
    <2> HIDE DEF p, q, x, y, c, h
    <2>2. x \in Int /\ y \in Int /\ k \in Int
      BY <1>3, <1>4
    <2>3. \A r \in Int : ((k % SeqSpace) + r) % SeqSpace = (k + r) % SeqSpace
      BY <1>5, <2>2, ModAdd
    <2>4. seq[m] = k % SeqSpace
      OBVIOUS
    <2> QED  BY <2>1, <2>2, <2>3, <2>4
  <1> HIDE DEF p, q, c, x, y, h
  <1>8. x - y \in 1..h /\ x - y \in 0..(SeqSpace - 1) /\ (k + x) - (k + y) = x - y
        /\ k + x \in Int /\ k + y \in Int /\ k + x >= 0
    BY <1>3, <1>4, <1>5, <1>6
  <1>9. (p.seq - q.seq) % SeqSpace = (x - y) % SeqSpace
    <2> DEFINE u == k + x
               v == k + y
    <2>1. u \in Int /\ v \in Int /\ u - v = x - y
      BY <1>8
    <2>2. p.seq = u % SeqSpace /\ q.seq = v % SeqSpace
      BY <1>7
    <2> HIDE DEF u, v
    <2>3. ((u % SeqSpace) - (v % SeqSpace)) % SeqSpace = (u - v) % SeqSpace
      BY <1>5, <2>1, ModDifference
    <2> QED  BY <2>1, <2>2, <2>3
  <1>10. (x - y) % SeqSpace = x - y
    BY <1>5, <1>8, ModSmall
  <1> QED  BY <1>2, <1>8, <1>9, <1>10 DEF p, q, h

\* What a send adds to bytes_sent_.
LEMMA TotalSizeFacts ==
  ASSUME NEW n \in Nat, NEW sizes \in [1..n -> Nat], NEW acc \in SUBSET (1..n), IsFiniteSet(acc)
  PROVE  /\ TotalSize(sizes, acc) \in Nat
         /\ acc = {} => TotalSize(sizes, acc) = 0
         /\ acc = {1} => TotalSize(sizes, acc) = sizes[1] + HeaderSize
  <1> DEFINE f == [i \in DOMAIN sizes |-> sizes[i] + HeaderSize]
  <1>1. HeaderSize \in Nat
    BY PathConstants
  <1>2. \A i \in 1..n : f[i] = sizes[i] + HeaderSize /\ f[i] \in Nat
    BY <1>1
  <1>3. TotalSize(sizes, acc) = SumFunctionOnSet(f, acc)
    BY DEF TotalSize
  <1> HIDE DEF f
  <1>4. \A i \in acc : f[i] \in Nat
    BY <1>2
  <1>5. SumFunctionOnSet(f, {}) = 0 /\ SumFunctionOnSet(f, acc) \in Nat
        /\ \A x \in acc : SumFunctionOnSet(f, acc) = f[x] + SumFunctionOnSet(f, acc \ {x})
    BY <1>4, SumFacts
  <1>6. ASSUME acc = {1} PROVE SumFunctionOnSet(f, acc) = sizes[1] + HeaderSize
    <2>1. acc \ {1} = {} /\ 1 \in acc /\ 1 \in 1..n
      BY <1>6
    <2>2. SumFunctionOnSet(f, acc) = f[1] + 0 /\ f[1] \in Nat
      BY <1>4, <1>5, <2>1
    <2> QED  BY <1>2, <2>1, <2>2
  <1> QED  BY <1>3, <1>5, <1>6

\* What any send leaves true.
WellSent(m) ==
  /\ seq' \in [Media -> 0..(SeqSpace - 1)]
  /\ sent' \in [Media -> Nat] /\ bytes' \in [Media -> Nat]
  /\ wire' = [x \in Media |-> wire'[x]]
  /\ \A x \in Media : wire'[x] \subseteq Packet(x) /\ wire[x] \subseteq wire'[x]
  /\ \A x \in Media : x # m => /\ wire'[x] = wire[x]
                               /\ sent'[x] = sent[x] /\ bytes'[x] = bytes[x]
  /\ SequenceCountsSent'

\* The n payloads of a frame, their sizes, and those for which SendTo succeeds.
Sendable(m, payloads, sizes, ok, n) ==
  /\ n \in Nat /\ sizes \in [1..n -> Nat] /\ ok \subseteq 1..n
  /\ \A i \in 1..n : payloads[i] \in (IF m = "audio" THEN AudioPayload ELSE VideoPayload)

\* SendPackets sends well.
LEMMA SendKeeps ==
  ASSUME Shape, SequenceCountsSent, NEW m \in Media, NEW payloads, NEW sizes, NEW ok,
         NEW t \in Nat, NEW marked \in BOOLEAN, NEW n, Sendable(m, payloads, sizes, ok, n),
         SendPackets(m, payloads, sizes, ok, t, marked)
  PROVE  WellSent(m)
  <1> DEFINE acc == Accepted(m, sizes, ok)
             c == Cardinality(acc)
             new == PacketsOf(m, payloads, acc, t, marked)
             more == TotalSize(sizes, acc)
  <1>0. /\ n \in Nat /\ sizes \in [1..n -> Nat] /\ ok \subseteq 1..n
        /\ \A i \in 1..n : payloads[i] \in (IF m = "audio" THEN AudioPayload ELSE VideoPayload)
    BY DEF Sendable
  <1>1. /\ acc \subseteq ok /\ acc \in SUBSET Nat /\ IsFiniteSet(acc) /\ c \in 0..n
        /\ wire' = Grown(m, new)
        /\ seq' = [seq EXCEPT ![m] = (@ + c) % SeqSpace]
        /\ sent' = [sent EXCEPT ![m] = @ + c]
        /\ bytes' = [bytes EXCEPT ![m] = @ + more]
    <2>1. /\ acc \subseteq ok /\ acc \in SUBSET Nat /\ IsFiniteSet(acc) /\ c \in 0..n
      BY <1>0, AcceptedFacts
    <2>2. /\ wire' = Grown(m, new)
          /\ seq' = [seq EXCEPT ![m] = (@ + c) % SeqSpace]
          /\ sent' = [sent EXCEPT ![m] = @ + c]
          /\ bytes' = [bytes EXCEPT ![m] = @ + more]
      BY SendEffect
    <2> QED  BY <2>1, <2>2
  <1>2. more \in Nat
    <2>1. acc \in SUBSET (1..n)
      BY <1>0, <1>1
    <2> HIDE DEF acc
    <2> QED  BY <1>0, <1>1, <2>1, TotalSizeFacts
  <1>3. SeqSpace \in Nat \ {0}
    BY PathConstants
  <1>4. /\ seq \in [Media -> 0..(SeqSpace - 1)]
        /\ sent \in [Media -> Nat] /\ bytes \in [Media -> Nat]
        /\ wire = [x \in Media |-> wire[x]]
        /\ \A x \in Media : wire[x] \subseteq Packet(x)
    BY DEF Shape
  <1>5. \A x \in Media : /\ seq[x] = sent[x] % SeqSpace
                         /\ Numbers(wire[x]) = Wrapped(0, sent[x] - 1)
    BY DEF SequenceCountsSent, Numbers, Wrapped
  <1>6. ASSUME NEW i \in acc PROVE PacketOf(m, payloads, acc, t, marked, i) \in Packet(m)
    <2>1. (seq[m] + Rank(acc, i)) % SeqSpace \in 0..(SeqSpace - 1)
      <3>1. seq[m] \in Int
        BY <1>3, <1>4
      <3>2. Rank(acc, i) \in Int
        <4>1. Rank(acc, i) \in 0..(c - 1)
          BY <1>1, RankOrder
        <4> QED  BY <1>1, <4>1
      <3> DEFINE x == seq[m] + Rank(acc, i)
      <3>3. x \in Int
        BY <3>1, <3>2
      <3> HIDE DEF x
      <3>4. x % SeqSpace \in 0..(SeqSpace - 1)
        BY <1>3, <3>3, ModRange
      <3> QED  BY <3>4 DEF x
    <2>2. payloads[i] \in IF m = "audio" THEN AudioPayload ELSE VideoPayload
      BY <1>0, <1>1
    <2>3. (marked /\ i = Len(payloads)) \in BOOLEAN
      OBVIOUS
    <2> HIDE DEF acc
    <2> QED  BY <2>1, <2>2, <2>3 DEF PacketOf, Packet
  <1>7. /\ (seq[m] + c) % SeqSpace = (sent[m] + c) % SeqSpace
        /\ Numbers(new) = Wrapped(sent[m], sent[m] + c - 1)
    <2>1. sent[m] \in Nat /\ seq[m] = sent[m] % SeqSpace
      BY <1>4, <1>5
    <2> DEFINE k == sent[m]
    <2>2. k \in Nat /\ seq[m] = k % SeqSpace /\ k = sent[m]
      BY <2>1
    <2> HIDE DEF acc, k
    <2>3. /\ (seq[m] + c) % SeqSpace = (k + c) % SeqSpace
          /\ Numbers(new) = Wrapped(k, k + c - 1)
      BY <1>0, <1>1, <2>2, SendNumbers
    <2> QED  BY <2>2, <2>3
  <1>8. \A i \in acc : PacketOf(m, payloads, acc, t, marked, i) \in Packet(m)
    BY <1>6
  <1>9. new \subseteq Packet(m)
    BY <1>8 DEF PacketsOf
  <1> HIDE DEF new, acc, c, more
  <1>10. c \in Nat /\ wire' = [wire EXCEPT ![m] = @ \cup new]
    BY <1>1 DEF Grown
  <1>11. /\ wire'[m] = wire[m] \cup new /\ seq'[m] = (seq[m] + c) % SeqSpace
         /\ sent'[m] = sent[m] + c /\ bytes'[m] = bytes[m] + more
         /\ \A x \in Media : x # m => /\ wire'[x] = wire[x] /\ seq'[x] = seq[x]
                                      /\ sent'[x] = sent[x] /\ bytes'[x] = bytes[x]
    BY <1>1, <1>4, <1>10
  <1>12. (seq[m] + c) % SeqSpace \in 0..(SeqSpace - 1)
    <2> DEFINE x == seq[m] + c
    <2>1. x \in Int
      BY <1>3, <1>4, <1>10
    <2> HIDE DEF x
    <2>2. x % SeqSpace \in 0..(SeqSpace - 1)
      BY <1>3, <2>1, ModRange
    <2> QED  BY <2>2 DEF x
  <1>13. seq' \in [Media -> 0..(SeqSpace - 1)]
    BY <1>1, <1>4, <1>12
  <1>14. sent' \in [Media -> Nat] /\ bytes' \in [Media -> Nat]
    BY <1>1, <1>2, <1>4, <1>10
  <1>15. wire' = [x \in Media |-> wire'[x]]
    BY <1>4, <1>10
  <1>16. \A x \in Media : wire'[x] \subseteq Packet(x) /\ wire[x] \subseteq wire'[x]
    BY <1>4, <1>9, <1>11
  <1>17. ASSUME NEW x \in Media
         PROVE  /\ seq'[x] = sent'[x] % SeqSpace
                /\ Numbers(wire'[x]) = Wrapped(0, sent'[x] - 1)
    <2>1. CASE x = m
      <3> DEFINE k == sent[m]
      <3>1. k \in Nat
        BY <1>4
      <3>2. seq'[x] = sent'[x] % SeqSpace
        BY <1>7, <1>11, <2>1
      <3>3. Numbers(wire[m]) = Wrapped(0, k - 1)
            /\ Numbers(new) = Wrapped(k, k + c - 1)
        BY <1>5, <1>7
      <3>4. sent'[x] = k + c /\ wire'[x] = wire[m] \cup new
        BY <1>11, <2>1
      <3> DEFINE old == wire[m]
      <3> HIDE DEF k, old
      <3>5. Numbers(old \cup new) = Wrapped(0, k + c - 1)
        BY <1>10, <3>1, <3>3, NumbersGoOn DEF old
      <3>6. sent'[x] - 1 = k + c - 1
        BY <1>10, <3>1, <3>4
      <3>7. wire'[x] = old \cup new
        BY <3>4 DEF old
      <3>8. Numbers(wire'[x]) = Wrapped(0, sent'[x] - 1)
        BY <3>5, <3>6, <3>7
      <3> QED  BY <3>2, <3>8
    <2>2. CASE x # m
      BY <1>5, <1>11, <2>2
    <2> QED  BY <2>1, <2>2
  <1>18. SequenceCountsSent'
    BY <1>17 DEF SequenceCountsSent, Numbers, Wrapped
  <1> QED  BY <1>11, <1>13, <1>14, <1>15, <1>16, <1>18 DEF WellSent

(***************************************************************************)
(* Counting                                                                *)
(***************************************************************************)
Volume(w) == SumFunction([p \in w |-> Len(p.payload) + HeaderSize])

\* One more packet adds its size, header included.
LEMMA VolumeGrows ==
  ASSUME NEW w, IsFiniteSet(w), NEW p, p \notin w,
         \A q \in w \cup {p} : Len(q.payload) \in Nat
  PROVE  Volume(w \cup {p}) = Volume(w) + (Len(p.payload) + HeaderSize)
  <1> DEFINE f == [q \in w |-> Len(q.payload) + HeaderSize]
             g == [q \in w \cup {p} |-> Len(q.payload) + HeaderSize]
  <1>1. HeaderSize \in Nat
    BY PathConstants
  <1>2. \A q \in w \cup {p} : g[q] \in Nat
    BY <1>1
  <1>3. \A q \in w : f[q] = g[q]
    OBVIOUS
  <1>4. g[p] = Len(p.payload) + HeaderSize
    OBVIOUS
  <1>5. DOMAIN f = w /\ DOMAIN g = w \cup {p}
    OBVIOUS
  <1>6. Volume(w) = SumFunctionOnSet(f, w) /\ Volume(w \cup {p}) = SumFunctionOnSet(g, w \cup {p})
    BY <1>5 DEF Volume, SumFunction
  <1> HIDE DEF f, g
  <1>7. SumFunctionOnSet(g, w \cup {p}) = SumFunctionOnSet(g, w) + g[p]
    BY <1>2, SumAdd
  <1>8. SumFunctionOnSet(f, w) = SumFunctionOnSet(g, w)
    BY <1>3, SumAgree
  <1> QED  BY <1>4, <1>6, <1>7, <1>8

\* The bytes of an audio packet can be counted.
LEMMA PackFacts ==
  ASSUME NEW a \in AacFrame
  PROVE  Pack(a) \in AudioPayload /\ Len(Pack(a)) \in Nat
  <1>1. a \in Seq(0..255)
    BY PathConstants
  <1> DEFINE x == (Len(a) \div 32) % 256
             y == (Len(a) % 32) * 8
             h == <<0, 0, x, y>>
             T == (0..255) \cup {x, y}
  <1>2. Pack(a) = h \o a
    BY DEF Pack
  <1>3. Pack(a) \in AudioPayload
    BY DEF AudioPayload
  <1> HIDE DEF x, y
  <1>4. h \in Seq(T) /\ a \in Seq(T)
    BY <1>1
  <1> HIDE DEF h, T
  <1>5. h \o a \in Seq(T)
    BY <1>4, ConcatProperties
  <1>6. Len(h \o a) \in Nat
    BY <1>5, LenProperties
  <1> QED  BY <1>2, <1>3, <1>6

\* So can those of a fragment.
LEMMA FragmentSizes ==
  ASSUME NEW n \in Nal, NEW i \in DOMAIN Fragment(n)
  PROVE  Fragment(n)[i] \in VideoPayload /\ PayloadSize(Fragment(n)[i]) \in Nat
  <1>1. Fragment(n)[i] \in VideoPayload
    BY DEF VideoPayload
  <1>2. n.body \in Seq(0..255) /\ Len(n.body) \in Nat \ {0}
    BY PathConstants
  <1>3. ASSUME Len(Fragment(n)[i].body) \in Nat PROVE PayloadSize(Fragment(n)[i]) \in Nat
    <2> DEFINE l == Len(Fragment(n)[i].body)
               e == IF Fragment(n)[i].type = FuA THEN 2 ELSE 1
    <2>1. l \in Nat /\ e \in Nat
      BY <1>3
    <2>2. PayloadSize(Fragment(n)[i]) = l + e
      BY DEF PayloadSize
    <2> HIDE DEF l, e
    <2> QED  BY <2>1, <2>2
  <1>4. CASE 1 + Len(n.body) <= MaxPayload
    <2>1. Fragment(n) = <<WholeNal(n)>>
      BY <1>4 DEF Fragment
    <2>2. Fragment(n)[i] = WholeNal(n)
      BY <2>1
    <2>3. Fragment(n)[i].body = n.body
      BY <2>2 DEF WholeNal
    <2> QED  BY <1>1, <1>2, <1>3, <2>3
  <1>5. CASE ~(1 + Len(n.body) <= MaxPayload)
    <2> DEFINE c == Chunks(n.body)
               p(k) == [nri |-> n.nri, type |-> FuA,
                        fu |-> <<k = 1, k = Len(c), n.type>>, body |-> c[k]]
    <2>1. Fragment(n) = [k \in DOMAIN c |-> p(k)]
      BY <1>5 DEF Fragment
    <2>2. \A k \in DOMAIN c : p(k).body = c[k]
      OBVIOUS
    <2>3. \A k \in DOMAIN c : Len(c[k]) \in 1..FuPayload
      BY <1>2, ChunkFacts
    <2> HIDE DEF c, p
    <2>4. i \in DOMAIN c /\ Fragment(n)[i] = p(i)
      BY <2>1
    <2>5. Len(Fragment(n)[i].body) \in 1..FuPayload
      BY <2>2, <2>3, <2>4
    <2>6. FuPayload \in Nat
      BY PathConstants
    <2> QED  BY <1>1, <1>3, <2>5, <2>6
  <1> QED  BY <1>4, <1>5

(***************************************************************************)
(* The steps                                                               *)
(***************************************************************************)
\* The encoder produced an audio frame.
LEMMA AudioStep ==
  ASSUME PathInv, NEW a \in AacFrame, NEW ok, SendAudioFrame(a, ok)
  PROVE  PathInv'
  <1> DEFINE payloads == <<Pack(a)>>
             sizes == <<Len(Pack(a))>>
             acc == Accepted("audio", sizes, ok)
             marked == FALSE
  <1>0. marked \in BOOLEAN
    OBVIOUS
  <1>1. /\ Len(frames["audio"]) + Len(frames["video"]) < MaxFrames
        /\ ok \subseteq {1}
        /\ frames' = [frames EXCEPT !["audio"] = Append(@, a)]
        /\ ts' = [ts EXCEPT !["audio"] = @ + 1]
        /\ SendPackets("audio", payloads, sizes, ok, ts'["audio"], marked)
        /\ known' = known /\ buffered' = buffered
    BY DEF SendAudioFrame, FramesLeft
  <1>2. Shape /\ Clocked /\ Fitting /\ SequenceCountsSent /\ MarkerEndsFrame /\ Counted
    BY DEF PathInv
  <1>3. "audio" \in Media /\ "video" \in Media /\ "audio" # "video"
        /\ \A m \in Media : m = "audio" \/ m = "video"
    BY DEF Media
  <1>4. ts \in [Media -> Nat] /\ frames = [m \in Media |-> frames[m]]
        /\ frames["audio"] \in Seq(AacFrame) /\ frames["video"] \in Seq(Nal)
    BY <1>2 DEF Shape
  <1>5. PICK t \in Nat : t = ts'["audio"] /\ t = ts["audio"] + 1
    BY <1>1, <1>3, <1>4
  <1>6. Pack(a) \in AudioPayload /\ Len(Pack(a)) \in Nat
    BY PackFacts
  <1>7. /\ payloads[1] = Pack(a) /\ Len(payloads) = 1 /\ sizes[1] = Len(Pack(a))
        /\ sizes \in [1..1 -> Nat] /\ 1..1 = {1}
    BY <1>6
  <1> HIDE DEF payloads, sizes, marked
  <1>8. /\ seq' \in [Media -> 0..(SeqSpace - 1)]
        /\ sent' \in [Media -> Nat] /\ bytes' \in [Media -> Nat]
        /\ wire' = [x \in Media |-> wire'[x]]
        /\ \A x \in Media : wire'[x] \subseteq Packet(x) /\ wire[x] \subseteq wire'[x]
        /\ \A x \in Media : x # "audio" => wire'[x] = wire[x]
        /\ SequenceCountsSent'
    <2>1. \A i \in 1..1 : payloads[i] \in (IF "audio" = "audio" THEN AudioPayload ELSE VideoPayload)
      BY <1>6, <1>7
    <2>2. SendPackets("audio", payloads, sizes, ok, t, marked) /\ ok \subseteq 1..1
      BY <1>1, <1>5, <1>7
    <2>3. sizes \in [1..1 -> Nat] /\ 1 \in Nat /\ t \in Nat /\ "audio" \in Media
      BY <1>3, <1>7
    <2>4. Shape /\ SequenceCountsSent
      BY <1>2
    <2>5. WellSent("audio")
      <3>1. Sendable("audio", payloads, sizes, ok, 1)
        BY <2>1, <2>2, <2>3 DEF Sendable
      <3>2. SendPackets("audio", payloads, sizes, ok, t, marked) /\ t \in Nat /\ "audio" \in Media
        BY <2>2, <2>3
      <3> QED  BY <1>0, <2>4, <3>1, <3>2, SendKeeps
    <2> QED  BY <2>5 DEF WellSent
  <1>9. /\ frames' = [m \in Media |-> frames'[m]] /\ frames'["audio"] \in Seq(AacFrame)
        /\ frames'["video"] = frames["video"]
        /\ Len(frames'["audio"]) = Len(frames["audio"]) + 1 /\ Len(frames["audio"]) \in Nat
        /\ Len(frames["video"]) \in Nat
    <2>1. frames' = [m \in Media |-> frames'[m]] /\ frames'["audio"] = Append(frames["audio"], a)
          /\ frames'["video"] = frames["video"]
      BY <1>1, <1>3, <1>4
    <2> QED  BY <1>4, <2>1, AppendProperties, LenProperties
  <1>10. Shape'
    <2>1. ts' \in [Media -> Nat]
      BY <1>1, <1>4, <1>3
    <2>2. /\ known \subseteq Media /\ buffered = [m \in Media |-> buffered[m]]
          /\ \A m \in Media : buffered[m] \subseteq wire[m]
      BY <1>2 DEF Shape
    <2> QED  BY <1>1, <1>4, <1>8, <1>9, <2>1, <2>2 DEF Shape
  <1>11. wire'["audio"] = wire["audio"] \cup PacketsOf("audio", payloads, acc, t, marked)
         /\ sent'["audio"] = sent["audio"] + Cardinality(acc)
         /\ bytes'["audio"] = bytes["audio"] + TotalSize(sizes, acc)
    <2>1. SendPackets("audio", payloads, sizes, ok, t, marked)
      BY <1>1, <1>5
    <2>2. /\ wire' = Grown("audio", PacketsOf("audio", payloads, acc, t, marked))
          /\ sent' = [sent EXCEPT !["audio"] = @ + Cardinality(acc)]
          /\ bytes' = [bytes EXCEPT !["audio"] = @ + TotalSize(sizes, acc)]
      BY <2>1, SendEffect
    <2>3. wire = [m \in Media |-> wire[m]] /\ sent \in [Media -> Nat] /\ bytes \in [Media -> Nat]
      BY <1>2 DEF Shape
    <2> HIDE DEF acc
    <2> QED  BY <1>3, <2>2, <2>3 DEF Grown
  <1>12. \A p \in PacketsOf("audio", payloads, acc, t, marked) : p.ts = t
    BY DEF PacketsOf, PacketOf
  <1>13. Clocked'
    <2>1. /\ \A m \in Media : ts[m] = Len(frames[m])
          /\ \A p \in wire["audio"] : p.ts <= ts["audio"]
          /\ \A p \in wire["video"] : p.ts < ts["video"]
      BY <1>2 DEF Clocked
    <2>2. ts'["video"] = ts["video"]
      BY <1>1, <1>3, <1>4
    <2>3. \A m \in Media : ts'[m] = Len(frames'[m])
      BY <1>3, <1>5, <1>9, <2>1, <2>2
    <2>4. Len(frames'["audio"]) + Len(frames'["video"]) <= MaxFrames
      <3>1. MaxFrames \in Nat
        BY PathConstants
      <3>2. Len(frames["audio"]) + Len(frames["video"]) < MaxFrames
        BY <1>1
      <3>3. /\ Len(frames'["audio"]) = Len(frames["audio"]) + 1
            /\ Len(frames'["video"]) = Len(frames["video"])
            /\ Len(frames["audio"]) \in Nat /\ Len(frames["video"]) \in Nat
        BY <1>9
      <3> DEFINE x == Len(frames["audio"])
                 y == Len(frames["video"])
      <3>4. x \in Nat /\ y \in Nat /\ x + y < MaxFrames
            /\ Len(frames'["audio"]) = x + 1 /\ Len(frames'["video"]) = y
        BY <3>2, <3>3
      <3> HIDE DEF x, y
      <3> QED  BY <3>1, <3>4
    <2>5. wire'["video"] = wire["video"]
      BY <1>3, <1>8
    <2>6. \A p \in wire["audio"] : p.ts \in Nat
      BY <1>2, <1>3 DEF Shape, Packet
    <2> HIDE DEF acc
    <2>7. ts["audio"] \in Nat /\ t = ts["audio"] + 1 /\ ts'["audio"] = t
      BY <1>3, <1>4, <1>5
    <2>8. ASSUME NEW p \in wire'["audio"] PROVE p.ts <= ts'["audio"]
      <3>1. CASE p \in wire["audio"]
        BY <2>1, <2>6, <2>7, <3>1
      <3>2. CASE p \in PacketsOf("audio", payloads, acc, t, marked)
        BY <1>12, <2>7, <3>2
      <3> QED  BY <1>11, <3>1, <3>2
    <2> QED  BY <2>1, <2>2, <2>3, <2>4, <2>5, <2>8 DEF Clocked
  <1>14. Fitting' /\ MarkerEndsFrame'
    <2>1. wire'["video"] = wire["video"]
      BY <1>3, <1>8
    <2> QED  BY <1>2, <2>1 DEF Fitting, MarkerEndsFrame
  <1>15. Counted'
    <2> DEFINE w == wire["audio"]
               p == PacketOf("audio", payloads, acc, t, marked, 1)
    <2>1. /\ IsFiniteSet(w) /\ sent["audio"] = Cardinality(w) /\ bytes["audio"] = Volume(w)
      BY <1>2 DEF Counted, Volume
    <2>2. acc \subseteq {1}
      BY <1>1 DEF Accepted
    <2>3. acc \in SUBSET (1..1) /\ IsFiniteSet(acc)
      BY <1>7, <2>2, FS_Singleton, FS_Subset
    <2>4. /\ TotalSize(sizes, acc) \in Nat
          /\ acc = {} => TotalSize(sizes, acc) = 0
          /\ acc = {1} => TotalSize(sizes, acc) = Len(Pack(a)) + HeaderSize
      <3> HIDE DEF acc
      <3>1. 1 \in Nat
        OBVIOUS
      <3> QED  BY <1>7, <2>3, <3>1, TotalSizeFacts
    <2>5. PacketsOf("audio", payloads, acc, t, marked)
            = {PacketOf("audio", payloads, acc, t, marked, i) : i \in acc}
      BY DEF PacketsOf
    <2>6. p.ts = t /\ p.payload = Pack(a)
      BY <1>7 DEF PacketOf
    <2>7. Cardinality({}) = 0 /\ Cardinality({1}) = 1 /\ sent["audio"] \in Nat /\ bytes["audio"] \in Nat
      BY <1>2, <1>3, FS_EmptySet, FS_Singleton DEF Shape
    <2> HIDE DEF acc, p, w
    <2>8. CASE acc = {}
      <3>1. wire'["audio"] = w
        BY <1>11, <2>5, <2>8 DEF w
      <3>2. sent'["audio"] = sent["audio"] /\ bytes'["audio"] = bytes["audio"]
        BY <1>11, <2>4, <2>7, <2>8
      <3> QED  BY <2>1, <3>1, <3>2 DEF Counted, Volume
    <2>9. CASE acc = {1}
      <3>1. wire'["audio"] = w \cup {p}
        BY <1>11, <2>5, <2>9 DEF w, p
      <3>2. p \notin w
        <4>1. \A q \in w : q.ts <= ts["audio"]
          BY <1>2 DEF Clocked, w
        <4>2. ts["audio"] \in Nat
          BY <1>3, <1>4
        <4> QED  BY <1>5, <2>6, <4>1, <4>2
      <3>3. \A q \in w \cup {p} : Len(q.payload) \in Nat
        <4>1. \A q \in w : q.payload \in AudioPayload
          BY <1>2, <1>3 DEF Shape, Packet, w
        <4>2. \A x \in AudioPayload : Len(x) \in Nat
          BY PackFacts DEF AudioPayload
        <4> QED  BY <1>6, <2>6, <4>1, <4>2
      <3>4. Volume(w \cup {p}) = Volume(w) + (Len(Pack(a)) + HeaderSize)
        BY <2>1, <2>6, <3>2, <3>3, VolumeGrows
      <3>5. IsFiniteSet(w \cup {p}) /\ Cardinality(w \cup {p}) = Cardinality(w) + 1
        BY <2>1, <3>2, FS_AddElement
      <3>6. sent'["audio"] = Cardinality(w) + 1
            /\ bytes'["audio"] = Volume(w) + (Len(Pack(a)) + HeaderSize)
        BY <1>11, <2>1, <2>4, <2>7, <2>9
      <3>7. IsFiniteSet(wire'["audio"]) /\ sent'["audio"] = Cardinality(wire'["audio"])
            /\ bytes'["audio"] = Volume(wire'["audio"])
        BY <3>1, <3>4, <3>5, <3>6
      <3> QED  BY <3>7 DEF Counted, Volume
    <2> QED  BY <2>2, <2>8, <2>9
  <1> QED  BY <1>8, <1>10, <1>13, <1>14, <1>15 DEF PathInv

\* The encoder produced a video frame.
LEMMA VideoStep ==
  ASSUME PathInv, NEW n \in Nal, NEW ok, SendVideoFrame(n, ok)
  PROVE  PathInv'
  <1> DEFINE f == Fragment(n)
             l == Len(f)
             sizes == [i \in DOMAIN f |-> PayloadSize(f[i])]
             acc == Accepted("video", sizes, ok)
             marked == TRUE
             new == PacketsOf("video", f, acc, ts["video"], marked)
  <1>1. /\ Len(frames["audio"]) + Len(frames["video"]) < MaxFrames
        /\ ok \subseteq DOMAIN f
        /\ frames' = [frames EXCEPT !["video"] = Append(@, n)]
        /\ SendPackets("video", f, sizes, ok, ts["video"], marked)
        /\ ts' = [ts EXCEPT !["video"] = @ + 1]
        /\ known' = known /\ buffered' = buffered
    BY DEF SendVideoFrame, FramesLeft
  <1>2. Shape /\ Clocked /\ Fitting /\ SequenceCountsSent /\ MarkerEndsFrame /\ Counted
    BY DEF PathInv
  <1>3. "audio" \in Media /\ "video" \in Media /\ "audio" # "video"
        /\ \A m \in Media : m = "audio" \/ m = "video"
    BY DEF Media
  <1>4. ts \in [Media -> Nat] /\ frames = [m \in Media |-> frames[m]]
        /\ frames["audio"] \in Seq(AacFrame) /\ frames["video"] \in Seq(Nal)
    BY <1>2 DEF Shape
  <1>5. PICK t \in Nat : t = ts["video"]
    BY <1>3, <1>4
  <1>6. l \in Nat /\ DOMAIN f = 1..l /\ l <= SeqSpace \div 2 + 1
    BY FragmentFacts
  <1>7. \A i \in DOMAIN f : f[i] \in VideoPayload /\ PayloadSize(f[i]) \in Nat
    BY FragmentSizes
  <1>8. sizes \in [1..l -> Nat] /\ \A i \in 1..l : sizes[i] = PayloadSize(f[i])
    BY <1>6, <1>7
  <1>9. marked \in BOOLEAN
    OBVIOUS
  <1> HIDE DEF f, sizes, marked
  <1>10. /\ SendPackets("video", f, sizes, ok, t, marked) /\ ok \in SUBSET (1..l)
         /\ new = PacketsOf("video", f, acc, t, marked)
    BY <1>1, <1>5, <1>6
  <1>11. /\ acc \subseteq ok /\ acc \in SUBSET (1..l) /\ \A i \in acc : sizes[i] <= MaxPayload
    <2> HIDE DEF l
    <2> QED  BY <1>6, <1>10, AcceptedFacts
  <1> HIDE DEF l, new
  <1>12. WellSent("video")
    <2>1. \A i \in 1..l : f[i] \in (IF "video" = "audio" THEN AudioPayload ELSE VideoPayload)
      BY <1>3, <1>6, <1>7
    <2>2. ok \subseteq 1..l /\ SendPackets("video", f, sizes, ok, t, marked)
      BY <1>10
    <2>3. Shape /\ SequenceCountsSent
      BY <1>2
    <2>4. "video" \in Media /\ l \in Nat /\ sizes \in [1..l -> Nat]
      BY <1>3, <1>6, <1>8
    <2>5. Sendable("video", f, sizes, ok, l)
      BY <2>1, <2>2, <2>4 DEF Sendable
    <2>6. SendPackets("video", f, sizes, ok, t, marked) /\ "video" \in Media
      BY <2>2, <2>4
    <2> QED  BY <1>9, <2>3, <2>5, <2>6, SendKeeps
  <1>13. /\ seq' \in [Media -> 0..(SeqSpace - 1)]
         /\ sent' \in [Media -> Nat] /\ bytes' \in [Media -> Nat]
         /\ wire' = [x \in Media |-> wire'[x]]
         /\ \A x \in Media : wire'[x] \subseteq Packet(x) /\ wire[x] \subseteq wire'[x]
         /\ wire'["audio"] = wire["audio"]
         /\ sent'["audio"] = sent["audio"] /\ bytes'["audio"] = bytes["audio"]
         /\ SequenceCountsSent'
    BY <1>3, <1>12 DEF WellSent
  <1>14. wire'["video"] = wire["video"] \cup new
    <2>1. wire' = Grown("video", new)
      BY <1>10, SendEffect
    <2>2. wire = [m \in Media |-> wire[m]]
      BY <1>2 DEF Shape
    <2> QED  BY <1>3, <2>1, <2>2 DEF Grown
  <1>15. new = {PacketOf("video", f, acc, t, marked, i) : i \in acc}
    BY <1>10 DEF PacketsOf
  <1> HIDE DEF acc
  <1>16. ASSUME NEW p \in new PROVE p.ts = t /\ PayloadSize(p.payload) <= MaxPayload
    <2>1. PICK i \in acc : p = PacketOf("video", f, acc, t, marked, i)
      BY <1>15
    <2>2. p.ts = t /\ p.payload = f[i]
      BY <2>1 DEF PacketOf
    <2>3. PayloadSize(f[i]) <= MaxPayload
      BY <1>8, <1>11
    <2> QED  BY <2>2, <2>3
  <1>17. /\ frames' = [m \in Media |-> frames'[m]] /\ frames'["video"] \in Seq(Nal)
         /\ frames'["audio"] = frames["audio"]
         /\ Len(frames'["video"]) = Len(frames["video"]) + 1 /\ Len(frames["video"]) \in Nat
         /\ Len(frames["audio"]) \in Nat
    <2>1. frames' = [m \in Media |-> frames'[m]] /\ frames'["video"] = Append(frames["video"], n)
          /\ frames'["audio"] = frames["audio"]
      BY <1>1, <1>3, <1>4
    <2> QED  BY <1>4, <2>1, AppendProperties, LenProperties
  <1>18. Shape'
    <2>1. ts' \in [Media -> Nat]
      BY <1>1, <1>4, <1>3
    <2>2. /\ known \subseteq Media /\ buffered = [m \in Media |-> buffered[m]]
          /\ \A m \in Media : buffered[m] \subseteq wire[m]
      BY <1>2 DEF Shape
    <2> QED  BY <1>1, <1>4, <1>13, <1>17, <2>1, <2>2 DEF Shape
  <1>19. Clocked'
    <2>1. /\ \A m \in Media : ts[m] = Len(frames[m])
          /\ \A p \in wire["audio"] : p.ts <= ts["audio"]
          /\ \A p \in wire["video"] : p.ts < ts["video"]
      BY <1>2 DEF Clocked
    <2>2. ts'["audio"] = ts["audio"] /\ ts'["video"] = t + 1 /\ ts["video"] = t
      BY <1>1, <1>3, <1>4, <1>5
    <2>3. \A m \in Media : ts'[m] = Len(frames'[m])
      BY <1>3, <1>17, <2>1, <2>2
    <2>4. Len(frames'["audio"]) + Len(frames'["video"]) <= MaxFrames
      <3>1. MaxFrames \in Nat
        BY PathConstants
      <3>2. Len(frames["audio"]) + Len(frames["video"]) < MaxFrames
        BY <1>1
      <3> DEFINE x == Len(frames["audio"])
                 y == Len(frames["video"])
      <3>3. x \in Nat /\ y \in Nat /\ x + y < MaxFrames
            /\ Len(frames'["audio"]) = x /\ Len(frames'["video"]) = y + 1
        BY <1>17, <3>2
      <3> HIDE DEF x, y
      <3> QED  BY <3>1, <3>3
    <2>5. \A p \in wire["video"] : p.ts \in Nat
      BY <1>2, <1>3 DEF Shape, Packet
    <2>6. ASSUME NEW p \in wire'["video"] PROVE p.ts < ts'["video"]
      <3>1. t \in Nat
        OBVIOUS
      <3>2. CASE p \in wire["video"]
        BY <2>1, <2>2, <2>5, <3>1, <3>2
      <3>3. CASE p \in new
        BY <1>16, <2>2, <3>1, <3>3
      <3> QED  BY <1>14, <3>2, <3>3
    <2> QED  BY <1>13, <2>1, <2>2, <2>3, <2>4, <2>6 DEF Clocked
  <1>20. Fitting'
    BY <1>2, <1>14, <1>16 DEF Fitting
  <1>21. MarkerEndsFrame'
    <2> SUFFICES ASSUME NEW p \in wire'["video"], NEW q \in wire'["video"],
                        p.ts = q.ts, p.marker, p # q
                 PROVE  /\ ~q.marker
                        /\ (p.seq - q.seq) % SeqSpace \in 1..(SeqSpace \div 2)
      BY DEF MarkerEndsFrame
    <2>1. \A r \in wire["video"] : r.ts < t /\ r.ts \in Nat
      BY <1>2, <1>3, <1>5 DEF Clocked, Shape, Packet
    <2>2. CASE p \in wire["video"] /\ q \in wire["video"]
      BY <1>2, <2>2 DEF MarkerEndsFrame
    <2>3. CASE p \in new /\ q \in new
      <3>1. PICK i \in acc : p = PacketOf("video", f, acc, t, marked, i)
        BY <1>15, <2>3
      <3>2. PICK j \in acc : q = PacketOf("video", f, acc, t, marked, j)
        BY <1>15, <2>3
      <3>3. i # j
        BY <3>1, <3>2
      <3> DEFINE k == sent["video"]
      <3>4. k \in Nat /\ seq["video"] = k % SeqSpace
        BY <1>2, <1>3 DEF Shape, SequenceCountsSent
      <3> HIDE DEF k
      <3>5. PacketOf("video", f, acc, t, TRUE, i).marker
        BY <3>1 DEF marked
      <3>6. Len(f) = l
        BY DEF l
      <3>7. LET x == PacketOf("video", f, acc, t, TRUE, i)
                y == PacketOf("video", f, acc, t, TRUE, j)
            IN  ~y.marker /\ (x.seq - y.seq) % SeqSpace \in 1..(SeqSpace \div 2)
        BY <1>6, <1>11, <3>3, <3>4, <3>5, <3>6, SendMarks
      <3> QED  BY <3>1, <3>2, <3>7 DEF marked
    <2>4. p.ts \in Nat /\ q.ts \in Nat /\ t \in Nat
      BY <1>14, <1>16, <2>1
    <2>5. ~(p \in new /\ q \in wire["video"]) /\ ~(q \in new /\ p \in wire["video"])
      BY <1>16, <2>1, <2>4
    <2> QED  BY <1>14, <2>2, <2>3, <2>5
  <1>22. Counted'
    BY <1>2, <1>13 DEF Counted
  <1> QED  BY <1>13, <1>18, <1>19, <1>20, <1>21, <1>22 DEF PathInv

\* The other steps of the path leave what was sent alone.
LEMMA QuietStep ==
  ASSUME PathInv, known' \subseteq Media, buffered' = [m \in Media |-> buffered'[m]],
         \A m \in Media : buffered'[m] \subseteq wire[m],
         UNCHANGED <<seq, ts, sent, bytes, frames, wire>>
  PROVE  PathInv'
  <1>1. Shape /\ Clocked /\ Fitting /\ SequenceCountsSent /\ MarkerEndsFrame /\ Counted
    BY DEF PathInv
  <1>2. seq' = seq /\ ts' = ts /\ sent' = sent /\ bytes' = bytes /\ frames' = frames /\ wire' = wire
    OBVIOUS
  <1>3. Shape'
    BY <1>1, <1>2 DEF Shape
  <1>4. Clocked'
    BY <1>1, <1>2 DEF Clocked
  <1>5. Fitting'
    BY <1>1, <1>2 DEF Fitting
  <1>6. SequenceCountsSent'
    BY <1>1, <1>2 DEF SequenceCountsSent
  <1>7. MarkerEndsFrame'
    BY <1>1, <1>2 DEF MarkerEndsFrame
  <1>8. Counted'
    BY <1>1, <1>2 DEF Counted
  <1> QED  BY <1>3, <1>4, <1>5, <1>6, <1>7, <1>8 DEF PathInv

LEMMA ReceiveStep ==
  ASSUME PathInv, NEW m \in Media, NEW p \in wire[m], Receive(m, p)
  PROVE  PathInv'
  <1>1. /\ known \subseteq Media /\ buffered = [x \in Media |-> buffered[x]]
        /\ \A x \in Media : buffered[x] \subseteq wire[x]
    BY DEF PathInv, Shape
  <1>2. known' = known /\ UNCHANGED <<seq, ts, sent, bytes, frames, wire>>
    BY DEF Receive, senderVars
  <1>3. PICK b : b \subseteq buffered[m] \cup {p} /\ buffered' = [buffered EXCEPT ![m] = b]
    <2>1. CASE buffered' = [buffered EXCEPT ![m] = @ \cup {p}]
      BY <2>1
    <2>2. CASE \E q \in buffered[m] \cup {p} :
                 buffered' = [buffered EXCEPT ![m] = (@ \cup {p}) \ {q}]
      <3>1. PICK q : buffered' = [buffered EXCEPT ![m] = (buffered[m] \cup {p}) \ {q}]
        BY <2>2
      <3>2. (buffered[m] \cup {p}) \ {q} \subseteq buffered[m] \cup {p}
        OBVIOUS
      <3> QED  BY <3>1, <3>2
    <2> QED  BY <2>1, <2>2 DEF Receive
  <1>4. b \subseteq wire[m]
    BY <1>1, <1>3
  <1>5. buffered' = [x \in Media |-> buffered'[x]]
        /\ \A x \in Media : buffered'[x] \subseteq wire[x]
    BY <1>1, <1>3, <1>4
  <1> QED  BY <1>1, <1>2, <1>5, QuietStep

\* The invariant holds at the start, when nothing was sent.
LEMMA PathInvAtStart == PathInit => PathInv
  <1> SUFFICES ASSUME PathInit PROVE PathInv
    OBVIOUS
  <1>1. /\ known \subseteq Media
        /\ seq = [m \in Media |-> 0] /\ ts = [m \in Media |-> 0]
        /\ sent = [m \in Media |-> 0] /\ bytes = [m \in Media |-> 0]
        /\ frames = [m \in Media |-> <<>>]
        /\ wire = [m \in Media |-> {}] /\ buffered = [m \in Media |-> {}]
    BY DEF PathInit
  <1>2. "audio" \in Media /\ "video" \in Media
    BY DEF Media
  <1>3. SeqSpace \in Nat \ {0} /\ MaxFrames \in Nat
    BY PathConstants
  <1>4. Shape
    <2>1. frames["audio"] \in Seq(AacFrame) /\ frames["video"] \in Seq(Nal)
      BY <1>1, <1>2, EmptySeq
    <2> QED  BY <1>1, <1>2, <1>3, <2>1 DEF Shape
  <1>5. Clocked
    <2>1. \A m \in Media : Len(frames[m]) = 0
      BY <1>1, EmptySeq
    <2>2. 0 + 0 <= MaxFrames
      BY <1>3
    <2> QED  BY <1>1, <1>2, <2>1, <2>2 DEF Clocked
  <1>6. Fitting /\ MarkerEndsFrame
    BY <1>1, <1>2 DEF Fitting, MarkerEndsFrame
  <1>7. SequenceCountsSent
    <2>1. 0 % SeqSpace = 0
      BY <1>3, ModSmall
    <2>2. ASSUME NEW m \in Media
          PROVE  seq[m] = sent[m] % SeqSpace
                 /\ {p.seq : p \in wire[m]} = {i % SeqSpace : i \in 0..(sent[m] - 1)}
      <3>1. seq[m] = 0 /\ sent[m] = 0 /\ wire[m] = {}
        BY <1>1
      <3>2. 0..(sent[m] - 1) = {}
        BY <3>1
      <3> QED  BY <2>1, <3>1, <3>2
    <2> QED  BY <2>2 DEF SequenceCountsSent
  <1>8. Counted
    <2> DEFINE f == [p \in wire["audio"] |-> Len(p.payload) + HeaderSize]
    <2>1. wire["audio"] = {} /\ sent["audio"] = 0 /\ bytes["audio"] = 0
      BY <1>1, <1>2
    <2>2. DOMAIN f = {}
      BY <2>1
    <2>3. SumFunction(f) = SumFunctionOnSet(f, {})
      BY <2>2 DEF SumFunction
    <2> HIDE DEF f
    <2>4. IsFiniteSet({}) /\ Cardinality({}) = 0 /\ \A x \in {} : f[x] \in Nat
      BY FS_EmptySet
    <2>5. SumFunctionOnSet(f, {}) = 0
      BY <2>4, SumFacts
    <2>6. SumFunction(f) = 0
      BY <2>3, <2>5
    <2> QED  BY <2>1, <2>4, <2>6 DEF Counted, f
  <1> QED  BY <1>4, <1>5, <1>6, <1>7, <1>8 DEF PathInv

LEMMA PathStep == PathInv /\ [PathNext]_pathVars => PathInv'
  <1> SUFFICES ASSUME PathInv, [PathNext]_pathVars PROVE PathInv'
    OBVIOUS
  <1>1. /\ known \subseteq Media /\ buffered = [x \in Media |-> buffered[x]]
        /\ \A x \in Media : buffered[x] \subseteq wire[x]
    BY DEF PathInv, Shape
  <1>2. ASSUME NEW a \in AacFrame, NEW ok, SendAudioFrame(a, ok) PROVE PathInv'
    BY <1>2, AudioStep
  <1>3. ASSUME NEW n \in Nal, NEW ok, SendVideoFrame(n, ok) PROVE PathInv'
    BY <1>3, VideoStep
  <1>4. ASSUME NEW m \in Media, LearnRemote(m) PROVE PathInv'
    <2>1. known' = known \cup {m} /\ UNCHANGED <<seq, ts, sent, bytes, frames, wire>>
          /\ buffered' = buffered
      BY <1>4 DEF LearnRemote
    <2> QED  BY <1>1, <2>1, QuietStep
  <1>5. ASSUME NEW m \in Media, NEW p \in wire[m], Receive(m, p) PROVE PathInv'
    BY <1>5, ReceiveStep
  <1>6. ASSUME UNCHANGED pathVars PROVE PathInv'
    <2>1. known' = known /\ buffered' = buffered /\ UNCHANGED <<seq, ts, sent, bytes, frames, wire>>
      BY <1>6 DEF pathVars, senderVars
    <2> QED  BY <1>1, <2>1, QuietStep
  <1> QED  BY <1>2, <1>3, <1>4, <1>5, <1>6 DEF PathNext, SendSomeVideo

(***************************************************************************)
(* Sequences put together                                                  *)
(***************************************************************************)
LEMMA JoinFacts ==
  ASSUME NEW A, NEW B, NEW s \in Seq(A), NEW t \in Seq(B)
  PROVE  /\ \E T : s \o t \in Seq(T)
         /\ Len(s) \in Nat /\ Len(t) \in Nat /\ Len(s \o t) = Len(s) + Len(t)
         /\ \A i \in 1..Len(s) : (s \o t)[i] = s[i]
         /\ \A i \in 1..Len(t) : (s \o t)[Len(s) + i] = t[i]
  <1>1. s \in Seq(A \cup B) /\ t \in Seq(A \cup B)
    OBVIOUS
  <1> DEFINE j == s \o t
             a == Len(s)
             b == Len(t)
  <1>2. /\ j \in Seq(A \cup B) /\ Len(j) = a + b
        /\ \A i \in 1..(a + b) : j[i] = IF i <= a THEN s[i] ELSE t[i - a]
    BY <1>1, ConcatProperties
  <1>3. a \in Nat /\ b \in Nat
    BY LenProperties
  <1> HIDE DEF j, a, b
  <1>4. \A i \in 1..a : j[i] = s[i]
    BY <1>2, <1>3
  <1>5. ASSUME NEW i \in 1..b PROVE j[a + i] = t[i]
    <2>1. a + i \in 1..(a + b) /\ ~(a + i <= a) /\ (a + i) - a = i
      BY <1>3
    <2> QED  BY <1>2, <2>1
  <1> QED  BY <1>2, <1>3, <1>4, <1>5 DEF j, a, b

\* What FlattenSeq evaluates: h[i] is the first i sequences in a row.
Flattening(h, q) ==
  h = [i \in 1..Len(q) |-> IF i = 1 THEN q[i] ELSE h[i - 1] \o q[i]]

\* Two neighbouring parts of a sequence.
LEMMA PartsMeet ==
  ASSUME NEW T, NEW w \in Seq(T), NEW a \in Nat, NEW b \in Nat, a <= b, b <= Len(w)
  PROVE  SubSeq(w, 1, a) \o SubSeq(w, a + 1, b) = SubSeq(w, 1, b)
  <1>1. w \in [1..Len(w) -> T] /\ Len(w) \in Nat
    BY LenProperties
  <1>2. \A i \in 1..b : w[i] \in T
    BY <1>1
  <1> DEFINE x == SubSeq(w, 1, a)
             y == SubSeq(w, a + 1, b)
             z == SubSeq(w, 1, b)
  <1>3. x \in Seq(T) /\ Len(x) = a /\ \A i \in 1..a : x[i] = w[i]
    <2>1. \A i \in 1..a : w[i] \in T
      BY <1>2
    <2>2. /\ x \in Seq(T) /\ Len(x) = (IF 1 <= a THEN a - 1 + 1 ELSE 0)
          /\ \A i \in 1..(a - 1 + 1) : x[i] = w[1 + i - 1]
      BY <2>1, SubSeqProperties
    <2> HIDE DEF x
    <2> QED  BY <2>2
  <1>4. z \in Seq(T) /\ Len(z) = b /\ \A i \in 1..b : z[i] = w[i]
    <2>1. /\ z \in Seq(T) /\ Len(z) = (IF 1 <= b THEN b - 1 + 1 ELSE 0)
          /\ \A i \in 1..(b - 1 + 1) : z[i] = w[1 + i - 1]
      BY <1>2, SubSeqProperties
    <2> HIDE DEF z
    <2> QED  BY <2>1
  <1>5. y \in Seq(T) /\ Len(y) = b - a /\ \A i \in 1..(b - a) : y[i] = w[a + i]
    <2>1. \A i \in (a + 1)..b : w[i] \in T
      BY <1>2
    <2>2. /\ y \in Seq(T) /\ Len(y) = (IF a + 1 <= b THEN b - (a + 1) + 1 ELSE 0)
          /\ \A i \in 1..(b - (a + 1) + 1) : y[i] = w[(a + 1) + i - 1]
      BY <2>1, SubSeqProperties
    <2> HIDE DEF y
    <2>3. b - (a + 1) + 1 = b - a /\ \A i \in Int : (a + 1) + i - 1 = a + i
      OBVIOUS
    <2> QED  BY <2>2, <2>3
  <1> HIDE DEF x, y, z
  <1>6. /\ x \o y \in Seq(T) /\ Len(x \o y) = b
        /\ \A i \in 1..b : (x \o y)[i] = IF i <= a THEN x[i] ELSE y[i - a]
    <2>1. /\ x \o y \in Seq(T) /\ Len(x \o y) = a + (b - a)
          /\ \A i \in 1..(a + (b - a)) : (x \o y)[i] = IF i <= a THEN x[i] ELSE y[i - a]
      BY <1>3, <1>5, ConcatProperties
    <2>2. a + (b - a) = b
      OBVIOUS
    <2> QED  BY <2>1, <2>2
  <1>7. ASSUME NEW i \in 1..b PROVE (x \o y)[i] = z[i]
    <2>1. CASE i <= a
      BY <1>3, <1>4, <1>6, <2>1
    <2>2. CASE ~(i <= a)
      <3>1. i - a \in 1..(b - a) /\ a + (i - a) = i
        BY <2>2
      <3> QED  BY <1>4, <1>5, <1>6, <2>2, <3>1
    <2> QED  BY <2>1, <2>2
  <1>8. x \o y = z
    BY <1>4, <1>6, <1>7, SeqEqual
  <1> QED  BY <1>8 DEF x, y, z

\* The sequences of q are the pieces of w; piece k ends at e[k].
CutInto(w, q, e) ==
  /\ e \in [0..Len(q) -> 0..Len(w)] /\ e[0] = 0 /\ e[Len(q)] = Len(w)
  /\ \A k \in 1..Len(q) :
       e[k - 1] <= e[k] /\ q[k] = SubSeq(w, e[k - 1] + 1, e[k])

\* A sequence that is cut into pieces is what FlattenSeq makes of the pieces.
LEMMA FlattenPieces ==
  ASSUME NEW T, NEW w \in Seq(T), NEW q, Len(q) \in Nat \ {0}, NEW e, CutInto(w, q, e)
  PROVE  FlattenSeq(q) = w
  <1> DEFINE n == Len(q)
  <1>0. /\ n \in Nat \ {0} /\ Len(q) = n
        /\ e \in [0..n -> 0..Len(w)] /\ e[0] = 0 /\ e[n] = Len(w)
        /\ \A k \in 1..n : e[k - 1] <= e[k] /\ q[k] = SubSeq(w, e[k - 1] + 1, e[k])
    BY DEF CutInto
  <1> HIDE DEF n
  <1> DEFINE g == [k \in 1..n |-> SubSeq(w, 1, e[k])]
  <1>1. Len(w) \in Nat /\ w \in [1..Len(w) -> T] /\ DOMAIN w = 1..Len(w)
    BY LenProperties
  <1>2. \A k \in 1..n : k - 1 \in 0..n /\ k \in 0..n
    BY <1>0
  <1>3. \A k \in 1..n : e[k] \in Nat /\ e[k] <= Len(w) /\ e[k - 1] \in Nat /\ e[k - 1] <= e[k]
    BY <1>0, <1>1, <1>2
  <1>4. ASSUME NEW k \in 1..n, k # 1
        PROVE  SubSeq(w, 1, e[k - 1]) \o q[k] = SubSeq(w, 1, e[k])
    <2>1. q[k] = SubSeq(w, e[k - 1] + 1, e[k])
      BY <1>0
    <2> QED  BY <1>3, <2>1, PartsMeet
  <1>5. q[1] = SubSeq(w, 1, e[1])
    <2>1. 1 \in 1..n /\ 1 - 1 = 0 /\ 0 + 1 = 1
      BY <1>0
    <2>2. q[1] = SubSeq(w, e[1 - 1] + 1, e[1])
      BY <1>0, <2>1
    <2> QED  BY <1>0, <2>1, <2>2
  <1>6. Flattening(g, q)
    <2>1. ASSUME NEW k \in 1..n PROVE g[k] = IF k = 1 THEN q[k] ELSE g[k - 1] \o q[k]
      <3>1. CASE k = 1
        BY <1>5, <3>1
      <3>2. CASE k # 1
        <4>1. k - 1 \in 1..n
          BY <1>0, <3>2
        <4>2. g[k] = SubSeq(w, 1, e[k]) /\ g[k - 1] = SubSeq(w, 1, e[k - 1])
          BY <4>1
        <4> QED  BY <1>4, <3>2, <4>2
      <3> QED  BY <3>1, <3>2
    <2>2. g = [k \in 1..n |-> g[k]]
      OBVIOUS
    <2> HIDE DEF g
    <2>3. g = [k \in 1..n |-> IF k = 1 THEN q[k] ELSE g[k - 1] \o q[k]]
      BY <2>1, <2>2
    <2> QED  BY <1>0, <2>3 DEF Flattening
  <1>7. FlattenSeq(q) = (CHOOSE h : Flattening(h, q))[n]
    <2>1. Len(q) # 0
      OBVIOUS
    <2> QED  BY <1>0, <2>1, Zenon DEF FlattenSeq, Flattening
  <1>8. PICK h : Flattening(h, q) /\ FlattenSeq(q) = h[n]
    <2>1. \E h : Flattening(h, q)
      BY <1>6
    <2>2. Flattening(CHOOSE h : Flattening(h, q), q)
      BY <2>1, Zenon
    <2> QED  BY <1>7, <2>2
  <1>9. \A k \in 1..n : h[k] = IF k = 1 THEN q[k] ELSE h[k - 1] \o q[k]
    BY <1>0, <1>8 DEF Flattening
  <1> DEFINE Bad == {k \in 1..n : h[k] # SubSeq(w, 1, e[k])}
  <1>10. Bad = {}
    <2> SUFFICES ASSUME Bad # {} PROVE FALSE
      OBVIOUS
    <2>1. Bad \subseteq Nat
      OBVIOUS
    <2>2. PICK k \in Bad : \A y \in Bad : k <= y
      <3> HIDE DEF Bad
      <3> QED  BY <2>1, LeastNat
    <2>3. k \in 1..n /\ h[k] # SubSeq(w, 1, e[k])
      OBVIOUS
    <2>4. k # 1
      BY <1>5, <1>9, <2>3
    <2>5. k - 1 \in 1..n /\ ~(k <= k - 1)
      BY <1>0, <2>3, <2>4
    <2>6. h[k - 1] = SubSeq(w, 1, e[k - 1])
      BY <2>2, <2>5
    <2>7. h[k] = h[k - 1] \o q[k]
      BY <1>9, <2>3, <2>4
    <2> HIDE DEF Bad
    <2> QED  BY <1>4, <2>3, <2>4, <2>6, <2>7
  <1>11. h[n] = SubSeq(w, 1, Len(w))
    <2>1. n \in 1..n
      BY <1>0
    <2> QED  BY <1>0, <1>10, <2>1
  <1>12. SubSeq(w, 1, Len(w)) = w
    <2> DEFINE z == SubSeq(w, 1, Len(w))
               l == Len(w)
    <2>1. \A i \in 1..l : w[i] \in T
      BY <1>1
    <2>2. l \in Nat
      BY <1>1
    <2>3. /\ z \in Seq(T) /\ Len(z) = (IF 1 <= l THEN l - 1 + 1 ELSE 0)
          /\ \A i \in 1..(l - 1 + 1) : z[i] = w[1 + i - 1]
      <3>1. z = SubSeq(w, 1, l)
        OBVIOUS
      <3> HIDE DEF z, l
      <3> QED  BY <2>1, <2>2, <3>1, SubSeqProperties
    <2>4. Len(w) = l
      OBVIOUS
    <2> HIDE DEF z, l
    <2>5. Len(z) = l /\ \A i \in 1..l : z[i] = w[i]
      BY <2>2, <2>3
    <2>6. z = w
      BY <2>3, <2>4, <2>5, SeqEqual
    <2> QED  BY <2>6 DEF z
  <1> QED  BY <1>8, <1>11, <1>12

(***************************************************************************)
(* Compounds                                                               *)
(***************************************************************************)
\* What Parse evaluates: h[k] is what k rounds find.
Parsing(h, data) ==
  h = [k \in 0..Len(data) |->
         IF k = 0 THEN NothingFound ELSE ParsePacket(data, h[k - 1])]

\* A compound of two packets takes two rounds; the others change nothing.
LEMMA ParseRounds ==
  ASSUME NEW data, Len(data) \in Nat, Len(data) >= 2, NEW one, NEW two,
         ParsePacket(data, NothingFound) = one, ParsePacket(data, one) = two,
         ParsePacket(data, two) = two
  PROVE  Parse(data) = two
  <1> DEFINE N == Len(data)
             g == [k \in 0..N |-> IF k = 0 THEN NothingFound ELSE IF k = 1 THEN one ELSE two]
  <1>1. Parsing(g, data)
    <2>1. ASSUME NEW k \in 0..N
          PROVE  g[k] = IF k = 0 THEN NothingFound ELSE ParsePacket(data, g[k - 1])
      <3>1. CASE k = 0
        BY <3>1
      <3>2. CASE k = 1
        <4>1. g[1] = one /\ g[1 - 1] = NothingFound
          OBVIOUS
        <4> HIDE DEF g
        <4> QED  BY <3>2, <4>1
      <3>3. CASE k = 2
        <4>1. g[2] = two /\ g[2 - 1] = one
          OBVIOUS
        <4> HIDE DEF g
        <4> QED  BY <3>3, <4>1
      <3>4. CASE k > 2
        <4>1. k - 1 \in 0..N /\ k - 1 # 0 /\ k - 1 # 1 /\ k # 0 /\ k # 1
          BY <3>4
        <4>2. g[k] = two /\ g[k - 1] = two
          BY <4>1
        <4> HIDE DEF g
        <4> QED  BY <4>1, <4>2
      <3>5. k = 0 \/ k = 1 \/ k = 2 \/ k > 2
        OBVIOUS
      <3> QED  BY <3>1, <3>2, <3>3, <3>4, <3>5
    <2>2. g = [k \in 0..N |-> g[k]]
      OBVIOUS
    <2> HIDE DEF g
    <2>3. g = [k \in 0..N |-> IF k = 0 THEN NothingFound ELSE ParsePacket(data, g[k - 1])]
      BY <2>1, <2>2
    <2> QED  BY <2>3 DEF Parsing
  <1>2. Parse(data) = (CHOOSE h : Parsing(h, data))[N]
    <2>1. ~(Len(data) < 2)
      OBVIOUS
    <2> QED  BY <2>1, Zenon DEF Parse, Parsing
  <1>3. PICK h : Parsing(h, data) /\ Parse(data) = h[N]
    <2>1. \E h : Parsing(h, data)
      BY <1>1
    <2>2. Parsing(CHOOSE h : Parsing(h, data), data)
      BY <2>1, Zenon
    <2> QED  BY <1>2, <2>2
  <1>4. \A k \in 0..N : h[k] = IF k = 0 THEN NothingFound ELSE ParsePacket(data, h[k - 1])
    BY <1>3 DEF Parsing
  <1>5. h[0] = NothingFound /\ h[1] = one /\ h[2] = two
    <2>1. 0 \in 0..N /\ 1 \in 0..N /\ 2 \in 0..N /\ 1 - 1 = 0 /\ 2 - 1 = 1
      OBVIOUS
    <2>2. h[0] = NothingFound
      BY <1>4, <2>1
    <2>3. h[1] = one
      BY <1>4, <2>1, <2>2
    <2> QED  BY <1>4, <2>1, <2>2, <2>3
  <1> DEFINE Bad == {k \in 2..N : h[k] # two}
  <1>6. Bad = {}
    <2> SUFFICES ASSUME Bad # {} PROVE FALSE
      OBVIOUS
    <2>1. Bad \subseteq Nat
      OBVIOUS
    <2>2. PICK k \in Bad : \A y \in Bad : k <= y
      <3> HIDE DEF Bad
      <3> QED  BY <2>1, LeastNat
    <2>3. k \in 2..N /\ h[k] # two
      OBVIOUS
    <2>4. k # 2
      BY <1>5, <2>3
    <2>5. k - 1 \in 2..N /\ ~(k <= k - 1) /\ k # 0 /\ k \in 0..N
      BY <2>3, <2>4
    <2>6. h[k - 1] = two
      BY <2>2, <2>5
    <2>7. h[k] = ParsePacket(data, h[k - 1])
      BY <1>4, <2>5
    <2> QED  BY <2>3, <2>6, <2>7
  <1>7. N \in 2..N
    OBVIOUS
  <1> QED  BY <1>3, <1>6, <1>7

\* BuildSdes: its header, and its length.
LEMMA SdesFacts ==
  ASSUME NEW ssrc, NEW nameLen \in Nat
  PROVE  LET s == BuildSdes(ssrc, nameLen)
         IN  /\ \E T : s \in Seq(T)
             /\ Len(s) \in Nat /\ Len(s) >= 2
             /\ s[1] = [rc |-> 1 % RcSpace, pt |-> SDES, length |-> Len(s) - 1]
  <1> DEFINE w == (nameLen + 10) \div 4
             h == Header(1, SDES, w)
             a == <<h, ssrc>>
             b == [i \in 1..(w - 2) |-> "item"]
  <1>1. w \in Nat /\ w >= 2 /\ w - 2 \in Nat
    OBVIOUS
  <1>2. BuildSdes(ssrc, nameLen) = a \o b
    BY DEF BuildSdes
  <1>3. h = [rc |-> 1 % RcSpace, pt |-> SDES, length |-> w - 1]
    BY DEF Header
  <1> HIDE DEF w, h
  <1> DEFINE A == {h, ssrc}
             B == {"item"}
  <1>4. a \in Seq(A) /\ Len(a) = 2 /\ a[1] = h
    OBVIOUS
  <1>5. b \in [1..(w - 2) -> B]
    OBVIOUS
  <1> HIDE DEF a, b, A, B
  <1>6. b \in Seq(B) /\ Len(b) = w - 2
    BY <1>1, <1>5, ListIsSeq
  <1>7. /\ \E T : a \o b \in Seq(T)
        /\ Len(a \o b) = Len(a) + Len(b)
        /\ \A i \in 1..Len(a) : (a \o b)[i] = a[i]
    <2>0. a \in Seq(A) /\ b \in Seq(B)
      BY <1>4, <1>6
    <2>1. \E T : a \o b \in Seq(T)
      BY <2>0, JoinFacts
    <2>2. Len(a \o b) = Len(a) + Len(b)
      BY <2>0, JoinFacts
    <2>3. \A i \in 1..Len(a) : (a \o b)[i] = a[i]
      BY <2>0, JoinFacts
    <2> QED  BY <2>1, <2>2, <2>3
  <1>8. Len(a \o b) = w
    BY <1>1, <1>4, <1>6, <1>7
  <1>9. (a \o b)[1] = h
    BY <1>4, <1>7
  <1> QED  BY <1>1, <1>2, <1>3, <1>7, <1>8, <1>9

\* The last packet of a compound, one that Parse does not read.
At(out, at) == [out EXCEPT !.at = at]

LEMMA ParseOther ==
  ASSUME NEW data, NEW out, NEW at \in Nat, NEW l \in Nat, Len(data) = at + l, l >= 1,
         out.at = at, data[at + 1].length = l - 1, data[at + 1].pt \notin {SR, RR}
  PROVE  ParsePacket(data, out) = At(out, at + l)
  <1>1. out.at + data[out.at + 1].length + 1 = at + l
    OBVIOUS
  <1>2. ~(out.at = Len(data) \/ at + l > Len(data))
    OBVIOUS
  <1>3. data[out.at + 1].pt \notin {SR, RR}
    OBVIOUS
  <1> QED  BY <1>1, <1>2, <1>3 DEF ParsePacket, At

\* Parse stops at the end.
LEMMA ParseEnd ==
  ASSUME NEW data, NEW out, out.at = Len(data)
  PROVE  ParsePacket(data, out) = out
  BY DEF ParsePacket

\* A compound with a sender report is read: it has no blocks.
LEMMA SenderParsed ==
  ASSUME NEW ssrc, NEW nameLen \in Nat, NEW ntp, NEW t, NEW packets, NEW octets
  PROVE  LET c == BuildCompound(ssrc, nameLen, ntp, t, packets, octets)
         IN  /\ c # <<>> /\ c[1].pt = SR
             /\ c[6] = packets /\ c[7] = octets
             /\ Parse(c).reporter = ssrc /\ Parse(c).blocks = <<>>
  <1> DEFINE h == Header(0, SR, 7)
             a == <<h, ssrc, ntp.frac, ntp.sec, t, packets, octets>>
             b == BuildSdes(ssrc, nameLen)
             A == {h, ssrc, ntp.frac, ntp.sec, t, packets, octets}
             c == BuildCompound(ssrc, nameLen, ntp, t, packets, octets)
  <1>1. c = a \o b
    BY DEF BuildCompound, BuildSenderReport
  <1>2. a \in Seq(A) /\ Len(a) = 7 /\ a[1] = h /\ a[2] = ssrc /\ a[6] = packets /\ a[7] = octets
    OBVIOUS
  <1>3. PICK B : b \in Seq(B)
    BY SdesFacts
  <1>4. Len(b) \in Nat /\ Len(b) >= 2
        /\ b[1] = [rc |-> 1 % RcSpace, pt |-> SDES, length |-> Len(b) - 1]
    BY SdesFacts
  <1>5. RcSpace \in Nat \ {0}
    BY RtcpAssumption DEF RtcpAssumption
  <1>6. h.pt = SR /\ h.length = 6 /\ h.rc = 0
    <2>1. 0 % RcSpace = 0
      BY <1>5, ModSmall
    <2> QED  BY <2>1 DEF Header
  <1> HIDE DEF a, b, A, c, h
  <1>7. Len(c) = 7 + Len(b)
        /\ (\A i \in 1..7 : c[i] = a[i]) /\ (\A i \in 1..Len(b) : c[7 + i] = b[i])
    <2>0. a \in Seq(A) /\ b \in Seq(B)
      BY <1>2, <1>3
    <2>1. Len(a \o b) = Len(a) + Len(b)
      BY <2>0, JoinFacts
    <2>2. \A i \in 1..Len(a) : (a \o b)[i] = a[i]
      BY <2>0, JoinFacts
    <2>3. \A i \in 1..Len(b) : (a \o b)[Len(a) + i] = b[i]
      BY <2>0, JoinFacts
    <2> QED  BY <1>1, <1>2, <2>1, <2>2, <2>3
  <1>8. c[1] = h /\ c[2] = ssrc /\ c[6] = packets /\ c[7] = octets
    BY <1>2, <1>7
  <1>9. c[7 + 1] = b[1]
    BY <1>4, <1>7
  <1> DEFINE one == [at |-> 7, blocks |-> <<>>, reporter |-> ssrc]
             two == [at |-> Len(c), blocks |-> <<>>, reporter |-> ssrc]
             g == [i \in 1..0 |-> BlockAt(c, 0 + 2 + BlockWordCount * (i - 1))]
  <1>10. g = <<>>
    OBVIOUS
  <1>11. <<>> \o g = <<>>
    <2>1. <<>> \in Seq({})
      BY EmptySeq
    <2>2. <<>> \o <<>> = <<>>
      BY <2>1, ConcatEmptySeq
    <2> QED  BY <1>10, <2>2
  <1>12. ParsePacket(c, NothingFound) = one
    <2>1. NothingFound.at = 0 /\ NothingFound.blocks = <<>>
      BY DEF NothingFound
    <2>2. c[0 + 1] = h /\ 0 + h.length + 1 = 7 /\ (h.length - 1) \div 6 = 0 /\ c[0 + 2] = ssrc
      BY <1>6, <1>8
    <2>3. ~(0 = Len(c) \/ 7 > Len(c))
      BY <1>4, <1>7
    <2>4. ~(h.pt \notin {SR, RR}) /\ (IF h.rc < 0 THEN h.rc ELSE 0) = 0
      BY <1>6
    <2>5. ParsePacket(c, NothingFound) = [at |-> 7, blocks |-> <<>> \o g, reporter |-> ssrc]
      <3> HIDE DEF g
      <3> QED  BY <2>1, <2>2, <2>3, <2>4 DEF ParsePacket, BlockWordCount, g
    <2> QED  BY <1>11, <2>5
  <1>13. ParsePacket(c, one) = two
    <2>1. SDES \notin {SR, RR}
      BY DEF SDES, SR, RR
    <2>2. c[7 + 1].length = Len(b) - 1 /\ c[7 + 1].pt \notin {SR, RR}
      BY <1>4, <1>9, <2>1
    <2>3. one.at = 7 /\ Len(b) >= 1 /\ At(one, 7 + Len(b)) = two
      BY <1>4, <1>7 DEF At
    <2> DEFINE l == Len(b)
    <2>4. 7 \in Nat /\ l \in Nat /\ Len(c) = 7 + l /\ l >= 1 /\ one.at = 7
          /\ c[7 + 1].length = l - 1
      BY <1>4, <1>7, <2>2
    <2> HIDE DEF one, two, l
    <2>5. ParsePacket(c, one) = At(one, 7 + l)
      BY <2>2, <2>4, ParseOther
    <2>6. ParsePacket(c, one) = At(one, 7 + Len(b))
      BY <2>5 DEF l
    <2> QED  BY <2>3, <2>6
  <1>14. ParsePacket(c, two) = two
    <2>1. two.at = Len(c)
      OBVIOUS
    <2> HIDE DEF two
    <2> QED  BY <2>1, ParseEnd
  <1>15. Len(c) \in Nat /\ Len(c) >= 2
    BY <1>4, <1>7
  <1>16. two.reporter = ssrc /\ two.blocks = <<>>
    OBVIOUS
  <1> HIDE DEF one, two
  <1>17. Parse(c) = two
    BY <1>12, <1>13, <1>14, <1>15, ParseRounds
  <1>18. c # <<>>
    <2>1. Len(<<>>) = 0
      BY EmptySeq
    <2> QED  BY <1>15, <2>1
  <1> QED  BY <1>6, <1>8, <1>16, <1>17, <1>18 DEF c

\* The words of a block, and what comes back from them.
LEMMA BlockFacts ==
  ASSUME NEW x \in Block
  PROVE  /\ DOMAIN BlockWords(x) = 1..6 /\ Len(BlockWords(x)) = 6
         /\ \A T : (\A k \in 1..6 : BlockWords(x)[k] \in T) => BlockWords(x) \in Seq(T)
         /\ \A data, o : (\A k \in 1..6 : data[o + k] = BlockWords(x)[k])
                           => BlockAt(data, o) = AsParsed(x)
  <1>1. /\ BlockWords(x)[1] = x.ssrc
        /\ BlockWords(x)[2] = [fraction |-> x.fraction, lost |-> x.lost]
        /\ BlockWords(x)[3] = x.highest /\ BlockWords(x)[4] = x.jitter
        /\ BlockWords(x)[5] = x.lsr /\ BlockWords(x)[6] = x.dlsr
    BY DEF BlockWords
  <1>2. DOMAIN BlockWords(x) = 1..6 /\ Len(BlockWords(x)) = 6
    BY DEF BlockWords
  <1>3. ASSUME NEW T, \A k \in 1..6 : BlockWords(x)[k] \in T
        PROVE  BlockWords(x) \in Seq(T)
    <2>1. x.ssrc \in T /\ [fraction |-> x.fraction, lost |-> x.lost] \in T
          /\ x.highest \in T /\ x.jitter \in T /\ x.lsr \in T /\ x.dlsr \in T
      BY <1>1, <1>3
    <2> QED  BY <2>1 DEF BlockWords
  <1>4. ASSUME NEW data, NEW o, \A k \in 1..6 : data[o + k] = BlockWords(x)[k]
        PROVE  BlockAt(data, o) = AsParsed(x)
    <2>1. /\ data[o + 1] = x.ssrc
          /\ data[o + 2] = [fraction |-> x.fraction, lost |-> x.lost]
          /\ data[o + 3] = x.highest /\ data[o + 4] = x.jitter
          /\ data[o + 5] = x.lsr /\ data[o + 6] = x.dlsr
      BY <1>1, <1>4
    <2>2. data[o + 2].fraction = x.fraction /\ data[o + 2].lost = x.lost
      BY <2>1
    <2>3. AsParsed(x) = [ssrc |-> x.ssrc, fraction |-> x.fraction, lost |-> Reverse(x.lost),
                         highest |-> x.highest, jitter |-> x.jitter, lsr |-> x.lsr,
                         dlsr |-> x.dlsr]
      BY DEF AsParsed, Block
    <2> QED  BY <2>1, <2>2, <2>3 DEF BlockAt
  <1> QED  BY <1>2, <1>3, <1>4

\* Where a word of a list of blocks is.
LEMMA WordPlaces ==
  ASSUME NEW l \in Nat
  PROVE  /\ \A i \in 1..l, k \in 1..6 :
              /\ 6 * (i - 1) + k \in 1..(6 * l)
              /\ (6 * (i - 1) + k - 1) \div 6 + 1 = i
              /\ ((6 * (i - 1) + k - 1) % 6) + 1 = k
         /\ \A j \in 1..(6 * l) : (j - 1) \div 6 + 1 \in 1..l /\ ((j - 1) % 6) + 1 \in 1..6
  OBVIOUS

\* What FlattenSeq makes of the words of all blocks.
LEMMA BlocksFlat ==
  ASSUME NEW l \in Nat, NEW b \in Seq(Block), Len(b) = l
  PROVE  LET f == FlattenSeq([i \in DOMAIN b |-> BlockWords(b[i])])
         IN  /\ \E T : f \in Seq(T)
             /\ Len(f) = 6 * l
             /\ \A i \in 1..l, k \in 1..6 : f[6 * (i - 1) + k] = BlockWords(b[i])[k]
  <1> DEFINE q == [i \in DOMAIN b |-> BlockWords(b[i])]
             f == FlattenSeq(q)
             w == [j \in 1..(6 * l) |->
                     BlockWords(b[(j - 1) \div 6 + 1])[((j - 1) % 6) + 1]]
             T == {w[j] : j \in 1..(6 * l)}
             e == [k \in 0..l |-> 6 * k]
  <1>1. DOMAIN b = 1..l /\ \A i \in 1..l : b[i] \in Block
    BY LenProperties
  <1>2. q = [i \in 1..l |-> BlockWords(b[i])] /\ \A i \in 1..l : q[i] = BlockWords(b[i])
    BY <1>1
  <1>3. Len(q) = l
    <2> DEFINE Q == {q[i] : i \in 1..l}
    <2>1. q \in [1..l -> Q]
      BY <1>1
    <2> HIDE DEF q, Q
    <2> QED  BY <2>1, ListIsSeq
  <1>4. \A i \in 1..l, k \in 1..6 : w[6 * (i - 1) + k] = BlockWords(b[i])[k]
    <2> SUFFICES ASSUME NEW i \in 1..l, NEW k \in 1..6
                 PROVE  w[6 * (i - 1) + k] = BlockWords(b[i])[k]
      OBVIOUS
    <2> DEFINE j == 6 * (i - 1) + k
    <2>1. j \in 1..(6 * l) /\ (j - 1) \div 6 + 1 = i /\ ((j - 1) % 6) + 1 = k
      BY WordPlaces
    <2> HIDE DEF j
    <2>2. w[j] = BlockWords(b[(j - 1) \div 6 + 1])[((j - 1) % 6) + 1]
      BY <2>1
    <2> QED  BY <2>1, <2>2 DEF j
  <1>5. w \in [1..(6 * l) -> T]
    OBVIOUS
  <1>6. w \in Seq(T) /\ Len(w) = 6 * l /\ 6 * l \in Nat
    <2>1. 6 * l \in Nat
      OBVIOUS
    <2> HIDE DEF w, T
    <2> QED  BY <1>5, <2>1, ListIsSeq
  <1>7. \A j \in 1..(6 * l) : w[j] \in T
    OBVIOUS
  <1> HIDE DEF w, T, q
  <1>8. CASE l = 0
    <2>1. f = q
      BY <1>3, <1>8 DEF FlattenSeq
    <2>2. f \in Seq({})
      <3>1. q \in [1..0 -> {}]
        BY <1>2, <1>8
      <3> QED  BY <2>1, <3>1, ListIsSeq
    <2>3. Len(f) = 6 * l /\ 1..l = {}
      BY <1>3, <1>8, <2>1
    <2> HIDE DEF f
    <2> QED  BY <2>2, <2>3 DEF f, q
  <1>9. CASE l # 0
    <2>1. e \in [0..l -> 0..Len(w)] /\ e[0] = 0 /\ e[l] = Len(w)
      BY <1>6
    <2>2. ASSUME NEW k \in 1..l
          PROVE  e[k - 1] <= e[k] /\ q[k] = SubSeq(w, e[k - 1] + 1, e[k])
      <3> DEFINE a == 6 * (k - 1)
                 z == SubSeq(w, a + 1, a + 6)
      <3>1. e[k - 1] = a /\ e[k] = a + 6 /\ a \in Nat
        OBVIOUS
      <3>2. \A m \in 1..6 : a + m \in 1..(6 * l) /\ w[a + m] = BlockWords(b[k])[m]
        BY <1>4, WordPlaces
      <3> HIDE DEF a
      <3>3. \A m \in 1..6 : BlockWords(b[k])[m] \in T
        BY <1>7, <3>2
      <3>4. BlockWords(b[k]) \in Seq(T) /\ Len(BlockWords(b[k])) = 6
        BY <1>1, <3>3, BlockFacts
      <3>5. z \in Seq(T) /\ Len(z) = 6 /\ \A m \in 1..6 : z[m] = w[a + m]
        <4>1. \A i \in (a + 1)..(a + 6) : w[i] \in T
          <5> SUFFICES ASSUME NEW i \in (a + 1)..(a + 6) PROVE w[i] \in T
            OBVIOUS
          <5>1. i - a \in 1..6 /\ a + (i - a) = i
            BY <3>1
          <5> QED  BY <1>7, <3>2, <5>1
        <4>2. a + 1 \in Int /\ a + 6 \in Int
          BY <3>1
        <4>3. /\ z \in Seq(T) /\ Len(z) = (IF a + 1 <= a + 6 THEN (a + 6) - (a + 1) + 1 ELSE 0)
              /\ \A i \in 1..((a + 6) - (a + 1) + 1) : z[i] = w[(a + 1) + i - 1]
          BY <4>1, <4>2, SubSeqProperties
        <4>4. (a + 6) - (a + 1) + 1 = 6 /\ a + 1 <= a + 6 /\ \A i \in Int : (a + 1) + i - 1 = a + i
          BY <3>1
        <4> HIDE DEF z
        <4>5. Len(z) = 6 /\ z \in Seq(T)
          BY <4>3, <4>4
        <4>6. ASSUME NEW m \in 1..6 PROVE z[m] = w[a + m]
          <5>1. (a + 1) + m - 1 = a + m
            BY <3>1
          <5>2. m \in 1..((a + 6) - (a + 1) + 1)
            BY <4>4
          <5>3. z[m] = w[(a + 1) + m - 1]
            BY <4>3, <5>2
          <5> QED  BY <5>1, <5>3
        <4> QED  BY <4>5, <4>6
      <3> HIDE DEF z
      <3>6. BlockWords(b[k]) = z
        <4>1. \A m \in 1..Len(z) : BlockWords(b[k])[m] = z[m]
          BY <3>2, <3>5
        <4> QED  BY <3>4, <3>5, <4>1, SeqEqual
      <3>7. a <= a + 6
        BY <3>1
      <3> HIDE DEF e
      <3> QED  BY <1>2, <3>1, <3>6, <3>7 DEF z
    <2>3. l \in Nat \ {0}
      BY <1>9
    <2> HIDE DEF e
    <2>4. FlattenSeq(q) = w
      <3>1. CutInto(w, q, e) /\ Len(q) \in Nat \ {0}
        BY <1>3, <2>1, <2>2, <2>3 DEF CutInto
      <3> QED  BY <1>6, <3>1, FlattenPieces
    <2> QED  BY <1>4, <1>6, <2>4 DEF q
  <1> QED  BY <1>8, <1>9

\* A compound with a receiver report is read: as many of its blocks as five
\* bits count.
LEMMA ReceiverParsed ==
  ASSUME NEW ssrc, NEW nameLen \in Nat, NEW b \in Seq(Block)
  PROVE  LET c == BuildReceiverReport(ssrc, b) \o BuildSdes(ssrc, nameLen)
         IN  /\ c # <<>> /\ c[1].pt = RR
             /\ Parse(c).reporter = ssrc
             /\ Parse(c).blocks = [i \in 1..(Len(b) % RcSpace) |-> AsParsed(b[i])]
  <1> DEFINE l == Len(b)
             f == FlattenSeq([i \in DOMAIN b |-> BlockWords(b[i])])
             h == Header(l, RR, 2 + 6 * l)
             a == <<h, ssrc>>
             r == BuildReceiverReport(ssrc, b)
             s == BuildSdes(ssrc, nameLen)
             c == r \o s
             n == l % RcSpace
  <1>1. r = a \o f
    BY DEF BuildReceiverReport, BlockWordCount
  <1>2. l \in Nat /\ \A i \in 1..l : b[i] \in Block
    BY LenProperties
  <1>3. RcSpace \in Nat \ {0}
    BY RtcpAssumption DEF RtcpAssumption
  <1>4. h.pt = RR /\ h.length = 1 + 6 * l /\ h.rc = n
    <2>1. h.length = 2 + 6 * l - 1 /\ 2 + 6 * l - 1 = 1 + 6 * l
      BY <1>2 DEF Header
    <2> QED  BY <2>1 DEF Header
  <1>5. n \in Nat /\ n <= l
    <2>1. n \in 0..(RcSpace - 1) /\ l \div RcSpace \in Int /\ l = ((l \div RcSpace) * RcSpace) + n
      BY <1>2, <1>3, ModRange
    <2>2. CASE l < RcSpace
      <3>1. n = l
        BY <1>2, <1>3, <2>2, ModSmall
      <3> QED  BY <1>2, <3>1
    <2>3. CASE ~(l < RcSpace)
      <3> HIDE DEF l, n
      <3> QED  BY <1>2, <1>3, <2>1, <2>3
    <2> QED  BY <2>2, <2>3
  <1>6. (\E T : f \in Seq(T)) /\ Len(f) = 6 * l
        /\ \A i \in 1..l, k \in 1..6 : f[6 * (i - 1) + k] = BlockWords(b[i])[k]
    <2>1. LET ff == FlattenSeq([i \in DOMAIN b |-> BlockWords(b[i])])
          IN  /\ \E T : ff \in Seq(T)
              /\ Len(ff) = 6 * l
              /\ \A i \in 1..l, k \in 1..6 : ff[6 * (i - 1) + k] = BlockWords(b[i])[k]
      BY <1>2, BlocksFlat
    <2> QED  BY <2>1
  <1>7. Len(s) \in Nat /\ Len(s) >= 2 /\ (\E T : s \in Seq(T))
        /\ s[1] = [rc |-> 1 % RcSpace, pt |-> SDES, length |-> Len(s) - 1]
    BY SdesFacts
  <1>8. a \in Seq({h, ssrc}) /\ Len(a) = 2 /\ a[1] = h /\ a[2] = ssrc
    OBVIOUS
  <1>9. PICK F : f \in Seq(F)
    BY <1>6
  <1>10. PICK S : s \in Seq(S)
    BY <1>7
  <1> DEFINE A == {h, ssrc}
  <1>11. a \in Seq(A)
    BY <1>8
  <1> HIDE DEF f, h, a, r, s, n, l, A
  <1>12. PICK R : r \in Seq(R)
    <2>1. \E T : a \o f \in Seq(T)
      BY <1>9, <1>11, JoinFacts
    <2> QED  BY <1>1, <2>1
  <1>13. /\ Len(r) = 2 + 6 * l /\ r[1] = h /\ r[2] = ssrc
         /\ \A j \in 1..(6 * l) : r[2 + j] = f[j]
    <2>1. Len(a \o f) = Len(a) + Len(f)
      BY <1>9, <1>11, JoinFacts
    <2>2. \A i \in 1..Len(a) : (a \o f)[i] = a[i]
      BY <1>9, <1>11, JoinFacts
    <2>3. \A i \in 1..Len(f) : (a \o f)[Len(a) + i] = f[i]
      BY <1>9, <1>11, JoinFacts
    <2> QED  BY <1>1, <1>6, <1>8, <2>1, <2>2, <2>3
  <1>14. /\ Len(c) = 2 + 6 * l + Len(s) /\ c[1] = h /\ c[2] = ssrc
         /\ (\A j \in 1..(6 * l) : c[2 + j] = f[j])
         /\ c[2 + 6 * l + 1] = s[1]
    <2>1. Len(r \o s) = Len(r) + Len(s)
      BY <1>10, <1>12, JoinFacts
    <2>2. \A i \in 1..Len(r) : (r \o s)[i] = r[i]
      BY <1>10, <1>12, JoinFacts
    <2>3. \A i \in 1..Len(s) : (r \o s)[Len(r) + i] = s[i]
      BY <1>10, <1>12, JoinFacts
    <2>4. c = r \o s
      OBVIOUS
    <2>5. \A j \in 1..(6 * l) : 2 + j \in 1..(2 + 6 * l)
      BY <1>2
    <2>6. 1 \in 1..(2 + 6 * l) /\ 2 \in 1..(2 + 6 * l) /\ 1 \in 1..Len(s)
      BY <1>2, <1>7
    <2> HIDE DEF c
    <2> QED  BY <1>13, <2>1, <2>2, <2>3, <2>4, <2>5, <2>6
  <1> HIDE DEF c
  <1> DEFINE g == [i \in 1..n |-> BlockAt(c, 0 + 2 + BlockWordCount * (i - 1))]
             found == [i \in 1..n |-> AsParsed(b[i])]
             at == 2 + 6 * l
             one == [at |-> at, blocks |-> found, reporter |-> ssrc]
             two == [at |-> Len(c), blocks |-> found, reporter |-> ssrc]
  <1>15. g = found
    <2> SUFFICES ASSUME NEW i \in 1..n
                 PROVE  BlockAt(c, 0 + 2 + BlockWordCount * (i - 1)) = AsParsed(b[i])
      OBVIOUS
    <2> DEFINE o == 0 + 2 + BlockWordCount * (i - 1)
    <2>1. i \in 1..l /\ b[i] \in Block
      BY <1>2, <1>5
    <2>2. ASSUME NEW k \in 1..6 PROVE c[o + k] = BlockWords(b[i])[k]
      <3> DEFINE j == 6 * (i - 1) + k
      <3>1. o + k = 2 + j
        BY <2>1 DEF BlockWordCount
      <3>2. j \in 1..(6 * l)
        BY <1>2, <2>1, WordPlaces
      <3>3. f[j] = BlockWords(b[i])[k]
        BY <1>6, <2>1
      <3> HIDE DEF o, j
      <3>4. c[2 + j] = f[j]
        BY <1>14, <3>2
      <3> QED  BY <3>1, <3>3, <3>4
    <2> HIDE DEF o
    <2>3. BlockAt(c, o) = AsParsed(b[i])
      BY <2>1, <2>2, BlockFacts
    <2> QED  BY <2>3 DEF o
  <1>16. <<>> \o g = found
    <2> DEFINE G == {found[i] : i \in 1..n}
    <2>1. found \in [1..n -> G]
      OBVIOUS
    <2> HIDE DEF found, g, G
    <2>2. found \in Seq(G)
      BY <1>5, <2>1, ListIsSeq
    <2> QED  BY <1>15, <2>2, ConcatEmptySeq
  <1>17. ParsePacket(c, NothingFound) = one
    <2>1. NothingFound.at = 0 /\ NothingFound.blocks = <<>>
      BY DEF NothingFound
    <2>2. 0 + h.length + 1 = at /\ (h.length - 1) \div 6 = l
      BY <1>2, <1>4
    <2>3. c[0 + 1] = h /\ c[0 + 2] = ssrc
      BY <1>14
    <2>4. ~(0 = Len(c) \/ at > Len(c))
      BY <1>2, <1>7, <1>14
    <2>5. ~(h.pt \notin {SR, RR}) /\ (IF h.rc < l THEN h.rc ELSE l) = n
      BY <1>2, <1>4, <1>5
    <2>6. ParsePacket(c, NothingFound) = [at |-> at, blocks |-> <<>> \o g, reporter |-> ssrc]
      <3> HIDE DEF g, at, found
      <3> QED  BY <2>1, <2>2, <2>3, <2>4, <2>5 DEF ParsePacket, BlockWordCount, g
    <2> QED  BY <1>16, <2>6
  <1>18. ParsePacket(c, one) = two
    <2>1. SDES \notin {SR, RR}
      BY DEF SDES, SR, RR
    <2> DEFINE m == Len(s)
    <2>2. c[at + 1].length = m - 1 /\ c[at + 1].pt \notin {SR, RR}
      BY <1>7, <1>14, <2>1
    <2>3. at \in Nat /\ m \in Nat /\ Len(c) = at + m /\ m >= 1
      BY <1>2, <1>7, <1>14
    <2>4. one.at = at
      OBVIOUS
    <2>5. At(one, Len(c)) = two
      <3> HIDE DEF found, at
      <3> QED  BY DEF At
    <2> HIDE DEF one, two, m, at
    <2>6. ParsePacket(c, one) = At(one, at + m)
      BY <2>2, <2>3, <2>4, ParseOther
    <2> QED  BY <2>3, <2>5, <2>6
  <1>19. ParsePacket(c, two) = two
    <2>1. two.at = Len(c)
      OBVIOUS
    <2> HIDE DEF two
    <2> QED  BY <2>1, ParseEnd
  <1>20. Len(c) \in Nat /\ Len(c) >= 2
    BY <1>2, <1>7, <1>14
  <1>21. two.reporter = ssrc /\ two.blocks = found
    OBVIOUS
  <1> HIDE DEF one, two
  <1>22. Parse(c) = two
    BY <1>17, <1>18, <1>19, <1>20, ParseRounds
  <1>23. c # <<>>
    <2>1. Len(<<>>) = 0
      BY EmptySeq
    <2> QED  BY <1>20, <2>1
  <1>24. c[1].pt = RR
    BY <1>4, <1>14
  <1> QED  BY <1>21, <1>22, <1>23, <1>24 DEF c, r, s, l, n

(***************************************************************************)
(* Invariant of the path with its reports                                  *)
(***************************************************************************)
\* What may be on its way.
CompoundKnown ==
  \/ compound = <<>>
  \/ \E n \in NameLengths : \E t, packets, octets :
       compound = BuildCompound(AudioSsrc, n, Ntp, t, packets, octets)
  \/ \E b \in BlockLists, n \in NameLengths :
       compound = BuildReceiverReport(AudioSsrc, b) \o BuildSdes(AudioSsrc, n)

StatsKnown ==
  stats = NoBlock \/ \E b \in BlockLists : stats \in {AsParsed(b[i]) : i \in DOMAIN b}

ReportsInv == PathInv /\ informed \in BOOLEAN /\ CompoundKnown /\ StatsKnown

\* Names have a length, and reports are lists of blocks.
LEMMA ReportConstants ==
  NameLengths \subseteq Nat /\ \A b \in BlockLists : b \in Seq(Block)
  <1>1. NameLengths \subseteq Nat
    <2>1. NameLengths \subseteq 0..MaxLength
      BY ReportsAssumption DEF ReportsAssumption
    <2> QED  BY <2>1
  <1>2. \A l \in BlockLists : l \in Seq(Block)
    BY ReportsAssumption DEF ReportsAssumption
  <1> QED  BY <1>1, <1>2

\* Every compound that is built can be read.
LEMMA KnownIsParsed == CompoundKnown => CompoundsParse
  <1> SUFFICES ASSUME CompoundKnown, compound # <<>>
               PROVE  /\ Parse(compound).reporter = AudioSsrc
                      /\ \/ compound[1].pt = SR /\ Parse(compound).blocks = <<>>
                         \/ \E b \in BlockLists, n \in NameLengths :
                              /\ compound = BuildReceiverReport(AudioSsrc, b) \o BuildSdes(AudioSsrc, n)
                              /\ Parse(compound).blocks =
                                   [i \in 1..(Len(b) % RcSpace) |-> AsParsed(b[i])]
    BY DEF CompoundsParse
  <1>1. ASSUME NEW n \in NameLengths, NEW t, NEW packets, NEW octets,
               compound = BuildCompound(AudioSsrc, n, Ntp, t, packets, octets)
        PROVE  /\ Parse(compound).reporter = AudioSsrc
               /\ compound[1].pt = SR /\ Parse(compound).blocks = <<>>
    <2>1. n \in Nat
      BY ReportConstants
    <2> DEFINE c == BuildCompound(AudioSsrc, n, Ntp, t, packets, octets)
    <2>2. Parse(c).reporter = AudioSsrc /\ c[1].pt = SR /\ Parse(c).blocks = <<>>
      BY <2>1, SenderParsed
    <2> QED  BY <1>1, <2>2
  <1>2. ASSUME NEW b \in BlockLists, NEW n \in NameLengths,
               compound = BuildReceiverReport(AudioSsrc, b) \o BuildSdes(AudioSsrc, n)
        PROVE  /\ Parse(compound).reporter = AudioSsrc
               /\ Parse(compound).blocks =
                    [i \in 1..(Len(b) % RcSpace) |-> AsParsed(b[i])]
    <2>1. n \in Nat /\ b \in Seq(Block)
      BY ReportConstants
    <2> DEFINE c == BuildReceiverReport(AudioSsrc, b) \o BuildSdes(AudioSsrc, n)
    <2>2. Parse(c).reporter = AudioSsrc
      BY <2>1, ReceiverParsed
    <2>3. Parse(c).blocks = [i \in 1..(Len(b) % RcSpace) |-> AsParsed(b[i])]
      BY <2>1, ReceiverParsed
    <2> QED  BY <1>2, <2>2, <2>3
  <1> QED  BY <1>1, <1>2 DEF CompoundKnown

\* What ReceiveReport stores is one of the blocks of the report.
LEMMA StoredBlock ==
  ASSUME CompoundsParse, compound # <<>>, Parse(compound).blocks # <<>>
  PROVE  \E b \in BlockLists :
           Last(Parse(compound).blocks) \in {AsParsed(b[i]) : i \in DOMAIN b}
  <1>1. PICK b \in BlockLists :
          Parse(compound).blocks = [i \in 1..(Len(b) % RcSpace) |-> AsParsed(b[i])]
    BY DEF CompoundsParse
  <1>2. b \in Seq(Block)
    BY ReportConstants
  <1>3. Len(b) \in Nat /\ DOMAIN b = 1..Len(b)
    BY <1>2, LenProperties
  <1> DEFINE l == Len(b)
             n == l % RcSpace
             found == [i \in 1..n |-> AsParsed(b[i])]
             F == {AsParsed(b[i]) : i \in 1..n}
  <1>4. RcSpace \in Nat \ {0}
    BY RtcpAssumption DEF RtcpAssumption
  <1>5. n \in Nat /\ n <= l
    <2>1. l \in Nat
      BY <1>3
    <2> HIDE DEF l
    <2>2. n \in 0..(RcSpace - 1) /\ l \div RcSpace \in Int /\ l = ((l \div RcSpace) * RcSpace) + n
      BY <2>1, <1>4, ModRange
    <2>3. CASE l < RcSpace
      <3>1. n = l
        BY <2>1, <1>4, <2>3, ModSmall
      <3> QED  BY <2>1, <3>1
    <2>4. CASE ~(l < RcSpace)
      <3> HIDE DEF n
      <3> QED  BY <2>1, <1>4, <2>2, <2>4
    <2> QED  BY <2>3, <2>4
  <1>6. found \in [1..n -> F]
    OBVIOUS
  <1>7. Parse(compound).blocks = found
    BY <1>1
  <1>8. \A i \in 1..n : found[i] = AsParsed(b[i])
    OBVIOUS
  <1> HIDE DEF found, n, l
  <1>9. found \in Seq(F) /\ Len(found) = n
    <2> HIDE DEF F
    <2> QED  BY <1>5, <1>6, ListIsSeq
  <1>10. n \in 1..n /\ n \in 1..l
    <2>1. found # <<>>
      BY <1>7
    <2>2. Len(found) \in Nat \ {0}
      <3> HIDE DEF F
      <3> QED  BY <1>9, <2>1, EmptySeq
    <2>3. l \in Nat
      BY <1>3 DEF l
    <2> QED  BY <1>5, <1>9, <2>2, <2>3
  <1>11. Last(found) = AsParsed(b[n])
    BY <1>8, <1>9, <1>10 DEF Last
  <1>12. n \in DOMAIN b
    BY <1>3, <1>10 DEF l
  <1> QED  BY <1>7, <1>11, <1>12

\* Parse finds nothing in nothing.
LEMMA NothingToParse == Parse(<<>>).blocks = <<>>
  <1>1. Len(<<>>) < 2
    BY EmptySeq
  <1>2. Parse(<<>>) = NothingFound
    BY <1>1, Zenon DEF Parse
  <1> QED  BY <1>2 DEF NothingFound

LEMMA ReportsStep == ReportsInv /\ [ReportsNext]_reportVars => ReportsInv'
  <1> SUFFICES ASSUME ReportsInv, [ReportsNext]_reportVars PROVE ReportsInv'
    OBVIOUS
  <1>1. PathInv /\ informed \in BOOLEAN /\ CompoundKnown /\ StatsKnown
    BY DEF ReportsInv
  <1>2. PathInv'
    <2>1. [PathNext]_pathVars
      BY DEF ReportsNext, reportVars, OnRtcpTimer, SendReceiverReport, ReceiveReport
    <2> QED  BY <1>1, <2>1, PathStep
  <1>3. informed' = informed
    BY DEF ReportsNext, reportVars, OnRtcpTimer, SendReceiverReport, ReceiveReport
  <1>4. CASE UNCHANGED <<compound, stats>>
    BY <1>1, <1>2, <1>3, <1>4 DEF ReportsInv, CompoundKnown, StatsKnown
  <1>5. CASE OnRtcpTimer
    <2>1. PICK n \in NameLengths :
            compound' = BuildCompound(AudioSsrc, n, Ntp, ts["audio"], sent["audio"], bytes["audio"])
      BY <1>5 DEF OnRtcpTimer
    <2>2. stats' = stats
      BY <1>5 DEF OnRtcpTimer
    <2>3. CompoundKnown'
      BY <2>1 DEF CompoundKnown
    <2>4. StatsKnown'
      BY <1>1, <2>2 DEF StatsKnown
    <2> QED  BY <1>1, <1>2, <1>3, <2>3, <2>4 DEF ReportsInv
  <1>6. ASSUME NEW b \in BlockLists, SendReceiverReport(b) PROVE ReportsInv'
    <2>1. PICK n \in NameLengths :
            compound' = BuildReceiverReport(AudioSsrc, b) \o BuildSdes(AudioSsrc, n)
      BY <1>6 DEF SendReceiverReport
    <2>2. stats' = stats
      BY <1>6 DEF SendReceiverReport
    <2>3. CompoundKnown'
      BY <2>1 DEF CompoundKnown
    <2>4. StatsKnown'
      BY <1>1, <2>2 DEF StatsKnown
    <2> QED  BY <1>1, <1>2, <1>3, <2>3, <2>4 DEF ReportsInv
  <1>7. CASE ReceiveReport
    <2>1. Parse(compound).blocks # <<>> /\ stats' = Last(Parse(compound).blocks)
          /\ compound' = compound
      BY <1>7 DEF ReceiveReport, UpdateFromReport
    <2>2. compound # <<>>
      BY <2>1, NothingToParse
    <2>3. StatsKnown'
      BY <1>1, <2>1, <2>2, KnownIsParsed, StoredBlock DEF StatsKnown
    <2>4. CompoundKnown'
      BY <1>1, <2>1 DEF CompoundKnown
    <2> QED  BY <1>1, <1>2, <1>3, <2>3, <2>4 DEF ReportsInv
  <1> QED  BY <1>4, <1>5, <1>6, <1>7 DEF ReportsNext, reportVars

(***************************************************************************)
(* Whole frames                                                            *)
(***************************************************************************)
\* Every fragment fits into a packet, and no fragment is made of a NAL unit
\* that fits whole.
LEMMA FragmentsFit ==
  ASSUME NEW n \in Nal
  PROVE  /\ \A i \in DOMAIN Fragment(n) : PayloadSize(Fragment(n)[i]) <= MaxPayload
         /\ Len(Fragment(n)) = 1 => Fragment(n) = <<WholeNal(n)>>
         /\ Len(Fragment(n)) # 1 => Defragment(Fragment(n)) = n
  <1> DEFINE b == n.body
             l == Len(b)
             F == FuPayload
  <1>1. /\ n = [nri |-> n.nri, type |-> n.type, body |-> b] /\ n.type \in 1..23
        /\ b \in Seq(0..255) /\ l \in Nat \ {0}
    BY PathConstants
  <1>2. HeaderSize \in Nat \ {0} /\ MaxPayload \in Nat /\ F \in Nat \ {0}
        /\ F + 2 + HeaderSize = MaxPayload
    BY PathConstants
  <1>3. CASE 1 + l <= MaxPayload
    <2>1. Fragment(n) = <<WholeNal(n)>>
      BY <1>3 DEF Fragment
    <2>2. Len(<<WholeNal(n)>>) = 1 /\ DOMAIN <<WholeNal(n)>> = {1} /\ <<WholeNal(n)>>[1] = WholeNal(n)
      OBVIOUS
    <2>3. PayloadSize(WholeNal(n)) = l + 1
      <3>1. WholeNal(n).type = n.type /\ WholeNal(n).body = b
        BY DEF WholeNal
      <3>2. n.type # FuA
        BY <1>1 DEF FuA
      <3> QED  BY <3>1, <3>2 DEF PayloadSize
    <2>4. l + 1 <= MaxPayload
      BY <1>1, <1>2, <1>3
    <2> HIDE DEF l
    <2> QED  BY <2>1, <2>2, <2>3, <2>4
  <1>4. CASE ~(1 + l <= MaxPayload)
    <2> DEFINE c == Chunks(b)
               m == (l + F - 1) \div F
               p(k) == [nri |-> n.nri, type |-> FuA,
                        fu |-> <<k = 1, k = Len(c), n.type>>, body |-> c[k]]
    <2>1. /\ m \in Nat \ {0} /\ Len(c) = m /\ DOMAIN c = 1..m
          /\ \A k \in 1..m :
               /\ c[k] = SubSeq(b, (k - 1) * F + 1, IF k = m THEN l ELSE k * F)
               /\ Len(c[k]) \in 1..F
      BY <1>1, ChunkFacts
    <2>2. Fragment(n) = [k \in 1..m |-> p(k)]
      BY <1>4, <2>1 DEF Fragment
    <2>3. /\ (m - 1) * F < l /\ l <= m * F
          /\ \A k \in 1..m : (k - 1) * F \in Nat /\ k * F = (k - 1) * F + F
          /\ \A k \in 1..(m - 1) : k * F < l
      <3> HIDE DEF l, F
      <3> QED  BY <1>1, <1>2, ChunkBounds
    <2> HIDE DEF c, m
    <2>4. m # 1
      <3>1. m = 1 => m * F = F
        BY <1>2
      <3> QED  BY <1>1, <1>2, <1>4, <2>3, <3>1
    <2>5. \A k \in 1..m : /\ p(k).nri = n.nri /\ p(k).type = FuA /\ p(k).body = c[k]
                          /\ p(k).fu[3] = n.type
      OBVIOUS
    <2> HIDE DEF p
    <2>6. \A k \in 1..m : Fragment(n)[k] = p(k)
      BY <2>2
    <2>7. DOMAIN Fragment(n) = 1..m /\ Len(Fragment(n)) = m
      <3> DEFINE T == {p(k) : k \in 1..m}
      <3>1. Fragment(n) \in [1..m -> T]
        BY <2>2
      <3> HIDE DEF T
      <3> QED  BY <2>1, <3>1, ListIsSeq
    <2>8. ASSUME NEW k \in 1..m PROVE PayloadSize(Fragment(n)[k]) <= MaxPayload
      <3>1. Fragment(n)[k].type = FuA /\ Fragment(n)[k].body = c[k]
        BY <2>5, <2>6
      <3>2. PayloadSize(Fragment(n)[k]) = Len(c[k]) + 2
        BY <3>1 DEF PayloadSize
      <3>3. Len(c[k]) \in 1..F
        BY <2>1
      <3> DEFINE x == Len(c[k])
      <3> HIDE DEF x, F
      <3>4. x + 2 <= MaxPayload
        BY <1>2, <3>3 DEF x
      <3> QED  BY <3>2, <3>4 DEF x
    <2> DEFINE q == [k \in DOMAIN Fragment(n) |-> Fragment(n)[k].body]
               e == [k \in 0..m |-> IF k = m THEN l ELSE k * F]
    <2>9. q = c
      <3>1. q = [k \in 1..m |-> c[k]]
        BY <2>5, <2>6, <2>7
      <3>2. c \in [1..m -> {c[k] : k \in 1..m}]
        <4>1. c \in Seq(Seq(0..255))
          BY <1>1, ChunkFacts DEF c
        <4>2. c \in [1..Len(c) -> Seq(0..255)]
          BY <4>1, LenProperties
        <4> QED  BY <2>1, <4>2
      <3> QED  BY <3>1, <3>2
    <2>10. FlattenSeq(c) = b
      <3>1. Len(b) = l
        OBVIOUS
      <3> HIDE DEF l, F
      <3>2. e \in [0..m -> 0..l]
        <4>1. ASSUME NEW k \in 0..m PROVE (IF k = m THEN l ELSE k * F) \in 0..l
          <5>1. CASE k = m
            BY <1>1, <5>1
          <5>2. CASE k = 0
            <6>1. 0 * F = 0
              BY <1>2
            <6> QED  BY <1>1, <5>2, <6>1
          <5>3. CASE k \in 1..(m - 1)
            <6>1. k * F < l /\ (k - 1) * F \in Nat /\ k * F = (k - 1) * F + F /\ k # m
              BY <2>1, <2>3, <5>3
            <6>2. k * F \in Nat
              BY <1>2, <6>1
            <6> QED  BY <1>1, <6>1, <6>2
          <5> QED  BY <2>1, <5>1, <5>2, <5>3
        <4> QED  BY <4>1
      <3>3. e[0] = 0 /\ e[m] = l
        <4>1. 0 \in 0..m /\ m \in 0..m /\ 0 # m /\ 0 * F = 0
          BY <1>2, <2>1
        <4> QED  BY <4>1
      <3>4. ASSUME NEW k \in 1..m
            PROVE  e[k - 1] <= e[k] /\ c[k] = SubSeq(b, e[k - 1] + 1, e[k])
        <4>1. k - 1 \in 0..m /\ k \in 0..m /\ k - 1 # m
          BY <2>1
        <4>2. e[k - 1] = (k - 1) * F /\ e[k] = IF k = m THEN l ELSE k * F
          BY <4>1
        <4>3. c[k] = SubSeq(b, (k - 1) * F + 1, IF k = m THEN l ELSE k * F)
          BY <2>1 DEF l, F
        <4>4. (k - 1) * F <= IF k = m THEN l ELSE k * F
          <5>1. CASE k = m
            <6>1. (k - 1) * F < l /\ (k - 1) * F \in Nat
              BY <2>3, <5>1
            <6> QED  BY <1>1, <5>1, <6>1
          <5>2. CASE k # m
            <6>1. (k - 1) * F \in Nat /\ k * F = (k - 1) * F + F
              BY <2>3
            <6> DEFINE x == (k - 1) * F
            <6> HIDE DEF x
            <6>2. x <= x + F
              BY <1>2, <6>1 DEF x
            <6> QED  BY <5>2, <6>1, <6>2 DEF x
          <5> QED  BY <5>1, <5>2
        <4> HIDE DEF e
        <4> QED  BY <4>2, <4>3, <4>4
      <3> HIDE DEF e
      <3> DEFINE T == 0..255
                 w == b
      <3>5. w \in Seq(T) /\ Len(w) = l /\ w = b
        BY <1>1, <3>1
      <3> HIDE DEF T, w
      <3>6. e \in [0..m -> 0..Len(w)] /\ e[0] = 0 /\ e[m] = Len(w)
        BY <3>2, <3>3, <3>5
      <3>7. \A k \in 1..m : e[k - 1] <= e[k] /\ c[k] = SubSeq(w, e[k - 1] + 1, e[k])
        BY <3>4, <3>5
      <3>8. CutInto(w, c, e) /\ Len(c) \in Nat \ {0}
        BY <2>1, <3>6, <3>7 DEF CutInto
      <3>9. FlattenSeq(c) = w
        BY <3>5, <3>8, FlattenPieces
      <3> QED  BY <3>5, <3>9
    <2>11. Fragment(n)[1].nri = n.nri /\ Fragment(n)[1].fu[3] = n.type
      <3>1. 1 \in 1..m
        BY <2>1
      <3> QED  BY <2>5, <2>6, <3>1
    <2>12. Defragment(Fragment(n)) = [nri |-> n.nri, type |-> n.type, body |-> b]
      <3>1. Defragment(Fragment(n)) = [nri |-> Fragment(n)[1].nri, type |-> Fragment(n)[1].fu[3],
                                       body |-> FlattenSeq(q)]
        BY DEF Defragment
      <3> HIDE DEF q, b
      <3> QED  BY <2>9, <2>10, <2>11, <3>1 DEF b
    <2> QED  BY <1>1, <2>4, <2>7, <2>8, <2>12
  <1> QED  BY <1>3, <1>4

\* When every SendTo succeeds, the new packets carry the fragments in order.
LEMMA WholeSend ==
  ASSUME PathInv, NEW n \in Nal, SendVideoFrame(n, DOMAIN Fragment(n)), "video" \in known
  PROVE  LET l == Len(Fragment(n))
         IN  /\ Cardinality(NewPackets) = l
             /\ \A i \in 1..l : PayloadAt(i) = Fragment(n)[i]
  <1> DEFINE f == Fragment(n)
             l == Len(f)
             ok == DOMAIN f
             sizes == [i \in DOMAIN f |-> PayloadSize(f[i])]
             acc == Accepted("video", sizes, ok)
             marked == TRUE
             t == ts["video"]
             P(i) == PacketOf("video", f, acc, t, marked, i)
             s == seq["video"]
  <1>1. SendPackets("video", f, sizes, ok, t, marked)
    BY DEF SendVideoFrame
  <1>2. l \in Nat \ {0} /\ DOMAIN f = 1..l /\ l <= SeqSpace \div 2 + 1
    BY FragmentFacts
  <1>3. SeqSpace \in Nat \ {0} /\ l <= SeqSpace
    <2>1. SeqSpace \in Nat \ {0}
      BY PathConstants
    <2>2. SeqSpace \div 2 + 1 <= SeqSpace \/ SeqSpace = 1
      BY <2>1
    <2> HIDE DEF l
    <2> QED  BY <1>2, <2>1, <2>2
  <1>4. acc = 1..l
    <2>1. \A i \in 1..l : sizes[i] <= MaxPayload
      BY <1>2, FragmentsFit
    <2> QED  BY <1>2, <2>1 DEF Accepted
  <1>5. \A i \in 1..l : Rank(acc, i) = i - 1
    <2> SUFFICES ASSUME NEW i \in 1..l PROVE Rank(1..l, i) = i - 1
      BY <1>4
    <2> HIDE DEF l
    <2>1. {j \in 1..l : j < i} = 1..(i - 1)
      BY <1>2
    <2>2. Cardinality(1..(i - 1)) = i - 1
      <3>1. i - 1 \in Nat /\ i - 1 \in Int /\ (i - 1 > 0 => (i - 1) - 1 + 1 = i - 1)
        BY <1>2
      <3>2. Cardinality(1..(i - 1)) = IF 1 > i - 1 THEN 0 ELSE (i - 1) - 1 + 1
        BY <3>1, FS_Interval
      <3> QED  BY <3>1, <3>2
    <2> QED  BY <2>1, <2>2 DEF Rank
  <1>6. \A i \in 1..l : P(i).seq = (s + i - 1) % SeqSpace /\ P(i).ts = t /\ P(i).payload = f[i]
    <2>1. \A i \in 1..l : P(i).seq = (s + Rank(acc, i)) % SeqSpace /\ P(i).ts = t /\ P(i).payload = f[i]
      BY DEF PacketOf
    <2>2. "video" \in Media /\ s \in 0..(SeqSpace - 1)
      BY DEF PathInv, Shape, Media
    <2>3. \A i \in 1..l : s + (i - 1) = s + i - 1
      BY <1>2, <1>3, <2>2
    <2> HIDE DEF P, acc, l, s
    <2> QED  BY <1>5, <2>1, <2>3
  <1>7. NewPackets = {P(i) : i \in 1..l}
    <2>1. wire' = Grown("video", PacketsOf("video", f, acc, t, marked))
      <3> HIDE DEF f, sizes, ok, acc, t, marked
      <3> QED  BY <1>1, SendEffect DEF acc
    <2>2. wire = [m \in Media |-> wire[m]] /\ "video" \in Media
      BY DEF PathInv, Shape, Media
    <2>3. wire'["video"] = wire["video"] \cup {P(i) : i \in acc}
      <3> HIDE DEF f, sizes, ok, acc, t, marked
      <3> QED  BY <2>1, <2>2 DEF Grown, PacketsOf
    <2>4. \A p \in wire["video"] : p.ts < t /\ p.ts \in Nat
      BY <2>2 DEF PathInv, Clocked, Shape, Packet
    <2> HIDE DEF P, l, t, acc
    <2>5. \A i \in acc : P(i) \notin wire["video"]
      BY <1>4, <1>6, <2>4
    <2> QED  BY <1>4, <2>3, <2>5 DEF NewPackets
  <1>8. s \in Int
    BY <1>3 DEF PathInv, Shape, Media
  <1> HIDE DEF P, l, s, f
  <1>9. \A i, j \in 1..l : (s + i - 1) % SeqSpace = (s + j - 1) % SeqSpace => i = j
    <2>1. ASSUME NEW i \in 1..l, NEW j \in 1..l, i < j
          PROVE  (s + i - 1) % SeqSpace # (s + j - 1) % SeqSpace
      <3> DEFINE x == s + j - 1
                 y == s + i - 1
                 d == j - i
      <3>1. x \in Int /\ y \in Int /\ x - y = d /\ d \in 1..(SeqSpace - 1)
        BY <1>2, <1>3, <1>8, <2>1
      <3> HIDE DEF x, y, d
      <3>2. ((x % SeqSpace) - (y % SeqSpace)) % SeqSpace = d % SeqSpace
        BY <1>3, <3>1, ModDifference
      <3>3. d % SeqSpace = d /\ 0 % SeqSpace = 0 /\ d # 0
        BY <1>3, <3>1, ModSmall
      <3>4. x % SeqSpace \in Int
        BY <1>3, <3>1
      <3>5. ASSUME y % SeqSpace = x % SeqSpace PROVE FALSE
        <4> DEFINE u == x % SeqSpace
        <4>1. (u - u) % SeqSpace = d /\ u \in Int
          BY <3>2, <3>3, <3>4, <3>5
        <4> HIDE DEF u
        <4>2. u - u = 0
          BY <4>1
        <4> QED  BY <3>3, <4>1, <4>2
      <3> QED  BY <3>5 DEF x, y
    <2>2. \A i, j \in 1..l : i < j \/ j < i \/ i = j
      BY <1>2
    <2> QED  BY <2>1, <2>2
  <1>10. Cardinality(NewPackets) = l
    <2> DEFINE g == [i \in 1..l |-> P(i)]
    <2>1. g \in Surjection(1..l, NewPackets)
      BY <1>7 DEF Surjection
    <2>2. g \in Injection(1..l, NewPackets)
      <3>1. \A i, j \in 1..l : g[i] = g[j] => i = j
        BY <1>6, <1>9
      <3>2. g \in [1..l -> NewPackets]
        BY <1>7
      <3> HIDE DEF g
      <3> QED  BY <3>1, <3>2 DEF Injection, IsInjective
    <2>3. IsFiniteSet(1..l) /\ Cardinality(1..l) = l
      <3>1. Cardinality(1..l) = (IF 1 > l THEN 0 ELSE l - 1 + 1) /\ IsFiniteSet(1..l)
        BY <1>2, FS_Interval
      <3> QED  BY <1>2, <3>1
    <2> HIDE DEF g
    <2> QED  BY <2>1, <2>2, <2>3, FS_Surjection
  <1>11. ASSUME NEW i \in 1..l PROVE PayloadAt(i) = f[i]
    <2> DEFINE x == (s + i - 1) % SeqSpace
               c == CHOOSE p \in NewPackets : p.seq = x
    <2>1. PayloadAt(i) = c.payload
      BY DEF PayloadAt, s
    <2>2. P(i) \in NewPackets /\ P(i).seq = x
      BY <1>6, <1>7
    <2> HIDE DEF x
    <2>3. c \in NewPackets /\ c.seq = x
      BY <2>2
    <2> HIDE DEF c
    <2>4. PICK j \in 1..l : c = P(j)
      BY <1>7, <2>3
    <2>5. j = i
      BY <1>6, <1>9, <2>3, <2>4 DEF x
    <2> QED  BY <1>6, <2>1, <2>4, <2>5
  <1> QED  BY <1>10, <1>11 DEF l, f

(***************************************************************************)
(* Theorems                                                                *)
(***************************************************************************)
\* What the runs of the media path check follows from its inductive invariant.
THEOREM ReportsInvariant == ReportsSpec => []ReportsInv
  <1>1. ReportsInit => ReportsInv
    BY PathInvAtStart DEF ReportsInit, ReportsInv, CompoundKnown, StatsKnown
  <1>2. ReportsInv /\ [ReportsNext]_reportVars => ReportsInv'
    BY ReportsStep
  <1> QED  BY <1>1, <1>2, PTL DEF ReportsSpec

\* SendPacket and Serialize: the sequence numbers that are out are consecutive
\* from 0 and wrap around, whatever was refused or failed in between.
THEOREM NumbersHaveNoHoles == ReportsSpec => []SequenceCountsSent
  <1>1. ReportsInv => SequenceCountsSent
    BY DEF ReportsInv, PathInv
  <1> QED  BY <1>1, ReportsInvariant, PTL

\* SendVideoFrame marks the last fragment, and no packet of its frame has a
\* later number, also where the numbers wrap around.
THEOREM MarkersEndFrames == ReportsSpec => []MarkerEndsFrame
  <1>1. ReportsInv => MarkerEndsFrame
    BY DEF ReportsInv, PathInv
  <1> QED  BY <1>1, ReportsInvariant, PTL

\* Parse reads everything the builders of RtcpHandler put together: sender
\* reports without blocks, and as many blocks as five bits count.
THEOREM CompoundsAreRead == ReportsSpec => []CompoundsParse
  <1>1. ReportsInv => CompoundsParse
    BY KnownIsParsed DEF ReportsInv
  <1> QED  BY <1>1, ReportsInvariant, PTL

\* Types of the path and its reports: what UpdateFromReport stored is one block
\* of one report, and no packet is larger than a datagram may be.
THEOREM ReportsTyped == ReportsSpec => []ReportsTypeOK
  <1>1. ReportsInv => ReportsTypeOK
    <2> SUFFICES ASSUME ReportsInv PROVE ReportsTypeOK
      OBVIOUS
    <2>1. Shape /\ Clocked /\ Fitting /\ informed \in BOOLEAN /\ StatsKnown
      BY DEF ReportsInv, PathInv
    <2>2. MaxFrames \in Nat
      BY PathConstants
    <2>3. "audio" \in Media /\ "video" \in Media /\ \A m \in Media : m = "audio" \/ m = "video"
      BY DEF Media
    <2>4. Len(frames["audio"]) \in Nat /\ Len(frames["video"]) \in Nat
      <3>1. frames["audio"] \in Seq(AacFrame) /\ frames["video"] \in Seq(Nal)
        BY <2>1 DEF Shape
      <3> QED  BY <3>1, LenProperties
    <2>5. ASSUME NEW m \in Media PROVE ts[m] \in 0..MaxFrames
      <3>1. ts[m] = Len(frames[m]) /\ Len(frames["audio"]) + Len(frames["video"]) <= MaxFrames
        BY <2>1 DEF Clocked
      <3> DEFINE x == Len(frames["audio"])
                 y == Len(frames["video"])
      <3>2. x \in Nat /\ y \in Nat /\ x + y <= MaxFrames /\ (ts[m] = x \/ ts[m] = y)
        BY <2>3, <2>4, <3>1
      <3> HIDE DEF x, y
      <3> QED  BY <2>2, <3>2
    <2>6. ASSUME NEW m \in Media
          PROVE  \A p \in wire[m] : p.seq \in 0..(SeqSpace - 1) /\ p.marker \in BOOLEAN
      BY <2>1 DEF Shape, Packet
    <2>7. PathTypeOK
      BY <2>1, <2>5, <2>6 DEF PathTypeOK, Shape, Fitting
    <2> QED  BY <2>1, <2>7 DEF ReportsTypeOK, StatsKnown
  <1> QED  BY <1>1, ReportsInvariant, PTL

\* OnRtcpTimer: a sender report counts the audio packets that are out and their
\* bytes, headers included.
THEOREM ReportsCount == ReportsSpec => ReportsCountTraffic
  <1>1. ReportsInv /\ [ReportsNext]_reportVars =>
          [OnRtcpTimer =>
             /\ compound'[6] = Cardinality(wire["audio"])
             /\ compound'[7] =
                  SumFunction([p \in wire["audio"] |-> Len(p.payload) + HeaderSize])
          ]_reportVars
    <2> SUFFICES ASSUME ReportsInv, OnRtcpTimer
                 PROVE  /\ compound'[6] = Cardinality(wire["audio"])
                        /\ compound'[7] =
                             SumFunction([p \in wire["audio"] |-> Len(p.payload) + HeaderSize])
      OBVIOUS
    <2>1. PICK n \in NameLengths :
            compound' = BuildCompound(AudioSsrc, n, Ntp, ts["audio"], sent["audio"], bytes["audio"])
      BY DEF OnRtcpTimer
    <2>2. n \in Nat
      BY ReportConstants
    <2>3. compound'[6] = sent["audio"] /\ compound'[7] = bytes["audio"]
      BY <2>1, <2>2, SenderParsed
    <2>4. /\ sent["audio"] = Cardinality(wire["audio"])
          /\ bytes["audio"] =
               SumFunction([p \in wire["audio"] |-> Len(p.payload) + HeaderSize])
      BY DEF ReportsInv, PathInv, Counted
    <2> QED  BY <2>3, <2>4
  <1> QED  BY <1>1, ReportsInvariant, PTL DEF ReportsSpec, ReportsCountTraffic

\* SendVideoFrame with every SendTo successful: the fragments are all there, and
\* Defragment makes the NAL unit of them again.
THEOREM FramesLeaveWhole == ReportsSpec => FrameLeavesWhole
  <1>1. ReportsInv /\ [ReportsNext]_reportVars =>
          [\A n \in Nal :
             SendVideoFrame(n, DOMAIN Fragment(n)) /\ "video" \in known =>
               LET k == Cardinality(NewPackets)
                   f == [i \in 1..k |-> PayloadAt(i)]
               IN  /\ k = Len(Fragment(n))
                   /\ IF k = 1 THEN f[1] = WholeNal(n) ELSE Defragment(f) = n]_pathVars
    <2> SUFFICES ASSUME ReportsInv, NEW n \in Nal,
                        SendVideoFrame(n, DOMAIN Fragment(n)), "video" \in known
                 PROVE  LET k == Cardinality(NewPackets)
                            f == [i \in 1..k |-> PayloadAt(i)]
                        IN  /\ k = Len(Fragment(n))
                            /\ IF k = 1 THEN f[1] = WholeNal(n) ELSE Defragment(f) = n
      OBVIOUS
    <2> DEFINE k == Cardinality(NewPackets)
               f == [i \in 1..k |-> PayloadAt(i)]
               l == Len(Fragment(n))
    <2>1. k = l /\ \A i \in 1..l : PayloadAt(i) = Fragment(n)[i]
      BY WholeSend DEF ReportsInv
    <2>2. l \in Nat \ {0} /\ DOMAIN Fragment(n) = 1..l
      BY FragmentFacts
    <2>3. /\ l = 1 => Fragment(n) = <<WholeNal(n)>>
          /\ l # 1 => Defragment(Fragment(n)) = n
      BY FragmentsFit
    <2>4. Fragment(n) = [i \in 1..l |-> Fragment(n)[i]]
      BY FragmentFacts
    <2> HIDE DEF k, l
    <2>5. f = Fragment(n)
      BY <2>1, <2>4
    <2> HIDE DEF f
    <2>6. k = 1 => f[1] = WholeNal(n)
      BY <2>1, <2>3, <2>5
    <2>7. k # 1 => Defragment(f) = n
      BY <2>1, <2>3, <2>5
    <2>8. k = l /\ IF k = 1 THEN f[1] = WholeNal(n) ELSE Defragment(f) = n
      BY <2>1, <2>6, <2>7
    <2> QED  BY <2>8 DEF k, l, f
  <1> QED  BY <1>1, ReportsInvariant, PTL DEF ReportsSpec, FrameLeavesWhole

\* Pack writes no AU-headers-length, and Unpack finds the data by it: of every
\* frame below 8192 bytes the decoder gets the two bytes of the size and all
\* but the last two bytes of the frame.
THEOREM UnpackShiftsFrame ==
  ASSUME NEW a \in Seq(0..255), Len(a) < 8192
  PROVE  \E g \in Seq(0..255) :
           /\ Unpack(Pack(a)) = <<g>> /\ Len(g) = Len(a)
           /\ \A i \in DOMAIN g : g[i] = IF i <= 2 THEN Pack(a)[i + 2] ELSE a[i - 2]
  <1> DEFINE T == 0..255
             L == Len(a)
             hi == (L \div 32) % 256
             lo == (L % 32) * 8
             h == <<0, 0, hi, lo>>
             b == h \o a
             g == SubSeq(b, 3, L + 2)
  <1>1. L \in Nat /\ L < 8192 /\ a \in Seq(T)
    OBVIOUS
  <1>2. hi \in T /\ lo \in T /\ hi * 32 + lo \div 8 = L
    <2> DEFINE q == L \div 32
               r == L % 32
    <2> HIDE DEF L
    <2>1. q \in 0..255 /\ q % 256 = q /\ r \in 0..31 /\ L = q * 32 + r
      BY <1>1
    <2>2. hi = q /\ lo = r * 8
      BY <2>1
    <2> HIDE DEF q, r, hi, lo
    <2>3. (r * 8) \div 8 = r /\ r * 8 \in 0..255
      BY <2>1
    <2> QED  BY <2>1, <2>2, <2>3
  <1>3. Pack(a) = b
    BY DEF Pack
  <1> HIDE DEF hi, lo
  <1>4. h \in Seq(T) /\ Len(h) = 4 /\ h[1] = 0 /\ h[2] = 0 /\ h[3] = hi /\ h[4] = lo
    BY <1>2
  <1> HIDE DEF T, h, L
  <1>5. /\ b \in Seq(T) /\ Len(b) = L + 4
        /\ \A i \in 1..(L + 4) : b[i] = IF i <= 4 THEN h[i] ELSE a[i - 4]
    <2>1. /\ b \in Seq(T) /\ Len(b) = Len(h) + Len(a)
          /\ \A i \in 1..(Len(h) + Len(a)) :
               b[i] = IF i <= Len(h) THEN h[i] ELSE a[i - Len(h)]
      <3>1. a \in Seq(T) /\ h \in Seq(T)
        BY <1>1, <1>4
      <3> QED  BY <3>1, ConcatProperties
    <2> HIDE DEF b
    <2>2. Len(h) = 4 /\ Len(a) = L /\ 4 + L = L + 4
      BY <1>1, <1>4 DEF L
    <2> QED  BY <2>1, <2>2
  <1> HIDE DEF b
  <1>6. b[1] = 0 /\ b[2] = 0 /\ b[3] = hi /\ b[4] = lo
    BY <1>1, <1>4, <1>5
  <1>7. (b[3] * 32 + b[4] \div 8) % 8192 = L /\ 2 + (b[1] * 256 + b[2]) \div 8 = 2
    <2>1. L % 8192 = L
      BY <1>1
    <2> QED  BY <1>2, <1>6, <2>1
  <1>8. Unpack(b) = <<g>>
    <2>1. ~(Len(b) < 4 \/ 2 + L > Len(b))
      BY <1>1, <1>5
    <2>2. 2 + 1 = 3 /\ 2 + L = L + 2
      BY <1>1
    <2> QED  BY <1>7, <2>1, <2>2 DEF Unpack
  <1>9. /\ g \in Seq(T) /\ Len(g) = L
        /\ \A i \in 1..L : g[i] = b[3 + i - 1]
    <2>1. \A i \in 3..(L + 2) : b[i] \in T
      <3>1. \A i \in 1..(L + 4) : b[i] \in T
        BY <1>1, <1>5
      <3> QED  BY <1>1, <3>1
    <2>2. L + 2 \in Int /\ 3 \in Int
      BY <1>1
    <2>3. /\ g \in Seq(T) /\ Len(g) = (IF 3 <= L + 2 THEN L + 2 - 3 + 1 ELSE 0)
          /\ \A i \in 1..(L + 2 - 3 + 1) : g[i] = b[3 + i - 1]
      <3> DEFINE e == L + 2
      <3>1. e \in Int /\ \A i \in 3..e : b[i] \in T
        BY <2>1, <2>2
      <3>2. g = SubSeq(b, 3, e)
        OBVIOUS
      <3> HIDE DEF e, g
      <3>3. /\ g \in Seq(T) /\ Len(g) = (IF 3 <= e THEN e - 3 + 1 ELSE 0)
            /\ \A i \in 1..(e - 3 + 1) : g[i] = b[3 + i - 1]
        BY <3>1, <3>2, <2>2, SubSeqProperties
      <3> QED  BY <1>1, <3>3 DEF e
    <2> HIDE DEF g
    <2>4. L + 2 - 3 + 1 = L /\ (~(3 <= L + 2) => L = 0)
      BY <1>1
    <2> QED  BY <2>3, <2>4
  <1> HIDE DEF g
  <1>10. \A i \in 1..L : g[i] = IF i <= 2 THEN b[i + 2] ELSE a[i - 2]
    <2> SUFFICES ASSUME NEW i \in 1..L
                 PROVE  g[i] = IF i <= 2 THEN b[i + 2] ELSE a[i - 2]
      OBVIOUS
    <2>1. /\ 3 + i - 1 = i + 2 /\ i + 2 \in 1..(L + 4) /\ i + 2 - 4 = i - 2
          /\ i <= 2 \/ ~(i + 2 <= 4)
      BY <1>1
    <2>2. g[i] = b[i + 2]
      BY <1>9, <2>1
    <2> QED  BY <1>5, <2>1, <2>2
  <1>11. DOMAIN g = 1..L
    BY <1>9
  <1>12. \A i \in DOMAIN g :
           g[i] = IF i <= 2 THEN Pack(a)[i + 2] ELSE a[i - 2]
    BY <1>3, <1>10, <1>11
  <1>13. g \in Seq(0..255) /\ Len(g) = Len(a) /\ Unpack(Pack(a)) = <<g>>
    BY <1>3, <1>8, <1>9 DEF T, L
  <1> QED  BY <1>12, <1>13

=============================================================================
