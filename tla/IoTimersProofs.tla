--------------------------- MODULE IoTimersProofs ---------------------------
(***************************************************************************)
(* The timers of IoMultiplexer for all intervals, timeouts and numbers of  *)
(* timers and signals: none is late by more than the loop's waits explain, *)
(* none runs in bursts or once too often, and a removed one is quiet.      *)
(***************************************************************************)
EXTENDS IoTimers, NumberTheorems, SequenceTheorems

(***************************************************************************)
(* The constants                                                           *)
(***************************************************************************)
\* The assumptions, one constant at a time.
LEMMA TimerConstants ==
  /\ Interval \in Nat /\ Timeout \in Nat \ {0} /\ Delays \subseteq Nat /\ IsFiniteSet(Delays)
  /\ MaxTimers \in Nat /\ MaxSignals \in Nat /\ Busy \in Nat
  BY TimersAssumption DEF TimersAssumption

\* The time n interrupted waits take, with the rest of their rounds.
Cut(n) == n * (Timeout + Busy)

LEMMA CutTimes ==
  /\ Cut(0) = 0
  /\ \A n \in 0..MaxSignals : Cut(n) \in Nat /\ Cut(n) <= Cut(MaxSignals)
  /\ \A n \in 0..MaxSignals : Cut(n + 1) = Cut(n) + Timeout + Busy
  /\ Cut(MaxSignals) \in Nat
  /\ Lateness = Cut(MaxSignals) + Timeout + Busy + Busy
  <1> DEFINE h == Timeout + Busy
  <1>1. h \in Nat /\ Timeout \in Nat /\ Busy \in Nat /\ MaxSignals \in Nat
    BY TimerConstants
  <1>2. Lateness = (MaxSignals + 1) * h + Busy
    BY DEF Lateness
  <1>3. h = Timeout + Busy
    OBVIOUS
  <1> HIDE DEF h
  <1>4. \A n \in Nat : n * h \in Nat /\ (n + 1) * h = n * h + h
    BY <1>1
  <1>5. \A n \in 0..MaxSignals : n * h <= MaxSignals * h
    <2> SUFFICES ASSUME NEW n \in 0..MaxSignals PROVE n * h <= MaxSignals * h
      OBVIOUS
    <2>1. MaxSignals - n \in Nat /\ n \in Nat
      BY <1>1
    <2> DEFINE r == MaxSignals - n
    <2>2. MaxSignals = n + r
      BY <1>1
    <2> HIDE DEF r
    <2>3. MaxSignals * h = n * h + r * h
      BY <1>1, <2>1, <2>2 DEF r
    <2>4. r * h \in Nat /\ n * h \in Nat
      BY <1>4, <2>1 DEF r
    <2> QED  BY <2>3, <2>4
  <1>6. \A n : Cut(n) = n * h
    BY DEF Cut, h
  <1>7. 0 * h = 0
    BY <1>1
  <1>8. \A n \in 0..MaxSignals : n \in Nat
    BY <1>1
  <1>9. \A n \in 0..MaxSignals : Cut(n + 1) = Cut(n) + Timeout + Busy
    <2> SUFFICES ASSUME NEW n \in 0..MaxSignals PROVE Cut(n + 1) = Cut(n) + Timeout + Busy
      OBVIOUS
    <2>1. n \in Nat /\ (n + 1) * h = n * h + h /\ n * h \in Nat
      BY <1>4, <1>8
    <2> QED  BY <1>1, <1>3, <1>6, <2>1
  <1>10. Lateness = Cut(MaxSignals) + Timeout + Busy + Busy
    <2>1. (MaxSignals + 1) * h = MaxSignals * h + h /\ MaxSignals * h \in Nat
      BY <1>1, <1>4
    <2> QED  BY <1>1, <1>2, <1>3, <1>6, <2>1
  <1> QED  BY <1>1, <1>4, <1>5, <1>6, <1>7, <1>8, <1>9, <1>10

\* Span is longer than any interval and than any timer may be late.
LEMMA SpanBounds ==
  /\ Lateness \in Nat /\ Span \in Nat
  /\ \A e \in {Interval} \cup Delays : e \in Nat /\ Busy + e <= Span
  /\ Busy + Lateness + 1 <= Span
  <1> DEFINE S == {Interval, Lateness + 1} \cup Delays
  <1>1. Lateness \in Nat /\ Busy \in Nat
    BY CutTimes, TimerConstants
  <1>2. S \subseteq Nat /\ S # {} /\ IsFiniteSet(S)
    <2>1. IsFiniteSet({Interval})
      BY FS_Singleton
    <2>2. IsFiniteSet({Interval} \cup {Lateness + 1})
      BY <2>1, FS_AddElement
    <2>3. IsFiniteSet(({Interval} \cup {Lateness + 1}) \cup Delays)
      BY <2>2, TimerConstants, FS_Union
    <2>4. S = ({Interval} \cup {Lateness + 1}) \cup Delays
      OBVIOUS
    <2> QED  BY <1>1, <2>3, <2>4, TimerConstants
  <1>3. PICK n \in S : \A m \in S : m <= n
    <2> HIDE DEF S
    <2> QED  BY <1>2, GreatestNat
  <1>4. Longest(S) \in S /\ \A m \in S : m <= Longest(S)
    <2> HIDE DEF S
    <2> QED  BY <1>3 DEF Longest
  <1>5. Span = Busy + Longest(S)
    BY DEF Span
  <1>6. \A e \in {Interval} \cup Delays : e \in Nat
    BY TimerConstants
  <1>7. Longest(S) \in Nat /\ \A e \in {Interval} \cup Delays : e <= Longest(S)
    BY <1>2, <1>4
  <1>8. Lateness + 1 <= Longest(S)
    BY <1>4
  <1> HIDE DEF S
  <1> QED  BY <1>1, <1>5, <1>6, <1>7, <1>8
(***************************************************************************)
(* The vector                                                              *)
(***************************************************************************)
\* What is kept of the timers is some of them, in the order they had.
LEMMA KeptFacts ==
  ASSUME NEW T, timers \in Seq(T), NEW I \in SUBSET (DOMAIN timers)
  PROVE  /\ Kept(I) \in Seq(T)
         /\ Len(Kept(I)) \in Nat /\ Len(Kept(I)) <= Len(timers)
         /\ DOMAIN Kept(I) = 1..Len(Kept(I))
         /\ \E f \in [DOMAIN Kept(I) -> I] :
              /\ \A k \in DOMAIN f : Kept(I)[k] = timers[f[k]]
              /\ \A a, b \in DOMAIN f : a < b => f[a] < f[b]
  <1> DEFINE n == Cardinality(I)
             Ordered(g) == \A a, b \in DOMAIN g : a < b => g[a] < g[b]
             f == CHOOSE g \in [1..n -> I] : Ordered(g)
  <1>1. DOMAIN timers = 1..Len(timers) /\ Len(timers) \in Nat /\ I \subseteq Nat
    BY LenProperties
  <1>2. IsFiniteSet(1..Len(timers)) /\ Cardinality(1..Len(timers)) = Len(timers)
    <2>1. /\ IsFiniteSet(1..Len(timers))
          /\ Cardinality(1..Len(timers)) = IF 1 > Len(timers) THEN 0 ELSE Len(timers) - 1 + 1
      BY <1>1, FS_Interval
    <2> QED  BY <1>1, <2>1
  <1>3. IsFiniteSet(I) /\ n \in Nat /\ n <= Len(timers)
    <2>1. I \in SUBSET (1..Len(timers))
      BY <1>1
    <2> QED  BY <1>2, <2>1, FS_Subset, FS_CardinalityType
  <1>4. f \in [1..n -> I] /\ Ordered(f)
    <2>1. \E g \in [1..n -> I] : Ordered(g)
      BY <1>1, <1>3, Listed
    <2> HIDE DEF n, Ordered
    <2> QED  BY <2>1
  <1>5. Kept(I) = [k \in DOMAIN f |-> timers[f[k]]]
    BY DEF Kept
  <1> HIDE DEF f
  <1>6. \A k \in 1..n : timers[f[k]] \in T
    <2> HIDE DEF n
    <2> QED  BY <1>1, <1>4, LenProperties
  <1>7. Kept(I) = [k \in 1..n |-> timers[f[k]]] /\ Kept(I) \in [1..n -> T]
    <2> HIDE DEF n, Ordered
    <2> QED  BY <1>4, <1>5, <1>6
  <1>8. Kept(I) \in Seq(T)
    <2> HIDE DEF n
    <2> QED  BY <1>3, <1>7, SeqDef
  <1>9. Len(Kept(I)) = n /\ DOMAIN Kept(I) = 1..n
    <2>1. DOMAIN Kept(I) = 1..n /\ DOMAIN Kept(I) = 1..Len(Kept(I)) /\ Len(Kept(I)) \in Nat
      <3> HIDE DEF n
      <3> QED  BY <1>7, <1>8, LenProperties
    <2> HIDE DEF n
    <2> QED  BY <1>3, <2>1
  <1>10. \A k \in 1..n : Kept(I)[k] = timers[f[k]]
    <2> HIDE DEF n
    <2> QED  BY <1>7
  <1> HIDE DEF n
  <1>11. f \in [DOMAIN Kept(I) -> I] /\ DOMAIN f = 1..n
    BY <1>4, <1>9
  <1> QED  BY <1>3, <1>4, <1>8, <1>9, <1>10, <1>11
(***************************************************************************)
(* The inductive invariant                                                 *)
(***************************************************************************)
Timer == [id : TimerId, every : {Interval} \cup Delays, recurring : BOOLEAN,
          left : -Lateness - 1 .. Never]

Labels == {"off", "born", "top", "wait", "clock", "lock", "sweep", "call", "dispatch"}

Fields ==
  /\ timers \in Seq(Timer) /\ Len(timers) < nextId /\ nextId \in 1..MaxTimers + 1
  /\ running \in BOOLEAN
  /\ loop \in [pc : Labels, at : Nat \ {0}, age : Nat]
  /\ spent \in Nat /\ signals \in 0..MaxSignals
  /\ removed \subseteq TimerId /\ shots \in [TimerId -> 0..2]
  /\ rest \in [TimerId -> 0..Span] /\ up \in 0..Lateness + 1 /\ halt \in 0..Span

\* Ids are handed out in the order of the vector and never again.
Ordered ==
  /\ \A k \in DOMAIN timers :
       /\ timers[k].id < nextId /\ timers[k].id \notin removed
       /\ \A j \in 1..k - 1 : timers[j].id < timers[k].id
  /\ \A i \in removed : i < nextId

\* How far the loop's clocks can be at each label.
Clocks ==
  /\ At("wait") => spent <= Timeout
  /\ InRun /\ ~At("wait") => spent <= Busy
  /\ ~InRun => spent = 0
  /\ ~At("wait") /\ ~At("top") => signals = 0
  /\ IF loop.pc \in {"lock", "sweep", "call"} THEN loop.age <= spent ELSE loop.age = 0
  /\ IF MutexFree THEN loop.at = 1 ELSE loop.at <= Len(timers) + 1
  /\ At("call") => loop.at <= Len(timers)

\* A one-shot timer has not run, or has just run in the sweep that will erase it.
Once ==
  /\ \A i \in TimerId : i >= nextId => shots[i] = 0
  /\ \A k \in DOMAIN timers :
       ~timers[k].recurring =>
         \/ shots[timers[k].id] = 0 /\ timers[k].left # Never
         \/ ~MutexFree /\ k < loop.at /\ timers[k].left = Never
         \/ At("call") /\ k = loop.at

\* How late a timer may be, from where the loop is.
Allowed ==
  CASE At("wait") -> Busy + Cut(signals) + spent
    [] At("top") -> Cut(signals) + spent
    [] loop.pc \in {"clock", "lock", "sweep", "call"} -> Busy + Cut(MaxSignals) + Timeout + spent
    [] At("dispatch") -> spent
    [] OTHER -> Lateness

Late ==
  /\ ~MutexFree => \A k \in DOMAIN timers : k < loop.at => timers[k].left >= -loop.age
  /\ up <= Allowed \/ \A k \in DOMAIN timers : timers[k].left >= -Allowed

\* The time since Stop, from where the loop is.
Halting ==
  InRun /\ ~running => halt <= IF At("wait") THEN spent ELSE Timeout + spent

\* A timer that waits will not be due before its interval is over.
Rested ==
  \A k \in DOMAIN timers :
    timers[k].left # Never =>
      \/ rest[timers[k].id] = Span
      \/ rest[timers[k].id] + timers[k].left >= timers[k].every

TimersInv == Fields /\ Ordered /\ Clocks /\ Once /\ Late /\ Halting /\ Rested

(***************************************************************************)
(* What the actions do to the vector                                       *)
(***************************************************************************)
LEMMA TimerRange ==
  /\ {Interval} \cup Delays \subseteq -Lateness - 1 .. Never
  /\ Never \in -Lateness - 1 .. Never /\ Never = Span + 1
  /\ \A e \in {Interval} \cup Delays, a \in 0..Busy : e - a \in -Lateness - 1 .. Never
  <1>1. Lateness \in Nat /\ Span \in Nat /\ Busy \in Nat /\ Never = Span + 1
    BY SpanBounds, TimerConstants DEF Never
  <1>2. \A e \in {Interval} \cup Delays : e \in Nat /\ e <= Span
    BY <1>1, SpanBounds
  <1>3. Busy <= Lateness
    <2>1. Lateness = Cut(MaxSignals) + Timeout + Busy + Busy /\ Cut(MaxSignals) \in Nat
      BY CutTimes
    <2> QED  BY <2>1, TimerConstants
  <1> QED  BY <1>1, <1>2, <1>3

LEMMA PushedFacts ==
  ASSUME Fields, NEW e \in {Interval} \cup Delays, NEW r \in BOOLEAN, nextId <= MaxTimers
  PROVE  /\ Pushed(e, r) \in Seq(Timer)
         /\ Len(Pushed(e, r)) = Len(timers) + 1 /\ Len(timers) \in Nat
         /\ DOMAIN timers = 1..Len(timers) /\ DOMAIN Pushed(e, r) = 1..Len(timers) + 1
         /\ \A k \in DOMAIN timers : Pushed(e, r)[k] = timers[k]
         /\ Pushed(e, r)[Len(timers) + 1] =
              [id |-> nextId, every |-> e, recurring |-> r, left |-> e]
  <1> DEFINE t == [id |-> nextId, every |-> e, recurring |-> r, left |-> e]
  <1>1. t \in Timer
    <2>1. nextId \in TimerId
      BY TimerConstants DEF Fields, TimerId
    <2>2. e \in -Lateness - 1 .. Never
      BY TimerRange
    <2> QED  BY <2>1, <2>2 DEF Timer
  <1>2. timers \in Seq(Timer) /\ Pushed(e, r) = Append(timers, t)
    BY DEF Fields, Pushed
  <1> HIDE DEF t
  <1>3. /\ Append(timers, t) \in Seq(Timer) /\ Len(Append(timers, t)) = Len(timers) + 1
        /\ DOMAIN timers = 1..Len(timers) /\ Len(timers) \in Nat
        /\ DOMAIN Append(timers, t) = 1..Len(timers) + 1
        /\ \A k \in 1..Len(timers) : Append(timers, t)[k] = timers[k]
        /\ Append(timers, t)[Len(timers) + 1] = t
    BY <1>1, <1>2
  <1> QED  BY <1>2, <1>3 DEF t

\* The timer the loop is at gets its next time; nothing else changes.
LEMMA RearmedFacts ==
  ASSUME Fields, Clocks, CallbackReturns
  PROVE  /\ loop.at \in DOMAIN timers /\ loop.at \in Nat /\ Reached = timers[loop.at]
         /\ Reached \in Timer
         /\ timers' \in Seq(Timer) /\ Len(timers') = Len(timers) /\ Len(timers) \in Nat
         /\ DOMAIN timers = 1..Len(timers) /\ DOMAIN timers' = DOMAIN timers
         /\ \A k \in DOMAIN timers :
              /\ k # loop.at => timers'[k] = timers[k]
              /\ timers'[k].id = timers[k].id
              /\ timers'[k].every = timers[k].every
              /\ timers'[k].recurring = timers[k].recurring
         /\ timers'[loop.at].left = IF Reached.recurring THEN Reached.every - loop.age ELSE Never
         /\ loop.age \in 0..Busy
  <1> DEFINE l == IF Reached.recurring THEN Reached.every - loop.age ELSE Never
             n == loop.at
  <1>1. /\ timers \in Seq(Timer) /\ DOMAIN timers = 1..Len(timers) /\ Len(timers) \in Nat
        /\ loop.at \in DOMAIN timers /\ loop.at \in Nat
    BY LenProperties DEF Fields, Clocks, CallbackReturns, At
  <1>2. Reached \in Timer /\ Reached = timers[loop.at]
    BY <1>1, ElementOfSeq DEF Reached
  <1>3. loop.age \in 0..Busy
    BY TimerConstants DEF CallbackReturns, Fields, Clocks, At, InRun
  <1>4. l \in -Lateness - 1 .. Never
    <2>1. Reached.every \in {Interval} \cup Delays
      BY <1>2 DEF Timer
    <2> QED  BY <1>3, <2>1, TimerRange
  <1>5. timers' = [timers EXCEPT ![loop.at].left = l]
    BY DEF CallbackReturns, Rearmed
  <1> HIDE DEF l
  <1> DEFINE t == [timers[n] EXCEPT !.left = l]
  <1>6. /\ t \in Timer /\ t.left = l /\ t.id = timers[n].id /\ t.every = timers[n].every
        /\ t.recurring = timers[n].recurring
    BY <1>2, <1>4 DEF Timer
  <1>7. timers' = [timers EXCEPT ![n] = t]
    BY <1>5
  <1> HIDE DEF t, n
  <1>8. n \in 1..Len(timers)
    BY <1>1 DEF n
  <1>9. /\ timers' \in Seq(Timer) /\ Len(timers') = Len(timers)
        /\ \A j \in 1..Len(timers) : timers'[j] = IF j = n THEN t ELSE timers[j]
    BY <1>1, <1>6, <1>7, <1>8, ExceptSeq
  <1>10. DOMAIN timers' = 1..Len(timers')
    BY <1>9, LenProperties
  <1> QED  BY <1>1, <1>2, <1>3, <1>6, <1>8, <1>9, <1>10 DEF n, l

LEMMA TickFacts ==
  ASSUME Fields, Tick
  PROVE  /\ timers' \in Seq(Timer) /\ Len(timers') = Len(timers) /\ Len(timers) \in Nat
         /\ DOMAIN timers = 1..Len(timers) /\ DOMAIN timers' = DOMAIN timers
         /\ \A k \in DOMAIN timers :
              /\ timers[k] \in Timer /\ timers'[k] \in Timer
              /\ timers'[k].id = timers[k].id
              /\ timers'[k].every = timers[k].every
              /\ timers'[k].recurring = timers[k].recurring
              /\ timers'[k].left = Never <=> timers[k].left = Never
              /\ timers'[k].left >= timers[k].left - 1
  <1> DEFINE t(k) == IF timers[k].left = Never THEN timers[k]
                     ELSE [timers[k] EXCEPT !.left = AtLeast(@ - 1, -Lateness - 1)]
  <1>1. timers \in Seq(Timer) /\ DOMAIN timers = 1..Len(timers) /\ Len(timers) \in Nat
    BY LenProperties DEF Fields
  <1>2. timers' = [k \in DOMAIN timers |-> t(k)]
    BY DEF Tick
  <1>3. ASSUME NEW k \in DOMAIN timers
        PROVE  /\ timers[k] \in Timer /\ t(k) \in Timer
               /\ t(k).id = timers[k].id
               /\ t(k).every = timers[k].every
               /\ t(k).recurring = timers[k].recurring
               /\ t(k).left = Never <=> timers[k].left = Never
               /\ t(k).left >= timers[k].left - 1
    <2>1. timers[k] \in Timer
      BY <1>1, ElementOfSeq
    <2> DEFINE m == timers[k]
    <2> HIDE DEF m
    <2>2. Lateness \in Nat /\ Never \in Nat
      BY SpanBounds DEF Never
    <2>3. m \in Timer /\ m.left \in -Lateness - 1 .. Never
      BY <2>1 DEF m, Timer
    <2>4. CASE m.left = Never
      <3>1. t(k) = m
        BY <2>4 DEF m
      <3>2. m.left >= m.left - 1
        BY <2>2, <2>3
      <3> QED  BY <2>3, <3>1, <3>2, Zenon DEF m
    <2>5. CASE m.left # Never
      <3> DEFINE a == AtLeast(m.left - 1, -Lateness - 1)
      <3>1. a \in -Lateness - 1 .. Never /\ a # Never /\ a >= m.left - 1
        BY <2>2, <2>3, <2>5 DEF AtLeast
      <3>2. t(k) = [m EXCEPT !.left = a]
        BY <2>5 DEF m
      <3> HIDE DEF a, t
      <3> DEFINE u == [m EXCEPT !.left = a]
      <3>3. u \in Timer /\ u.id = m.id /\ u.every = m.every /\ u.recurring = m.recurring /\ u.left = a
        BY <2>3, <3>1 DEF Timer
      <3> HIDE DEF u
      <3>4. t(k) = u
        BY <3>2 DEF u
      <3>5. u.left = Never <=> m.left = Never
        BY <2>5, <3>1, <3>3
      <3> QED  BY <2>3, <3>1, <3>3, <3>4, <3>5, Zenon DEF m
    <2> QED  BY <2>4, <2>5
  <1> HIDE DEF t
  <1>4. timers' \in [1..Len(timers) -> Timer]
    BY <1>1, <1>2, <1>3
  <1>5. timers' \in Seq(Timer)
    BY <1>1, <1>4, SeqDef
  <1>6. DOMAIN timers' = 1..Len(timers) /\ DOMAIN timers' = 1..Len(timers') /\ Len(timers') \in Nat
    BY <1>4, <1>5, LenProperties
  <1>7. Len(timers') = Len(timers)
    BY <1>1, <1>6
  <1>8. \A k \in DOMAIN timers : timers'[k] = t(k)
    BY <1>2
  <1> QED  BY <1>1, <1>3, <1>5, <1>6, <1>7, <1>8, Zenon

\* RemoveTimer and the erase keep some of the timers, in the order they had.
Thinned ==
  /\ timers' \in Seq(Timer) /\ Len(timers') \in Nat /\ Len(timers) \in Nat
  /\ Len(timers') <= Len(timers)
  /\ DOMAIN timers = 1..Len(timers) /\ DOMAIN timers' = 1..Len(timers')
  /\ \E f \in [DOMAIN timers' -> DOMAIN timers] :
       /\ \A k \in DOMAIN f : timers'[k] = timers[f[k]]
       /\ \A a, b \in DOMAIN f : a < b => f[a] < f[b]

LEMMA RemovedFacts ==
  ASSUME Fields, NEW i \in TimerId, RemoveTimer(i)
  PROVE  Thinned /\ \A k \in DOMAIN timers' : timers'[k].id # i
  <1> DEFINE I == {k \in DOMAIN timers : timers[k].id # i}
  <1>1. timers \in Seq(Timer) /\ DOMAIN timers = 1..Len(timers) /\ Len(timers) \in Nat
    BY LenProperties DEF Fields
  <1>2. timers' = Kept(I) /\ I \in SUBSET (DOMAIN timers)
    BY DEF RemoveTimer, Without
  <1>3. \A k \in I : timers[k].id # i
    OBVIOUS
  <1> HIDE DEF I
  <1>4. /\ timers' \in Seq(Timer) /\ Len(timers') \in Nat /\ Len(timers') <= Len(timers)
        /\ DOMAIN timers' = 1..Len(timers')
    BY <1>1, <1>2, KeptFacts
  <1>5. PICK f \in [DOMAIN timers' -> I] :
          /\ \A k \in DOMAIN f : timers'[k] = timers[f[k]]
          /\ \A a, b \in DOMAIN f : a < b => f[a] < f[b]
    BY <1>1, <1>2, KeptFacts
  <1>6. f \in [DOMAIN timers' -> DOMAIN timers]
    BY <1>2, <1>5
  <1> QED  BY <1>1, <1>3, <1>4, <1>5, <1>6 DEF Thinned

LEMMA SweptFacts ==
  ASSUME Fields, SweepDone
  PROVE  Thinned /\ \A k \in DOMAIN timers' : timers'[k].recurring \/ timers'[k].left # Never
  <1> DEFINE I == {k \in DOMAIN timers : timers[k].recurring \/ timers[k].left # Never}
  <1>1. timers \in Seq(Timer) /\ DOMAIN timers = 1..Len(timers) /\ Len(timers) \in Nat
    BY LenProperties DEF Fields
  <1>2. timers' = Kept(I) /\ I \in SUBSET (DOMAIN timers)
    BY DEF SweepDone
  <1>3. \A k \in I : timers[k].recurring \/ timers[k].left # Never
    OBVIOUS
  <1> HIDE DEF I
  <1>4. /\ timers' \in Seq(Timer) /\ Len(timers') \in Nat /\ Len(timers') <= Len(timers)
        /\ DOMAIN timers' = 1..Len(timers')
    BY <1>1, <1>2, KeptFacts
  <1>5. PICK f \in [DOMAIN timers' -> I] :
          /\ \A k \in DOMAIN f : timers'[k] = timers[f[k]]
          /\ \A a, b \in DOMAIN f : a < b => f[a] < f[b]
    BY <1>1, <1>2, KeptFacts
  <1>6. f \in [DOMAIN timers' -> DOMAIN timers]
    BY <1>2, <1>5
  <1>7. ASSUME NEW k \in DOMAIN timers' PROVE timers'[k].recurring \/ timers'[k].left # Never
    <2>1. f[k] \in I /\ timers'[k] = timers[f[k]]
      BY <1>5
    <2> QED  BY <1>3, <2>1
  <1> QED  BY <1>1, <1>4, <1>5, <1>6, <1>7 DEF Thinned
(***************************************************************************)
(* Every step keeps every part                                             *)
(***************************************************************************)
\* The steps that leave timers_, next_timer_id_ and the ghosts of RemoveTimer alone.
Elsewhere ==
  \/ Stop \/ EnterRun \/ EnterWait \/ LeaveRun \/ Awake \/ ReadClock \/ LockTimers
  \/ SkipTimer \/ CallTimer \/ Dispatched \/ Interrupted \/ WaitFails \/ UNCHANGED timerVars

\* A timer added: by a user, or by the loop's own thread.
Adding(e, r) ==
  /\ MutexFree /\ nextId <= MaxTimers
  /\ timers' = Pushed(e, r) /\ nextId' = nextId + 1
  /\ UNCHANGED <<running, spent, signals, removed, shots, rest, up, halt>>
  /\ \/ UNCHANGED loop
     \/ At("off") /\ loop' = [loop EXCEPT !.pc = "born"]

LEMMA StepKinds ==
  ASSUME [TimersNext]_timerVars
  PROVE  \/ \E e \in {Interval} \cup Delays, r \in BOOLEAN : Adding(e, r)
         \/ \E i \in TimerId : RemoveTimer(i)
         \/ CallbackReturns \/ SweepDone \/ Tick \/ Elsewhere
  <1>1. CASE \E d \in Delays, r \in BOOLEAN : AddTimer(d, r)
    BY <1>1 DEF AddTimer, Adding, ghosts
  <1>2. CASE RtpEventLoop
    <2>1. Adding(Interval, TRUE)
      BY <1>2 DEF RtpEventLoop, Adding, ghosts, MutexFree, At
    <2> QED  BY <2>1
  <1>3. CASE \E i \in TimerId : RemoveTimer(i)
    BY <1>3
  <1> QED
    BY <1>1, <1>2, <1>3 DEF TimersNext, UserNext, LoopStep, FireTimersNext, Elsewhere

LEMMA ElsewhereKeeps ==
  ASSUME Elsewhere
  PROVE  UNCHANGED <<timers, nextId, removed, rest>>
  BY DEF Elsewhere, Stop, EnterRun, EnterWait, LeaveRun, Awake, Turn, ReadClock, LockTimers,
         SkipTimer, CallTimer, Dispatched, Interrupted, WaitFails, ghosts, timerVars

\* The loop's record stays one whatever label it goes to.
LEMMA LoopFields ==
  ASSUME Fields
  PROVE  /\ loop \in [pc : Labels, at : Nat \ {0}, age : Nat]
         /\ loop.pc \in Labels /\ loop.at \in Nat \ {0} /\ loop.age \in Nat
         /\ \A p \in Labels :
              LET l == [loop EXCEPT !.pc = p]
              IN  /\ l \in [pc : Labels, at : Nat \ {0}, age : Nat]
                  /\ l.pc = p /\ l.at = loop.at /\ l.age = loop.age
         /\ LET l == [loop EXCEPT !.at = @ + 1]
            IN  /\ l \in [pc : Labels, at : Nat \ {0}, age : Nat]
                /\ l.pc = loop.pc /\ l.at = loop.at + 1 /\ l.age = loop.age
         /\ LET l == [loop EXCEPT !.pc = "sweep", !.at = @ + 1]
            IN  /\ l \in [pc : Labels, at : Nat \ {0}, age : Nat]
                /\ l.pc = "sweep" /\ l.at = loop.at + 1 /\ l.age = loop.age
         /\ LET l == [loop EXCEPT !.age = @ + 1]
            IN  /\ l \in [pc : Labels, at : Nat \ {0}, age : Nat]
                /\ l.pc = loop.pc /\ l.at = loop.at /\ l.age = loop.age + 1
  <1>1. loop \in [pc : Labels, at : Nat \ {0}, age : Nat] /\ "sweep" \in Labels
    BY DEF Fields, Labels
  <1>2. \A n \in Nat : n + 1 \in Nat \ {0} /\ n + 1 \in Nat
    OBVIOUS
  <1> QED  BY <1>1, <1>2

LEMMA ElsewhereFields ==
  ASSUME Fields, Elsewhere
  PROVE  Fields'
  <1> DEFINE Loops == [pc : Labels, at : Nat \ {0}, age : Nat]
  <1>1. /\ timers \in Seq(Timer) /\ Len(timers) < nextId /\ nextId \in 1..MaxTimers + 1
        /\ running \in BOOLEAN /\ loop \in Loops
        /\ spent \in Nat /\ signals \in 0..MaxSignals
        /\ removed \subseteq TimerId /\ shots \in [TimerId -> 0..2]
        /\ rest \in [TimerId -> 0..Span] /\ up \in 0..Lateness + 1 /\ halt \in 0..Span
    BY DEF Fields
  <1>2. Lateness \in Nat /\ Span \in Nat /\ MaxSignals \in Nat
    BY SpanBounds, TimerConstants
  <1>3. /\ 0 \in Nat /\ 0 \in 0..MaxSignals /\ 0 \in 0..Lateness + 1 /\ 0 \in 0..Span
        /\ signals < MaxSignals => signals + 1 \in 0..MaxSignals
    BY <1>1, <1>2
  <1>4. \A p \in Labels : [loop EXCEPT !.pc = p] \in Loops
    BY LoopFields, Zenon
  <1>5. {"top", "wait", "off", "clock", "lock", "sweep", "call", "dispatch"} \subseteq Labels
    BY DEF Labels
  <1>6. UNCHANGED <<timers, nextId, removed, rest>>
    BY ElsewhereKeeps
  <1> SUFFICES /\ running' \in BOOLEAN /\ loop' \in Loops
               /\ spent' \in Nat /\ signals' \in 0..MaxSignals
               /\ shots' \in [TimerId -> 0..2]
               /\ up' \in 0..Lateness + 1 /\ halt' \in 0..Span
    BY <1>1, <1>6 DEF Fields
  <1> HIDE DEF Loops
  <1>7. CASE Stop
    BY <1>1, <1>3, <1>7 DEF Stop
  <1>8. CASE EnterRun
    BY <1>1, <1>3, <1>4, <1>5, <1>8 DEF EnterRun
  <1>9. CASE EnterWait
    BY <1>1, <1>3, <1>4, <1>5, <1>9 DEF EnterWait, Turn, ghosts
  <1>10. CASE LeaveRun
    BY <1>1, <1>3, <1>4, <1>5, <1>10 DEF LeaveRun, Turn, ghosts
  <1>11. CASE Awake
    BY <1>1, <1>3, <1>4, <1>5, <1>11 DEF Awake, Turn, ghosts
  <1>12. CASE ReadClock
    <2>1. [pc |-> "lock", at |-> 1, age |-> 0] \in Loops
      BY <1>5 DEF Loops
    <2> QED  BY <1>1, <1>12, <2>1 DEF ReadClock, ghosts
  <1>13. CASE LockTimers
    BY <1>1, <1>4, <1>5, <1>13 DEF LockTimers, ghosts
  <1>14. CASE SkipTimer
    <2>1. [loop EXCEPT !.at = @ + 1] \in Loops
      BY LoopFields, Zenon DEF Loops
    <2> QED  BY <1>1, <1>14, <2>1 DEF SkipTimer, ghosts
  <1>15. CASE CallTimer
    <2>1. \A n \in 0..2 : UpTo(n + 1, 2) \in 0..2
      BY DEF UpTo
    <2>2. shots' \in [TimerId -> 0..2]
      BY <1>1, <1>15, <2>1 DEF CallTimer
    <2> QED  BY <1>1, <1>4, <1>5, <1>15, <2>2 DEF CallTimer
  <1>16. CASE Dispatched
    BY <1>1, <1>4, <1>5, <1>16 DEF Dispatched, ghosts
  <1>17. CASE Interrupted
    BY <1>1, <1>3, <1>4, <1>5, <1>17 DEF Interrupted, Turn, ghosts
  <1>18. CASE WaitFails
    BY <1>1, <1>3, <1>4, <1>5, <1>18 DEF WaitFails, Turn, ghosts
  <1>19. CASE UNCHANGED timerVars
    BY <1>1, <1>19 DEF timerVars
  <1> QED
    BY <1>7, <1>8, <1>9, <1>10, <1>11, <1>12, <1>13, <1>14, <1>15, <1>16, <1>17, <1>18, <1>19
    DEF Elsewhere

LEMMA FieldsStep ==
  ASSUME TimersInv, [TimersNext]_timerVars
  PROVE  Fields'
  <1> DEFINE Loops == [pc : Labels, at : Nat \ {0}, age : Nat]
  <1>1. /\ Fields /\ Clocks
        /\ Span \in Nat /\ Lateness \in Nat /\ Busy \in Nat /\ MaxTimers \in Nat /\ Busy <= Span
    <2>1. Interval \in Nat /\ Busy + Interval <= Span
      BY SpanBounds
    <2> QED  BY <2>1, TimerConstants, SpanBounds DEF TimersInv
  <1>2. /\ Len(timers) < nextId /\ nextId \in 1..MaxTimers + 1
        /\ running \in BOOLEAN /\ loop \in Loops
        /\ spent \in Nat /\ signals \in 0..MaxSignals
        /\ removed \subseteq TimerId /\ shots \in [TimerId -> 0..2]
        /\ rest \in [TimerId -> 0..Span] /\ up \in 0..Lateness + 1 /\ halt \in 0..Span
    BY <1>1 DEF Fields
  <1> HIDE DEF Loops
  <1>3. ASSUME NEW e \in {Interval} \cup Delays, NEW r \in BOOLEAN, Adding(e, r) PROVE Fields'
    <2>1. nextId <= MaxTimers /\ timers' = Pushed(e, r) /\ nextId' = nextId + 1
      BY <1>3 DEF Adding
    <2>2. /\ Pushed(e, r) \in Seq(Timer) /\ Len(Pushed(e, r)) = Len(timers) + 1
          /\ Len(timers) \in Nat
      BY <1>1, <2>1, PushedFacts
    <2>3. Len(timers) + 1 < nextId + 1 /\ nextId + 1 \in 1..MaxTimers + 1
      BY <1>1, <1>2, <2>1, <2>2
    <2>4. loop' \in Loops
      <3>1. [loop EXCEPT !.pc = "born"] \in Loops
        <4>1. "born" \in Labels
          BY DEF Labels
        <4> QED  BY <1>1, <4>1, LoopFields, Zenon DEF Loops
      <3> QED  BY <1>2, <1>3, <3>1 DEF Adding
    <2> QED  BY <1>2, <1>3, <2>1, <2>2, <2>3, <2>4 DEF Adding, Fields, Loops
  <1>4. ASSUME Thinned, nextId' = nextId, loop' \in Loops, removed' \subseteq TimerId,
               UNCHANGED <<running, spent, signals, shots, rest, up, halt>>
        PROVE  Fields'
    <2>1. timers' \in Seq(Timer) /\ Len(timers') < nextId
      BY <1>2, <1>4 DEF Thinned
    <2> QED  BY <1>2, <1>4, <2>1 DEF Fields, Loops
  <1>5. ASSUME NEW i \in TimerId, RemoveTimer(i) PROVE Fields'
    BY <1>1, <1>2, <1>4, <1>5, RemovedFacts DEF RemoveTimer
  <1>6. CASE SweepDone
    <2>1. [pc |-> "dispatch", at |-> 1, age |-> 0] \in Loops
      BY DEF Loops, Labels
    <2> QED  BY <1>1, <1>2, <1>4, <1>6, <2>1, SweptFacts DEF SweepDone, ghosts
  <1>7. CASE CallbackReturns
    <2>1. timers' \in Seq(Timer) /\ Len(timers') < nextId /\ loop.age \in 0..Busy
      BY <1>1, <1>2, <1>7, RearmedFacts
    <2>2. rest' \in [TimerId -> 0..Span]
      <3>1. UpTo(loop.age, Span) \in 0..Span
        BY <1>1, <2>1 DEF UpTo
      <3> QED  BY <1>2, <1>7, <3>1 DEF CallbackReturns, Rearmed
    <2>3. loop' \in Loops
      <3>1. [loop EXCEPT !.pc = "sweep", !.at = @ + 1] \in Loops
        BY <1>1, LoopFields, Zenon DEF Loops
      <3> QED  BY <1>7, <3>1 DEF CallbackReturns, Rearmed
    <2> QED  BY <1>2, <1>7, <2>1, <2>2, <2>3 DEF CallbackReturns, Rearmed, Fields, Loops
  <1>8. CASE Tick
    <2>1. timers' \in Seq(Timer) /\ Len(timers') < nextId
      BY <1>1, <1>2, <1>8, TickFacts
    <2>2. rest' \in [TimerId -> 0..Span]
      <3>1. \A n \in 0..Span : UpTo(n + 1, Span) \in 0..Span
        BY <1>1 DEF UpTo
      <3> QED  BY <1>2, <1>8, <3>1 DEF Tick
    <2>3. up' \in 0..Lateness + 1 /\ halt' \in 0..Span /\ spent' \in Nat
      <3>1. /\ UpTo(halt + 1, Span) \in 0..Span /\ UpTo(up + 1, Lateness + 1) \in 0..Lateness + 1
            /\ 0 \in 0..Span /\ 0 \in 0..Lateness + 1 /\ spent + 1 \in Nat
        BY <1>1, <1>2 DEF UpTo
      <3> QED  BY <1>2, <1>8, <3>1 DEF Tick
    <2>4. loop' \in Loops
      <3>1. [loop EXCEPT !.age = @ + 1] \in Loops
        BY <1>1, LoopFields, Zenon DEF Loops
      <3> QED  BY <1>2, <1>8, <3>1 DEF Tick
    <2> QED  BY <1>2, <1>8, <2>1, <2>2, <2>3, <2>4 DEF Tick, Fields, Loops
  <1>9. CASE Elsewhere
    BY <1>1, <1>9, ElsewhereFields
  <1> QED  BY <1>3, <1>5, <1>6, <1>7, <1>8, <1>9, StepKinds

LEMMA OrderedStep ==
  ASSUME TimersInv, [TimersNext]_timerVars
  PROVE  Ordered'
  <1>1. Fields /\ Clocks /\ Ordered /\ \A k \in DOMAIN timers : timers[k].id \in Nat
    <2>1. \A k \in DOMAIN timers : timers[k] \in Timer
      BY LenProperties, ElementOfSeq DEF TimersInv, Fields
    <2> QED  BY <2>1 DEF TimersInv, Timer, TimerId
  <1>2. ASSUME NEW e \in {Interval} \cup Delays, NEW r \in BOOLEAN, Adding(e, r) PROVE Ordered'
    <2>1. /\ Len(timers) \in Nat /\ DOMAIN timers = 1..Len(timers)
          /\ DOMAIN timers' = 1..Len(timers) + 1
          /\ \A k \in DOMAIN timers : timers'[k] = timers[k]
          /\ timers'[Len(timers) + 1].id = nextId
      <3>1. nextId <= MaxTimers /\ timers' = Pushed(e, r)
        BY <1>2 DEF Adding
      <3> DEFINE p == Pushed(e, r)
      <3>2. /\ Len(timers) \in Nat /\ DOMAIN timers = 1..Len(timers)
            /\ DOMAIN p = 1..Len(timers) + 1
            /\ \A k \in DOMAIN timers : p[k] = timers[k]
            /\ p[Len(timers) + 1] = [id |-> nextId, every |-> e, recurring |-> r, left |-> e]
        BY <1>1, <3>1, PushedFacts
      <3> HIDE DEF p
      <3>3. p[Len(timers) + 1].id = nextId
        BY <3>2
      <3>4. timers' = p
        BY <3>1 DEF p
      <3> QED  BY <3>2, <3>3, <3>4
    <2>2. nextId' = nextId + 1 /\ removed' = removed /\ nextId \in Nat /\ removed \subseteq Nat
      BY <1>1, <1>2 DEF Adding, Fields, TimerId
    <2>3. ASSUME NEW k \in DOMAIN timers'
          PROVE  /\ timers'[k].id < nextId' /\ timers'[k].id \notin removed'
                 /\ \A j \in 1..k - 1 : timers'[j].id < timers'[k].id
      <3>1. CASE k \in DOMAIN timers
        <4>1. timers'[k] = timers[k] /\ \A j \in 1..k - 1 : j \in DOMAIN timers /\ timers'[j] = timers[j]
          BY <2>1, <3>1
        <4>2. /\ timers[k].id < nextId /\ timers[k].id \notin removed
              /\ \A j \in 1..k - 1 : timers[j].id < timers[k].id
          BY <1>1, <3>1 DEF Ordered
        <4>3. timers[k].id < nextId + 1
          BY <1>1, <2>2, <3>1, <4>2
        <4> QED  BY <2>2, <4>1, <4>2, <4>3
      <3>2. CASE k = Len(timers) + 1
        <4>1. timers'[k].id = nextId
          BY <2>1, <3>2
        <4>2. \A j \in 1..k - 1 : j \in DOMAIN timers /\ timers'[j] = timers[j]
          BY <2>1, <3>2
        <4>3. \A j \in DOMAIN timers : timers[j].id < nextId
          BY <1>1 DEF Ordered
        <4>4. nextId \notin removed /\ nextId < nextId + 1
          BY <1>1, <2>2 DEF Ordered
        <4> QED  BY <2>2, <4>1, <4>2, <4>3, <4>4
      <3> QED  BY <2>1, <3>1, <3>2
    <2>4. \A i \in removed' : i < nextId'
      <3>1. \A i \in removed : i < nextId /\ i \in Nat
        BY <1>1, <2>2 DEF Ordered
      <3>2. \A i \in Nat : i < nextId => i < nextId + 1
        BY <2>2
      <3> QED  BY <2>2, <3>1, <3>2
    <2> QED  BY <2>3, <2>4 DEF Ordered
  <1>3. ASSUME Thinned
        PROVE  \A k \in DOMAIN timers' :
                 /\ timers'[k].id < nextId /\ timers'[k].id \notin removed
                 /\ \A j \in 1..k - 1 : timers'[j].id < timers'[k].id
    <2>1. PICK f \in [DOMAIN timers' -> DOMAIN timers] :
            /\ \A k \in DOMAIN f : timers'[k] = timers[f[k]]
            /\ \A a, b \in DOMAIN f : a < b => f[a] < f[b]
      BY <1>3 DEF Thinned
    <2>2. /\ DOMAIN timers = 1..Len(timers) /\ DOMAIN timers' = 1..Len(timers')
          /\ Len(timers) \in Nat /\ Len(timers') \in Nat
      BY <1>3 DEF Thinned
    <2>3. ASSUME NEW k \in DOMAIN timers', NEW j \in 1..k - 1
          PROVE  timers'[j].id < timers'[k].id
      <3>1. j \in DOMAIN timers' /\ j < k
        BY <2>2
      <3>2. f[j] \in 1..f[k] - 1 /\ f[k] \in DOMAIN timers
        BY <2>1, <2>2, <3>1
      <3>3. timers[f[j]].id < timers[f[k]].id
        BY <1>1, <3>2 DEF Ordered
      <3> QED  BY <2>1, <3>1, <3>3
    <2>4. \A k \in DOMAIN timers' : timers'[k].id < nextId /\ timers'[k].id \notin removed
      BY <1>1, <2>1 DEF Ordered
    <2> QED  BY <2>3, <2>4
  <1>4. ASSUME NEW i \in TimerId, RemoveTimer(i) PROVE Ordered'
    <2>1. Thinned /\ \A k \in DOMAIN timers' : timers'[k].id # i
      BY <1>1, <1>4, RemovedFacts
    <2>2. nextId' = nextId /\ removed' = removed \cup {i} /\ i < nextId
      BY <1>4 DEF RemoveTimer
    <2>3. \A m \in removed \cup {i} : m < nextId
      BY <1>1, <2>2 DEF Ordered
    <2> QED  BY <1>3, <2>1, <2>2, <2>3 DEF Ordered
  <1>5. ASSUME DOMAIN timers' = DOMAIN timers, \A k \in DOMAIN timers : timers'[k].id = timers[k].id,
               nextId' = nextId, removed' = removed, DOMAIN timers = 1..Len(timers), Len(timers) \in Nat
        PROVE  Ordered'
    <2>1. \A k \in DOMAIN timers : \A j \in 1..k - 1 : j \in DOMAIN timers
      BY <1>5
    <2> QED  BY <1>1, <1>5, <2>1 DEF Ordered
  <1>6. CASE CallbackReturns
    BY <1>1, <1>5, <1>6, RearmedFacts DEF CallbackReturns, Rearmed
  <1>7. CASE SweepDone
    <2>1. Thinned /\ nextId' = nextId /\ removed' = removed
      BY <1>1, <1>7, SweptFacts DEF SweepDone, ghosts
    <2>2. \A m \in removed : m < nextId
      BY <1>1 DEF Ordered
    <2> QED  BY <1>3, <2>1, <2>2 DEF Ordered
  <1>8. CASE Tick
    BY <1>1, <1>5, <1>8, TickFacts DEF Tick
  <1>9. CASE Elsewhere
    BY <1>1, <1>9, ElsewhereKeeps DEF Ordered
  <1> QED  BY <1>2, <1>4, <1>6, <1>7, <1>8, <1>9, StepKinds
LEMMA ClocksStep ==
  ASSUME TimersInv, [TimersNext]_timerVars
  PROVE  Clocks'
  <1> DEFINE Loops == [pc : Labels, at : Nat \ {0}, age : Nat]
             Rounds == {"lock", "sweep", "call"}
  <1> DEFINE Good(p, at, age, sp, sig, len) ==
        /\ p = "wait" => sp <= Timeout
        /\ p \notin {"off", "born"} /\ p # "wait" => sp <= Busy
        /\ p \in {"off", "born"} => sp = 0
        /\ p # "wait" /\ p # "top" => sig = 0
        /\ IF p \in Rounds THEN age <= sp ELSE age = 0
        /\ IF p \notin {"sweep", "call"} THEN at = 1 ELSE at <= len + 1
        /\ p = "call" => at <= len
  <1>1. /\ Fields /\ loop \in Loops /\ loop.at \in Nat /\ loop.age \in Nat
        /\ spent \in Nat /\ signals \in Nat /\ Len(timers) \in Nat
        /\ Busy \in Nat /\ Timeout \in Nat
    BY TimerConstants, LenProperties DEF TimersInv, Fields
  <1>2. Good(loop.pc, loop.at, loop.age, spent, signals, Len(timers))
    BY DEF TimersInv, Clocks, At, InRun, MutexFree
  <1>3. SUFFICES Good(loop'.pc, loop'.at, loop'.age, spent', signals', Len(timers'))
    BY DEF Clocks, At, InRun, MutexFree
  <1>4. ASSUME NEW p \in Labels, loop' = [loop EXCEPT !.pc = p]
        PROVE  loop'.pc = p /\ loop'.at = loop.at /\ loop'.age = loop.age
    BY <1>1, <1>4, LoopFields
  <1>5. ASSUME NEW e \in {Interval} \cup Delays, NEW r \in BOOLEAN, Adding(e, r)
        PROVE  Good(loop'.pc, loop'.at, loop'.age, spent', signals', Len(timers'))
    <2>1. nextId <= MaxTimers /\ timers' = Pushed(e, r) /\ spent' = spent /\ signals' = signals
      BY <1>5 DEF Adding
    <2>2. Len(timers') = Len(timers) + 1
      BY <1>1, <2>1, PushedFacts
    <2>3. CASE loop' = loop
      BY <1>1, <1>2, <2>1, <2>2, <2>3
    <2>4. CASE At("off") /\ loop' = [loop EXCEPT !.pc = "born"]
      <3>1. loop'.pc = "born" /\ loop'.at = loop.at /\ loop'.age = loop.age
        BY <1>4, <2>4 DEF Labels
      <3> QED  BY <1>1, <1>2, <2>1, <2>2, <2>4, <3>1 DEF At
    <2> QED  BY <1>5, <2>3, <2>4 DEF Adding
  <1>6. ASSUME NEW i \in TimerId, RemoveTimer(i)
        PROVE  Good(loop'.pc, loop'.at, loop'.age, spent', signals', Len(timers'))
    <2>1. loop' = loop /\ spent' = spent /\ signals' = signals /\ loop.pc \notin {"sweep", "call"}
      BY <1>6 DEF RemoveTimer, MutexFree
    <2> QED  BY <1>1, <1>2, <2>1
  <1>7. CASE CallbackReturns
    <2>1. Len(timers') = Len(timers) /\ spent' = spent /\ signals' = signals /\ loop.pc = "call"
      BY <1>1, <1>7, RearmedFacts DEF TimersInv, CallbackReturns, Rearmed, At
    <2>2. loop'.pc = "sweep" /\ loop'.at = loop.at + 1 /\ loop'.age = loop.age
      BY <1>1, <1>7, LoopFields DEF CallbackReturns, Rearmed
    <2> QED  BY <1>1, <1>2, <2>1, <2>2
  <1>8. CASE SweepDone
    <2>1. loop'.pc = "dispatch" /\ loop'.at = 1 /\ loop'.age = 0
      BY <1>8 DEF SweepDone
    <2>2. spent' = spent /\ signals' = signals /\ loop.pc = "sweep"
      BY <1>8 DEF SweepDone, At
    <2> QED  BY <1>1, <1>2, <2>1, <2>2
  <1>9. CASE Tick
    <2>1. Len(timers') = Len(timers) /\ signals' = signals
      BY <1>1, <1>9, TickFacts DEF Tick
    <2>2. /\ loop'.pc = loop.pc /\ loop'.at = loop.at
          /\ loop'.age = IF loop.pc \in Rounds THEN loop.age + 1 ELSE loop.age
      BY <1>1, <1>9, LoopFields DEF Tick
    <2>3. /\ spent' = IF loop.pc \notin {"off", "born"} THEN spent + 1 ELSE 0
          /\ loop.pc = "wait" => spent < Timeout
          /\ loop.pc \notin {"off", "born"} /\ loop.pc # "wait" => spent < Busy
      BY <1>9 DEF Tick, InRun, At
    <2> QED  BY <1>1, <1>2, <2>1, <2>2, <2>3
  <1>10. CASE Elsewhere
    <2>1. timers' = timers
      BY <1>10, ElsewhereKeeps
    <2>2. CASE Stop \/ UNCHANGED timerVars
      BY <1>2, <2>1, <2>2 DEF Stop, timerVars
    <2>3. ASSUME NEW p \in Labels \ {"sweep", "call", "lock", "wait"}, spent' = 0, signals' = 0 \/ p = "top",
                 loop' = [loop EXCEPT !.pc = p], loop.pc \in {"wait", "top"}
          PROVE  Good(loop'.pc, loop'.at, loop'.age, spent', signals', Len(timers'))
      <3>1. loop'.pc = p /\ loop'.at = loop.at /\ loop'.age = loop.age
        BY <1>4, <2>3
      <3> QED  BY <1>1, <1>2, <2>1, <2>3, <3>1
    <2>4. CASE EnterRun
      <3>1. loop'.pc = "top" /\ loop'.at = loop.at /\ loop'.age = loop.age
        BY <1>4, <2>4 DEF EnterRun, Labels
      <3>2. loop.pc = "born" /\ spent' = spent /\ signals' = signals
        BY <2>4 DEF EnterRun, At
      <3> QED  BY <1>1, <1>2, <2>1, <3>1, <3>2
    <2>5. CASE EnterWait
      <3>1. loop'.pc = "wait" /\ loop'.at = loop.at /\ loop'.age = loop.age
        BY <1>4, <2>5 DEF EnterWait, Turn, Labels
      <3>2. loop.pc = "top" /\ spent' = 0 /\ signals' = signals
        BY <2>5 DEF EnterWait, Turn, At
      <3> QED  BY <1>1, <1>2, <2>1, <3>1, <3>2
    <2>6. CASE LeaveRun \/ WaitFails
      BY <2>3, <2>6 DEF LeaveRun, WaitFails, Turn, At, Labels
    <2>7. CASE Awake \/ Interrupted
      BY <2>3, <2>7 DEF Awake, Interrupted, Turn, At, Labels
    <2>8. CASE ReadClock
      <3>1. loop'.pc = "lock" /\ loop'.at = 1 /\ loop'.age = 0
        BY <2>8 DEF ReadClock
      <3>2. loop.pc = "clock" /\ spent' = spent /\ signals' = signals
        BY <2>8 DEF ReadClock, At
      <3> QED  BY <1>1, <1>2, <2>1, <3>1, <3>2
    <2>9. CASE LockTimers
      <3>1. loop'.pc = "sweep" /\ loop'.at = loop.at /\ loop'.age = loop.age
        BY <1>4, <2>9 DEF LockTimers, Labels
      <3>2. loop.pc = "lock" /\ spent' = spent /\ signals' = signals
        BY <2>9 DEF LockTimers, At
      <3> QED  BY <1>1, <1>2, <2>1, <3>1, <3>2
    <2>10. CASE SkipTimer
      <3>1. loop'.pc = loop.pc /\ loop'.at = loop.at + 1 /\ loop'.age = loop.age
        BY <1>1, <2>10, LoopFields DEF SkipTimer
      <3>2. loop.pc = "sweep" /\ spent' = spent /\ signals' = signals /\ loop.at <= Len(timers)
        BY <2>10 DEF SkipTimer, At, InReach
      <3> QED  BY <1>1, <1>2, <2>1, <3>1, <3>2
    <2>11. CASE CallTimer
      <3>1. loop'.pc = "call" /\ loop'.at = loop.at /\ loop'.age = loop.age
        BY <1>4, <2>11 DEF CallTimer, Labels
      <3>2. loop.pc = "sweep" /\ spent' = spent /\ signals' = signals /\ loop.at <= Len(timers)
        BY <2>11 DEF CallTimer, At, InReach
      <3> QED  BY <1>1, <1>2, <2>1, <3>1, <3>2
    <2>12. CASE Dispatched
      <3>1. loop'.pc = "top" /\ loop'.at = loop.at /\ loop'.age = loop.age
        BY <1>4, <2>12 DEF Dispatched, Labels
      <3>2. loop.pc = "dispatch" /\ spent' = spent /\ signals' = signals
        BY <2>12 DEF Dispatched, At
      <3> QED  BY <1>1, <1>2, <2>1, <3>1, <3>2
    <2> QED
      BY <1>10, <2>2, <2>4, <2>5, <2>6, <2>7, <2>8, <2>9, <2>10, <2>11, <2>12 DEF Elsewhere
  <1> QED  BY <1>5, <1>6, <1>7, <1>8, <1>9, <1>10, StepKinds
LEMMA RestedStep ==
  ASSUME TimersInv, [TimersNext]_timerVars
  PROVE  Rested'
  <1> DEFINE Long(k, l, r, e) == l # Never => r = Span \/ r + l >= e
  <1>1. /\ Fields /\ Clocks /\ Ordered /\ Rested /\ Span \in Nat /\ Lateness \in Nat
        /\ \A k \in DOMAIN timers :
             /\ timers[k].id \in TimerId /\ timers[k].left \in Int /\ timers[k].every \in Nat
             /\ rest[timers[k].id] \in 0..Span
    <2>1. \A k \in DOMAIN timers : timers[k] \in Timer
      BY LenProperties, ElementOfSeq DEF TimersInv, Fields
    <2>2. -Lateness - 1 .. Never \subseteq Int /\ {Interval} \cup Delays \subseteq Nat
      BY SpanBounds, TimerConstants
    <2>3. rest \in [TimerId -> 0..Span]
      BY DEF TimersInv, Fields
    <2> QED  BY <2>1, <2>2, <2>3, SpanBounds DEF TimersInv, Timer
  <1>2. ASSUME NEW e \in {Interval} \cup Delays, NEW r \in BOOLEAN, Adding(e, r) PROVE Rested'
    <2> DEFINE p == Pushed(e, r)
    <2>1. nextId <= MaxTimers /\ timers' = p /\ rest' = rest
      BY <1>2 DEF Adding
    <2>2. /\ Len(timers) \in Nat /\ DOMAIN timers = 1..Len(timers)
          /\ DOMAIN p = 1..Len(timers) + 1
          /\ \A k \in DOMAIN timers : p[k] = timers[k]
          /\ p[Len(timers) + 1] = [id |-> nextId, every |-> e, recurring |-> r, left |-> e]
      BY <1>1, <2>1, PushedFacts
    <2> HIDE DEF p
    <2>3. ASSUME NEW k \in DOMAIN p
          PROVE  Long(k, p[k].left, rest[p[k].id], p[k].every)
      <3>1. CASE k \in DOMAIN timers
        BY <1>1, <2>2, <3>1 DEF Rested
      <3>2. CASE k = Len(timers) + 1
        <4>1. p[k].id = nextId /\ p[k].left = e /\ p[k].every = e
          BY <2>2, <3>2
        <4>2. rest[nextId] \in 0..Span /\ e \in Nat
          <5>1. nextId \in TimerId
            BY <1>1, <2>1, TimerConstants DEF Fields, TimerId
          <5> QED  BY <1>1, <5>1, TimerConstants DEF Fields
        <4>3. rest[nextId] + e >= e
          BY <1>1, <4>2
        <4> QED  BY <4>1, <4>3
      <3> QED  BY <2>2, <3>1, <3>2
    <2> QED  BY <2>1, <2>3 DEF Rested
  <1>3. ASSUME Thinned, rest' = rest PROVE Rested'
    <2>1. PICK f \in [DOMAIN timers' -> DOMAIN timers] :
            /\ \A k \in DOMAIN f : timers'[k] = timers[f[k]]
            /\ \A a, b \in DOMAIN f : a < b => f[a] < f[b]
      BY <1>3 DEF Thinned
    <2> QED  BY <1>1, <1>3, <2>1 DEF Rested
  <1>4. CASE \E i \in TimerId : RemoveTimer(i)
    BY <1>1, <1>3, <1>4, RemovedFacts DEF RemoveTimer
  <1>5. CASE SweepDone
    BY <1>1, <1>3, <1>5, SweptFacts DEF SweepDone, ghosts
  <1>6. CASE CallbackReturns
    <2>1. /\ loop.at \in DOMAIN timers /\ Reached = timers[loop.at]
          /\ DOMAIN timers' = DOMAIN timers
          /\ \A k \in DOMAIN timers :
               /\ k # loop.at => timers'[k] = timers[k]
               /\ timers'[k].id = timers[k].id /\ timers'[k].every = timers[k].every
          /\ timers'[loop.at].left = IF Reached.recurring THEN Reached.every - loop.age ELSE Never
          /\ loop.age \in 0..Busy /\ DOMAIN timers = 1..Len(timers) /\ Len(timers) \in Nat
          /\ loop.at \in Nat
      BY <1>1, <1>6, RearmedFacts
    <2>2. rest' = [rest EXCEPT ![Reached.id] = UpTo(loop.age, Span)]
      BY <1>6 DEF CallbackReturns, Rearmed
    <2>3. ASSUME NEW k \in DOMAIN timers
          PROVE  Long(k, timers'[k].left, rest'[timers'[k].id], timers'[k].every)
      <3>1. CASE k = loop.at
        <4>1. rest'[timers'[k].id] = UpTo(loop.age, Span)
          <5>1. timers'[k].id = Reached.id /\ Reached.id \in TimerId
            BY <1>1, <2>1, <3>1
          <5>2. DOMAIN rest = TimerId
            BY <1>1 DEF Fields
          <5> QED  BY <2>2, <5>1, <5>2
        <4>2. UpTo(loop.age, Span) = loop.age
          <5>1. Busy <= Span /\ Busy \in Nat
            <6>1. Interval \in Nat /\ Busy + Interval <= Span /\ Busy \in Nat
              BY SpanBounds, TimerConstants
            <6> QED  BY <1>1, <6>1
          <5> QED  BY <1>1, <2>1, <5>1 DEF UpTo
        <4>3. timers'[k].left = Never \/ timers'[k].left = timers[k].every - loop.age
          BY <2>1, <3>1
        <4>4. timers'[k].every = timers[k].every /\ timers[k].every \in Nat
          BY <1>1, <2>1
        <4>5. loop.age + (timers[k].every - loop.age) >= timers[k].every
          BY <2>1, <4>4, TimerConstants
        <4> QED  BY <4>1, <4>2, <4>3, <4>4, <4>5
      <3>2. CASE k # loop.at
        <4>1. timers[k].id # Reached.id
          <5>1. k \in 1..loop.at - 1 \/ loop.at \in 1..k - 1
            BY <2>1, <3>2
          <5>2. timers[k].id < Reached.id \/ Reached.id < timers[k].id
            BY <1>1, <2>1, <5>1 DEF Ordered
          <5>3. timers[k].id \in Nat /\ Reached.id \in Nat
            BY <1>1, <2>1 DEF TimerId
          <5> QED  BY <5>2, <5>3
        <4>2. rest'[timers[k].id] = rest[timers[k].id]
          BY <1>1, <2>2, <4>1 DEF Fields
        <4> QED  BY <1>1, <2>1, <3>2, <4>2 DEF Rested
      <3> QED  BY <3>1, <3>2
    <2> QED  BY <2>1, <2>3 DEF Rested
  <1>7. CASE Tick
    <2>1. /\ DOMAIN timers' = DOMAIN timers
          /\ \A k \in DOMAIN timers :
               /\ timers'[k] \in Timer
               /\ timers'[k].id = timers[k].id /\ timers'[k].every = timers[k].every
               /\ timers'[k].left = Never <=> timers[k].left = Never
               /\ timers'[k].left >= timers[k].left - 1
      BY <1>1, <1>7, TickFacts
    <2>2. \A i \in TimerId : rest'[i] = UpTo(rest[i] + 1, Span)
      BY <1>7 DEF Tick
    <2>3. \A r \in 0..Span : UpTo(r + 1, Span) = Span \/ UpTo(r + 1, Span) = r + 1
      BY <1>1 DEF UpTo
    <2>4. UpTo(Span + 1, Span) = Span
      BY <1>1 DEF UpTo
    <2>5. ASSUME NEW k \in DOMAIN timers
          PROVE  Long(k, timers'[k].left, rest'[timers'[k].id], timers'[k].every)
      <3> DEFINE r == rest[timers[k].id]
                 l == timers[k].left
                 m == timers'[k].left
                 e == timers[k].every
      <3>1. r \in 0..Span /\ l \in Int /\ m \in Int /\ e \in Nat /\ m >= l - 1
        <4>1. m \in -Lateness - 1 .. Never
          BY <2>1 DEF Timer
        <4>2. m \in Int
          BY <1>1, <4>1
        <4> QED  BY <1>1, <2>1, <4>2
      <3>2. rest'[timers'[k].id] = UpTo(r + 1, Span)
        BY <1>1, <2>1, <2>2
      <3>3. timers'[k].every = e /\ (m = Never <=> l = Never)
        BY <2>1
      <3>4. l # Never => r = Span \/ r + l >= e
        BY <1>1 DEF Rested
      <3> HIDE DEF r, l, m, e
      <3>5. m # Never => UpTo(r + 1, Span) = Span \/ UpTo(r + 1, Span) + m >= e
        BY <1>1, <2>3, <2>4, <3>1, <3>3, <3>4
      <3> QED  BY <3>2, <3>3, <3>5 DEF m
    <2> QED  BY <2>1, <2>5 DEF Rested
  <1>8. CASE Elsewhere
    BY <1>1, <1>8, ElsewhereKeeps DEF Rested
  <1> QED  BY <1>2, <1>4, <1>5, <1>6, <1>7, <1>8, StepKinds

LEMMA HaltingStep ==
  ASSUME TimersInv, [TimersNext]_timerVars
  PROVE  Halting'
  <1>1. /\ Fields /\ Clocks /\ Halting /\ halt \in Nat /\ spent \in Nat /\ Timeout \in Nat
        /\ Span \in Nat
    BY TimerConstants, SpanBounds DEF TimersInv, Fields
  <1>2. ASSUME NEW p \in Labels, loop' = [loop EXCEPT !.pc = p] PROVE loop'.pc = p
    BY <1>1, <1>2, LoopFields
  <1>3. CASE \E e \in {Interval} \cup Delays, r \in BOOLEAN : Adding(e, r)
    <2>1. running' = running /\ spent' = spent /\ halt' = halt
      BY <1>3 DEF Adding
    <2>2. loop' = loop \/ loop'.pc = "born"
      BY <1>2, <1>3 DEF Adding, Labels
    <2> QED  BY <1>1, <2>1, <2>2 DEF Halting, At, InRun
  <1>4. CASE \E i \in TimerId : RemoveTimer(i)
    BY <1>1, <1>4 DEF RemoveTimer, Halting, At, InRun
  <1>5. CASE CallbackReturns
    <2>1. loop'.pc = "sweep" /\ loop.pc = "call" /\ UNCHANGED <<running, spent, halt>>
      BY <1>1, <1>5, LoopFields DEF CallbackReturns, Rearmed, At
    <2> QED  BY <1>1, <2>1 DEF Halting, At, InRun
  <1>6. CASE SweepDone
    BY <1>1, <1>6 DEF SweepDone, ghosts, Halting, At, InRun
  <1>7. CASE Tick
    <2>1. loop'.pc = loop.pc /\ running' = running
      BY <1>1, <1>7, LoopFields DEF Tick
    <2>2. InRun /\ ~running => spent' = spent + 1 /\ halt' = UpTo(halt + 1, Span)
      BY <1>7 DEF Tick
    <2>3. UpTo(halt + 1, Span) <= halt + 1 /\ UpTo(halt + 1, Span) \in Nat
      BY <1>1 DEF UpTo
    <2> QED  BY <1>1, <2>1, <2>2, <2>3 DEF Halting, At, InRun
  <1>8. CASE Elsewhere
    <2>1. CASE Stop
      BY <1>1, <2>1 DEF Stop, Halting, At, InRun
    <2>2. CASE EnterRun
      <3>1. running' = TRUE
        BY <2>2 DEF EnterRun
      <3> QED  BY <3>1 DEF Halting
    <2>3. CASE EnterWait
      <3>1. running' = TRUE
        BY <1>1, <2>3 DEF EnterWait, Turn, Fields
      <3> QED  BY <3>1 DEF Halting
    <2>4. CASE LeaveRun \/ WaitFails
      <3>1. loop'.pc = "off"
        BY <1>2, <2>4 DEF LeaveRun, WaitFails, Turn, Labels
      <3> QED  BY <3>1 DEF Halting, InRun
    <2>5. CASE Awake \/ Interrupted
      <3>1. loop'.pc \in {"clock", "top"}
        BY <1>2, <2>5 DEF Awake, Interrupted, Turn, Labels
      <3>2. loop.pc = "wait" /\ running' = running /\ halt' = halt /\ spent' = 0
        BY <2>5 DEF Awake, Interrupted, Turn, At, ghosts
      <3>3. spent <= Timeout
        BY <1>1, <3>2 DEF Clocks, At
      <3> QED  BY <1>1, <3>1, <3>2, <3>3 DEF Halting, At, InRun
    <2>6. CASE ReadClock \/ LockTimers \/ SkipTimer \/ CallTimer \/ Dispatched
      <3>1. loop'.pc # "wait"
        <4>1. CASE ReadClock
          BY <4>1 DEF ReadClock
        <4>2. CASE LockTimers \/ CallTimer \/ Dispatched
          BY <1>2, <4>2 DEF LockTimers, CallTimer, Dispatched, Labels
        <4>3. CASE SkipTimer
          BY <1>1, <4>3, LoopFields DEF SkipTimer, At
        <4> QED  BY <2>6, <4>1, <4>2, <4>3
      <3>2. loop.pc \in {"clock", "lock", "sweep", "dispatch"} /\ UNCHANGED <<running, halt, spent>>
        BY <2>6 DEF ReadClock, LockTimers, SkipTimer, CallTimer, Dispatched, ghosts, At
      <3> QED  BY <1>1, <3>1, <3>2 DEF Halting, At, InRun
    <2>7. CASE UNCHANGED timerVars
      BY <1>1, <2>7 DEF timerVars, Halting, At, InRun
    <2> QED  BY <1>8, <2>1, <2>2, <2>3, <2>4, <2>5, <2>6, <2>7 DEF Elsewhere
  <1> QED  BY <1>3, <1>4, <1>5, <1>6, <1>7, <1>8, StepKinds
LEMMA OnceStep ==
  ASSUME TimersInv, [TimersNext]_timerVars
  PROVE  Once'
  <1> DEFINE Fresh(t) == ~t.recurring => shots[t.id] = 0 /\ t.left # Never
  <1>1. /\ Fields /\ Clocks /\ Ordered /\ Once
        /\ timers \in Seq(Timer) /\ Len(timers) \in Nat /\ DOMAIN timers = 1..Len(timers)
        /\ nextId \in Nat /\ loop.at \in Nat
        /\ \A k \in DOMAIN timers : timers[k].id \in TimerId
    <2>1. \A k \in DOMAIN timers : timers[k] \in Timer
      BY LenProperties, ElementOfSeq DEF TimersInv, Fields
    <2> QED  BY <2>1, LenProperties, TimerConstants DEF TimersInv, Fields, Timer
  <1>2. MutexFree => \A k \in DOMAIN timers : Fresh(timers[k])
    BY <1>1 DEF Once, MutexFree, At
  <1>3. ASSUME \A k \in DOMAIN timers' : Fresh(timers'[k]), shots' = shots,
               nextId' \in Nat, nextId' >= nextId
        PROVE  Once'
    <2>1. \A i \in TimerId : i >= nextId' => i >= nextId
      BY <1>1, <1>3 DEF TimerId
    <2>2. \A i \in TimerId : i >= nextId' => shots'[i] = 0
      BY <1>1, <1>3, <2>1 DEF Once
    <2> QED  BY <1>3, <2>2 DEF Once
  <1>4. ASSUME NEW e \in {Interval} \cup Delays, NEW r \in BOOLEAN, Adding(e, r) PROVE Once'
    <2> DEFINE p == Pushed(e, r)
    <2>1. MutexFree /\ nextId <= MaxTimers /\ timers' = p /\ shots' = shots /\ nextId' = nextId + 1
      BY <1>4 DEF Adding
    <2>2. /\ DOMAIN p = 1..Len(timers) + 1
          /\ \A k \in DOMAIN timers : p[k] = timers[k]
          /\ p[Len(timers) + 1] = [id |-> nextId, every |-> e, recurring |-> r, left |-> e]
      BY <1>1, <2>1, PushedFacts
    <2> HIDE DEF p
    <2>3. shots[nextId] = 0 /\ e # Never
      <3>1. nextId \in TimerId /\ nextId >= nextId
        BY <1>1, <2>1, TimerConstants DEF TimerId, Fields
      <3>2. e \in Nat /\ Busy + e <= Span /\ Span \in Nat /\ Busy \in Nat
        BY SpanBounds, TimerConstants
      <3> QED  BY <1>1, <3>1, <3>2 DEF Once, Never
    <2>4. Fresh(p[Len(timers) + 1])
      BY <2>2, <2>3
    <2>5. \A k \in 1..Len(timers) + 1 : k \in DOMAIN timers \/ k = Len(timers) + 1
      BY <1>1
    <2>6. \A k \in DOMAIN p : Fresh(p[k])
      BY <1>2, <2>1, <2>2, <2>4, <2>5
    <2>7. nextId' \in Nat /\ nextId' >= nextId
      BY <1>1, <2>1
    <2> HIDE DEF Fresh
    <2> QED  BY <1>3, <2>1, <2>6, <2>7
  <1>5. CASE \E i \in TimerId : RemoveTimer(i)
    <2>1. Thinned /\ MutexFree /\ shots' = shots /\ nextId' = nextId
      BY <1>1, <1>5, RemovedFacts DEF RemoveTimer
    <2>2. PICK f \in [DOMAIN timers' -> DOMAIN timers] : \A k \in DOMAIN f : timers'[k] = timers[f[k]]
      BY <2>1 DEF Thinned
    <2>3. \A k \in DOMAIN timers' : Fresh(timers'[k])
      BY <1>2, <2>1, <2>2
    <2> HIDE DEF Fresh
    <2> QED  BY <1>1, <1>3, <2>1, <2>3
  <1>6. CASE SweepDone
    <2>1. /\ Thinned /\ shots' = shots /\ nextId' = nextId /\ loop.pc = "sweep"
          /\ \A k \in DOMAIN timers' : timers'[k].recurring \/ timers'[k].left # Never
      BY <1>1, <1>6, SweptFacts DEF SweepDone, At, ghosts
    <2>2. PICK f \in [DOMAIN timers' -> DOMAIN timers] : \A k \in DOMAIN f : timers'[k] = timers[f[k]]
      BY <2>1 DEF Thinned
    <2>3. \A k \in DOMAIN timers : ~timers[k].recurring /\ timers[k].left # Never => shots[timers[k].id] = 0
      BY <1>1, <2>1 DEF Once, At
    <2>4. \A k \in DOMAIN timers' : Fresh(timers'[k])
      BY <2>1, <2>2, <2>3
    <2> HIDE DEF Fresh
    <2> QED  BY <1>1, <1>3, <2>1, <2>4
  <1>7. CASE CallbackReturns
    <2>1. /\ loop.at \in DOMAIN timers /\ Reached = timers[loop.at]
          /\ DOMAIN timers' = DOMAIN timers
          /\ \A k \in DOMAIN timers :
               /\ k # loop.at => timers'[k] = timers[k]
               /\ timers'[k].recurring = timers[k].recurring
          /\ timers'[loop.at].left = IF Reached.recurring THEN Reached.every - loop.age ELSE Never
      BY <1>1, <1>7, RearmedFacts
    <2>2. loop'.pc = "sweep" /\ loop'.at = loop.at + 1 /\ loop.pc = "call"
      BY <1>1, <1>7, LoopFields DEF CallbackReturns, Rearmed, At
    <2>3. shots' = shots /\ nextId' = nextId
      BY <1>7 DEF CallbackReturns, Rearmed
    <2>4. ASSUME NEW k \in DOMAIN timers, ~timers'[k].recurring
          PROVE  \/ shots[timers'[k].id] = 0 /\ timers'[k].left # Never
                 \/ k < loop'.at /\ timers'[k].left = Never
      <3>1. CASE k = loop.at
        <4>1. k < loop'.at
          BY <1>1, <2>2, <3>1
        <4>2. timers'[k].left = Never
          BY <2>1, <2>4, <3>1
        <4> QED  BY <4>1, <4>2
      <3>2. CASE k # loop.at
        <4>1. timers'[k] = timers[k] /\ (k < loop.at => k < loop'.at)
          BY <1>1, <2>1, <2>2, <3>2
        <4> QED  BY <1>1, <2>4, <3>2, <4>1 DEF Once
      <3> QED  BY <3>1, <3>2
    <2>5. ~MutexFree'
      BY <2>2 DEF MutexFree
    <2>6. \A i \in TimerId : i >= nextId' => shots'[i] = 0
      BY <1>1, <2>3 DEF Once
    <2> QED  BY <2>1, <2>3, <2>4, <2>5, <2>6 DEF Once
  <1>8. CASE Tick
    <2>1. /\ DOMAIN timers' = DOMAIN timers
          /\ \A k \in DOMAIN timers :
               /\ timers'[k].id = timers[k].id /\ timers'[k].recurring = timers[k].recurring
               /\ timers'[k].left = Never <=> timers[k].left = Never
      BY <1>1, <1>8, TickFacts
    <2>2. shots' = shots /\ nextId' = nextId
      BY <1>8 DEF Tick
    <2>3. loop'.pc = loop.pc /\ loop'.at = loop.at
      BY <1>1, <1>8, LoopFields DEF Tick
    <2> QED  BY <1>1, <2>1, <2>2, <2>3 DEF Once, MutexFree, At
  <1>9. CASE Elsewhere
    <2>1. timers' = timers /\ nextId' = nextId
      BY <1>9, ElsewhereKeeps
    <2>2. ASSUME MutexFree, shots' = shots PROVE Once'
      BY <1>1, <1>2, <1>3, <2>1, <2>2
    <2>3. CASE Stop \/ UNCHANGED timerVars
      BY <1>1, <2>1, <2>3 DEF Stop, timerVars, Once, MutexFree, At
    <2>4. CASE EnterRun \/ EnterWait \/ LeaveRun \/ WaitFails \/ Awake \/ Interrupted \/ ReadClock \/ LockTimers
               \/ Dispatched
      <3>1. MutexFree /\ shots' = shots
        BY <2>4 DEF EnterRun, EnterWait, LeaveRun, WaitFails, Awake, Interrupted, ReadClock, LockTimers,
                    Dispatched, Turn, ghosts, MutexFree, At
      <3> QED  BY <2>2, <3>1
    <2>5. CASE SkipTimer
      <3>1. /\ loop'.pc = "sweep" /\ loop'.at = loop.at + 1 /\ loop.pc = "sweep" /\ shots' = shots
        BY <1>1, <2>5, LoopFields DEF SkipTimer, At, ghosts
      <3>2. \A k \in DOMAIN timers : k < loop.at => k < loop'.at
        BY <1>1, <3>1
      <3> QED  BY <1>1, <2>1, <3>1, <3>2 DEF Once, MutexFree, At
    <2>6. CASE CallTimer
      <3>1. /\ loop.pc = "sweep" /\ shots' = [shots EXCEPT ![Reached.id] = UpTo(@ + 1, 2)]
            /\ loop.at \in DOMAIN timers /\ Reached = timers[loop.at]
        BY <1>1, <2>6 DEF CallTimer, At, InReach, Reached, Fields
      <3>2. loop'.pc = "call" /\ loop'.at = loop.at
        BY <1>1, <2>6, LoopFields DEF CallTimer, Labels
      <3>3. \A i \in TimerId : i # Reached.id => shots'[i] = shots[i]
        BY <1>1, <3>1 DEF Fields
      <3>4. \A k \in DOMAIN timers : k # loop.at => timers[k].id # Reached.id
        <4> SUFFICES ASSUME NEW k \in DOMAIN timers, k # loop.at PROVE timers[k].id # Reached.id
          OBVIOUS
        <4>1. k \in 1..loop.at - 1 \/ loop.at \in 1..k - 1
          BY <1>1, <3>1
        <4>2. timers[k].id < Reached.id \/ Reached.id < timers[k].id
          BY <1>1, <3>1, <4>1 DEF Ordered
        <4>3. timers[k].id \in Nat /\ Reached.id \in Nat
          BY <1>1, <3>1 DEF TimerId
        <4> QED  BY <4>2, <4>3
      <3>5. ASSUME NEW i \in TimerId, i >= nextId PROVE shots'[i] = 0
        <4>1. Reached.id < nextId
          BY <1>1, <3>1 DEF Ordered
        <4>2. i # Reached.id
          BY <1>1, <3>1, <3>5, <4>1 DEF TimerId
        <4> QED  BY <1>1, <3>3, <3>5, <4>2 DEF Once
      <3>6. ASSUME NEW k \in DOMAIN timers, ~timers[k].recurring, k # loop.at
            PROVE  \/ shots'[timers[k].id] = 0 /\ timers[k].left # Never
                   \/ k < loop.at /\ timers[k].left = Never
        <4>1. shots'[timers[k].id] = shots[timers[k].id]
          BY <1>1, <3>3, <3>4, <3>6
        <4> QED  BY <1>1, <3>6, <4>1 DEF Once
      <3> QED  BY <2>1, <3>2, <3>5, <3>6 DEF Once, MutexFree, At
    <2> QED  BY <1>9, <2>3, <2>4, <2>5, <2>6 DEF Elsewhere
  <1> QED  BY <1>4, <1>5, <1>6, <1>7, <1>8, <1>9, StepKinds
LEMMA AllowedBounds ==
  ASSUME Fields, Clocks
  PROVE  Allowed \in 0..Lateness
  <1> DEFINE c == Cut(signals)
             m == Cut(MaxSignals)
  <1>1. /\ c \in Nat /\ m \in Nat /\ c <= m /\ Timeout \in Nat /\ Busy \in Nat
        /\ Lateness = m + Timeout + Busy + Busy /\ spent \in Nat
    BY CutTimes, TimerConstants DEF Fields
  <1> HIDE DEF c, m
  <1>2. CASE At("wait")
    <2>1. Allowed = Busy + c + spent /\ spent <= Timeout
      BY <1>2 DEF Allowed, At, c, Clocks
    <2> QED  BY <1>1, <2>1
  <1>3. CASE At("top")
    <2>1. Allowed = c + spent /\ spent <= Busy
      BY <1>3 DEF Allowed, c, Clocks, At, InRun
    <2> QED  BY <1>1, <2>1
  <1>4. CASE loop.pc \in {"clock", "lock", "sweep", "call"}
    <2>1. Allowed = Busy + m + Timeout + spent /\ spent <= Busy
      BY <1>4 DEF Allowed, m, Clocks, At, InRun
    <2> QED  BY <1>1, <2>1
  <1>5. CASE At("dispatch")
    <2>1. Allowed = spent /\ spent <= Busy
      BY <1>5 DEF Allowed, Clocks, At, InRun
    <2> QED  BY <1>1, <2>1
  <1>6. CASE loop.pc \notin {"wait", "top", "clock", "lock", "sweep", "call", "dispatch"}
    <2>1. Allowed = Lateness
      BY <1>6 DEF Allowed, At
    <2> QED  BY <1>1, <2>1
  <1> QED  BY <1>2, <1>3, <1>4, <1>5, <1>6 DEF At

\* Apart from the start of Run and the end of a sweep, no step allows less.
LEMMA AllowedGrows ==
  ASSUME Fields, Clocks, Elsewhere, ~EnterRun
  PROVE  Allowed' >= Allowed /\ Allowed' \in Int /\ up' = up
  <1> DEFINE c == Cut(signals)
             m == Cut(MaxSignals)
             d == Cut(signals')
  <1>1. /\ c \in Nat /\ m \in Nat /\ c <= m /\ Timeout \in Nat /\ Busy \in Nat
        /\ Lateness = m + Timeout + Busy + Busy /\ spent \in Nat /\ signals \in 0..MaxSignals
    BY CutTimes, TimerConstants DEF Fields
  <1>2. Allowed \in 0..Lateness
    BY AllowedBounds
  <1>3. Cut(signals + 1) = c + Timeout + Busy
    BY CutTimes, <1>1 DEF c
  <1>4. ASSUME NEW p \in Labels, loop' = [loop EXCEPT !.pc = p] PROVE loop'.pc = p
    BY <1>4, LoopFields
  <1> HIDE DEF c, m, d
  <1>14. up' = up
    BY DEF Elsewhere, Stop, EnterWait, LeaveRun, WaitFails, Awake, Interrupted, ReadClock,
           LockTimers, SkipTimer, CallTimer, Dispatched, Turn, ghosts, timerVars
  <1> SUFFICES Allowed' >= Allowed /\ Allowed' \in Int
    BY <1>14
  <1>5. ASSUME loop' = loop, spent' = spent, signals' = signals
        PROVE  Allowed' >= Allowed /\ Allowed' \in Int
    <2>1. Allowed' = Allowed
      BY <1>5 DEF Allowed, At
    <2> QED  BY <1>2, <2>1
  <1>6. CASE Stop
    BY <1>5, <1>6 DEF Stop
  <1>7. CASE UNCHANGED timerVars
    BY <1>5, <1>7 DEF timerVars
  <1>8. CASE EnterWait
    <2>1. loop.pc = "top" /\ spent' = 0 /\ signals' = signals /\ up' = up
      BY <1>8 DEF EnterWait, Turn, ghosts, At
    <2>2. loop'.pc = "wait"
      BY <1>4, <1>8 DEF EnterWait, Turn, Labels
    <2>3. Allowed = c + spent /\ Allowed' = Busy + c + 0
      BY <2>1, <2>2 DEF Allowed, At, c
    <2>4. spent <= Busy
      BY <2>1 DEF Clocks, At, InRun
    <2> QED  BY <1>1, <2>1, <2>3, <2>4
  <1>9. CASE LeaveRun \/ WaitFails
    <2>1. loop'.pc = "off" /\ up' = up
      BY <1>4, <1>9 DEF LeaveRun, WaitFails, Turn, ghosts, Labels
    <2>2. Allowed' = Lateness
      BY <2>1 DEF Allowed, At
    <2> QED  BY <1>1, <1>2, <2>1, <2>2
  <1>10. CASE Awake
    <2>1. loop.pc = "wait" /\ spent' = 0 /\ up' = up
      BY <1>10 DEF Awake, Turn, ghosts, At
    <2>2. loop'.pc = "clock"
      BY <1>4, <1>10 DEF Awake, Turn, Labels
    <2>3. Allowed = Busy + c + spent /\ Allowed' = Busy + m + Timeout + 0
      BY <2>1, <2>2 DEF Allowed, At, c, m
    <2>4. spent <= Timeout
      BY <2>1 DEF Clocks, At
    <2> QED  BY <1>1, <2>1, <2>3, <2>4
  <1>11. CASE Interrupted
    <2>1. loop.pc = "wait" /\ spent' = 0 /\ up' = up /\ signals' = signals + 1
      BY <1>11 DEF Interrupted, Turn, ghosts, At
    <2>2. loop'.pc = "top"
      BY <1>4, <1>11 DEF Interrupted, Turn, Labels
    <2>3. Allowed = Busy + c + spent /\ Allowed' = d + 0 /\ d = c + Timeout + Busy
      BY <1>3, <2>1, <2>2 DEF Allowed, At, c, d
    <2>4. spent <= Timeout
      BY <2>1 DEF Clocks, At
    <2> QED  BY <1>1, <2>1, <2>3, <2>4
  <1>12. CASE ReadClock \/ LockTimers \/ SkipTimer \/ CallTimer
    <2>1. /\ loop.pc \in {"clock", "lock", "sweep"} /\ spent' = spent /\ up' = up
      BY <1>12 DEF ReadClock, LockTimers, SkipTimer, CallTimer, ghosts, At
    <2>2. loop'.pc \in {"clock", "lock", "sweep", "call"}
      <3>1. CASE ReadClock
        BY <3>1 DEF ReadClock
      <3>2. CASE LockTimers \/ CallTimer
        BY <1>4, <3>2 DEF LockTimers, CallTimer, Labels
      <3>3. CASE SkipTimer
        BY <3>3, LoopFields DEF SkipTimer, At
      <3> QED  BY <1>12, <3>1, <3>2, <3>3
    <2>3. Allowed = Busy + m + Timeout + spent /\ Allowed' = Busy + m + Timeout + spent
      BY <2>1, <2>2 DEF Allowed, At, m
    <2> QED  BY <1>1, <2>1, <2>3
  <1>13. CASE Dispatched
    <2>1. loop.pc = "dispatch" /\ spent' = spent /\ up' = up /\ signals' = signals
      BY <1>13 DEF Dispatched, ghosts, At
    <2>2. loop'.pc = "top"
      BY <1>4, <1>13 DEF Dispatched, Labels
    <2>3. Allowed = spent /\ Allowed' = c + spent
      BY <2>1, <2>2 DEF Allowed, At, c
    <2> QED  BY <1>1, <2>1, <2>3
  <1> QED
    BY <1>6, <1>7, <1>8, <1>9, <1>10, <1>11, <1>12, <1>13 DEF Elsewhere

LEMMA LateStep ==
  ASSUME TimersInv, [TimersNext]_timerVars
  PROVE  Late'
  <1>1. /\ Fields /\ Clocks /\ Late /\ Allowed \in Nat /\ Allowed <= Lateness
        /\ Lateness \in Nat /\ Span \in Nat /\ Busy \in Nat /\ Timeout \in Nat
        /\ timers \in Seq(Timer) /\ Len(timers) \in Nat /\ DOMAIN timers = 1..Len(timers)
        /\ loop.at \in Nat /\ loop.age \in Nat /\ spent \in Nat /\ up \in Nat
    BY AllowedBounds, SpanBounds, TimerConstants, LenProperties DEF TimersInv, Fields
  <1>2. \A k \in DOMAIN timers : timers[k].left \in Int
    <2>1. \A k \in DOMAIN timers : timers[k].left \in -Lateness - 1 .. Never
      <3>1. \A k \in DOMAIN timers : timers[k] \in Timer
        BY <1>1, ElementOfSeq
      <3> QED  BY <3>1 DEF Timer
    <2>2. -Lateness - 1 .. Never \subseteq Int
      BY <1>1
    <2> QED  BY <2>1, <2>2
  <1>3. /\ ~MutexFree => \A k \in DOMAIN timers : k < loop.at => timers[k].left >= -loop.age
        /\ up <= Allowed \/ \A k \in DOMAIN timers : timers[k].left >= -Allowed
    BY <1>1 DEF Late
  <1>4. ASSUME NEW e \in {Interval} \cup Delays, NEW r \in BOOLEAN, Adding(e, r) PROVE Late'
    <2> DEFINE p == Pushed(e, r)
    <2>1. /\ MutexFree /\ nextId <= MaxTimers /\ timers' = p /\ up' = up
          /\ spent' = spent /\ signals' = signals
      BY <1>4 DEF Adding
    <2>2. /\ DOMAIN p = 1..Len(timers) + 1
          /\ \A k \in DOMAIN timers : p[k] = timers[k]
          /\ p[Len(timers) + 1] = [id |-> nextId, every |-> e, recurring |-> r, left |-> e]
      BY <1>1, <2>1, PushedFacts
    <2> HIDE DEF p
    <2>3. Allowed' = Allowed /\ MutexFree'
      <3>1. CASE loop' = loop
        BY <2>1, <3>1 DEF Allowed, MutexFree, At
      <3>2. CASE At("off") /\ loop' = [loop EXCEPT !.pc = "born"]
        <4>1. loop'.pc = "born" /\ loop.pc = "off"
          BY <1>1, <3>2, LoopFields DEF At, Labels
        <4> QED  BY <4>1 DEF Allowed, MutexFree, At
      <3> QED  BY <1>4, <3>1, <3>2 DEF Adding
    <2>4. p[Len(timers) + 1].left = e /\ e >= -Allowed
      <3>1. e \in Nat
        BY TimerConstants
      <3>2. e >= -Allowed
        BY <1>1, <3>1
      <3> QED  BY <2>2, <3>2
    <2>5. up <= Allowed \/ \A k \in DOMAIN p : p[k].left >= -Allowed
      <3>1. \A k \in 1..Len(timers) + 1 : k \in DOMAIN timers \/ k = Len(timers) + 1
        BY <1>1
      <3> QED  BY <1>3, <2>2, <2>4, <3>1
    <2> QED  BY <2>1, <2>3, <2>5 DEF Late
  <1>5. CASE \E i \in TimerId : RemoveTimer(i)
    <2>1. Thinned /\ MutexFree /\ UNCHANGED <<loop, spent, signals, up>>
      BY <1>1, <1>5, RemovedFacts DEF RemoveTimer
    <2>2. PICK f \in [DOMAIN timers' -> DOMAIN timers] : \A k \in DOMAIN f : timers'[k] = timers[f[k]]
      BY <2>1 DEF Thinned
    <2>3. Allowed' = Allowed /\ MutexFree'
      BY <2>1 DEF Allowed, MutexFree, At
    <2>4. up <= Allowed \/ \A k \in DOMAIN timers' : timers'[k].left >= -Allowed
      BY <1>3, <2>2
    <2> QED  BY <2>1, <2>3, <2>4 DEF Late
  <1>6. CASE SweepDone
    <2>1. Thinned /\ loop'.pc = "dispatch" /\ loop.pc = "sweep" /\ spent' = spent /\ loop.at > Len(timers)
      BY <1>1, <1>6, SweptFacts DEF SweepDone, InReach, At, ghosts
    <2>2. PICK f \in [DOMAIN timers' -> DOMAIN timers] : \A k \in DOMAIN f : timers'[k] = timers[f[k]]
      BY <2>1 DEF Thinned
    <2>3. Allowed' = spent /\ MutexFree'
      BY <2>1 DEF Allowed, MutexFree, At
    <2>4. loop.age <= spent
      BY <1>1, <2>1 DEF Clocks
    <2>5. ASSUME NEW k \in DOMAIN timers PROVE timers[k].left >= -spent
      <3>1. k < loop.at
        BY <1>1, <2>1
      <3>2. timers[k].left >= -loop.age
        BY <1>3, <2>1, <3>1 DEF MutexFree
      <3> QED  BY <1>1, <1>2, <2>4, <3>2
    <2> QED  BY <2>2, <2>3, <2>5 DEF Late
  <1>7. CASE CallbackReturns
    <2>1. /\ loop.at \in DOMAIN timers /\ Reached = timers[loop.at] /\ Reached \in Timer
          /\ DOMAIN timers' = DOMAIN timers
          /\ \A k \in DOMAIN timers : k # loop.at => timers'[k] = timers[k]
          /\ timers'[loop.at].left = IF Reached.recurring THEN Reached.every - loop.age ELSE Never
      BY <1>1, <1>7, RearmedFacts
    <2>2. /\ loop'.pc = "sweep" /\ loop'.at = loop.at + 1 /\ loop.pc = "call"
          /\ loop'.age = loop.age
      BY <1>1, <1>7, LoopFields DEF CallbackReturns, Rearmed, At
    <2>3. spent' = spent /\ up' = up
      BY <1>7 DEF CallbackReturns, Rearmed
    <2>4. Allowed' = Allowed /\ loop.age <= Allowed
      <3> DEFINE m == Cut(MaxSignals)
      <3>1. Allowed' = Busy + m + Timeout + spent /\ Allowed = Busy + m + Timeout + spent
        BY <2>2, <2>3 DEF Allowed, At
      <3>2. loop.age <= spent /\ m \in Nat
        BY <1>1, <2>2, CutTimes DEF Clocks
      <3> HIDE DEF m
      <3> QED  BY <1>1, <3>1, <3>2
    <2>5. timers'[loop.at].left >= -loop.age
      <3>1. Reached.every \in Nat /\ Never \in Nat
        <4>1. Reached.every \in {Interval} \cup Delays
          BY <2>1 DEF Timer
        <4>2. {Interval} \cup Delays \subseteq Nat
          BY TimerConstants
        <4>3. Never \in Nat
          BY <1>1 DEF Never
        <4> QED  BY <4>1, <4>2, <4>3
      <3>2. Reached.every - loop.age >= -loop.age /\ Never >= -loop.age
        BY <1>1, <3>1
      <3> QED  BY <2>1, <3>2
    <2>6. ASSUME NEW k \in DOMAIN timers, k < loop'.at PROVE timers'[k].left >= -loop'.age
      <3>1. k < loop.at \/ k = loop.at
        BY <1>1, <2>2, <2>6
      <3>2. CASE k = loop.at
        BY <2>2, <2>5, <3>2
      <3>3. CASE k < loop.at /\ k # loop.at
        BY <1>3, <2>1, <2>2, <3>3 DEF MutexFree
      <3> QED  BY <3>1, <3>2, <3>3
    <2>7. timers'[loop.at].left >= -Allowed
      <3>1. timers'[loop.at].left \in Int
        <4>1. Reached.every \in {Interval} \cup Delays
          BY <2>1 DEF Timer
        <4>2. {Interval} \cup Delays \subseteq Nat
          BY TimerConstants
        <4>3. Never \in Int
          BY <1>1 DEF Never
        <4>4. \A e \in Nat : e - loop.age \in Int
          BY <1>1
        <4> QED  BY <2>1, <4>1, <4>2, <4>3, <4>4
      <3> QED  BY <1>1, <2>4, <2>5, <3>1
    <2>8. up <= Allowed \/ \A k \in DOMAIN timers : timers'[k].left >= -Allowed
      BY <1>3, <2>1, <2>7
    <2> QED  BY <2>1, <2>3, <2>4, <2>6, <2>8 DEF Late
  <1>8. CASE Tick
    <2>1. /\ DOMAIN timers' = DOMAIN timers
          /\ \A k \in DOMAIN timers : timers'[k] \in Timer /\ timers'[k].left >= timers[k].left - 1
      BY <1>1, <1>8, TickFacts
    <2>2. \A k \in DOMAIN timers : timers'[k].left \in Int
      <3>1. -Lateness - 1 .. Never \subseteq Int
        BY <1>1
      <3> QED  BY <2>1, <3>1 DEF Timer
    <2>3. /\ loop'.pc = loop.pc /\ loop'.at = loop.at
          /\ loop'.age = IF loop.pc \in {"lock", "sweep", "call"} THEN loop.age + 1 ELSE loop.age
      BY <1>1, <1>8, LoopFields DEF Tick
    <2>4. /\ spent' = (IF InRun THEN spent + 1 ELSE 0) /\ signals' = signals
          /\ up' = (IF InRun THEN UpTo(up + 1, Lateness + 1) ELSE 0)
      BY <1>8 DEF Tick
    <2>5. ASSUME ~MutexFree', NEW k \in DOMAIN timers, k < loop'.at
          PROVE  timers'[k].left >= -loop'.age
      <3>1. ~MutexFree /\ loop.pc \in {"lock", "sweep", "call"}
        BY <2>3, <2>5 DEF MutexFree
      <3>2. timers[k].left >= -loop.age /\ loop'.age = loop.age + 1
        BY <1>3, <2>3, <2>5, <3>1
      <3> QED  BY <1>1, <1>2, <2>1, <2>2, <3>2
    <2>6. CASE InRun
      <3>1. Allowed' = Allowed + 1
        <4> DEFINE c == Cut(signals)
                   m == Cut(MaxSignals)
        <4>1. c \in Nat /\ m \in Nat
          BY <1>1, CutTimes DEF Fields
        <4>2. loop.pc \in Labels \ {"off", "born"} /\ spent' = spent + 1
          BY <1>1, <2>4, <2>6, LoopFields DEF InRun
        <4>3. Cut(signals') = c
          BY <2>4
        <4> HIDE DEF c, m
        <4>4. CASE loop.pc = "wait"
          <5>1. Allowed = Busy + c + spent /\ Allowed' = Busy + c + (spent + 1)
            BY <2>3, <4>2, <4>3, <4>4 DEF Allowed, At, c
          <5> QED  BY <1>1, <4>1, <5>1
        <4>5. CASE loop.pc = "top"
          <5>1. Allowed = c + spent /\ Allowed' = c + (spent + 1)
            BY <2>3, <4>2, <4>3, <4>5 DEF Allowed, At, c
          <5> QED  BY <1>1, <4>1, <5>1
        <4>6. CASE loop.pc \in {"clock", "lock", "sweep", "call"}
          <5>1. Allowed = Busy + m + Timeout + spent /\ Allowed' = Busy + m + Timeout + (spent + 1)
            BY <2>3, <4>2, <4>6 DEF Allowed, At, m
          <5> QED  BY <1>1, <4>1, <5>1
        <4>7. CASE loop.pc = "dispatch"
          BY <2>3, <4>2, <4>7 DEF Allowed, At
        <4> QED  BY <4>2, <4>4, <4>5, <4>6, <4>7 DEF Labels
      <3>2. up <= Allowed => up' <= Allowed'
        <4>1. UpTo(up + 1, Lateness + 1) <= up + 1 /\ UpTo(up + 1, Lateness + 1) \in Nat
          BY <1>1 DEF UpTo
        <4> QED  BY <1>1, <2>4, <2>6, <3>1, <4>1
      <3>3. ASSUME NEW k \in DOMAIN timers, timers[k].left >= -Allowed
            PROVE  timers'[k].left >= -(Allowed + 1)
        BY <1>1, <1>2, <2>1, <2>2, <3>3
      <3> QED  BY <1>3, <2>1, <2>5, <3>1, <3>2, <3>3 DEF Late
    <2>7. CASE ~InRun
      <3>1. up' = 0 /\ Allowed' = Lateness
        BY <2>3, <2>4, <2>7 DEF Allowed, At, InRun
      <3> QED  BY <1>1, <2>1, <2>5, <3>1 DEF Late
    <2> QED  BY <2>6, <2>7
  <1>9. CASE Elsewhere
    <2>1. timers' = timers
      BY <1>9, ElsewhereKeeps
    <2>2. up' <= Allowed' \/ \A k \in DOMAIN timers' : timers'[k].left >= -Allowed'
      <3>1. CASE EnterRun
        <4>1. loop'.pc = "top" /\ up' = 0 /\ spent' = spent /\ signals' = signals
          BY <1>1, <3>1, LoopFields DEF EnterRun, Labels
        <4>2. Allowed' = Cut(signals) + spent /\ Cut(signals) \in Nat
          BY <1>1, <4>1, CutTimes DEF Allowed, At, Fields
        <4> QED  BY <1>1, <4>1, <4>2
      <3>2. CASE ~EnterRun
        <4>1. Allowed' >= Allowed /\ Allowed' \in Int /\ up' = up
          BY <1>1, <1>9, <3>2, AllowedGrows
        <4> QED  BY <1>1, <1>2, <1>3, <2>1, <4>1
      <3> QED  BY <3>1, <3>2
    <2>3. ASSUME ~MutexFree', NEW k \in DOMAIN timers, k < loop'.at
          PROVE  timers[k].left >= -loop'.age
      <3>1. CASE SkipTimer
        <4>1. /\ loop'.at = loop.at + 1 /\ loop'.age = loop.age /\ loop.pc = "sweep"
              /\ ~(timers[loop.at].left + loop.age <= 0)
          BY <1>1, <3>1, LoopFields DEF SkipTimer, At, DueAtNow, Reached
        <4>2. CASE k = loop.at
          BY <1>1, <1>2, <4>1, <4>2
        <4>3. CASE k # loop.at
          <5>1. k < loop.at
            BY <1>1, <2>3, <4>1, <4>3
          <5> QED  BY <1>3, <4>1, <5>1 DEF MutexFree
        <4> QED  BY <4>2, <4>3
      <3>2. CASE CallTimer
        <4>1. loop'.at = loop.at /\ loop'.age = loop.age /\ loop.pc = "sweep"
          BY <1>1, <3>2, LoopFields DEF CallTimer, At, Labels
        <4> QED  BY <1>3, <2>3, <4>1 DEF MutexFree
      <3>3. CASE LockTimers
        <4>1. loop'.at = loop.at /\ loop.at = 1
          BY <1>1, <3>3, LoopFields DEF LockTimers, At, Labels, Clocks, MutexFree
        <4> QED  BY <1>1, <2>3, <4>1
      <3>4. CASE Stop \/ UNCHANGED timerVars
        <4>1. loop' = loop
          BY <3>4 DEF Stop, timerVars
        <4> QED  BY <1>3, <2>3, <4>1 DEF MutexFree
      <3>5. CASE EnterRun \/ EnterWait \/ LeaveRun \/ Awake \/ ReadClock \/ Dispatched \/ Interrupted \/ WaitFails
        <4>1. loop'.pc \notin {"sweep", "call"}
          <5>1. CASE ReadClock
            BY <5>1 DEF ReadClock
          <5>2. ASSUME NEW p \in Labels \ {"sweep", "call"}, loop' = [loop EXCEPT !.pc = p]
                PROVE  loop'.pc \notin {"sweep", "call"}
            BY <1>1, <5>2, LoopFields
          <5> QED  BY <3>5, <5>1, <5>2 DEF EnterRun, EnterWait, LeaveRun, Awake, Dispatched,
                                         Interrupted, WaitFails, Turn, Labels
        <4> QED  BY <2>3, <4>1 DEF MutexFree
      <3> QED  BY <1>9, <3>1, <3>2, <3>3, <3>4, <3>5 DEF Elsewhere
    <2> QED  BY <2>1, <2>2, <2>3 DEF Late
  <1> QED  BY <1>4, <1>5, <1>6, <1>7, <1>8, <1>9, StepKinds
(***************************************************************************)
(* The theorems                                                            *)
(***************************************************************************)
LEMMA TimersStart == TimersInit => TimersInv
  <1> SUFFICES ASSUME TimersInit PROVE TimersInv
    OBVIOUS
  <1>1. /\ timers = <<>> /\ nextId = 1 /\ running = FALSE
        /\ loop = [pc |-> "off", at |-> 1, age |-> 0] /\ spent = 0 /\ signals = 0
        /\ removed = {} /\ shots = [i \in TimerId |-> 0] /\ rest = [i \in TimerId |-> Span]
        /\ up = 0 /\ halt = 0
    BY DEF TimersInit
  <1>2. /\ Lateness \in Nat /\ Span \in Nat /\ MaxTimers \in Nat /\ MaxSignals \in Nat
        /\ Busy \in Nat /\ Timeout \in Nat
    BY SpanBounds, TimerConstants
  <1>3. <<>> \in Seq(Timer) /\ Len(timers) = 0 /\ DOMAIN timers = {}
    BY <1>1
  <1>4. Fields
    <2>1. loop \in [pc : Labels, at : Nat \ {0}, age : Nat]
      BY <1>1 DEF Labels
    <2>2. rest \in [TimerId -> 0..Span] /\ shots \in [TimerId -> 0..2]
      BY <1>1, <1>2
    <2>3. /\ timers \in Seq(Timer) /\ Len(timers) < nextId /\ nextId \in 1..MaxTimers + 1
          /\ running \in BOOLEAN /\ spent \in Nat /\ signals \in 0..MaxSignals
          /\ removed \subseteq TimerId /\ up \in 0..Lateness + 1 /\ halt \in 0..Span
      <3>1. timers \in Seq(Timer) /\ running \in BOOLEAN /\ removed \subseteq TimerId
        BY <1>1, <1>3
      <3>2. 0 < 1 /\ 1 \in 1..MaxTimers + 1 /\ 0 \in 0..MaxSignals /\ 0 \in 0..Lateness + 1 /\ 0 \in 0..Span
        BY <1>2
      <3>3. /\ Len(timers) < nextId /\ nextId \in 1..MaxTimers + 1 /\ spent \in Nat
            /\ signals \in 0..MaxSignals /\ up \in 0..Lateness + 1 /\ halt \in 0..Span
        BY <1>1, <1>3, <3>2
      <3> QED  BY <3>1, <3>3
    <2> QED  BY <2>1, <2>2, <2>3 DEF Fields
  <1>5. Ordered
    BY <1>1, <1>3 DEF Ordered
  <1>6. Clocks
    BY <1>1, <1>3 DEF Clocks, At, InRun, MutexFree
  <1>7. Once
    BY <1>1, <1>3 DEF Once
  <1>8. Late
    BY <1>1, <1>2, <1>3 DEF Late, MutexFree
  <1>9. Halting
    BY <1>1 DEF Halting, InRun
  <1>10. Rested
    BY <1>3 DEF Rested
  <1> QED  BY <1>4, <1>5, <1>6, <1>7, <1>8, <1>9, <1>10 DEF TimersInv

\* The strengthening every result below rests on: where the loop is bounds how
\* late a timer can be, and each timer remembers when it last ran.
THEOREM TimersInvariant == TimersSpec => []TimersInv
  <1>1. TimersInit => TimersInv
    BY TimersStart
  <1>2. TimersInv /\ [TimersNext]_timerVars => TimersInv'
    BY FieldsStep, OrderedStep, ClocksStep, OnceStep, LateStep, HaltingStep, RestedStep
    DEF TimersInv
  <1> QED  BY <1>1, <1>2, PTL DEF TimersSpec

\* timers_ stays in the order of the ids, each id handed out once, and the
\* loop's clocks stay in range.
THEOREM TimersTyped == TimersSpec => []TimersTypeOK
  <1>1. TimersInv => TimersTypeOK
    <2> SUFFICES ASSUME TimersInv PROVE TimersTypeOK
      OBVIOUS
    <2>1. /\ timers \in Seq(Timer) /\ Len(timers) \in Nat /\ DOMAIN timers = 1..Len(timers)
          /\ Len(timers) < nextId /\ nextId \in 1..MaxTimers + 1
          /\ loop \in [pc : Labels, at : Nat \ {0}, age : Nat] /\ spent \in Nat
          /\ Busy \in Nat /\ Timeout \in Nat /\ MaxTimers \in Nat
      BY LenProperties, TimerConstants DEF TimersInv, Fields
    <2>2. ASSUME NEW k \in DOMAIN timers
          PROVE  /\ timers[k] \in [id : TimerId, every : {Interval} \cup Delays,
                                   recurring : BOOLEAN, left : -Lateness - 1 .. Never]
                 /\ timers[k].id < nextId
                 /\ \A j \in 1..k - 1 : timers[j].id < timers[k].id
      <3>1. timers[k] \in Timer
        BY <2>1, ElementOfSeq
      <3> QED  BY <3>1 DEF Timer, TimersInv, Ordered
    <2>3. loop.pc \in Labels /\ loop.at \in 1..MaxTimers + 1 /\ loop.age \in 0..Busy
      <3>1. loop.pc \in Labels /\ loop.at \in Nat \ {0} /\ loop.age \in Nat
        BY <2>1
      <3>2. loop.pc \in {"lock", "sweep", "call"} => loop.age <= spent /\ spent <= Busy
        BY DEF TimersInv, Clocks, InRun, At
      <3>3. loop.pc \notin {"lock", "sweep", "call"} => loop.age = 0
        BY DEF TimersInv, Clocks
      <3>4. loop.at = 1 \/ loop.at <= Len(timers) + 1
        BY DEF TimersInv, Clocks
      <3> QED  BY <2>1, <3>1, <3>2, <3>3, <3>4
    <2>4. loop \in [pc : Labels, at : 1..MaxTimers + 1, age : 0..Busy]
      BY <2>1, <2>3
    <2>5. spent \in 0..Longest({Timeout, Busy})
      <3> DEFINE S == {Timeout, Busy}
      <3>1. \E n \in S : \A m \in S : m <= n
        <4>1. Timeout <= Busy \/ Busy <= Timeout
          BY <2>1
        <4>2. Timeout <= Timeout /\ Busy <= Busy
          BY <2>1
        <4> QED  BY <4>1, <4>2
      <3>2. Longest(S) \in S /\ \A m \in S : m <= Longest(S)
        <4> HIDE DEF S
        <4> QED  BY <3>1 DEF Longest
      <3>3. Longest(S) \in Nat /\ Timeout <= Longest(S) /\ Busy <= Longest(S)
        BY <2>1, <3>2
      <3>4. spent <= Timeout \/ spent <= Busy \/ spent = 0
        BY DEF TimersInv, Clocks, InRun, At
      <3> HIDE DEF S
      <3>5. spent \in 0..Longest(S)
        BY <2>1, <3>3, <3>4
      <3> QED  BY <3>5 DEF S
    <2> QED  BY <2>2, <2>4, <2>5 DEF TimersTypeOK, TimersInv, Fields, Labels
  <1> QED  BY <1>1, TimersInvariant, PTL

\* No timer waits longer than a wait with its interruptions and the two rounds
\* around it, for any number of timers and signals.
THEOREM TimersFireOnTime == TimersSpec => []TimersOnTime
  <1>1. TimersInv => TimersOnTime
    <2> SUFFICES ASSUME TimersInv, up > Lateness, NEW k \in DOMAIN timers
                 PROVE  timers[k].left >= -Lateness
      BY DEF TimersOnTime
    <2>1. Allowed \in 0..Lateness /\ Lateness \in Nat /\ up \in Nat
      BY AllowedBounds, SpanBounds DEF TimersInv, Fields
    <2>2. ~(up <= Allowed)
      BY <2>1
    <2>3. timers[k].left >= -Allowed
      BY <2>2 DEF TimersInv, Late
    <2>4. timers[k].left \in Int
      <3>1. timers[k] \in Timer
        BY LenProperties, ElementOfSeq DEF TimersInv, Fields
      <3>2. timers[k].left \in -Lateness - 1 .. Never
        BY <3>1 DEF Timer
      <3>3. -Lateness - 1 .. Never \subseteq Int
        BY <2>1
      <3> QED  BY <3>2, <3>3
    <2> QED  BY <2>1, <2>3, <2>4
  <1> QED  BY <1>1, TimersInvariant, PTL

\* The callback of a timer that was removed is not running and will not run.
THEOREM RemovedTimersStayQuiet == TimersSpec => []RemovedStaysQuiet
  <1>1. TimersInv => RemovedStaysQuiet
    <2> SUFFICES ASSUME TimersInv PROVE RemovedStaysQuiet
      OBVIOUS
    <2>1. \A k \in DOMAIN timers : timers[k].id \notin removed
      BY DEF TimersInv, Ordered
    <2>2. At("call") => InReach /\ loop.at \in DOMAIN timers
      BY LenProperties DEF TimersInv, Fields, Clocks, InReach
    <2> QED  BY <2>1, <2>2 DEF RemovedStaysQuiet, Reached
  <1> QED  BY <1>1, TimersInvariant, PTL

\* A one-shot timer another thread can see is one whose callback is still to run.
THEOREM OneShotsOnce == TimersSpec => []OneShotsRunOnce
  <1>1. TimersInv => OneShotsRunOnce
    BY DEF TimersInv, Once, OneShotsRunOnce, MutexFree, At
  <1> QED  BY <1>1, TimersInvariant, PTL

\* The loop leaves within Timeout + Busy of being told to stop.
THEOREM StopPrompt == TimersSpec => []StopIsPrompt
  <1>1. TimersInv => StopIsPrompt
    <2> SUFFICES ASSUME TimersInv, InRun, ~running PROVE halt <= Timeout + Busy
      BY DEF StopIsPrompt
    <2>1. halt \in Nat /\ spent \in Nat /\ Timeout \in Nat /\ Busy \in Nat
      BY TimerConstants, SpanBounds DEF TimersInv, Fields
    <2>2. CASE At("wait")
      <3>1. halt <= spent /\ spent <= Timeout
        BY <2>2 DEF TimersInv, Halting, Clocks
      <3> QED  BY <2>1, <3>1
    <2>3. CASE ~At("wait")
      <3>1. halt <= Timeout + spent /\ spent <= Busy
        BY <2>3 DEF TimersInv, Halting, Clocks
      <3> QED  BY <2>1, <3>1
    <2> QED  BY <2>2, <2>3
  <1> QED  BY <1>1, TimersInvariant, PTL

\* A callback never runs twice within its interval, however late the loop is.
THEOREM NoBurstEver == TimersSpec => NoBurst
  <1>1. TimersInv /\ CallTimer => rest[Reached.id] - loop.age >= Reached.every
    <2> SUFFICES ASSUME TimersInv, CallTimer PROVE rest[Reached.id] - loop.age >= Reached.every
      OBVIOUS
    <2>1. /\ timers \in Seq(Timer) /\ Len(timers) \in Nat /\ DOMAIN timers = 1..Len(timers)
          /\ loop.at \in Nat \ {0} /\ loop.age \in Nat /\ spent \in Nat
          /\ rest \in [TimerId -> 0..Span] /\ Span \in Nat /\ Busy \in Nat /\ Lateness \in Nat
      BY LenProperties, TimerConstants, SpanBounds DEF TimersInv, Fields
    <2>2. loop.at \in DOMAIN timers /\ Reached = timers[loop.at] /\ Reached.left + loop.age <= 0
      BY <2>1 DEF CallTimer, InReach, Reached, DueAtNow
    <2> DEFINE t == timers[loop.at]
    <2>3. t \in Timer
      BY <2>1, <2>2, ElementOfSeq
    <2>4. /\ t.id \in TimerId /\ t.every \in {Interval} \cup Delays
          /\ t.left \in -Lateness - 1 .. Never
      BY <2>3 DEF Timer
    <2>5. t.every \in Nat /\ Busy + t.every <= Span
      BY <2>4, SpanBounds
    <2>6. loop.age <= Busy
      <3>1. loop.age <= spent /\ spent <= Busy
        BY DEF TimersInv, Clocks, CallTimer, InRun, At
      <3> QED  BY <2>1, <3>1
    <2>7. rest[t.id] \in Nat /\ t.left \in Int
      BY <2>1, <2>4
    <2>8. t.left # Never
      <3>1. t.left + loop.age <= 0 /\ Never = Span + 1
        BY <2>2 DEF Never
      <3> QED  BY <2>1, <2>7, <3>1
    <2>9. rest[t.id] = Span \/ rest[t.id] + t.left >= t.every
      BY <2>2, <2>8 DEF TimersInv, Rested
    <2>10. t.left + loop.age <= 0 /\ Reached = t
      BY <2>2
    <2> HIDE DEF t
    <2>11. rest[t.id] - loop.age >= t.every
      BY <2>1, <2>5, <2>6, <2>7, <2>9, <2>10
    <2> QED  BY <2>10, <2>11
  <1>2. TimersSpec => [][CallTimer => rest[Reached.id] - loop.age >= Reached.every]_timerVars
    <2>1. TimersInv /\ [TimersNext]_timerVars
            => [CallTimer => rest[Reached.id] - loop.age >= Reached.every]_timerVars
      BY <1>1
    <2> QED  BY <2>1, TimersInvariant, PTL DEF TimersSpec
  <1> QED  BY <1>2 DEF NoBurst


=============================================================================
