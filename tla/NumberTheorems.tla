--------------------------- MODULE NumberTheorems ---------------------------
(***************************************************************************)
(* Facts about numbers that several proofs rest on: numbers that wrap      *)
(* around, least and greatest members, and counting in order.              *)
(***************************************************************************)
EXTENDS Integers, FiniteSets, Functions, FiniteSetTheorems, WellFoundedInduction,
        TLAPS

(***************************************************************************)
(* Arithmetic of numbers that wrap around                                  *)
(***************************************************************************)
LEMMA ModRange ==
  ASSUME NEW s \in Nat \ {0}, NEW x \in Int
  PROVE  /\ x % s \in 0..(s - 1)
         /\ x \div s \in Int
         /\ x = ((x \div s) * s) + (x % s)
  OBVIOUS

LEMMA ModUnique ==
  ASSUME NEW s \in Nat \ {0}, NEW q \in Int, NEW r \in 0..(s - 1)
  PROVE  (q * s + r) % s = r
  OBVIOUS

LEMMA ModSmall ==
  ASSUME NEW s \in Nat \ {0}, NEW r \in 0..(s - 1)
  PROVE  r % s = r
  OBVIOUS

LEMMA ModShift ==
  ASSUME NEW s \in Nat \ {0}, NEW x \in Int, NEW k \in Int
  PROVE  (x + k * s) % s = x % s
  <1> DEFINE q == x \div s
             r == x % s
  <1>1. x = q * s + r /\ q \in Int /\ r \in 0..(s - 1)
    BY ModRange
  <1> HIDE DEF q, r
  <1>2. x + k * s = (q + k) * s + r
    BY <1>1
  <1>3. ((q + k) * s + r) % s = r /\ (q * s + r) % s = r
    BY <1>1, ModUnique
  <1> QED  BY <1>1, <1>2, <1>3

\* The difference of two numbers that wrapped is the difference, wrapped.
LEMMA ModDifference ==
  ASSUME NEW s \in Nat \ {0}, NEW x \in Int, NEW y \in Int
  PROVE  ((x % s) - (y % s)) % s = (x - y) % s
  <1> DEFINE q == x \div s
             r == y \div s
             u == x % s
             v == y % s
             k == r - q
             z == x - y
  <1>1. /\ x = q * s + u /\ q \in Int /\ u \in Int
        /\ y = r * s + v /\ r \in Int /\ v \in Int
    BY ModRange
  <1>2. k \in Int /\ z \in Int
    BY <1>1
  <1> HIDE DEF q, r, u, v
  <1>3. u - v = z + k * s
    BY <1>1
  <1> HIDE DEF k, z
  <1>4. (z + k * s) % s = z % s
    BY <1>2, ModShift
  <1> QED  BY <1>3, <1>4 DEF u, v, z

\* The number after the wrapped one is the next number, wrapped.
LEMMA ModNext ==
  ASSUME NEW s \in Nat \ {0}, NEW x \in Int
  PROVE  ((x % s) + 1) % s = (x + 1) % s
  <1> DEFINE q == x \div s
             u == x % s
             z == u + 1
  <1>1. x = q * s + u /\ q \in Int /\ u \in Int
    BY ModRange
  <1>2. z \in Int
    BY <1>1
  <1> HIDE DEF q, u
  <1>3. x + 1 = z + q * s
    BY <1>1
  <1> HIDE DEF z
  <1>4. (z + q * s) % s = z % s
    BY <1>1, <1>2, ModShift
  <1> QED  BY <1>3, <1>4 DEF u, z

\* A number can be wrapped before another one is added.
LEMMA ModAdd ==
  ASSUME NEW s \in Nat \ {0}, NEW x \in Int, NEW r \in Int
  PROVE  ((x % s) + r) % s = (x + r) % s
  <1> DEFINE q == x \div s
             u == x % s
             z == u + r
  <1>1. x = q * s + u /\ q \in Int /\ u \in Int
    BY ModRange
  <1>2. z \in Int
    BY <1>1
  <1> HIDE DEF q, u
  <1>3. x + r = z + q * s
    BY <1>1
  <1> HIDE DEF z
  <1>4. (z + q * s) % s = z % s
    BY <1>1, <1>2, ModShift
  <1> QED  BY <1>3, <1>4 DEF u, z

(***************************************************************************)
(* Least and greatest                                                      *)
(***************************************************************************)
\* Every set of natural numbers has a least one.
LEMMA LeastNat ==
  ASSUME NEW T, T \subseteq Nat, T # {}
  PROVE  \E x \in T : \A y \in T : x <= y
  <1> DEFINE R == OpToRel(<, Nat)
  <1>1. IsWellFoundedOn(R, Nat)
    BY NatLessThanWellFounded
  <1>2. \A x \in Nat, y \in Nat : y < x => <<y, x>> \in R
    BY DEF OpToRel
  <1> HIDE DEF R
  <1>3. PICK x \in T : \A y \in T : ~ (<<y, x>> \in R)
    BY <1>1, WFMin
  <1>4. ASSUME NEW y \in T PROVE x <= y
    <2>1. ~(y < x)
      BY <1>2, <1>3
    <2> QED  BY <2>1
  <1> QED  BY <1>4

\* Every finite set of natural numbers that is not empty has a greatest one.
LEMMA GreatestNat ==
  ASSUME NEW S, S \subseteq Nat, S # {}, IsFiniteSet(S)
  PROVE  \E x \in S : \A y \in S : y <= x
  <1> DEFINE Unbounded(T) == T # {} /\ ~ \E x \in T : \A y \in T : y <= x
             Bad == {n \in Nat : \E T \in SUBSET S : Cardinality(T) = n /\ Unbounded(T)}
  <1>1. \A T \in SUBSET S : IsFiniteSet(T) /\ Cardinality(T) \in Nat
    BY FS_Subset, FS_CardinalityType
  <1>2. Bad = {}
    <2> SUFFICES ASSUME Bad # {} PROVE FALSE
      OBVIOUS
    <2>1. PICK n \in Bad : \A m \in Bad : n <= m
      <3>1. Bad \subseteq Nat
        OBVIOUS
      <3> HIDE DEF Bad
      <3> QED  BY <3>1, LeastNat
    <2>2. PICK T \in SUBSET S : Cardinality(T) = n /\ Unbounded(T)
      OBVIOUS
    <2>3. PICK x \in T : TRUE
      BY <2>2
    <2> DEFINE U == T \ {x}
    <2>4. Cardinality(U) = n - 1 /\ U \in SUBSET S /\ n \in Nat /\ n - 1 \in Nat
      <3>1. Cardinality(U) = n - 1
        BY <1>1, <2>2, FS_RemoveElement
      <3>2. U \in SUBSET S
        OBVIOUS
      <3>3. Cardinality(U) \in Nat /\ n \in Nat
        BY <1>1, <3>2
      <3> QED  BY <3>1, <3>2, <3>3
    <2>5. ~Unbounded(U)
      <3>1. n - 1 \notin Bad
        <4>1. ~(n <= n - 1)
          BY <2>4
        <4> HIDE DEF Bad
        <4> QED  BY <2>1, <4>1
      <3> HIDE DEF Unbounded, U
      <3> QED  BY <2>4, <3>1
    <2>6. CASE U = {}
      <3>1. T = {x} /\ x \in Nat
        BY <2>6
      <3> QED  BY <2>2, <3>1
    <2>7. CASE U # {}
      <3>1. PICK u \in U : \A y \in U : y <= u
        BY <2>5, <2>7
      <3>2. CASE x <= u
        <4>1. \A y \in T : y <= u
          BY <3>1, <3>2
        <4> QED  BY <2>2, <3>1, <4>1
      <3>3. CASE ~(x <= u)
        <4>1. \A y \in T : y <= x
          BY <3>1, <3>3
        <4> QED  BY <2>2, <2>3, <4>1
      <3> QED  BY <3>2, <3>3
    <2> QED  BY <2>6, <2>7
  <1>3. Cardinality(S) \in Nat /\ S \in SUBSET S
    BY <1>1
  <1>4. ~Unbounded(S)
    <2> HIDE DEF Unbounded
    <2> QED  BY <1>2, <1>3
  <1> QED  BY <1>4

(***************************************************************************)
(* Counting in order                                                       *)
(***************************************************************************)
\* How many of A come before i.
Rank(A, i) == Cardinality({j \in A : j < i})

\* The ranks of n numbers are 0, 1, ..., n - 1, in their order.
LEMMA RankOrder ==
  ASSUME NEW A, A \subseteq Nat, IsFiniteSet(A)
  PROVE  /\ \A i \in A : Rank(A, i) \in 0..(Cardinality(A) - 1)
         /\ \A i, j \in A : i < j <=> Rank(A, i) < Rank(A, j)
         /\ \A i, j \in A : Rank(A, i) = Rank(A, j) => i = j
  <1> DEFINE before(i) == {j \in A : j < i}
  <1>1. \A T \in SUBSET A : IsFiniteSet(T) /\ Cardinality(T) \in Nat
    BY FS_Subset, FS_CardinalityType
  <1>2. ASSUME NEW i \in A PROVE Rank(A, i) \in 0..(Cardinality(A) - 1)
    <2>1. before(i) \in SUBSET (A \ {i})
      OBVIOUS
    <2>2. Cardinality(A \ {i}) = Cardinality(A) - 1 /\ IsFiniteSet(A \ {i})
      BY FS_RemoveElement
    <2> HIDE DEF before
    <2>3. Cardinality(before(i)) <= Cardinality(A) - 1
      BY <2>1, <2>2, FS_Subset
    <2>4. before(i) \in SUBSET A /\ A \in SUBSET A
      BY <2>1
    <2>5. Cardinality(before(i)) \in Nat /\ Cardinality(A) \in Nat
      BY <1>1, <2>4
    <2> QED  BY <2>3, <2>5 DEF Rank, before
  <1>3. ASSUME NEW i \in A, NEW j \in A, i < j PROVE Rank(A, i) < Rank(A, j)
    <2>1. before(i) \cup {i} \in SUBSET before(j) /\ i \notin before(i)
      <3>1. i \in before(j) /\ ~(i < i)
        BY <1>3
      <3>2. ASSUME NEW k \in before(i) PROVE k \in before(j)
        <4>1. k \in A /\ k \in Nat /\ k < i /\ i \in Nat /\ j \in Nat
          OBVIOUS
        <4>2. k < j
          BY <1>3, <4>1
        <4> QED  BY <4>1, <4>2
      <3>3. i \notin before(i)
        BY <3>1
      <3> HIDE DEF before
      <3> QED  BY <3>1, <3>2, <3>3
    <2>2. before(i) \in SUBSET A /\ before(j) \in SUBSET A
      OBVIOUS
    <2> HIDE DEF before
    <2>3. /\ IsFiniteSet(before(i)) /\ Cardinality(before(i)) \in Nat
          /\ IsFiniteSet(before(j)) /\ Cardinality(before(j)) \in Nat
      BY <1>1, <2>2
    <2>4. Cardinality(before(i) \cup {i}) = Cardinality(before(i)) + 1
      BY <2>1, <2>3, FS_AddElement
    <2>5. Cardinality(before(i) \cup {i}) <= Cardinality(before(j))
      BY <2>1, <2>3, FS_Subset
    <2> QED  BY <2>3, <2>4, <2>5 DEF Rank, before
  <1>4. \A i, j \in A : i < j \/ j < i \/ i = j
    OBVIOUS
  <1>5. \A i \in A : Rank(A, i) \in Nat
    BY <1>2
  <1>6. \A i, j \in A : Rank(A, i) < Rank(A, j) => ~(Rank(A, j) < Rank(A, i)) /\ Rank(A, i) # Rank(A, j)
    BY <1>5
  <1> QED  BY <1>2, <1>3, <1>4, <1>6

LEMMA RankOnto ==
  ASSUME NEW A, A \subseteq Nat, IsFiniteSet(A), NEW r \in 0..(Cardinality(A) - 1)
  PROVE  \E i \in A : Rank(A, i) = r
  <1> DEFINE n == Cardinality(A)
             f == [i \in A |-> Rank(A, i)]
             T == 0..(n - 1)
  <1>1. n \in Nat
    BY FS_CardinalityType
  <1>2. f \in Injection(A, T)
    BY RankOrder DEF Injection, IsInjective
  <1>3. IsFiniteSet(T) /\ Cardinality(T) = n
    <2>1. IsFiniteSet(T) /\ Cardinality(T) = IF 0 > n - 1 THEN 0 ELSE (n - 1) - 0 + 1
      <3> HIDE DEF n
      <3> QED  BY <1>1, FS_Interval
    <2> HIDE DEF n, T
    <2> QED  BY <1>1, <2>1
  <1>4. f \in Surjection(A, T)
    <2> HIDE DEF f, T
    <2> QED  BY <1>2, <1>3, FS_Injection
  <1> QED  BY <1>4 DEF Surjection

\* The members of a finite set of numbers can be listed in their order.
LEMMA Listed ==
  ASSUME NEW A, A \subseteq Nat, IsFiniteSet(A)
  PROVE  \E g \in [1..Cardinality(A) -> A] :
           \A a, b \in DOMAIN g : a < b => g[a] < g[b]
  <1> DEFINE n == Cardinality(A)
             g == [k \in 1..n |-> CHOOSE i \in A : Rank(A, i) = k - 1]
  <1>1. n \in Nat
    BY FS_CardinalityType
  <1>2. ASSUME NEW k \in 1..n PROVE g[k] \in A /\ Rank(A, g[k]) = k - 1
    <2>1. k - 1 \in 0..(n - 1)
      BY <1>1
    <2>2. \E i \in A : Rank(A, i) = k - 1
      BY <2>1, RankOnto
    <2> QED  BY <2>2
  <1>3. g \in [1..n -> A] /\ DOMAIN g = 1..n
    BY <1>2
  <1> HIDE DEF g
  <1>4. \A a, b \in 1..n : a < b => a - 1 < b - 1
    BY <1>1
  <1>5. ASSUME NEW a \in 1..n, NEW b \in 1..n, a < b PROVE g[a] < g[b]
    <2>1. Rank(A, g[a]) < Rank(A, g[b])
      BY <1>2, <1>4, <1>5
    <2> QED  BY <1>2, <2>1, RankOrder
  <1> QED  BY <1>3, <1>5
(***************************************************************************)
(* Sums                                                                    *)
(***************************************************************************)
\* What SumFunctionOnSet evaluates: h adds one member after the other.
Summing(h, f, S) ==
  h = [s \in SUBSET S |->
         IF s = {} THEN 0
         ELSE LET x == CHOOSE x \in s : TRUE IN f[x] + h[s \ {x}]]

LEMMA SummingExists ==
  ASSUME NEW S, IsFiniteSet(S), NEW f
  PROVE  \E h : Summing(h, f, S)
  <1> DEFINE Size(n) == {s \in SUBSET S : Cardinality(s) <= n}
             Part(n, h) == h = [s \in Size(n) |->
                                  IF s = {} THEN 0
                                  ELSE LET x == CHOOSE x \in s : TRUE IN f[x] + h[s \ {x}]]
             Bad == {n \in Nat : ~ \E h : Part(n, h)}
  <1>1. \A s \in SUBSET S : IsFiniteSet(s) /\ Cardinality(s) \in Nat
    BY FS_Subset, FS_CardinalityType
  <1>2. ASSUME NEW s \in SUBSET S, s # {}
        PROVE  LET x == CHOOSE x \in s : TRUE
               IN  x \in s /\ s \ {x} \in SUBSET S /\ Cardinality(s \ {x}) = Cardinality(s) - 1
    <2> DEFINE x == CHOOSE x \in s : TRUE
    <2>1. x \in s
      BY <1>2
    <2>2. Cardinality(s \ {x}) = Cardinality(s) - 1
      BY <1>1, <2>1, FS_RemoveElement
    <2> QED  BY <2>1, <2>2
  <1>3. Bad = {}
    <2> SUFFICES ASSUME Bad # {} PROVE FALSE
      OBVIOUS
    <2>1. PICK n \in Bad : \A m \in Bad : n <= m
      <3>1. Bad \subseteq Nat
        OBVIOUS
      <3> HIDE DEF Bad
      <3> QED  BY <3>1, LeastNat
    <2>2. n \in Nat /\ ~ \E h : Part(n, h)
      OBVIOUS
    <2>3. PICK h : \A s \in Size(n) : s # {} =>
                     LET x == CHOOSE x \in s : TRUE
                         u == s \ {x}
                     IN  h[u] = IF u = {} THEN 0
                                ELSE LET y == CHOOSE y \in u : TRUE IN f[y] + h[u \ {y}]
      <3>1. CASE n = 0
        <4>1. \A s \in Size(n) : s = {}
          BY <1>1, <3>1, FS_EmptySet
        <4> QED  BY <4>1
      <3>2. CASE n # 0
        <4>1. n - 1 \in Nat /\ ~(n <= n - 1)
          BY <2>2, <3>2
        <4>2. PICK h : Part(n - 1, h)
          <5> HIDE DEF Part
          <5> QED  BY <2>1, <4>1
        <4>3. \A s \in Size(n) : s # {} =>
                LET x == CHOOSE x \in s : TRUE IN s \ {x} \in Size(n - 1)
          BY <1>1, <1>2, <2>2
        <4>4. \A u \in Size(n - 1) :
                h[u] = IF u = {} THEN 0 ELSE LET y == CHOOSE y \in u : TRUE IN f[y] + h[u \ {y}]
          BY <4>2
        <4> SUFFICES ASSUME NEW s \in Size(n), s # {}
                     PROVE  LET x == CHOOSE x \in s : TRUE
                                u == s \ {x}
                            IN  h[u] = IF u = {} THEN 0
                                       ELSE LET y == CHOOSE y \in u : TRUE IN f[y] + h[u \ {y}]
          BY Zenon
        <4> DEFINE x == CHOOSE x \in s : TRUE
                   u == s \ {x}
        <4>5. u \in Size(n - 1)
          BY <4>3
        <4> HIDE DEF Size
        <4>6. h[u] = IF u = {} THEN 0 ELSE LET y == CHOOSE y \in u : TRUE IN f[y] + h[u \ {y}]
          <5> HIDE DEF u
          <5> QED  BY <4>4, <4>5
        <4> QED  BY <4>6
      <3> QED  BY <3>1, <3>2
    <2> DEFINE g == [s \in Size(n) |->
                       IF s = {} THEN 0
                       ELSE LET x == CHOOSE x \in s : TRUE IN f[x] + h[s \ {x}]]
    <2>4. ASSUME NEW s \in Size(n), s # {}
          PROVE  LET x == CHOOSE x \in s : TRUE IN g[s \ {x}] = h[s \ {x}]
      <3> DEFINE x == CHOOSE x \in s : TRUE
                 u == s \ {x}
      <3>1. u \in Size(n)
        BY <1>1, <1>2, <2>2, <2>4
      <3>2. h[u] = IF u = {} THEN 0 ELSE LET y == CHOOSE y \in u : TRUE IN f[y] + h[u \ {y}]
        BY <2>3, <2>4
      <3>3. g[u] = IF u = {} THEN 0 ELSE LET y == CHOOSE y \in u : TRUE IN f[y] + h[u \ {y}]
        <4> HIDE DEF u
        <4> QED  BY <3>1
      <3> QED  BY <3>2, <3>3
    <2>5. Part(n, g)
      <3> HIDE DEF Size
      <3>1. \A s \in Size(n) : s # {} =>
              LET x == CHOOSE x \in s : TRUE IN f[x] + g[s \ {x}] = f[x] + h[s \ {x}]
        <4> HIDE DEF g
        <4> QED  BY <2>4
      <3>2. g = [s \in Size(n) |->
                   IF s = {} THEN 0
                   ELSE LET x == CHOOSE x \in s : TRUE IN f[x] + g[s \ {x}]]
        BY <3>1, Zenon
      <3> QED  BY <3>2
    <2> QED  BY <2>2, <2>5
  <1>4. Cardinality(S) \in Nat /\ Size(Cardinality(S)) = SUBSET S
    <2>1. \A s \in SUBSET S : Cardinality(s) <= Cardinality(S)
      BY FS_Subset
    <2> QED  BY <1>1, <2>1
  <1>5. \E h : Part(Cardinality(S), h)
    <2> HIDE DEF Part
    <2> QED  BY <1>3, <1>4
  <1> QED  BY <1>4, <1>5 DEF Summing

\* The sum over a set depends on nothing outside it.
LEMMA SummingAgree ==
  ASSUME NEW R, NEW f, NEW h, Summing(h, f, R),
         NEW S, NEW g, NEW k, Summing(k, g, S)
  PROVE  \A T \in SUBSET R : T \in SUBSET S /\ IsFiniteSet(T) /\ (\A x \in T : f[x] = g[x])
                               => h[T] = k[T]
  <1> SUFFICES ASSUME NEW T \in SUBSET R, T \in SUBSET S, IsFiniteSet(T), \A x \in T : f[x] = g[x]
               PROVE  h[T] = k[T]
    OBVIOUS
  <1> DEFINE Bad == {n \in Nat : \E U \in SUBSET T : Cardinality(U) = n /\ h[U] # k[U]}
  <1>1. \A U \in SUBSET T : IsFiniteSet(U) /\ Cardinality(U) \in Nat
    BY FS_Subset, FS_CardinalityType
  <1>2. Bad = {}
    <2> SUFFICES ASSUME Bad # {} PROVE FALSE
      OBVIOUS
    <2>1. PICK n \in Bad : \A m \in Bad : n <= m
      <3>1. Bad \subseteq Nat
        OBVIOUS
      <3> HIDE DEF Bad
      <3> QED  BY <3>1, LeastNat
    <2>2. PICK U \in SUBSET T : Cardinality(U) = n /\ h[U] # k[U]
      OBVIOUS
    <2> DEFINE x == CHOOSE x \in U : TRUE
               V == U \ {x}
    <2>3. U # {}
      BY <2>2 DEF Summing
    <2>4. x \in U /\ V \in SUBSET T
      BY <2>3
    <2>5. h[U] = f[x] + h[V] /\ k[U] = g[x] + k[V]
      <3>1. U \in SUBSET R /\ U \in SUBSET S
        OBVIOUS
      <3> QED  BY <2>3, <3>1 DEF Summing
    <2>6. Cardinality(V) = n - 1 /\ n \in Nat /\ n - 1 \in Nat
      <3>1. Cardinality(V) = Cardinality(U) - 1
        BY <1>1, <2>4, FS_RemoveElement
      <3> QED  BY <1>1, <2>2, <2>4, <3>1
    <2>7. h[V] = k[V]
      <3>1. n - 1 \notin Bad
        <4>1. ~(n <= n - 1)
          BY <2>6
        <4> HIDE DEF Bad
        <4> QED  BY <2>1, <4>1
      <3> HIDE DEF V
      <3> QED  BY <2>4, <2>6, <3>1
    <2> QED  BY <2>2, <2>4, <2>5, <2>7
  <1>3. T \in SUBSET T /\ Cardinality(T) \in Nat
    BY <1>1
  <1> QED  BY <1>2, <1>3

LEMMA SumIsSumming ==
  ASSUME NEW S, IsFiniteSet(S), NEW f
  PROVE  \E h : /\ Summing(h, f, S)
                /\ \A T \in SUBSET S : SumFunctionOnSet(f, T) = h[T]
  <1> DEFINE Chosen(T) == CHOOSE h : Summing(h, f, T)
  <1>1. \A T \in SUBSET S : IsFiniteSet(T)
    BY FS_Subset
  <1>2. \A T \in SUBSET S : Summing(Chosen(T), f, T)
    <2> SUFFICES ASSUME NEW T \in SUBSET S PROVE Summing(Chosen(T), f, T)
      OBVIOUS
    <2>1. \E h : Summing(h, f, T)
      BY <1>1, SummingExists
    <2> QED  BY <2>1
  <1>3. \A T : SumFunctionOnSet(f, T) = Chosen(T)[T]
    BY Zenon DEF SumFunctionOnSet, FoldFunctionOnSet, MapThenFoldSet, Summing
  <1> HIDE DEF Chosen
  <1>4. ASSUME NEW T \in SUBSET S PROVE Chosen(T)[T] = Chosen(S)[T]
    <2>1. Summing(Chosen(T), f, T) /\ Summing(Chosen(S), f, S) /\ IsFiniteSet(T)
      BY <1>1, <1>2
    <2>2. \A x \in T : f[x] = f[x]
      OBVIOUS
    <2> QED  BY <2>1, <2>2, SummingAgree
  <1>5. Summing(Chosen(S), f, S)
    BY <1>2
  <1> QED  BY <1>3, <1>4, <1>5

\* Sums of equal numbers are equal.
LEMMA SumAgree ==
  ASSUME NEW S, IsFiniteSet(S), NEW f, NEW g, \A x \in S : f[x] = g[x]
  PROVE  SumFunctionOnSet(f, S) = SumFunctionOnSet(g, S)
  <1>1. PICK h : Summing(h, f, S) /\ SumFunctionOnSet(f, S) = h[S]
    BY SumIsSumming
  <1>2. PICK k : Summing(k, g, S) /\ SumFunctionOnSet(g, S) = k[S]
    BY SumIsSumming
  <1>3. h[S] = k[S]
    <2>1. Summing(h, f, S) /\ Summing(k, g, S)
      BY <1>1, <1>2
    <2> QED  BY <2>1, SummingAgree
  <1> QED  BY <1>1, <1>2, <1>3

\* A sum is a number, and any member can be taken out of it.
LEMMA SumFacts ==
  ASSUME NEW S, IsFiniteSet(S), NEW f, \A x \in S : f[x] \in Nat
  PROVE  /\ SumFunctionOnSet(f, {}) = 0
         /\ SumFunctionOnSet(f, S) \in Nat
         /\ \A x \in S : SumFunctionOnSet(f, S) = f[x] + SumFunctionOnSet(f, S \ {x})
  <1>1. PICK h : Summing(h, f, S) /\ \A T \in SUBSET S : SumFunctionOnSet(f, T) = h[T]
    BY SumIsSumming
  <1>2. \A T \in SUBSET S : IsFiniteSet(T) /\ Cardinality(T) \in Nat
    BY FS_Subset, FS_CardinalityType
  <1>3. h[{}] = 0
    BY <1>1 DEF Summing
  <1>4. ASSUME NEW T \in SUBSET S, T # {}
        PROVE  \E c \in T : h[T] = f[c] + h[T \ {c}]
    <2> DEFINE c == CHOOSE x \in T : TRUE
    <2>1. c \in T
      BY <1>4
    <2>2. h[T] = f[c] + h[T \ {c}]
      BY <1>1, <1>4 DEF Summing
    <2> QED  BY <2>1, <2>2
  <1>5. \A T \in SUBSET S, x \in S : x \in T => /\ T \ {x} \in SUBSET S
                                                /\ Cardinality(T \ {x}) = Cardinality(T) - 1
    BY <1>2, FS_RemoveElement
  <1> DEFINE Good(T) == h[T] \in Nat /\ \A x \in T : h[T] = f[x] + h[T \ {x}]
             Bad == {n \in Nat : \E T \in SUBSET S : Cardinality(T) = n /\ ~Good(T)}
  <1>6. Bad = {}
    <2> SUFFICES ASSUME Bad # {} PROVE FALSE
      OBVIOUS
    <2>1. PICK n \in Bad : \A m \in Bad : n <= m
      <3>1. Bad \subseteq Nat
        OBVIOUS
      <3> HIDE DEF Bad
      <3> QED  BY <3>1, LeastNat
    <2>2. PICK T \in SUBSET S : Cardinality(T) = n /\ ~Good(T)
      OBVIOUS
    <2>3. ASSUME NEW x \in T PROVE Good(T \ {x})
      <3>1. T \ {x} \in SUBSET S /\ Cardinality(T \ {x}) = n - 1
        BY <1>5, <2>2
      <3>2. n - 1 \in Nat /\ ~(n <= n - 1)
        BY <1>2, <2>2, <3>1
      <3>3. n - 1 \notin Bad
        <4> HIDE DEF Bad
        <4> QED  BY <2>1, <3>2
      <3> HIDE DEF Good
      <3> QED  BY <3>1, <3>2, <3>3
    <2>4. T # {}
      BY <1>3, <2>2
    <2>5. PICK c \in T : h[T] = f[c] + h[T \ {c}]
      BY <1>4, <2>4
    <2>6. h[T \ {c}] \in Nat /\ f[c] \in Nat
      BY <2>3
    <2>7. ASSUME NEW x \in T PROVE h[T] = f[x] + h[T \ {x}]
      <3>1. CASE x = c
        BY <2>5, <3>1
      <3>2. CASE x # c
        <4> DEFINE U == (T \ {c}) \ {x}
        <4>1. h[T \ {c}] = f[x] + h[U]
          BY <2>3, <3>2
        <4>2. h[T \ {x}] = f[c] + h[U]
          <5>1. U = (T \ {x}) \ {c}
            OBVIOUS
          <5>2. c \in T \ {x}
            BY <3>2
          <5> HIDE DEF U
          <5> QED  BY <2>3, <5>1, <5>2
        <4>3. f[x] \in Nat /\ f[c] \in Nat
          OBVIOUS
        <4>4. h[T \ {x}] \in Nat /\ h[T \ {c}] \in Nat
          BY <2>3
        <4>5. h[U] \in Nat
          <5>1. x \in T \ {c} /\ U \in SUBSET S
            BY <3>2
          <5>2. \E d \in S : TRUE
            OBVIOUS
          <5>3. Cardinality(U) = n - 1 - 1
            <6> DEFINE V == T \ {c}
            <6>1. V \in SUBSET S /\ Cardinality(V) = n - 1
              BY <1>5, <2>2
            <6>2. x \in S /\ x \in V
              BY <3>2
            <6> HIDE DEF V
            <6>3. Cardinality(V \ {x}) = Cardinality(V) - 1
              BY <1>5, <6>1, <6>2
            <6> QED  BY <6>1, <6>3 DEF V
          <5>4. Cardinality(U) \in Nat /\ ~(n <= Cardinality(U))
            BY <1>2, <2>2, <5>1, <5>3
          <5>5. Cardinality(U) \notin Bad
            <6> HIDE DEF Bad
            <6> QED  BY <2>1, <5>4
          <5>6. Good(U)
            <6> HIDE DEF Good, U
            <6> QED  BY <5>1, <5>4, <5>5
          <5> QED  BY <5>6
        <4> HIDE DEF U
        <4> QED  BY <2>5, <4>1, <4>2, <4>3, <4>4, <4>5
      <3> QED  BY <3>1, <3>2
    <2>8. h[T] \in Nat
      BY <2>5, <2>6
    <2> QED  BY <2>2, <2>7, <2>8
  <1>7. Good(S)
    <2>1. Cardinality(S) \in Nat /\ S \in SUBSET S
      BY <1>2
    <2> HIDE DEF Good
    <2> QED  BY <1>6, <2>1
  <1>8. \A x \in S : S \ {x} \in SUBSET S
    OBVIOUS
  <1> QED  BY <1>1, <1>3, <1>7, <1>8

\* One more number.
LEMMA SumAdd ==
  ASSUME NEW S, IsFiniteSet(S), NEW f, NEW x, x \notin S,
         \A y \in S \cup {x} : f[y] \in Nat
  PROVE  SumFunctionOnSet(f, S \cup {x}) = SumFunctionOnSet(f, S) + f[x]
  <1>1. IsFiniteSet(S \cup {x}) /\ (S \cup {x}) \ {x} = S
    BY FS_AddElement
  <1>2. SumFunctionOnSet(f, S \cup {x}) = f[x] + SumFunctionOnSet(f, S)
    BY <1>1, SumFacts
  <1>3. SumFunctionOnSet(f, S) \in Nat
    BY SumFacts
  <1> QED  BY <1>2, <1>3

=============================================================================
