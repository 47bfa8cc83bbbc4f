--------------------------- MODULE PercentilesProofs ---------------------------
(***************************************************************************)
(* Proofs about Percentiles, for every histogram: the sums over buckets,   *)
(* the spans that the loop of nativeBuckets follows, and the bucket in     *)
(* which percentileFromHistogram interpolates.                             *)
(***************************************************************************)
EXTENDS Percentiles, FiniteSetTheorems, SequenceTheorems, Numbers, TLAPS

----------------------------------------------------------------------------
(* Sums over finite sets of numbers: whichever element the recursion picks,  *)
(* the sum is that of the elements in ascending order.                       *)

\* f[n] is the sum of g over the elements of s below n.
Summing(g, s, n, f) ==
    /\ f[0] = 0
    /\ \A k \in 0 .. n - 1 : f[k + 1] = f[k] + (IF k \in s THEN g[k] ELSE 0)

\* The recursion by which MapThenSumSet is defined.
Picked(s) == CHOOSE x \in s : TRUE
Iterates(g, S, it) ==
    it = [s \in SUBSET S |->
             IF s = {} THEN 0 ELSE g[Picked(s)] + it[s \ {Picked(s)}]]

IntOn(g, S) == \A j \in S : g[j] \in Int

LEMMA IntOnSubset ==
    ASSUME NEW g, NEW S, IntOn(g, S), NEW s \in SUBSET S
    PROVE  IntOn(g, s)
BY DEF IntOn

\* All elements of S are below n.
Under(S, n) == S \subseteq 0 .. n - 1

LEMMA SummingExists ==
    ASSUME NEW g, NEW s, NEW n \in Nat
    PROVE  \E f : Summing(g, s, n, f)
<1> DEFINE h == [i \in 1 .. n |-> IF i - 1 \in s THEN g[i - 1] ELSE 0]
<1>1. PICK f : f = [i \in 0 .. n |-> IF i = 0 THEN 0 ELSE f[i - 1] + h[i]]
  <2> HIDE DEF h
  <2> QED
    BY SumsExist
<1>2. f[0] = 0
  BY <1>1
<1>3. ASSUME NEW k \in 0 .. n - 1
      PROVE  f[k + 1] = f[k] + (IF k \in s THEN g[k] ELSE 0)
  <2>1. k + 1 \in 0 .. n /\ k + 1 # 0 /\ k + 1 - 1 = k /\ k + 1 \in 1 .. n
    OBVIOUS
  <2>2. f[k + 1] = f[k] + h[k + 1]
    <3> HIDE DEF h
    <3> QED
      BY <1>1, <2>1
  <2> QED
    BY <2>1, <2>2
<1> QED
  BY <1>2, <1>3 DEF Summing

LEMMA SumsAreInt ==
    ASSUME NEW g, NEW s, NEW n \in Nat, NEW f, Summing(g, s, n, f),
           IntOn(g, s)
    PROVE  \A k \in 0 .. n : f[k] \in Int
<1> DEFINE S == {k \in Nat : k <= n => f[k] \in Int}
<1>1. 0 \in S
  BY DEF Summing
<1>2. ASSUME NEW k \in Nat, k \in S PROVE k + 1 \in S
  <2> SUFFICES ASSUME k + 1 <= n PROVE f[k + 1] \in Int
    OBVIOUS
  <2>1. k \in 0 .. n - 1 /\ f[k] \in Int
    BY <1>2
  <2> QED
    BY <2>1 DEF Summing, IntOn
<1> HIDE DEF S
<1>3. Nat \subseteq S
  BY <1>1, <1>2, SetInduction
<1> QED
  BY <1>3 DEF S

LEMMA SumsAgree ==
    ASSUME NEW g, NEW n \in Nat, NEW s, NEW f, Summing(g, s, n, f),
           NEW h, Summing(g, s, n, h)
    PROVE  f[n] = h[n]
<1> DEFINE S == {k \in Nat : k <= n => f[k] = h[k]}
<1>1. 0 \in S
  BY DEF Summing
<1>2. ASSUME NEW k \in Nat, k \in S PROVE k + 1 \in S
  <2> SUFFICES ASSUME k + 1 <= n PROVE f[k + 1] = h[k + 1]
    OBVIOUS
  <2>1. k \in 0 .. n - 1 /\ f[k] = h[k]
    BY <1>2
  <2> QED
    BY <2>1 DEF Summing
<1> HIDE DEF S
<1>3. Nat \subseteq S
  BY <1>1, <1>2, SetInduction
<1> QED
  BY <1>3 DEF S

LEMMA SumWithout ==
    ASSUME NEW g, NEW n \in Nat, NEW s, NEW f, Summing(g, s, n, f),
           NEW x \in s, NEW h, Summing(g, s \ {x}, n, h),
           Under(s, n), IntOn(g, s)
    PROVE  f[n] = g[x] + h[n]
<1> x \in 0 .. n - 1
  BY DEF Under
<1> DEFINE S == {k \in Nat : k <= n =>
                    f[k] = (IF k <= x THEN 0 ELSE g[x]) + h[k]}
<1>0. /\ \A k \in 0 .. n : f[k] \in Int
      /\ \A k \in 0 .. n : h[k] \in Int
  <2>1. IntOn(g, s \ {x})
    BY IntOnSubset, s \ {x} \in SUBSET s
  <2>2. \A k \in 0 .. n : f[k] \in Int
    BY SumsAreInt
  <2>3. \A k \in 0 .. n : h[k] \in Int
    BY <2>1, SumsAreInt
  <2> QED
    BY <2>2, <2>3
<1>1. 0 \in S
  BY DEF Summing
<1>2. ASSUME NEW k \in Nat, k \in S PROVE k + 1 \in S
  <2> SUFFICES ASSUME k + 1 <= n
               PROVE  f[k + 1] = (IF k + 1 <= x THEN 0 ELSE g[x]) + h[k + 1]
    OBVIOUS
  <2>1. /\ k \in 0 .. n - 1 /\ k \in 0 .. n
        /\ f[k] = (IF k <= x THEN 0 ELSE g[x]) + h[k]
    BY <1>2
  <2>2. /\ f[k + 1] = f[k] + (IF k \in s THEN g[k] ELSE 0)
        /\ h[k + 1] = h[k] + (IF k \in s \ {x} THEN g[k] ELSE 0)
    BY <2>1 DEF Summing
  <2>3. f[k] \in Int /\ h[k] \in Int /\ g[x] \in Int /\ x \in Nat
        /\ (k \in s => g[k] \in Int)
    BY <1>0, <2>1 DEF IntOn
  <2>4. CASE k = x
    BY <2>1, <2>2, <2>3, <2>4
  <2>5. CASE k # x
    <3>1. k \in s <=> k \in s \ {x}
      BY <2>5
    <3>2. k + 1 <= x <=> k <= x
      BY <2>3, <2>5
    <3> QED
      BY <2>1, <2>2, <2>3, <3>1, <3>2
  <2> QED
    BY <2>4, <2>5
<1> HIDE DEF S
<1>3. n \in S
  BY <1>1, <1>2, SetInduction
<1> QED
  BY <1>3, ~(n <= x) DEF S

LEMMA SumOfNothing ==
    ASSUME NEW g, NEW n \in Nat, NEW f, Summing(g, {}, n, f)
    PROVE  f[n] = 0
<1> DEFINE Z == {k \in Nat : k <= n => f[k] = 0}
<1>1. 0 \in Z
  BY DEF Summing
<1>2. ASSUME NEW k \in Nat, k \in Z PROVE k + 1 \in Z
  <2> SUFFICES ASSUME k + 1 <= n PROVE f[k + 1] = 0
    OBVIOUS
  <2>1. k \in 0 .. n - 1 /\ f[k] = 0
    BY <1>2
  <2> QED
    BY <2>1 DEF Summing
<1> HIDE DEF Z
<1>3. n \in Z
  BY <1>1, <1>2, SetInduction
<1> QED
  BY <1>3 DEF Z

LEMMA IteratesSums ==
    ASSUME NEW g, NEW n \in Nat, NEW S, Under(S, n),
           NEW it, Iterates(g, S, it), IntOn(g, S)
    PROVE  \A s \in SUBSET S : \A f : Summing(g, s, n, f) => it[s] = f[n]
<1> DEFINE T == {c \in Nat : \A s \in SUBSET S : \A f :
                    (Cardinality(s) = c /\ Summing(g, s, n, f))
                       => it[s] = f[n]}
<1>0. ASSUME NEW s \in SUBSET S
      PROVE  IsFiniteSet(s) /\ Cardinality(s) \in Nat
  <2>1. IsFiniteSet(0 .. n - 1) /\ s \in SUBSET (0 .. n - 1)
    BY FS_Interval, 0 \in Int, n - 1 \in Int DEF Under
  <2>2. IsFiniteSet(s)
    BY <2>1, FS_Subset
  <2> QED
    BY <2>2, FS_CardinalityType
<1>1. 0 \in T
  <2> SUFFICES ASSUME NEW s \in SUBSET S, NEW f, Cardinality(s) = 0,
                      Summing(g, s, n, f)
               PROVE  it[s] = f[n]
    OBVIOUS
  <2>1. s = {}
    BY <1>0, FS_EmptySet
  <2>2. it[s] = 0
    BY <2>1 DEF Iterates
  <2> QED
    BY <2>1, <2>2, SumOfNothing
<1>2. ASSUME NEW c \in Nat, c \in T PROVE c + 1 \in T
  <2> SUFFICES ASSUME NEW s \in SUBSET S, NEW f,
                      Cardinality(s) = c + 1, Summing(g, s, n, f)
               PROVE  it[s] = f[n]
    OBVIOUS
  <2>1. s # {}
    BY FS_EmptySet
  <2>2. Picked(s) \in s
    BY <2>1 DEF Picked
  <2>3. it[s] = g[Picked(s)] + it[s \ {Picked(s)}]
    BY <2>1 DEF Iterates
  <2>4. PICK h : Summing(g, s \ {Picked(s)}, n, h)
    BY SummingExists
  <2>5. Cardinality(s \ {Picked(s)}) = Cardinality(s) - 1
    BY <1>0, <2>2, FS_RemoveElement
  <2>6. it[s \ {Picked(s)}] = h[n]
    BY <1>2, <2>4, <2>5
  <2>7. Under(s, n) /\ IntOn(g, s)
    BY <2>2, IntOnSubset DEF Under
  <2>8. f[n] = g[Picked(s)] + h[n]
    BY <2>2, <2>4, <2>7, SumWithout
  <2> QED
    BY <2>3, <2>6, <2>8
<1> HIDE DEF T
<1>3. Nat \subseteq T
  BY <1>1, <1>2, SetInduction
<1>4. ASSUME NEW s \in SUBSET S, NEW f, Summing(g, s, n, f)
      PROVE  it[s] = f[n]
  <2>1. Cardinality(s) \in T
    BY <1>0, <1>3
  <2> QED
    BY <1>4, <2>1 DEF T
<1> QED
  BY <1>4

LEMMA IteratesExists ==
    ASSUME NEW g, NEW n \in Nat, NEW S, Under(S, n),
           IntOn(g, S)
    PROVE  \E it : Iterates(g, S, it)
<1> DEFINE Of(s) == CHOOSE f : Summing(g, s, n, f)
           it == [s \in SUBSET S |-> Of(s)[n]]
<1>1. \A s : Summing(g, s, n, Of(s))
  BY SummingExists
<1>2. ASSUME NEW s \in SUBSET S
      PROVE  it[s] = IF s = {} THEN 0
                     ELSE g[Picked(s)] + it[s \ {Picked(s)}]
  <2> HIDE DEF Of
  <2>1. CASE s = {}
    BY <1>1, <2>1, SumOfNothing
  <2>2. CASE s # {}
    <3>1. Picked(s) \in s /\ Under(s, n)
      BY <2>2 DEF Picked, Under
    <3>2. IntOn(g, s)
      BY IntOnSubset
    <3>3. Summing(g, s, n, Of(s))
      BY <1>1
    <3>4. Summing(g, s \ {Picked(s)}, n, Of(s \ {Picked(s)}))
      BY <1>1
    <3>5. Of(s)[n] = g[Picked(s)] + Of(s \ {Picked(s)})[n]
      BY <3>1, <3>2, <3>3, <3>4, SumWithout
    <3> QED
      BY <2>2, <3>5
  <2> QED
    BY <2>1, <2>2
<1>3. Iterates(g, S, it)
  <2> HIDE DEF Of
  <2>1. it = [s \in SUBSET S |-> it[s]]
    OBVIOUS
  <2> HIDE DEF it
  <2> QED
    BY <1>2, <2>1 DEF Iterates
<1> QED
  BY <1>3

LEMMA SumOverIsSum ==
    ASSUME NEW g, NEW n \in Nat, NEW S, Under(S, n),
           IntOn(g, S), NEW f, Summing(g, S, n, f)
    PROVE  SumOver(g, S) = f[n]
<1> DEFINE it == CHOOSE h : Iterates(g, S, h)
<1>1. Iterates(g, S, it)
  BY IteratesExists
<1>2. SumOver(g, S) = it[S]
  BY DEF SumOver, MapThenSumSet, MapThenFoldSet, Iterates, Picked
<1> HIDE DEF it
<1>3. \A s \in SUBSET S : \A h : Summing(g, s, n, h) => it[s] = h[n]
  BY <1>1, IteratesSums
<1> QED
  BY <1>2, <1>3

\* A finite set of numbers has a bound.
LEMMA FiniteIsBounded ==
    ASSUME NEW S, S \subseteq Nat, IsFiniteSet(S)
    PROVE  \E n \in Nat : S \subseteq 0 .. n - 1
<1> DEFINE T == {c \in Nat : \A s \in SUBSET Nat :
                    (IsFiniteSet(s) /\ Cardinality(s) = c)
                       => \E n \in Nat : s \subseteq 0 .. n - 1}
<1>1. 0 \in T
  <2> SUFFICES ASSUME NEW s \in SUBSET Nat, IsFiniteSet(s), Cardinality(s) = 0
               PROVE  \E n \in Nat : s \subseteq 0 .. n - 1
    OBVIOUS
  <2>1. s = {}
    BY FS_EmptySet
  <2> QED
    BY <2>1, 0 \in Nat
<1>2. ASSUME NEW c \in Nat, c \in T PROVE c + 1 \in T
  <2> SUFFICES ASSUME NEW s \in SUBSET Nat, IsFiniteSet(s),
                      Cardinality(s) = c + 1
               PROVE  \E n \in Nat : s \subseteq 0 .. n - 1
    OBVIOUS
  <2>1. s # {} /\ c + 1 # 0
    <3> HIDE DEF T
    <3> QED
      BY FS_EmptySet
  <2> PICK x \in s : TRUE
    BY <2>1
  <2>2. IsFiniteSet(s \ {x}) /\ Cardinality(s \ {x}) = c
    <3> HIDE DEF T
    <3>1. /\ IsFiniteSet(s \ {x})
          /\ Cardinality(s \ {x}) = Cardinality(s) - 1
      BY FS_RemoveElement
    <3> QED
      BY <3>1
  <2>3. PICK n \in Nat : s \ {x} \subseteq 0 .. n - 1
    BY <1>2, <2>2, s \ {x} \in SUBSET Nat
  <2>4. CASE x < n
    BY <2>3, <2>4
  <2>5. CASE x >= n
    <3>1. x + 1 \in Nat /\ \A y \in s : y \in 0 .. (x + 1) - 1
      BY <2>3, <2>5
    <3> QED
      BY <3>1
  <2> QED
    BY <2>3, <2>4, <2>5
<1> HIDE DEF T
<1>3. Cardinality(S) \in T
  BY <1>1, <1>2, SetInduction, FS_CardinalityType
<1> QED
  BY <1>3 DEF T

LEMMA SumOverEmpty == ASSUME NEW g PROVE SumOver(g, {}) = 0
<1>1. PICK f : Summing(g, {}, 0, f)
  BY SummingExists, 0 \in Nat
<1>2. Under({}, 0) /\ IntOn(g, {})
  BY DEF IntOn, Under
<1>3. SumOver(g, {}) = f[0]
  BY <1>1, <1>2, SumOverIsSum, 0 \in Nat
<1> QED
  BY <1>1, <1>3 DEF Summing

LEMMA SumOverRemove ==
    ASSUME NEW g, NEW S, S \subseteq Nat, IsFiniteSet(S),
           IntOn(g, S), NEW x \in S
    PROVE  SumOver(g, S) = g[x] + SumOver(g, S \ {x})
<1>1. PICK n \in Nat : Under(S, n)
  BY FiniteIsBounded DEF Under
<1>2. PICK f : Summing(g, S, n, f)
  BY SummingExists
<1>3. PICK h : Summing(g, S \ {x}, n, h)
  BY SummingExists
<1>0. IntOn(g, S \ {x}) /\ Under(S \ {x}, n)
  BY <1>1, IntOnSubset, S \ {x} \in SUBSET S DEF Under
<1>4. f[n] = g[x] + h[n]
  BY <1>1, <1>2, <1>3, SumWithout
<1>5. SumOver(g, S) = f[n]
  BY <1>1, <1>2, SumOverIsSum
<1>6. SumOver(g, S \ {x}) = h[n]
  BY <1>0, <1>3, SumOverIsSum
<1> QED
  BY <1>4, <1>5, <1>6

LEMMA SumOverType ==
    ASSUME NEW g, NEW S, S \subseteq Nat, IsFiniteSet(S),
           IntOn(g, S)
    PROVE  SumOver(g, S) \in Int
<1>1. PICK n \in Nat : Under(S, n)
  BY FiniteIsBounded DEF Under
<1>2. PICK f : Summing(g, S, n, f)
  BY SummingExists
<1>3. f[n] \in Int
  BY <1>1, <1>2, SumsAreInt, n \in 0 .. n
<1> QED
  BY <1>1, <1>2, <1>3, SumOverIsSum

----------------------------------------------------------------------------
(* The samples of a histogram up to a bucket. *)

AreSamples(q) ==
    /\ DOMAIN q \subseteq Nat /\ IsFiniteSet(DOMAIN q)
    /\ \A i \in DOMAIN q : q[i] \in Nat

SamplesIn(q, b) == IF b \in DOMAIN q THEN q[b] ELSE 0

LEMMA UpToSteps ==
    ASSUME NEW q, AreSamples(q), NEW b \in Int
    PROVE  /\ UpTo(q, b) \in Int
           /\ SamplesIn(q, b) \in Nat
           /\ UpTo(q, b) = UpTo(q, b - 1) + SamplesIn(q, b)
           /\ b < 0 => UpTo(q, b) = 0
<1> DEFINE S(c) == {i \in DOMAIN q : i <= c}
<1>1. ASSUME NEW c \in Int
      PROVE  /\ S(c) \subseteq Nat /\ IsFiniteSet(S(c))
             /\ \A j \in S(c) : q[j] \in Int
             /\ SumOver(q, S(c)) \in Int
  <2>1. /\ S(c) \subseteq Nat /\ S(c) \in SUBSET DOMAIN q
        /\ \A j \in S(c) : q[j] \in Int
    BY DEF AreSamples
  <2> HIDE DEF S
  <2>2. IsFiniteSet(S(c))
    BY <2>1, FS_Subset DEF AreSamples
  <2>3. IntOn(q, S(c))
    BY <2>1 DEF IntOn
  <2> QED
    BY <2>1, <2>2, <2>3, SumOverType
<1>2. b - 1 \in Int /\ SamplesIn(q, b) \in Nat
  BY DEF AreSamples, SamplesIn
<1>3. CASE b \in DOMAIN q
  <2>1. b \in S(b) /\ S(b) \ {b} = S(b - 1)
    BY <1>3 DEF AreSamples
  <2>2. IntOn(q, S(b))
    BY <1>1 DEF IntOn
  <2>3. SumOver(q, S(b)) = q[b] + SumOver(q, S(b) \ {b})
    <3> HIDE DEF S
    <3> QED
      BY <1>1, <2>1, <2>2, SumOverRemove
  <2>4. b >= 0 /\ q[b] \in Int
    BY <1>3 DEF AreSamples
  <2>5. SumOver(q, S(b)) \in Int /\ SumOver(q, S(b - 1)) \in Int
    <3> HIDE DEF S
    <3> QED
      BY <1>1, <1>2
  <2>6. UpTo(q, b) = SumOver(q, S(b)) /\ UpTo(q, b - 1) = SumOver(q, S(b - 1))
    BY DEF UpTo
  <2> HIDE DEF S
  <2>7. SumOver(q, S(b)) = q[b] + SumOver(q, S(b - 1))
    BY <2>1, <2>3
  <2>8. UpTo(q, b) = UpTo(q, b - 1) + q[b]
    BY <2>4, <2>5, <2>6, <2>7
  <2> QED
    BY <1>2, <1>3, <2>4, <2>5, <2>6, <2>8 DEF SamplesIn
<1>4. CASE b \notin DOMAIN q
  <2>1. S(b) = S(b - 1)
    BY <1>4 DEF AreSamples
  <2>2. b < 0 => S(b) = {}
    BY DEF AreSamples
  <2>3. UpTo(q, b) = SumOver(q, S(b)) /\ UpTo(q, b - 1) = SumOver(q, S(b - 1))
    BY DEF UpTo
  <2> HIDE DEF S
  <2>4. UpTo(q, b) \in Int /\ UpTo(q, b - 1) = UpTo(q, b)
    BY <1>1, <2>1, <2>3
  <2>5. b < 0 => UpTo(q, b) = 0
    BY <2>2, <2>3, SumOverEmpty
  <2>6. SamplesIn(q, b) = 0
    BY <1>4 DEF SamplesIn
  <2> QED
    BY <2>4, <2>5, <2>6
<1> QED
  BY <1>3, <1>4

LEMMA UpToIsNat ==
    ASSUME NEW q, AreSamples(q), NEW b \in Int
    PROVE  UpTo(q, b) \in Nat
<1> DEFINE S == {n \in Nat : UpTo(q, n) \in Nat}
<1>1. UpTo(q, -1) = 0
  BY UpToSteps, -1 \in Int, -1 < 0
<1>2. 0 \in S
  <2>1. UpTo(q, 0) = UpTo(q, 0 - 1) + SamplesIn(q, 0) /\ SamplesIn(q, 0) \in Nat
    BY UpToSteps, 0 \in Int
  <2> QED
    BY <1>1, <2>1, 0 - 1 = -1
<1>3. ASSUME NEW n \in Nat, n \in S PROVE n + 1 \in S
  <2>1. /\ UpTo(q, n + 1) = UpTo(q, n + 1 - 1) + SamplesIn(q, n + 1)
        /\ SamplesIn(q, n + 1) \in Nat
    BY UpToSteps, n + 1 \in Int
  <2> QED
    BY <1>3, <2>1, n + 1 - 1 = n
<1> HIDE DEF S
<1>4. Nat \subseteq S
  BY <1>2, <1>3, SetInduction
<1>5. b < 0 => UpTo(q, b) = 0
  BY UpToSteps
<1> QED
  BY <1>4, <1>5 DEF S

LEMMA UpToGrows ==
    ASSUME NEW q, AreSamples(q), NEW a \in Int, NEW b \in Int, a <= b
    PROVE  /\ UpTo(q, a) <= UpTo(q, b)
           /\ (\A i \in DOMAIN q : a < i /\ i <= b => q[i] = 0)
                 => UpTo(q, a) = UpTo(q, b)
<1> DEFINE S == {d \in Nat :
                    /\ UpTo(q, a) <= UpTo(q, a + d)
                    /\ (\A i \in DOMAIN q : a < i /\ i <= a + d => q[i] = 0)
                          => UpTo(q, a) = UpTo(q, a + d)}
<1>0. \A c \in Int : UpTo(q, c) \in Nat
  BY UpToIsNat
<1>1. 0 \in S
  BY <1>0, a + 0 = a
<1>2. ASSUME NEW d \in Nat, d \in S PROVE d + 1 \in S
  <2>1. PICK c \in Int : c = a + (d + 1) /\ c - 1 = a + d /\ a < c
    OBVIOUS
  <2>2. UpTo(q, c) = UpTo(q, c - 1) + SamplesIn(q, c) /\ SamplesIn(q, c) \in Nat
    BY UpToSteps
  <2>3. UpTo(q, a) <= UpTo(q, c)
    BY <1>0, <1>2, <2>1, <2>2
  <2>4. ASSUME \A i \in DOMAIN q : a < i /\ i <= c => q[i] = 0
        PROVE  UpTo(q, a) = UpTo(q, c)
    <3>1. SamplesIn(q, c) = 0
      BY <2>1, <2>4 DEF SamplesIn
    <3>2. \A i \in DOMAIN q : a < i /\ i <= a + d => q[i] = 0
      BY <2>1, <2>4 DEF AreSamples
    <3>3. UpTo(q, a) = UpTo(q, c - 1)
      BY <1>2, <2>1, <3>2
    <3> QED
      BY <1>0, <2>2, <3>1, <3>3
  <2> QED
    BY <2>1, <2>3, <2>4
<1> HIDE DEF S
<1>3. b - a \in S
  BY <1>1, <1>2, SetInduction
<1>4. a + (b - a) = b
  OBVIOUS
<1> QED
  BY <1>3, <1>4 DEF S

LEMMA UpToAll ==
    ASSUME NEW q, AreSamples(q), NEW b \in Int,
           \A i \in DOMAIN q : i > b => q[i] = 0
    PROVE  UpTo(q, b) = Total(q)
<1>1. PICK n \in Nat : DOMAIN q \subseteq 0 .. n - 1
  BY FiniteIsBounded DEF AreSamples
<1>2. PICK m \in Int : m >= n /\ m >= b
  <2>1. CASE n >= b
    BY <2>1
  <2>2. CASE n < b
    BY <2>2
  <2> QED
    BY <2>1, <2>2
<1>3. {i \in DOMAIN q : i <= m} = DOMAIN q
  <2>1. ASSUME NEW i \in DOMAIN q PROVE i <= m
    <3>1. i \in 0 .. n - 1
      BY <1>1
    <3> QED
      BY <1>2, <3>1
  <2> QED
    BY <2>1
<1>4. UpTo(q, m) = Total(q)
  BY <1>3 DEF UpTo, Total
<1>5. \A i \in DOMAIN q : b < i /\ i <= m => q[i] = 0
  BY DEF AreSamples
<1> QED
  BY <1>2, <1>4, <1>5, UpToGrows

LEMMA TotalIsNat ==
    ASSUME NEW q, AreSamples(q)
    PROVE  /\ Total(q) \in Nat
           /\ \A b \in Int : UpTo(q, b) <= Total(q)
           /\ \E b \in Nat : UpTo(q, b) = Total(q)
<1>1. PICK n \in Nat : DOMAIN q \subseteq 0 .. n - 1
  BY FiniteIsBounded DEF AreSamples
<1>2. ASSUME NEW b \in Int, b >= n PROVE UpTo(q, b) = Total(q)
  <2>1. \A i \in DOMAIN q : i > b => q[i] = 0
    BY <1>1, <1>2
  <2> QED
    BY <2>1, UpToAll
<1>3. UpTo(q, n) = Total(q) /\ Total(q) \in Nat
  BY <1>2, UpToIsNat, n \in Int
<1>4. ASSUME NEW b \in Int PROVE UpTo(q, b) <= Total(q)
  <2>1. CASE b >= n
    BY <1>2, <1>3, <2>1
  <2>2. CASE b < n
    BY <1>3, <2>2, UpToGrows
  <2> QED
    BY <2>1, <2>2
<1> QED
  BY <1>3, <1>4

\* Bucket i is the first to hold percent of the samples, and has some itself.
IsBucketOf(q, percent, i) ==
    /\ 100 * UpTo(q, i - 1) < Total(q) * percent
    /\ Total(q) * percent <= 100 * UpTo(q, i)

LEMMA BucketExists ==
    ASSUME NEW q, AreSamples(q), Total(q) > 0, NEW percent \in 1 .. 99
    PROVE  \E i \in Nat : IsBucketOf(q, percent, i)
<1>1. PICK b \in Nat : UpTo(q, b) = Total(q)
  BY TotalIsNat
<1>2. PICK t \in Nat \ {0} : t = Total(q)
  BY TotalIsNat
<1>3. /\ t * percent \in Nat /\ t * percent > 0 /\ t * percent <= 100 * t
  OBVIOUS
<1> DEFINE S == {i \in Nat : t * percent <= 100 * UpTo(q, i)}
<1>4. b \in S
  BY <1>1, <1>2, <1>3
<1>5. PICK i \in S : \A k \in S : i <= k
  <2>1. S \subseteq Nat
    OBVIOUS
  <2> HIDE DEF S
  <2> QED
    BY <1>4, <2>1, LeastNumber
<1>6. UpTo(q, i - 1) \in Nat
  BY UpToIsNat, i - 1 \in Int
<1>7. 100 * UpTo(q, i - 1) < t * percent
  <2>1. CASE i = 0
    <3>1. UpTo(q, i - 1) = 0
      BY <2>1, UpToSteps, i - 1 \in Int
    <3> QED
      BY <1>3, <3>1
  <2>2. CASE i # 0
    <3>1. i - 1 \in Nat /\ ~(i <= i - 1)
      BY <2>2
    <3>2. i - 1 \notin S
      <4> HIDE DEF S
      <4> QED
        BY <1>5, <3>1
    <3> QED
      BY <1>3, <1>6, <3>1, <3>2
  <2> QED
    BY <2>1, <2>2
<1> QED
  BY <1>2, <1>7 DEF IsBucketOf

LEMMA BucketOfIs ==
    ASSUME NEW q, AreSamples(q), Total(q) > 0, NEW percent \in 1 .. 99,
           NEW i \in Nat, IsBucketOf(q, percent, i)
    PROVE  BucketOf(q, percent) = i
<1> DEFINE S == {j \in DOMAIN q : 100 * UpTo(q, j) >= Total(q) * percent
                                    /\ q[j] > 0}
<1>0. PICK r \in Nat : r = Total(q) * percent
  BY TotalIsNat
<1>1. i \in S
  <2>1. UpTo(q, i) = UpTo(q, i - 1) + SamplesIn(q, i)
    BY UpToSteps, i \in Int
  <2>2. /\ UpTo(q, i) \in Nat /\ UpTo(q, i - 1) \in Nat
        /\ SamplesIn(q, i) \in Nat
    BY UpToIsNat, UpToSteps, i \in Int, i - 1 \in Int
  <2>3. SamplesIn(q, i) > 0 /\ 100 * UpTo(q, i) >= r
    BY <1>0, <2>1, <2>2 DEF IsBucketOf
  <2> QED
    BY <1>0, <2>3 DEF SamplesIn
<1>2. ASSUME NEW j \in S PROVE i <= j
  <2> SUFFICES ASSUME j < i PROVE FALSE
    BY DEF AreSamples
  <2>1. j \in Int /\ i - 1 \in Int /\ j <= i - 1
    BY DEF AreSamples
  <2>2. UpTo(q, j) <= UpTo(q, i - 1) /\ UpTo(q, j) \in Nat
        /\ UpTo(q, i - 1) \in Nat
    BY <2>1, UpToGrows, UpToIsNat
  <2> QED
    BY <1>0, <2>2 DEF IsBucketOf
<1>3. S \subseteq Nat
  BY DEF AreSamples
<1>4. BucketOf(q, percent) = Min(S)
  BY DEF BucketOf
<1> HIDE DEF S
<1>5. Min(S) \in S /\ \A k \in S : Min(S) <= k
  BY <1>1, <1>2 DEF Min
<1>6. Min(S) \in Nat /\ Min(S) <= i /\ i <= Min(S)
  BY <1>1, <1>2, <1>3, <1>5
<1> QED
  BY <1>4, <1>6

----------------------------------------------------------------------------
(* Where percentileFromHistogram finds a rank. *)

LEMMA SumOverPrefix ==
    ASSUME NEW g, NEW k \in Nat, \A j \in 1 .. k : g[j] \in Int
    PROVE  /\ SumOver(g, 1 .. 0) = 0
           /\ SumOver(g, 1 .. k) \in Int
           /\ k > 0 => SumOver(g, 1 .. k) = SumOver(g, 1 .. k - 1) + g[k]
<1>1. 1 .. 0 = {}
  OBVIOUS
<1>2. 1 .. k \subseteq Nat /\ IsFiniteSet(1 .. k) /\ IntOn(g, 1 .. k)
  BY FS_Interval, 1 \in Int, k \in Int DEF IntOn
<1>3. SumOver(g, 1 .. k) \in Int
  BY <1>2, SumOverType
<1>4. ASSUME k > 0
      PROVE  SumOver(g, 1 .. k) = SumOver(g, 1 .. k - 1) + g[k]
  <2>1. k \in 1 .. k /\ (1 .. k) \ {k} = 1 .. k - 1 /\ g[k] \in Int
    BY <1>4
  <2>2. SumOver(g, 1 .. k) = g[k] + SumOver(g, (1 .. k) \ {k})
    BY <1>2, <2>1, SumOverRemove
  <2>3. 1 .. k - 1 \subseteq Nat /\ IsFiniteSet(1 .. k - 1)
    BY FS_Interval, 1 \in Int, k - 1 \in Int
  <2>4. IntOn(g, 1 .. k - 1)
    BY DEF IntOn
  <2>5. SumOver(g, 1 .. k - 1) \in Int
    BY <2>3, <2>4, SumOverType
  <2>6. SumOver(g, 1 .. k) = g[k] + SumOver(g, 1 .. k - 1)
    BY <2>1, <2>2
  <2> QED
    BY <2>1, <2>5, <2>6
<1> QED
  BY <1>1, <1>3, <1>4, SumOverEmpty

AreBuckets(buckets, n) ==
    /\ DOMAIN buckets = 1 .. n
    /\ \A k \in 1 .. n : buckets[k].count \in Nat

LEMMA BeforeSteps ==
    ASSUME NEW n \in Nat, NEW buckets, AreBuckets(buckets, n)
    PROVE  /\ Before(buckets, 1) = 0
           /\ \A k \in 1 .. n : Before(buckets, k + 1)
                                   = Before(buckets, k) + buckets[k].count
           /\ \A k \in 1 .. n + 1 : Before(buckets, k) \in Nat
<1> DEFINE g == [j \in DOMAIN buckets |-> buckets[j].count]
<1>1. \A j \in 1 .. n : g[j] = buckets[j].count /\ g[j] \in Nat
  BY DEF AreBuckets
<1>2. \A k : Before(buckets, k) = SumOver(g, 1 .. k - 1)
  BY DEF Before
<1> HIDE DEF g
<1>3. Before(buckets, 1) = 0
  BY <1>2, SumOverPrefix, 0 \in Nat, 1 - 1 = 0, \A j \in 1 .. 0 : g[j] \in Int
<1>4. ASSUME NEW k \in 1 .. n
      PROVE  Before(buckets, k + 1) = Before(buckets, k) + buckets[k].count
  <2>1. k \in Nat /\ k > 0 /\ k + 1 - 1 = k /\ \A j \in 1 .. k : g[j] \in Int
    BY <1>1
  <2>2. SumOver(g, 1 .. k) = SumOver(g, 1 .. k - 1) + g[k]
    BY <2>1, SumOverPrefix
  <2> QED
    BY <1>1, <1>2, <2>1, <2>2
<1> DEFINE S == {k \in Nat : k <= n => Before(buckets, k + 1) \in Nat}
<1>5. 0 \in S
  BY <1>3, 0 + 1 = 1
<1>6. ASSUME NEW k \in Nat, k \in S PROVE k + 1 \in S
  <2> SUFFICES ASSUME k + 1 <= n PROVE Before(buckets, k + 1 + 1) \in Nat
    OBVIOUS
  <2>1. k + 1 \in 1 .. n /\ Before(buckets, k + 1) \in Nat
    BY <1>6
  <2>2. PICK m \in 1 .. n : m = k + 1
    BY <2>1
  <2>3. Before(buckets, m + 1) = Before(buckets, m) + buckets[m].count
    BY <1>4
  <2>4. buckets[m].count \in Nat /\ Before(buckets, m) \in Nat
    BY <2>1, <2>2 DEF AreBuckets
  <2> QED
    BY <2>2, <2>3, <2>4
<1> HIDE DEF S
<1>7. Nat \subseteq S
  BY <1>5, <1>6, SetInduction
<1>8. ASSUME NEW k \in 1 .. n + 1 PROVE Before(buckets, k) \in Nat
  <2>1. k - 1 \in Nat /\ k - 1 <= n /\ k - 1 + 1 = k
    OBVIOUS
  <2>2. k - 1 \in S
    BY <1>7, <2>1
  <2> QED
    BY <2>1, <2>2 DEF S
<1> QED
  BY <1>3, <1>4, <1>8

\* Before a place at which the samples reach the rank there is a bucket that
\* holds it.
LEMMA RankIsHeld ==
    ASSUME NEW n \in Nat, NEW buckets, AreBuckets(buckets, n),
           NEW rank \in Nat, rank > 0,
           NEW k \in 1 .. n + 1, rank <= 100 * Before(buckets, k)
    PROVE  \E m \in 1 .. n : m < k /\ HoldsRank(buckets, m, rank)
<1> DEFINE S == {j \in Nat : j \in 1 .. n + 1
                               /\ rank <= 100 * Before(buckets, j)}
<1>1. k \in S
  OBVIOUS
<1>2. PICK j \in S : \A i \in S : j <= i
  <2>1. S \subseteq Nat
    OBVIOUS
  <2> HIDE DEF S
  <2> QED
    BY <1>1, <2>1, LeastNumber
<1>3. j # 1
  BY BeforeSteps
<1>4. PICK m \in 1 .. n : m + 1 = j
  <2>1. j - 1 \in 1 .. n /\ j - 1 + 1 = j
    BY <1>3
  <2> QED
    BY <2>1
<1>5. m < k
  BY <1>1, <1>2, <1>4
<1>6. ~(rank <= 100 * Before(buckets, m))
  <2>1. m \notin S
    <3> HIDE DEF S
    <3>1. ~(j <= m)
      BY <1>4
    <3> QED
      BY <1>2, <3>1
  <2> QED
    BY <2>1
<1>7. /\ Before(buckets, j) = Before(buckets, m) + buckets[m].count
      /\ Before(buckets, m) \in Nat /\ buckets[m].count \in Nat
  <2>1. m \in 1 .. n + 1
    OBVIOUS
  <2> QED
    BY <1>4, <2>1, BeforeSteps DEF AreBuckets
<1>8. rank <= 100 * Before(buckets, j)
  OBVIOUS
<1>9. HoldsRank(buckets, m, rank)
  <2> HIDE DEF S
  <2>1. PICK x \in Nat : x = Before(buckets, m)
    BY <1>7
  <2>2. PICK c \in Nat : c = buckets[m].count
    BY <1>7
  <2>3. c > 0 /\ 100 * (x + c) >= rank
    BY <1>6, <1>7, <1>8, <2>1, <2>2
  <2> QED
    BY <2>1, <2>2, <2>3 DEF HoldsRank
<1> QED
  BY <1>5, <1>9

Holding(buckets, rank) == {k \in DOMAIN buckets : HoldsRank(buckets, k, rank)}

LEMMA FirstHolding ==
    ASSUME NEW n \in Nat, NEW buckets, AreBuckets(buckets, n),
           NEW rank \in Nat, rank > 0
    PROVE  /\ Holding(buckets, rank) = {} => 100 * Before(buckets, n + 1) < rank
           /\ Holding(buckets, rank) # {} =>
                 LET k == Min(Holding(buckets, rank))
                 IN  /\ k \in 1 .. n /\ buckets[k].count > 0
                     /\ 100 * Before(buckets, k) < rank
                     /\ rank <= 100 * (Before(buckets, k) + buckets[k].count)
<1> DEFINE H == Holding(buckets, rank)
<1>0. H = {k \in 1 .. n : HoldsRank(buckets, k, rank)}
  BY DEF Holding, AreBuckets
<1>1. ASSUME H = {} PROVE 100 * Before(buckets, n + 1) < rank
  <2>1. ~(rank <= 100 * Before(buckets, n + 1))
    <3> HIDE DEF H
    <3>1. n + 1 \in 1 .. n + 1
      OBVIOUS
    <3> QED
      BY <1>0, <1>1, <3>1, RankIsHeld
  <2>2. Before(buckets, n + 1) \in Nat
    BY BeforeSteps, n + 1 \in 1 .. n + 1
  <2> QED
    BY <2>1, <2>2
<1>2. ASSUME H # {}
      PROVE  /\ Min(H) \in 1 .. n /\ buckets[Min(H)].count > 0
             /\ 100 * Before(buckets, Min(H)) < rank
             /\ rank <= 100 * (Before(buckets, Min(H)) + buckets[Min(H)].count)
  <2> HIDE DEF H
  <2>1. H \subseteq Nat
    BY <1>0
  <2>2. \E m \in H : \A k \in H : m <= k
    BY <1>2, <2>1, LeastNumber
  <2>3. Min(H) \in H /\ \A k \in H : Min(H) <= k
    BY <2>2 DEF Min
  <2>4. PICK k \in 1 .. n : k = Min(H) /\ HoldsRank(buckets, k, rank)
    BY <1>0, <2>3
  <2>5. k \in 1 .. n + 1 /\ Before(buckets, k) \in Nat
        /\ buckets[k].count \in Nat
    <3>1. k \in 1 .. n + 1
      OBVIOUS
    <3>2. Before(buckets, k) \in Nat
      BY <3>1, BeforeSteps
    <3>3. buckets[k].count \in Nat
      BY DEF AreBuckets
    <3> QED
      BY <3>1, <3>2, <3>3
  <2>6. ~(rank <= 100 * Before(buckets, k))
    <3> SUFFICES ASSUME rank <= 100 * Before(buckets, k) PROVE FALSE
      OBVIOUS
    <3>1. PICK m \in 1 .. n : m < k /\ HoldsRank(buckets, m, rank)
      BY <2>5, RankIsHeld
    <3>2. m \in H
      BY <1>0, <3>1
    <3> QED
      BY <2>3, <2>4, <3>1, <3>2
  <2> QED
    BY <2>4, <2>5, <2>6 DEF HoldsRank
<1> QED
  BY <1>1, <1>2

\* Interpolation stays in the bucket.
Interpolated(lower, upper, count, before, rank) ==
    100 * count * lower + (upper - lower) * (rank - 100 * before)

LEMMA Interpolates ==
    ASSUME NEW lower \in Nat, NEW upper \in Nat, lower <= upper,
           NEW count \in Nat \ {0}, NEW before \in Nat, NEW rank \in Nat,
           100 * before < rank, rank <= 100 * (before + count)
    PROVE  LET v == Interpolated(lower, upper, count, before, rank)
           IN  /\ v \in Nat
               /\ v >= lower * (100 * count) /\ v <= upper * (100 * count)
               /\ lower = upper => v = lower * (100 * count)
<1>1. PICK d \in Nat : d = upper - lower
  OBVIOUS
<1>2. PICK x \in Nat : x = rank - 100 * before /\ x <= 100 * count
  OBVIOUS
<1>3. PICK c \in Nat : c = 100 * count
  OBVIOUS
<1>4. d * x \in Nat /\ d * x <= d * c
  BY <1>2, <1>3
<1>5. upper * c = lower * c + d * c
  BY <1>1
<1>6. c * lower = lower * c /\ c * lower \in Nat /\ d * c \in Nat
  OBVIOUS
<1>7. Interpolated(lower, upper, count, before, rank) = c * lower + d * x
  BY <1>1, <1>2, <1>3 DEF Interpolated
<1>8. d = 0 => d * x = 0
  OBVIOUS
<1>9. lower = upper => d = 0
  BY <1>1
<1> QED
  BY <1>3, <1>4, <1>5, <1>6, <1>7, <1>8, <1>9

----------------------------------------------------------------------------
(* Bounds, and classic histograms. *)

Doubling(f, n) == f[0] = 1 /\ \A k \in 0 .. n - 1 : f[k + 1] = 2 * f[k]

LEMMA DoublingExists == ASSUME NEW n \in Nat PROVE \E f : Doubling(f, n)
<1> DEFINE S == {k \in Nat : \E f : Doubling(f, k)}
<1>1. 0 \in S
  <2>1. Doubling([i \in 0 .. 0 |-> 1], 0)
    BY DEF Doubling
  <2> QED
    BY <2>1
<1>2. ASSUME NEW k \in Nat, k \in S PROVE k + 1 \in S
  <2>1. PICK f : Doubling(f, k)
    BY <1>2
  <2> DEFINE h == [i \in 0 .. k + 1 |-> IF i = k + 1 THEN 2 * f[k] ELSE f[i]]
  <2>2. h[0] = 1
    BY <2>1 DEF Doubling
  <2>3. ASSUME NEW i \in 0 .. k + 1 - 1 PROVE h[i + 1] = 2 * h[i]
    <3>1. CASE i = k
      BY <3>1
    <3>2. CASE i # k
      <4>1. /\ i \in 0 .. k - 1 /\ i \in 0 .. k + 1 /\ i + 1 \in 0 .. k + 1
            /\ i # k + 1 /\ i + 1 # k + 1
        BY <3>2
      <4>2. f[i + 1] = 2 * f[i]
        BY <2>1, <4>1 DEF Doubling
      <4> QED
        BY <4>1, <4>2
    <3> QED
      BY <3>1, <3>2
  <2>4. Doubling(h, k + 1)
    <3> HIDE DEF h
    <3> QED
      BY <2>2, <2>3 DEF Doubling
  <2>5. \E q : Doubling(q, k + 1)
    <3> HIDE DEF h
    <3> QED
      BY <2>4
  <2> QED
    BY <2>5
<1> HIDE DEF S
<1>3. n \in S
  BY <1>1, <1>2, SetInduction
<1> QED
  BY <1>3 DEF S

LEMMA DoublingAgrees ==
    ASSUME NEW n \in Nat, NEW m \in n .. n + 1, NEW f, Doubling(f, n),
           NEW h, Doubling(h, m)
    PROVE  f[n] = h[n]
<1> DEFINE S == {k \in Nat : k <= n => f[k] = h[k]}
<1>1. 0 \in S
  BY DEF Doubling
<1>2. ASSUME NEW k \in Nat, k \in S PROVE k + 1 \in S
  <2> SUFFICES ASSUME k + 1 <= n PROVE f[k + 1] = h[k + 1]
    OBVIOUS
  <2>1. k \in 0 .. n - 1 /\ k \in 0 .. m - 1 /\ f[k] = h[k]
    BY <1>2
  <2> QED
    BY <2>1 DEF Doubling
<1> HIDE DEF S
<1>3. n \in S
  BY <1>1, <1>2, SetInduction
<1> QED
  BY <1>3 DEF S

LEMMA BoundDoubles ==
    /\ Bound[0] = 1
    /\ \A i \in Nat : Bound[i + 1] = 2 * Bound[i] /\ Bound[i] \in Nat
<1> DEFINE Of(n) == CHOOSE f : Doubling(f, n)
           F == [n \in Nat |-> Of(n)[n]]
           Solves(f) == f = [i \in Nat |-> IF i = 0 THEN 1 ELSE 2 * f[i - 1]]
<1>1. \A n \in Nat : Doubling(Of(n), n)
  BY DoublingExists
<1>2. ASSUME NEW n \in Nat PROVE F[n + 1] = 2 * F[n]
  <2> HIDE DEF Of
  <2>1. Doubling(Of(n), n) /\ Doubling(Of(n + 1), n + 1)
    BY <1>1, n + 1 \in Nat
  <2>2. Of(n)[n] = Of(n + 1)[n]
    BY <2>1, DoublingAgrees, n + 1 \in n .. n + 1
  <2>3. Of(n + 1)[n + 1] = 2 * Of(n + 1)[n]
    BY <2>1, n \in 0 .. n + 1 - 1 DEF Doubling
  <2> QED
    BY <2>2, <2>3
<1>3. F[0] = 1
  <2> HIDE DEF Of
  <2> QED
    BY <1>1, 0 \in Nat DEF Doubling
<1>4. Solves(F)
  <2>1. ASSUME NEW i \in Nat
        PROVE  F[i] = IF i = 0 THEN 1 ELSE 2 * F[i - 1]
    <3> HIDE DEF F
    <3>1. CASE i = 0
      BY <1>3, <3>1
    <3>2. CASE i # 0
      <4>1. i - 1 \in Nat /\ i - 1 + 1 = i
        BY <3>2
      <4> QED
        BY <1>2, <3>2, <4>1
    <3> QED
      BY <3>1, <3>2
  <2>2. F = [i \in Nat |-> F[i]]
    <3> HIDE DEF Of
    <3> QED
      OBVIOUS
  <2> HIDE DEF F
  <2> QED
    BY <2>1, <2>2
<1>5. Solves(Bound)
  <2>1. Bound = CHOOSE f : Solves(f)
    BY DEF Bound
  <2> HIDE DEF Solves, F
  <2> QED
    BY <1>4, <2>1
<1>6. Bound[0] = 1
  BY <1>5
<1>7. ASSUME NEW i \in Nat PROVE Bound[i + 1] = 2 * Bound[i]
  <2>1. i + 1 \in Nat /\ i + 1 # 0 /\ i + 1 - 1 = i
    OBVIOUS
  <2> QED
    BY <1>5, <2>1
<1> DEFINE S == {i \in Nat : Bound[i] \in Nat}
<1>8. Nat \subseteq S
  <2>1. 0 \in S
    BY <1>6
  <2>2. ASSUME NEW i \in Nat, i \in S PROVE i + 1 \in S
    BY <1>7, <2>2
  <2> HIDE DEF S
  <2> QED
    BY <2>1, <2>2, SetInduction
<1> QED
  BY <1>6, <1>7, <1>8

LEMMA BoundGrows ==
    ASSUME NEW i \in Nat \ {0}
    PROVE  Bound[i - 1] \in Nat /\ Bound[i] \in Nat /\ Bound[i - 1] <= Bound[i]
<1>1. i - 1 \in Nat /\ i - 1 + 1 = i
  OBVIOUS
<1>2. Bound[i - 1] \in Nat /\ Bound[i] = 2 * Bound[i - 1]
  BY <1>1, BoundDoubles
<1> QED
  BY <1>2

LEMMA ClassicFits ==
    ASSUME NEW q, AreSamples(q), NEW last \in Nat \ {0}
    PROVE  LET buckets == ClassicBuckets(ClassicHistogram(q, last))
           IN  /\ AreBuckets(buckets, last)
               /\ \A k \in 1 .. last :
                     /\ buckets[k].lower = IF k = 1 THEN 0 ELSE Bound[k - 1]
                     /\ buckets[k].upper = Bound[k]
                     /\ Before(buckets, k)
                           = IF k = 1 THEN 0 ELSE UpTo(q, k - 1)
                     /\ Before(buckets, k) + buckets[k].count = UpTo(q, k)
               /\ Before(buckets, last + 1) = UpTo(q, last)
<1> DEFINE buckets == ClassicBuckets(ClassicHistogram(q, last))
           Start(k) == IF k = 1 THEN 0 ELSE UpTo(q, k - 1)
<1>1. /\ DOMAIN buckets = 1 .. last
      /\ \A k \in 1 .. last :
            /\ buckets[k].lower = IF k = 1 THEN 0 ELSE Bound[k - 1]
            /\ buckets[k].upper = Bound[k]
            /\ buckets[k].count = UpTo(q, k) - Start(k)
  BY DEF ClassicBuckets, ClassicHistogram
<1> HIDE DEF buckets
<1>2. ASSUME NEW k \in 1 .. last
      PROVE  /\ Start(k) \in Nat /\ UpTo(q, k) \in Nat
             /\ Start(k) <= UpTo(q, k)
  <2>1. k \in Int /\ k - 1 \in Int /\ k - 1 <= k
    OBVIOUS
  <2>2. UpTo(q, k) \in Nat /\ UpTo(q, k - 1) \in Nat
        /\ UpTo(q, k - 1) <= UpTo(q, k)
    BY <2>1, UpToIsNat, UpToGrows
  <2> QED
    BY <2>2
<1>3. AreBuckets(buckets, last)
  <2>1. ASSUME NEW k \in 1 .. last PROVE buckets[k].count \in Nat
    <3> HIDE DEF Start
    <3> QED
      BY <1>1, <1>2
  <2> QED
    BY <1>1, <2>1 DEF AreBuckets
<1> DEFINE S == {k \in Nat : k < last =>
                    Before(buckets, k + 1) = Start(k + 1)}
<1>4. 0 \in S
  BY <1>3, BeforeSteps
<1>5. ASSUME NEW k \in Nat, k \in S PROVE k + 1 \in S
  <2> SUFFICES ASSUME k + 1 < last
               PROVE  Before(buckets, (k + 1) + 1) = Start((k + 1) + 1)
    OBVIOUS
  <2>1. PICK m \in 1 .. last : m = k + 1
    OBVIOUS
  <2>2. Before(buckets, m) = Start(m)
    BY <1>5, <2>1
  <2>3. Before(buckets, m + 1) = Before(buckets, m) + buckets[m].count
    BY <1>3, BeforeSteps
  <2>4. Before(buckets, m + 1) = UpTo(q, m)
    <3> HIDE DEF Start
    <3> QED
      BY <1>1, <1>2, <2>2, <2>3
  <2>5. Start(m + 1) = UpTo(q, m)
    <3>1. m + 1 # 1 /\ m + 1 - 1 = m
      OBVIOUS
    <3> QED
      BY <3>1
  <2> QED
    BY <2>1, <2>4, <2>5
<1>6. ASSUME NEW k \in 1 .. last PROVE Before(buckets, k) = Start(k)
  <2>1. k - 1 \in S
    <3> HIDE DEF S
    <3> QED
      BY <1>4, <1>5, SetInduction, k - 1 \in Nat
  <2>2. k - 1 < last /\ k - 1 + 1 = k
    OBVIOUS
  <2> QED
    BY <2>1, <2>2
<1> HIDE DEF S
<1>7. ASSUME NEW k \in 1 .. last
      PROVE  Before(buckets, k) + buckets[k].count = UpTo(q, k)
  <2> HIDE DEF Start
  <2>1. Before(buckets, k) = Start(k)
    BY <1>6
  <2>2. buckets[k].count = UpTo(q, k) - Start(k)
    BY <1>1
  <2>3. Start(k) \in Nat /\ UpTo(q, k) \in Nat
    BY <1>2
  <2> QED
    BY <2>1, <2>2, <2>3
<1>8. Before(buckets, last + 1) = UpTo(q, last)
  <2>1. last \in 1 .. last
    OBVIOUS
  <2> QED
    BY <1>3, <1>7, <2>1, BeforeSteps
<1> QED
  BY <1>1, <1>3, <1>6, <1>7, <1>8 DEF buckets

----------------------------------------------------------------------------
(* Sets in ascending order. *)

LEMMA GreatestExists ==
    ASSUME NEW S, S \subseteq Nat, IsFiniteSet(S), S # {}
    PROVE  \E m \in S : \A k \in S : k <= m
<1>1. PICK n \in Nat : S \subseteq 0 .. n - 1
  BY FiniteIsBounded
<1>2. S \subseteq 0 .. n
  BY <1>1
<1>3. \E m \in S : \A k \in S : m >= k
  BY <1>2, GreatestNumber
<1> QED
  BY <1>3

Lower(S, x) == {j \in S : j < x}

LEMMA LowerIsFinite ==
    ASSUME NEW S, IsFiniteSet(S), NEW x
    PROVE  IsFiniteSet(Lower(S, x)) /\ Cardinality(Lower(S, x)) \in Nat
           /\ Lower(S, x) \subseteq S
<1>1. Lower(S, x) \in SUBSET S
  BY DEF Lower
<1> QED
  BY <1>1, FS_Subset, FS_CardinalityType

LEMMA LowerGrows ==
    ASSUME NEW S, S \subseteq Nat, IsFiniteSet(S), NEW x \in S, NEW y \in S, x < y
    PROVE  Cardinality(Lower(S, x)) < Cardinality(Lower(S, y))
<1>1. Lower(S, x) \in SUBSET (Lower(S, y) \ {x})
  <2>1. ASSUME NEW j \in S, j < x PROVE j < y /\ j # x
    BY <2>1
  <2> QED
    BY <2>1 DEF Lower
<1>2. x \in Lower(S, y)
  BY DEF Lower
<1>3. /\ IsFiniteSet(Lower(S, y) \ {x})
      /\ Cardinality(Lower(S, y) \ {x}) = Cardinality(Lower(S, y)) - 1
  BY <1>2, LowerIsFinite, FS_RemoveElement
<1>4. Cardinality(Lower(S, x)) <= Cardinality(Lower(S, y) \ {x})
  BY <1>1, <1>3, FS_Subset
<1> QED
  BY <1>3, <1>4, LowerIsFinite

\* The element before x has one element less below it.
LEMMA LowerOfPrevious ==
    ASSUME NEW S, S \subseteq Nat, IsFiniteSet(S), NEW x \in S,
           Lower(S, x) # {}
    PROVE  \E z \in Lower(S, x) :
              Cardinality(Lower(S, z)) = Cardinality(Lower(S, x)) - 1
<1>1. Lower(S, x) \subseteq Nat
  BY DEF Lower
<1>2. PICK z \in Lower(S, x) : \A k \in Lower(S, x) : k <= z
  BY <1>1, LowerIsFinite, GreatestExists
<1>3. Lower(S, z) = Lower(S, x) \ {z}
  <2>1. ASSUME NEW k \in Lower(S, z) PROVE k \in Lower(S, x) \ {z}
    <3>1. z \in S /\ z \in Nat /\ k \in S /\ k \in Nat /\ k < z /\ z < x
      BY <1>1, <2>1 DEF Lower
    <3>2. x \in Nat /\ k < x /\ k # z
      BY <3>1
    <3> QED
      BY <3>1, <3>2 DEF Lower
  <2>2. ASSUME NEW k \in Lower(S, x) \ {z} PROVE k \in Lower(S, z)
    <3>1. k <= z /\ k # z /\ k \in Nat /\ z \in Nat /\ k \in S
      BY <1>1, <1>2, <2>2 DEF Lower
    <3> QED
      BY <3>1 DEF Lower
  <2> QED
    BY <2>1, <2>2
<1> QED
  BY <1>3, LowerIsFinite, FS_RemoveElement

LEMMA LowerTakesAll ==
    ASSUME NEW S, S \subseteq Nat, IsFiniteSet(S),
           NEW k \in 0 .. Cardinality(S) - 1
    PROVE  \E x \in S : Cardinality(Lower(S, x)) = k
<1> DEFINE T == {x \in S : k <= Cardinality(Lower(S, x))}
<1>1. T # {}
  <2>1. S # {} /\ Cardinality(S) \in Nat
    BY FS_EmptySet, FS_CardinalityType
  <2>2. PICK m \in S : \A i \in S : i <= m
    BY <2>1, GreatestExists
  <2>3. Lower(S, m) = S \ {m}
    <3>1. ASSUME NEW i \in S PROVE i < m <=> i # m
      <4>1. i \in Nat /\ m \in Nat /\ i <= m
        BY <2>2
      <4> QED
        BY <4>1
    <3> QED
      BY <3>1 DEF Lower
  <2>4. Cardinality(S \ {m}) = Cardinality(S) - 1
    BY FS_RemoveElement
  <2>5. m \in T
    BY <2>1, <2>3, <2>4
  <2> QED
    BY <2>5
<1>2. PICK x \in T : \A y \in T : x <= y
  <2>1. T \subseteq Nat
    OBVIOUS
  <2> HIDE DEF T
  <2> QED
    BY <1>1, <2>1, LeastNumber
<1>3. ASSUME Cardinality(Lower(S, x)) # k PROVE FALSE
  <2>1. Cardinality(Lower(S, x)) > k /\ k \in Nat
    BY <1>3, LowerIsFinite
  <2>2. Lower(S, x) # {}
    BY <2>1, FS_EmptySet
  <2>3. PICK z \in Lower(S, x) :
           Cardinality(Lower(S, z)) = Cardinality(Lower(S, x)) - 1
    BY <2>2, LowerOfPrevious
  <2>4. Cardinality(Lower(S, x)) \in Nat
    BY LowerIsFinite
  <2>5. z \in T /\ z < x /\ x \in Nat /\ z \in Nat
    BY <2>1, <2>3, <2>4 DEF Lower
  <2> HIDE DEF T
  <2> QED
    BY <1>2, <2>5
<1> QED
  BY <1>3

LEMMA AscendingSorts ==
    ASSUME NEW S, S \subseteq Nat, IsFiniteSet(S)
    PROVE  LET n == Cardinality(S)
               a == Ascending(S)
           IN  /\ n \in Nat /\ a = [k \in 1 .. n |-> a[k]]
               /\ \A k \in 1 .. n : a[k] \in S
               /\ \A j, k \in 1 .. n : j < k => a[j] < a[k]
               /\ \A x \in S : \E k \in 1 .. n : a[k] = x
<1> DEFINE n == Cardinality(S)
           a == Ascending(S)
<1>1. n \in Nat
  BY FS_CardinalityType
<1>2. a = [k \in 1 .. n |-> CHOOSE i \in S : Cardinality(Lower(S, i)) = k - 1]
  BY DEF Ascending, Lower
<1> HIDE DEF n, a
<1>3. ASSUME NEW k \in 1 .. n
      PROVE  a[k] \in S /\ Cardinality(Lower(S, a[k])) = k - 1
  <2>1. k - 1 \in 0 .. n - 1
    BY <1>1
  <2>2. \E i \in S : Cardinality(Lower(S, i)) = k - 1
    BY <2>1, LowerTakesAll DEF n
  <2> QED
    BY <1>2, <2>2
<1>4. ASSUME NEW j \in 1 .. n, NEW k \in 1 .. n, j < k PROVE a[j] < a[k]
  <2> SUFFICES ASSUME ~(a[j] < a[k]) PROVE FALSE
    OBVIOUS
  <2>1. a[j] \in S /\ a[k] \in S /\ a[j] \in Nat /\ a[k] \in Nat
    BY <1>3
  <2>2. CASE a[k] < a[j]
    <3>1. Cardinality(Lower(S, a[k])) < Cardinality(Lower(S, a[j]))
      BY <2>1, <2>2, LowerGrows
    <3> QED
      BY <1>3, <1>4, <3>1
  <2>3. CASE a[k] = a[j]
    BY <1>3, <1>4, <2>3
  <2> QED
    BY <2>1, <2>2, <2>3
<1>5. ASSUME NEW x \in S PROVE \E k \in 1 .. n : a[k] = x
  <2>1. Lower(S, x) \in SUBSET (S \ {x})
    BY DEF Lower
  <2>2. IsFiniteSet(S \ {x}) /\ Cardinality(S \ {x}) = n - 1
    BY FS_RemoveElement DEF n
  <2>3. Cardinality(Lower(S, x)) <= n - 1 /\ Cardinality(Lower(S, x)) \in Nat
    BY <2>1, <2>2, FS_Subset, LowerIsFinite
  <2>4. PICK k \in 1 .. n : k = Cardinality(Lower(S, x)) + 1
    BY <1>1, <2>3
  <2>5. a[k] \in S /\ Cardinality(Lower(S, a[k])) = Cardinality(Lower(S, x))
    BY <1>3, <2>3, <2>4
  <2>6. ~(a[k] < x) /\ ~(x < a[k])
    <3>1. ~(Cardinality(Lower(S, x)) < Cardinality(Lower(S, x)))
      BY <2>3
    <3>2. ASSUME a[k] < x PROVE FALSE
      BY <2>5, <3>1, <3>2, LowerGrows
    <3>3. ASSUME x < a[k] PROVE FALSE
      BY <2>5, <3>1, <3>3, LowerGrows
    <3> QED
      BY <3>2, <3>3
  <2>7. a[k] \in Nat /\ x \in Nat
    BY <2>5
  <2>8. a[k] = x
    BY <2>6, <2>7
  <2> QED
    BY <2>8
<1>6. a = [k \in 1 .. n |-> a[k]]
  BY <1>2
<1> QED
  BY <1>1, <1>3, <1>4, <1>5, <1>6 DEF n, a

----------------------------------------------------------------------------
(* Native histograms. *)

\* The loop over the spans is a recursive function: each solution of its
\* equation has its values.
LEMMA SpanIndexesLoop ==
    ASSUME NEW spans, Len(spans) \in Nat, NEW G,
           G = [j \in 0 .. Len(spans) |->
                   IF j = 0 THEN [index |-> 0, indexes |-> <<>>]
                   ELSE SpanBuckets(G[j - 1], spans[j])]
    PROVE  SpanIndexes(spans) = G[Len(spans)].indexes
<1> DEFINE Solves(f) ==
              f = [j \in 0 .. Len(spans) |->
                      IF j = 0 THEN [index |-> 0, indexes |-> <<>>]
                      ELSE SpanBuckets(f[j - 1], spans[j])]
           State == CHOOSE f : Solves(f)
<1>1. Solves(State)
  <2>1. Solves(G)
    OBVIOUS
  <2> HIDE DEF Solves
  <2> QED
    BY <2>1
<1>2. SpanIndexes(spans) = State[Len(spans)].indexes
  BY DEF SpanIndexes
<1> DEFINE S == {j \in Nat : j <= Len(spans) => State[j] = G[j]}
<1> HIDE DEF State
<1>3. 0 \in S
  <2>1. 0 \in 0 .. Len(spans)
    OBVIOUS
  <2>2. State[0] = [index |-> 0, indexes |-> <<>>]
    BY <1>1, <2>1
  <2>3. G[0] = [index |-> 0, indexes |-> <<>>]
    BY <2>1
  <2> QED
    BY <2>2, <2>3
<1>4. ASSUME NEW j \in Nat, j \in S PROVE j + 1 \in S
  <2> SUFFICES ASSUME j + 1 <= Len(spans) PROVE State[j + 1] = G[j + 1]
    OBVIOUS
  <2>1. j + 1 \in 0 .. Len(spans) /\ j + 1 # 0 /\ j + 1 - 1 = j
    OBVIOUS
  <2>2. State[j + 1] = SpanBuckets(State[j], spans[j + 1])
    BY <1>1, <2>1
  <2>3. G[j + 1] = SpanBuckets(G[j], spans[j + 1])
    BY <2>1
  <2>4. State[j] = G[j]
    BY <1>4
  <2> QED
    BY <2>2, <2>3, <2>4
<1> HIDE DEF S
<1>5. Len(spans) \in S
  BY <1>3, <1>4, SetInduction
<1> QED
  BY <1>2, <1>5 DEF S

AreIndexes(x, n) ==
    /\ x = [k \in 1 .. n |-> x[k]]
    /\ \A k \in 1 .. n : x[k] \in Nat \ {0}
    /\ \A j, k \in 1 .. n : j < k => x[j] < x[k]

\* The span j ends before After(x, s, m, j).
After(x, s, m, n, j) == IF j = m THEN n + 1 ELSE s[j + 1]

LEMMA StartsFollow ==
    ASSUME NEW n \in Nat, NEW x, AreIndexes(x, n)
    PROVE  LET m == Cardinality(Starts(x))
               s == Ascending(Starts(x))
           IN  /\ m \in Nat /\ s = [j \in 1 .. m |-> s[j]]
               /\ n = 0 => m = 0
               /\ n > 0 => m > 0 /\ s[1] = 1
               /\ \A j \in 1 .. m :
                     /\ s[j] \in 1 .. n
                     /\ After(x, s, m, n, j) \in Nat
                     /\ s[j] < After(x, s, m, n, j)
                     /\ After(x, s, m, n, j) <= n + 1
                     /\ \A k \in 1 .. n :
                           s[j] < k /\ k < After(x, s, m, n, j)
                              => x[k] = x[k - 1] + 1
<1> DEFINE S == Starts(x)
           m == Cardinality(S)
           s == Ascending(S)
<1>1. DOMAIN x = 1 .. n
  BY DEF AreIndexes
<1>2. S = {k \in 1 .. n : k = 1 \/ x[k] # x[k - 1] + 1}
  BY <1>1 DEF Starts
<1>3. S \subseteq 1 .. n /\ S \subseteq Nat /\ IsFiniteSet(S)
  <2>1. S \in SUBSET (1 .. n) /\ S \subseteq Nat
    BY <1>2
  <2>2. IsFiniteSet(1 .. n)
    BY FS_Interval
  <2> HIDE DEF S
  <2> QED
    BY <2>1, <2>2, FS_Subset
<1> HIDE DEF S
<1>4. /\ m \in Nat /\ s = [k \in 1 .. m |-> s[k]]
      /\ \A k \in 1 .. m : s[k] \in S
      /\ \A j, k \in 1 .. m : j < k => s[j] < s[k]
      /\ \A y \in S : \E k \in 1 .. m : s[k] = y
  BY <1>3, AscendingSorts
<1> HIDE DEF m, s
<1>5. \A k \in 1 .. m : s[k] \in 1 .. n
  BY <1>3, <1>4
<1>6. ASSUME n = 0 PROVE m = 0
  <2>1. ASSUME m > 0 PROVE FALSE
    <3>1. 1 \in 1 .. m
      BY <1>4, <2>1
    <3> QED
      BY <1>5, <1>6, <3>1
  <2> QED
    BY <1>4, <2>1
<1>7. ASSUME n > 0 PROVE m > 0 /\ s[1] = 1
  <2>1. 1 \in S
    BY <1>2, <1>7
  <2>2. PICK k \in 1 .. m : s[k] = 1
    BY <1>4, <2>1
  <2>3. 1 \in 1 .. m /\ m > 0
    BY <1>4
  <2>4. s[1] \in 1 .. n /\ (1 < k => s[1] < s[k])
    BY <1>4, <1>5, <2>3
  <2>5. ~(1 < k)
    BY <2>2, <2>4
  <2>6. k = 1
    BY <2>5
  <2> QED
    BY <2>2, <2>3, <2>6
<1>8. ASSUME NEW j \in 1 .. m
      PROVE  /\ After(x, s, m, n, j) \in Nat
             /\ s[j] < After(x, s, m, n, j)
             /\ After(x, s, m, n, j) <= n + 1
  <2>1. CASE j = m
    BY <1>5, <2>1 DEF After
  <2>2. CASE j # m
    <3>1. j + 1 \in 1 .. m /\ j < j + 1
      BY <1>4, <2>2
    <3>2. s[j + 1] \in 1 .. n /\ s[j] < s[j + 1]
      BY <1>4, <1>5, <3>1
    <3> QED
      BY <2>2, <3>2 DEF After
  <2> QED
    BY <2>1, <2>2
<1>9. ASSUME NEW j \in 1 .. m, NEW k \in 1 .. n, s[j] < k,
             k < After(x, s, m, n, j)
      PROVE  x[k] = x[k - 1] + 1
  <2>1. k \notin S
    <3> SUFFICES ASSUME k \in S PROVE FALSE
      OBVIOUS
    <3>1. PICK i \in 1 .. m : s[i] = k
      BY <1>4
    <3>2. j < i
      <4>1. s[i] \in Nat /\ s[j] \in Nat
        BY <1>5
      <4>2. ~(i < j) /\ i # j
        <5>1. i < j => s[i] < s[j]
          BY <1>4
        <5> QED
          BY <1>9, <3>1, <4>1, <5>1
      <4> QED
        BY <4>2
    <3>3. j # m /\ j + 1 \in 1 .. m
      BY <1>4, <3>2
    <3>4. s[j + 1] <= s[i]
      <4>1. j + 1 < i => s[j + 1] < s[i]
        BY <1>4, <3>3
      <4>2. s[j + 1] \in Nat /\ s[i] \in Nat
        BY <1>5, <3>3
      <4>3. j + 1 < i \/ j + 1 = i
        BY <3>2
      <4> QED
        BY <4>1, <4>2, <4>3
    <3>5. k < s[j + 1]
      BY <1>9, <3>3 DEF After
    <3>6. s[j + 1] \in Nat
      BY <1>5, <3>3
    <3> QED
      BY <3>1, <3>4, <3>5, <3>6
  <2> QED
    BY <1>2, <2>1
<1> QED
  BY <1>4, <1>5, <1>6, <1>7, <1>8, <1>9 DEF m, s, S

LEMMA SpanIsRun ==
    ASSUME NEW x, NEW a \in Nat, NEW b \in Nat,
           \A k \in a .. b : x[k] \in Nat,
           \A k \in a + 1 .. b : x[k] = x[k - 1] + 1
    PROVE  \A k \in a .. b : x[k] = x[a] + (k - a)
<1> DEFINE S == {d \in Nat : a + d <= b => x[a + d] = x[a] + d}
<1>1. 0 \in S
  <2>1. a + 0 = a
    OBVIOUS
  <2>2. a <= b => x[a] \in Nat
    OBVIOUS
  <2>3. a <= b => x[a] = x[a] + 0
    BY <2>2
  <2> QED
    BY <2>1, <2>3
<1>2. ASSUME NEW d \in Nat, d \in S PROVE d + 1 \in S
  <2> SUFFICES ASSUME a + (d + 1) <= b PROVE x[a + (d + 1)] = x[a] + (d + 1)
    OBVIOUS
  <2>1. /\ a + (d + 1) \in a + 1 .. b /\ a + (d + 1) - 1 = a + d
        /\ a + d <= b /\ a \in a .. b
    OBVIOUS
  <2>2. x[a + (d + 1)] = x[a + d] + 1 /\ x[a + d] = x[a] + d /\ x[a] \in Nat
    BY <1>2, <2>1
  <2> QED
    BY <2>2
<1> HIDE DEF S
<1>3. ASSUME NEW k \in a .. b PROVE x[k] = x[a] + (k - a)
  <2>1. PICK d \in Nat : d = k - a
    OBVIOUS
  <2>2. d \in S
    BY <1>1, <1>2, SetInduction
  <2>3. a + d = k
    BY <2>1
  <2> QED
    BY <2>1, <2>2, <2>3 DEF S
<1> QED
  BY <1>3
LEMMA SpansAre ==
    ASSUME NEW n \in Nat, NEW x, AreIndexes(x, n)
    PROVE  LET m == Cardinality(Starts(x))
               s == Ascending(Starts(x))
           IN  /\ Len(Spans(x)) = m
               /\ \A j \in 1 .. m :
                     /\ Spans(x)[j].offset
                           = x[s[j]] - (IF s[j] = 1 THEN 0
                                        ELSE x[s[j] - 1] + 1)
                     /\ Spans(x)[j].length = After(x, s, m, n, j) - s[j]
<1> DEFINE m == Cardinality(Starts(x))
           s == Ascending(Starts(x))
<1>1. m \in Nat /\ s = [j \in 1 .. m |-> s[j]]
  BY StartsFollow
<1>2. x = [k \in 1 .. n |-> x[k]]
  BY DEF AreIndexes
<1>3. Spans(x) = [j \in DOMAIN s |->
         [offset |-> x[s[j]] - (IF s[j] = 1 THEN 0 ELSE x[s[j] - 1] + 1),
          length |-> (IF j = Len(s) THEN Len(x) + 1 ELSE s[j + 1]) - s[j]]]
  BY DEF Spans
<1> HIDE DEF m, s
<1>4. DOMAIN s = 1 .. m /\ Len(s) = m
  BY <1>1
<1>5. Len(x) = n
  BY <1>2
<1>6. Len(Spans(x)) = m
  BY <1>1, <1>3, <1>4
<1>7. ASSUME NEW j \in 1 .. m
      PROVE  /\ Spans(x)[j].offset
                   = x[s[j]] - (IF s[j] = 1 THEN 0 ELSE x[s[j] - 1] + 1)
             /\ Spans(x)[j].length = After(x, s, m, n, j) - s[j]
  BY <1>3, <1>4, <1>5 DEF After
<1> QED
  BY <1>6, <1>7 DEF m, s

\* The loop finds the buckets the library wrote.
LEMMA LoopFindsIndexes ==
    ASSUME NEW n \in Nat, NEW x, AreIndexes(x, n)
    PROVE  SpanIndexes(Spans(x)) = x
<1> DEFINE m == Cardinality(Starts(x))
           s == Ascending(Starts(x))
           After0(j) == After(x, s, m, n, j)
           Done(j) == IF j = 0 THEN 0 ELSE After0(j) - 1
           At(j) == [index |-> IF Done(j) = 0 THEN 0 ELSE x[Done(j)] + 1,
                     indexes |-> [k \in 1 .. Done(j) |-> x[k]]]
           G == [j \in 0 .. m |-> At(j)]
<1>1. /\ m \in Nat
      /\ n = 0 => m = 0
      /\ n > 0 => m > 0 /\ s[1] = 1
      /\ \A j \in 1 .. m :
            /\ s[j] \in 1 .. n
            /\ After0(j) \in Nat
            /\ s[j] < After0(j)
            /\ After0(j) <= n + 1
            /\ \A k \in 1 .. n :
                  s[j] < k /\ k < After0(j) => x[k] = x[k - 1] + 1
  BY StartsFollow
<1>2. /\ Len(Spans(x)) = m
      /\ \A j \in 1 .. m :
            /\ Spans(x)[j].offset
                  = x[s[j]] - (IF s[j] = 1 THEN 0 ELSE x[s[j] - 1] + 1)
            /\ Spans(x)[j].length = After0(j) - s[j]
  BY SpansAre
<1>3. /\ x = [k \in 1 .. n |-> x[k]]
      /\ \A k \in 1 .. n : x[k] \in Nat \ {0}
  BY DEF AreIndexes
<1>a. \A j : After0(j) = IF j = m THEN n + 1 ELSE s[j + 1]
  BY DEF After
<1> HIDE DEF m, s, After0
<1>4. ASSUME NEW j \in 1 .. m
      PROVE  Done(j) \in s[j] .. n /\ Done(j) = After0(j) - 1
  BY <1>1
<1>5. ASSUME NEW j \in 1 .. m
      PROVE  Done(j - 1) = s[j] - 1
  <2>1. CASE j = 1
    <3>1. n > 0
      BY <1>1
    <3> QED
      BY <1>1, <2>1, <3>1
  <2>2. CASE j # 1
    <3>1. j - 1 # 0 /\ j - 1 # m /\ j - 1 + 1 = j
      BY <2>2
    <3> QED
      BY <1>a, <3>1
  <2> QED
    BY <2>1, <2>2
<1>6. Done(m) = n
  BY <1>1, <1>a
<1>b. \A j \in 0 .. m : Done(j) \in 0 .. n
  BY <1>1, <1>4
<1> HIDE DEF Done
<1>7. ASSUME NEW j \in 1 .. m
      PROVE  SpanBuckets(At(j - 1), Spans(x)[j]) = At(j)
  <2> DEFINE a == s[j]
             e == Done(j)
             first == x[a]
  <2>1. /\ a \in 1 .. n /\ e \in a .. n /\ Done(j - 1) = a - 1
        /\ Spans(x)[j].length = e - a + 1
    <3>1. Done(j) \in s[j] .. n /\ Done(j) = After0(j) - 1
      BY <1>4
    <3>2. After0(j) \in Nat /\ s[j] \in 1 .. n
      BY <1>1
    <3> QED
      BY <1>2, <1>5, <3>1, <3>2
  <2>2. At(j - 1).index + Spans(x)[j].offset = first
    <3>1. At(j - 1).index = IF a - 1 = 0 THEN 0 ELSE x[a - 1] + 1
      BY <2>1
    <3>2. Spans(x)[j].offset = x[a] - (IF a = 1 THEN 0 ELSE x[a - 1] + 1)
      BY <1>2
    <3>3. x[a] \in Nat /\ (a # 1 => x[a - 1] \in Nat)
      BY <1>3, <2>1
    <3> HIDE DEF At, a
    <3> QED
      BY <2>1, <3>1, <3>2, <3>3
  <2>3. \A k \in a .. e : x[k] = first + (k - a)
    <3>1. \A k \in a .. e : x[k] \in Nat
      BY <1>3, <2>1
    <3>2. ASSUME NEW k \in a + 1 .. e PROVE x[k] = x[k - 1] + 1
      <4>1. k \in 1 .. n /\ s[j] < k /\ k < After0(j)
        <5>1. Done(j) = After0(j) - 1 /\ After0(j) \in Nat
          BY <1>1, <1>4
        <5> QED
          BY <2>1, <3>2, <5>1
      <4> QED
        BY <1>1, <4>1
    <3>3. a \in Nat /\ e \in Nat
      BY <2>1
    <3> HIDE DEF a, e
    <3> QED
      BY <3>1, <3>2, <3>3, SpanIsRun
  <2>4. first \in Nat
    BY <1>3, <2>1
  <2>5. At(j).index = first + Spans(x)[j].length
    <3>1. e # 0 /\ x[e] = first + (e - a)
      BY <2>1, <2>3
    <3>2. At(j).index = x[e] + 1
      BY <3>1
    <3> HIDE DEF At, a, e, first
    <3> QED
      BY <2>1, <2>4, <3>1, <3>2
  <2> DEFINE l == At(j - 1).indexes
             r == [k \in 1 .. Spans(x)[j].length |-> first + k - 1]
             w == At(j).indexes
  <2>6. l \in Seq(Int) /\ Len(l) = a - 1 /\ \A k \in 1 .. a - 1 : l[k] = x[k]
    <3>1. l = [k \in 1 .. a - 1 |-> x[k]]
      BY <2>1
    <3>2. a - 1 \in Nat /\ \A k \in 1 .. a - 1 : x[k] \in Int
      <4> HIDE DEF a
      <4> QED
        BY <1>3, <2>1
    <3> HIDE DEF l, a
    <3> QED
      BY <3>1, <3>2
  <2>7. /\ r \in Seq(Int) /\ Len(r) = e - a + 1
        /\ \A k \in 1 .. e - a + 1 : r[k] = first + k - 1
    <3>1. r = [k \in 1 .. e - a + 1 |-> first + k - 1]
      BY <2>1
    <3>2. e - a + 1 \in Nat
      BY <2>1
    <3> HIDE DEF r, a, e, first
    <3> QED
      BY <2>4, <3>1, <3>2
  <2>8. w \in Seq(Int) /\ Len(w) = e /\ \A k \in 1 .. e : w[k] = x[k]
    <3>1. w = [k \in 1 .. e |-> x[k]]
      OBVIOUS
    <3>2. e \in Nat /\ \A k \in 1 .. e : x[k] \in Int
      BY <1>3, <2>1
    <3> HIDE DEF w, e
    <3> QED
      BY <3>1, <3>2
  <2> HIDE DEF l, r, w, a, e, first
  <2>9. l \o r = w
    <3>1. /\ l \o r \in Seq(Int) /\ Len(l \o r) = e
          /\ \A k \in 1 .. e : (l \o r)[k] = IF k <= a - 1 THEN l[k]
                                           ELSE r[k - (a - 1)]
      <4>1. Len(l) + Len(r) = e
        BY <2>1, <2>6, <2>7
      <4>2. /\ l \o r \in Seq(Int) /\ Len(l \o r) = Len(l) + Len(r)
            /\ \A k \in 1 .. Len(l) + Len(r) :
                  (l \o r)[k] = IF k <= Len(l) THEN l[k] ELSE r[k - Len(l)]
        BY <2>6, <2>7, ConcatProperties
      <4> QED
        BY <2>6, <4>1, <4>2
    <3>2. ASSUME NEW k \in 1 .. e PROVE (l \o r)[k] = w[k]
      <4>1. CASE k <= a - 1
        <5>1. k \in 1 .. a - 1
          BY <2>1, <4>1
        <5> QED
          BY <2>6, <2>8, <3>1, <4>1, <5>1
      <4>2. CASE ~(k <= a - 1)
        <5>1. k - (a - 1) \in 1 .. e - a + 1 /\ k \in a .. e
              /\ k - (a - 1) - 1 = k - a
          BY <2>1, <4>2
        <5>2. r[k - (a - 1)] = first + (k - (a - 1)) - 1
          BY <2>7, <5>1
        <5>3. first + (k - (a - 1)) - 1 = first + (k - a)
          BY <2>1, <2>4
        <5> QED
          BY <2>3, <2>8, <3>1, <4>2, <5>1, <5>2, <5>3
      <4> QED
        BY <4>1, <4>2
    <3> QED
      BY <2>8, <3>1, <3>2, SeqEqual
  <2>10. SpanBuckets(At(j - 1), Spans(x)[j])
           = [index |-> first + Spans(x)[j].length, indexes |-> l \o r]
    BY <2>2 DEF SpanBuckets, l, r, first
  <2>11. At(j) = [index |-> At(j).index, indexes |-> w]
    BY DEF w
  <2> HIDE DEF At
  <2> QED
    BY <2>5, <2>9, <2>10, <2>11
<1>8. At(0) = [index |-> 0, indexes |-> <<>>]
  <2>1. Done(0) = 0
    BY DEF Done
  <2>2. [k \in 1 .. 0 |-> x[k]] = <<>>
    OBVIOUS
  <2> QED
    BY <2>1, <2>2
<1> HIDE DEF At
<1>9. ASSUME NEW j \in 0 .. m
      PROVE  G[j] = IF j = 0 THEN [index |-> 0, indexes |-> <<>>]
                    ELSE SpanBuckets(G[j - 1], Spans(x)[j])
  <2>1. CASE j = 0
    BY <1>8, <2>1
  <2>2. CASE j # 0
    <3>1. j \in 1 .. m /\ j - 1 \in 0 .. m
      BY <1>1, <2>2
    <3> QED
      BY <1>7, <2>2, <3>1
  <2> QED
    BY <2>1, <2>2
<1>10. G = [j \in 0 .. m |->
              IF j = 0 THEN [index |-> 0, indexes |-> <<>>]
              ELSE SpanBuckets(G[j - 1], Spans(x)[j])]
  <2>1. G = [j \in 0 .. m |-> G[j]]
    OBVIOUS
  <2> HIDE DEF G
  <2> QED
    BY <1>9, <2>1
<1>11. G[m].indexes = [k \in 1 .. n |-> x[k]]
  BY <1>1, <1>6 DEF At
<1> HIDE DEF G
<1>12. SpanIndexes(Spans(x)) = G[m].indexes
  BY <1>1, <1>2, <1>10, SpanIndexesLoop
<1> QED
  BY <1>3, <1>11, <1>12
LEMMA InSpansSorted ==
    ASSUME NEW q, AreSamples(q)
    PROVE  LET n == Cardinality(InSpans(q))
               x == Ascending(InSpans(q))
           IN  /\ n \in Nat /\ AreIndexes(x, n)
               /\ \A k \in 1 .. n : x[k] \in DOMAIN q
               /\ \A k \in 1 .. n : \A i \in DOMAIN q :
                     (IF k = 1 THEN 0 ELSE x[k - 1]) < i /\ i < x[k] => q[i] = 0
               /\ \A i \in DOMAIN q :
                     (IF n = 0 THEN 0 ELSE x[n]) < i => q[i] = 0
<1> DEFINE S == InSpans(q)
           n == Cardinality(S)
           x == Ascending(S)
           used == {i \in DOMAIN q : i > 0 /\ q[i] > 0}
<1>1. /\ DOMAIN q \subseteq Nat /\ IsFiniteSet(DOMAIN q)
      /\ \A i \in DOMAIN q : q[i] \in Nat
  BY DEF AreSamples
<1>2. S = {i \in DOMAIN q : \/ i \in used
                          \/ \E a, b \in used : a < i /\ i < b /\ b - a <= 3}
  BY DEF InSpans
<1> HIDE DEF S
<1>3. S \subseteq DOMAIN q /\ S \in SUBSET (DOMAIN q) /\ used \subseteq S
  BY <1>2
<1>4. \A i \in S : i \in Nat \ {0}
  <2>1. ASSUME NEW i \in S PROVE i \in Nat /\ i > 0
    <3>1. i \in Nat
      BY <1>1, <1>3
    <3>2. i \in used \/ \E a \in used : a < i
      BY <1>2
    <3>3. CASE i \in used
      BY <3>1, <3>3
    <3>4. CASE \E a \in used : a < i
      <4>1. PICK a \in used : a < i
        BY <3>4
      <4>2. a \in Nat /\ a > 0
        BY <1>1
      <4> QED
        BY <3>1, <4>1, <4>2
    <3> QED
      BY <3>1, <3>2, <3>3, <3>4
  <2> QED
    BY <2>1
<1>5. S \subseteq Nat /\ IsFiniteSet(S)
  BY <1>1, <1>3, FS_Subset
<1>6. /\ n \in Nat /\ x = [k \in 1 .. n |-> x[k]]
      /\ \A k \in 1 .. n : x[k] \in S
      /\ \A j, k \in 1 .. n : j < k => x[j] < x[k]
      /\ \A y \in S : \E k \in 1 .. n : x[k] = y
  BY <1>5, AscendingSorts
<1>7. AreIndexes(x, n)
  <2> HIDE DEF x, n
  <2> QED
    BY <1>4, <1>6 DEF AreIndexes
<1>8. ASSUME NEW i \in DOMAIN q, i > 0, q[i] # 0
      PROVE  i \in Nat /\ \E k \in 1 .. n : x[k] = i
  <2>1. i \in Nat /\ q[i] > 0
    BY <1>1, <1>8
  <2>2. i \in S
    BY <1>3, <1>8, <2>1
  <2> QED
    BY <1>6, <2>1, <2>2
<1> HIDE DEF x, n, used
<1>9. \A k \in 1 .. n : x[k] \in Nat \ {0}
  BY <1>4, <1>6
<1>10. ASSUME NEW k \in 1 .. n, NEW i \in DOMAIN q,
              (IF k = 1 THEN 0 ELSE x[k - 1]) < i, i < x[k], q[i] # 0
       PROVE  FALSE
  <2>1. i \in Nat
    BY <1>1
  <2>2. k # 1 => k - 1 \in 1 .. n /\ x[k - 1] \in Nat
    BY <1>6, <1>9
  <2>3. i > 0
    BY <1>10, <2>1, <2>2
  <2>4. PICK j \in 1 .. n : x[j] = i
    BY <1>8, <1>10, <2>3
  <2>5. ~(k < j) /\ k # j
    <3>1. k < j => x[k] < x[j]
      BY <1>6
    <3>2. x[k] \in Nat
      BY <1>9
    <3> QED
      BY <1>10, <2>1, <2>4, <3>1, <3>2
  <2>6. k # 1 /\ (j = k - 1 \/ j < k - 1)
    BY <2>5
  <2>7. x[j] <= x[k - 1]
    <3>1. j < k - 1 => x[j] < x[k - 1]
      BY <1>6, <2>2, <2>6
    <3>2. x[j] \in Nat
      BY <1>9
    <3> QED
      BY <2>2, <2>6, <3>1, <3>2
  <2> QED
    BY <1>10, <2>1, <2>2, <2>4, <2>6, <2>7
<1>11. ASSUME NEW i \in DOMAIN q, (IF n = 0 THEN 0 ELSE x[n]) < i, q[i] # 0
       PROVE  FALSE
  <2>1. i \in Nat
    BY <1>1
  <2>2. n # 0 => n \in 1 .. n /\ x[n] \in Nat
    BY <1>6, <1>9
  <2>3. i > 0
    BY <1>11, <2>1, <2>2
  <2>4. PICK j \in 1 .. n : x[j] = i
    BY <1>8, <1>11, <2>3
  <2>5. n # 0 /\ (j = n \/ j < n)
    BY <1>6
  <2>6. j < n => x[j] < x[n]
    BY <1>6, <2>2, <2>5
  <2> QED
    BY <1>11, <2>1, <2>2, <2>4, <2>5, <2>6
<1>12. \A k \in 1 .. n : x[k] \in DOMAIN q
  BY <1>3, <1>6
<1> QED
  BY <1>6, <1>7, <1>10, <1>11, <1>12 DEF x, n, S
LEMMA Prepended ==
    ASSUME NEW z, NEW n \in Nat, NEW r, r = [k \in 1 .. n |-> r[k]]
    PROVE  LET b == <<z>> \o r
           IN  /\ DOMAIN b = 1 .. n + 1 /\ Len(b) = n + 1 /\ b[1] = z
               /\ \A k \in 1 .. n : b[k + 1] = r[k]
<1> DEFINE T == {z} \cup {r[k] : k \in 1 .. n}
           b == <<z>> \o r
<1>1. r \in Seq(T) /\ Len(r) = n
  <2>1. \A k \in 1 .. n : r[k] \in T
    OBVIOUS
  <2> HIDE DEF T
  <2>2. r \in [1 .. n -> T]
    BY <2>1
  <2> QED
    BY <2>2
<1>2. <<z>> \in Seq(T) /\ Len(<<z>>) = 1 /\ <<z>>[1] = z
  <2>1. z \in T
    OBVIOUS
  <2> HIDE DEF T
  <2> QED
    BY <2>1
<1> HIDE DEF T
<1>3. /\ b \in Seq(T) /\ Len(b) = 1 + n
      /\ \A i \in 1 .. 1 + n : b[i] = IF i <= 1 THEN <<z>>[i] ELSE r[i - 1]
  <2>1. /\ b \in Seq(T) /\ Len(b) = Len(<<z>>) + Len(r)
        /\ \A i \in 1 .. Len(<<z>>) + Len(r) :
              b[i] = IF i <= Len(<<z>>) THEN <<z>>[i] ELSE r[i - Len(<<z>>)]
    BY <1>1, <1>2, ConcatProperties
  <2> HIDE DEF b
  <2> QED
    BY <1>1, <1>2, <2>1
<1> HIDE DEF b
<1>4. b[1] = z
  <2>1. 1 \in 1 .. 1 + n /\ 1 <= 1
    OBVIOUS
  <2> QED
    BY <1>2, <1>3, <2>1
<1>5. ASSUME NEW k \in 1 .. n PROVE b[k + 1] = r[k]
  <2>1. PICK i \in 1 .. 1 + n : i = k + 1
    OBVIOUS
  <2>2. ~(i <= 1) /\ i - 1 = k
    BY <2>1
  <2>3. b[i] = r[i - 1]
    BY <1>3, <2>2
  <2> QED
    BY <2>1, <2>2, <2>3
<1>6. DOMAIN b = 1 .. n + 1 /\ Len(b) = n + 1
  BY <1>3, LenProperties
<1> QED
  BY <1>4, <1>5, <1>6 DEF b

LEMMA NativeFits ==
    ASSUME NEW q, AreSamples(q)
    PROVE  LET n == Cardinality(InSpans(q))
               x == Ascending(InSpans(q))
               buckets == NativeBuckets(NativeHistogram(q))
           IN  /\ n \in Nat /\ \A k \in 1 .. n : x[k] \in Nat \ {0}
               /\ AreBuckets(buckets, n + 1)
               /\ buckets[1].lower = 0 /\ buckets[1].upper = 0
               /\ Before(buckets, 1) + buckets[1].count = UpTo(q, 0)
               /\ Before(buckets, 1) = 0
               /\ \A k \in 1 .. n :
                     /\ buckets[k + 1].lower = Bound[x[k] - 1]
                     /\ buckets[k + 1].upper = Bound[x[k]]
                     /\ Before(buckets, k + 1) = UpTo(q, x[k] - 1)
                     /\ Before(buckets, k + 1) + buckets[k + 1].count
                           = UpTo(q, x[k])
               /\ Before(buckets, n + 2) = Total(q)
<1> DEFINE n == Cardinality(InSpans(q))
           x == Ascending(InSpans(q))
           h == NativeHistogram(q)
           d == h.deltas
           counts == [k \in DOMAIN x |-> SumOver(d, 1 .. k)]
           Edge(k) == IF k = 0 THEN 0 ELSE x[k]
           zero == [lower |-> 0, upper |-> 0,
                    count |-> Total(q) - SumOver(counts, DOMAIN x)]
           rest == [k \in DOMAIN x |->
                       [lower |-> Bound[x[k] - 1], upper |-> Bound[x[k]],
                        count |-> counts[k]]]
           buckets == NativeBuckets(h)
<1>1. /\ n \in Nat /\ AreIndexes(x, n)
      /\ \A k \in 1 .. n : x[k] \in DOMAIN q
      /\ \A k \in 1 .. n : \A i \in DOMAIN q :
            (IF k = 1 THEN 0 ELSE x[k - 1]) < i /\ i < x[k] => q[i] = 0
      /\ \A i \in DOMAIN q : (IF n = 0 THEN 0 ELSE x[n]) < i => q[i] = 0
  BY InSpansSorted
<1>2. /\ h.total = Total(q) /\ h.spans = Spans(x)
      /\ d = [k \in DOMAIN x |->
                 q[x[k]] - (IF k = 1 THEN 0 ELSE q[x[k - 1]])]
  BY DEF NativeHistogram
<1>3. SpanIndexes(h.spans) = x
  <2> HIDE DEF n, x, h
  <2> QED
    BY <1>1, <1>2, LoopFindsIndexes
<1>4. buckets = <<zero>> \o rest
  <2>1. DOMAIN counts = DOMAIN x
    OBVIOUS
  <2> HIDE DEF n, x, h
  <2> QED
    BY <1>2, <1>3, <2>1 DEF NativeBuckets
<1> HIDE DEF n, x, h, d, buckets
<1>5. /\ DOMAIN x = 1 .. n /\ \A k \in 1 .. n : x[k] \in Nat \ {0}
      /\ \A j, k \in 1 .. n : j < k => x[j] < x[k]
  BY <1>1 DEF AreIndexes
<1>6. \A k \in 1 .. n : q[x[k]] \in Nat
  BY <1>1 DEF AreSamples
<1>7. \A k \in 1 .. n :
         d[k] = q[x[k]] - (IF k = 1 THEN 0 ELSE q[x[k - 1]])
  BY <1>2, <1>5
<1>8. \A k \in 1 .. n : d[k] \in Int
  <2>1. ASSUME NEW k \in 1 .. n PROVE d[k] \in Int
    <3>1. CASE k = 1
      BY <1>6, <1>7, <3>1
    <3>2. CASE k # 1
      <4>1. k - 1 \in 1 .. n
        BY <1>1, <3>2
      <4> QED
        BY <1>6, <1>7, <3>2, <4>1
    <3> QED
      BY <3>1, <3>2
  <2> QED
    BY <2>1
<1>9. ASSUME NEW k \in 1 .. n PROVE SumOver(d, 1 .. k) = q[x[k]]
  <2> DEFINE S == {i \in Nat : i < n => SumOver(d, 1 .. i + 1) = q[x[i + 1]]}
  <2>1. ASSUME NEW i \in 1 .. n
        PROVE  /\ SumOver(d, 1 .. 0) = 0
               /\ SumOver(d, 1 .. i) = SumOver(d, 1 .. i - 1) + d[i]
    <3>1. i \in Nat /\ i > 0 /\ \A j \in 1 .. i : j \in 1 .. n
      BY <1>1
    <3> QED
      BY <1>8, <3>1, SumOverPrefix
  <2>2. 0 \in S
    <3> SUFFICES ASSUME 0 < n PROVE SumOver(d, 1 .. 0 + 1) = q[x[0 + 1]]
      OBVIOUS
    <3>1. 1 \in 1 .. n /\ 0 + 1 = 1 /\ 1 - 1 = 0
      BY <1>1
    <3>2. SumOver(d, 1 .. 1) = 0 + d[1] /\ d[1] = q[x[1]] - 0
      BY <1>7, <2>1, <3>1
    <3> QED
      BY <1>6, <3>1, <3>2
  <2>3. ASSUME NEW i \in Nat, i \in S PROVE i + 1 \in S
    <3> SUFFICES ASSUME i + 1 < n
                 PROVE  SumOver(d, 1 .. (i + 1) + 1) = q[x[(i + 1) + 1]]
      OBVIOUS
    <3>1. PICK j \in 1 .. n : j = i + 1 + 1
      BY <1>1
    <3>2. j - 1 = i + 1 /\ j - 1 \in 1 .. n /\ j # 1
      BY <1>1, <3>1
    <3>3. SumOver(d, 1 .. j) = SumOver(d, 1 .. j - 1) + d[j]
      BY <2>1
    <3>4. SumOver(d, 1 .. j - 1) = q[x[j - 1]]
      BY <1>1, <2>3, <3>2
    <3>5. d[j] = q[x[j]] - q[x[j - 1]]
      BY <1>7, <3>2
    <3>6. q[x[j]] \in Nat /\ q[x[j - 1]] \in Nat
      BY <1>6, <3>2
    <3>7. SumOver(d, 1 .. j) = q[x[j]]
      BY <3>3, <3>4, <3>5, <3>6
    <3> QED
      BY <3>1, <3>7
  <2> HIDE DEF S
  <2>4. k - 1 \in S /\ k - 1 + 1 = k /\ k - 1 < n
    <3>1. k - 1 \in Nat /\ k - 1 + 1 = k /\ k - 1 < n
      BY <1>1
    <3> QED
      BY <2>2, <2>3, <3>1, SetInduction
  <2> QED
    BY <2>4 DEF S
<1>10. \A k \in 1 .. n : counts[k] = q[x[k]]
  BY <1>5, <1>9
<1>11. counts = [k \in DOMAIN x |-> counts[k]]
  OBVIOUS
<1> HIDE DEF counts
<1>12. ASSUME NEW k \in 1 .. n
       PROVE  /\ Edge(k) = x[k] /\ Edge(k - 1) \in Nat
              /\ UpTo(q, x[k] - 1) = UpTo(q, Edge(k - 1))
              /\ UpTo(q, x[k]) = UpTo(q, Edge(k - 1)) + counts[k]
              /\ UpTo(q, Edge(k - 1)) \in Nat /\ counts[k] \in Nat
  <2>1. Edge(k - 1) = IF k = 1 THEN 0 ELSE x[k - 1]
    OBVIOUS
  <2>2. Edge(k) = x[k]
    OBVIOUS
  <2>3. Edge(k - 1) \in Nat /\ Edge(k - 1) < x[k] /\ x[k] \in Nat
    <3>1. CASE k = 1
      BY <1>5, <2>1, <3>1
    <3>2. CASE k # 1
      <4>1. k - 1 \in 1 .. n /\ k - 1 < k
        BY <1>1, <3>2
      <4> QED
        BY <1>5, <2>1, <3>2, <4>1
    <3> QED
      BY <3>1, <3>2
  <2>4. \A i \in DOMAIN q : Edge(k - 1) < i /\ i < x[k] => q[i] = 0
    BY <1>1, <2>1
  <2> HIDE DEF Edge
  <2>5. \A i \in DOMAIN q : Edge(k - 1) < i /\ i <= x[k] - 1 => q[i] = 0
    <3>1. \A i \in DOMAIN q : i \in Nat
      BY DEF AreSamples
    <3> QED
      BY <2>3, <2>4, <3>1
  <2>6. x[k] - 1 \in Int /\ Edge(k - 1) <= x[k] - 1 /\ Edge(k - 1) \in Int
    BY <2>3
  <2>7. UpTo(q, x[k] - 1) = UpTo(q, Edge(k - 1))
    BY <2>5, <2>6, UpToGrows
  <2>8. UpTo(q, x[k]) = UpTo(q, x[k] - 1) + q[x[k]]
    <3>1. SamplesIn(q, x[k]) = q[x[k]]
      BY <1>1 DEF SamplesIn
    <3>2. x[k] \in Int
      BY <2>3
    <3> QED
      BY <3>1, <3>2, UpToSteps
  <2>9. UpTo(q, Edge(k - 1)) \in Nat
    BY <2>6, UpToIsNat
  <2> QED
    BY <1>6, <1>10, <2>2, <2>3, <2>7, <2>8, <2>9
<1>13. Edge(0) = 0
  OBVIOUS
<1>14. Edge(n) \in Nat /\ UpTo(q, Edge(n)) = Total(q)
  <2>1. Edge(n) = IF n = 0 THEN 0 ELSE x[n]
    OBVIOUS
  <2>2. Edge(n) \in Nat
    BY <1>1, <1>5, <2>1
  <2>3. \A i \in DOMAIN q : i > Edge(n) => q[i] = 0
    <3>1. \A i \in DOMAIN q : i \in Nat
      BY DEF AreSamples
    <3> HIDE DEF Edge
    <3> QED
      BY <1>1, <2>1, <2>2, <3>1
  <2> HIDE DEF Edge
  <2> QED
    BY <2>2, <2>3, UpToAll
<1> HIDE DEF Edge
<1>15. UpTo(q, 0) \in Nat
  BY UpToIsNat
<1>16. SumOver(counts, 1 .. n) = Total(q) - UpTo(q, 0)
  <2> DEFINE S == {i \in Nat : i <= n => SumOver(counts, 1 .. i)
                                        = UpTo(q, Edge(i)) - UpTo(q, 0)}
  <2>1. 0 \in S
    <3>1. SumOver(counts, 1 .. 0) = 0
      BY SumOverPrefix, 0 \in Nat, \A j \in 1 .. 0 : counts[j] \in Int
    <3> QED
      BY <1>13, <1>15, <3>1
  <2>2. ASSUME NEW i \in Nat, i \in S PROVE i + 1 \in S
    <3> SUFFICES ASSUME i + 1 <= n
                 PROVE  SumOver(counts, 1 .. i + 1)
                           = UpTo(q, Edge(i + 1)) - UpTo(q, 0)
      OBVIOUS
    <3>1. PICK j \in 1 .. n : j = i + 1 /\ j - 1 = i /\ j \in Nat /\ j > 0
      BY <1>1
    <3>2. \A k \in 1 .. j : counts[k] \in Int
      <4>1. \A k \in 1 .. j : k \in 1 .. n
        BY <1>1
      <4> QED
        BY <1>12, <4>1
    <3>3. SumOver(counts, 1 .. j) = SumOver(counts, 1 .. j - 1) + counts[j]
      BY <3>1, <3>2, SumOverPrefix
    <3>4. SumOver(counts, 1 .. j - 1) = UpTo(q, Edge(j - 1)) - UpTo(q, 0)
      BY <1>1, <2>2, <3>1
    <3>5. /\ UpTo(q, Edge(j)) = UpTo(q, Edge(j - 1)) + counts[j]
          /\ UpTo(q, Edge(j - 1)) \in Nat /\ counts[j] \in Nat
      BY <1>12
    <3>6. SumOver(counts, 1 .. j) = UpTo(q, Edge(j)) - UpTo(q, 0)
      BY <1>15, <3>3, <3>4, <3>5
    <3> QED
      BY <3>1, <3>6
  <2> HIDE DEF S
  <2>3. n \in S
    BY <1>1, <2>1, <2>2, SetInduction
  <2>4. SumOver(counts, 1 .. n) = UpTo(q, Edge(n)) - UpTo(q, 0)
    BY <1>1, <2>3 DEF S
  <2> QED
    BY <1>14, <2>4
<1>17. zero.count = UpTo(q, 0)
  <2>1. Total(q) \in Nat
    BY TotalIsNat
  <2>2. zero.count = Total(q) - (Total(q) - UpTo(q, 0))
    BY <1>5, <1>16
  <2> HIDE DEF zero
  <2> QED
    BY <1>15, <2>1, <2>2
<1>18. zero.lower = 0 /\ zero.upper = 0
  OBVIOUS
<1>19. rest = [k \in 1 .. n |-> rest[k]]
  BY <1>5
<1>20. \A k \in 1 .. n : /\ rest[k].lower = Bound[x[k] - 1]
                        /\ rest[k].upper = Bound[x[k]]
                        /\ rest[k].count = counts[k]
  BY <1>5
<1> HIDE DEF zero, rest
<1>21. /\ DOMAIN buckets = 1 .. n + 1 /\ buckets[1] = zero
       /\ \A k \in 1 .. n : buckets[k + 1] = rest[k]
  BY <1>1, <1>4, <1>19, Prepended
<1>22. AreBuckets(buckets, n + 1)
  <2>1. ASSUME NEW k \in 1 .. n + 1 PROVE buckets[k].count \in Nat
    <3>1. CASE k = 1
      BY <1>15, <1>17, <1>21, <3>1
    <3>2. CASE k # 1
      <4>1. k - 1 \in 1 .. n /\ k - 1 + 1 = k
        BY <1>1, <3>2
      <4>2. buckets[k] = rest[k - 1] /\ rest[k - 1].count \in Nat
        BY <1>12, <1>20, <1>21, <4>1
      <4> QED
        BY <4>2
    <3> QED
      BY <3>1, <3>2
  <2> QED
    BY <1>21, <2>1 DEF AreBuckets
<1>23. /\ Before(buckets, 1) = 0
       /\ \A k \in 1 .. n + 1 : Before(buckets, k + 1)
                                   = Before(buckets, k) + buckets[k].count
  BY <1>1, <1>22, BeforeSteps
<1>24. Before(buckets, 1) + buckets[1].count = UpTo(q, 0)
  BY <1>15, <1>17, <1>21, <1>23
<1> DEFINE S == {i \in Nat : i <= n => Before(buckets, i + 2) = UpTo(q, Edge(i))}
<1>25. 0 \in S
  <2>1. 1 \in 1 .. n + 1 /\ 1 + 1 = 2 /\ 0 + 2 = 2
    BY <1>1
  <2> QED
    BY <1>13, <1>23, <1>24, <2>1
<1>26. ASSUME NEW i \in Nat, i \in S PROVE i + 1 \in S
  <2> SUFFICES ASSUME i + 1 <= n
               PROVE  Before(buckets, (i + 1) + 2) = UpTo(q, Edge(i + 1))
    OBVIOUS
  <2>1. PICK j \in 1 .. n : j = i + 1 /\ j - 1 = i
    BY <1>1
  <2>2. j + 1 \in 1 .. n + 1 /\ j + 1 + 1 = (i + 1) + 2 /\ j + 1 = i + 2
    BY <1>1, <2>1
  <2>3. Before(buckets, j + 1 + 1)
           = Before(buckets, j + 1) + buckets[j + 1].count
    BY <1>23, <2>2
  <2>4. Before(buckets, j + 1) = UpTo(q, Edge(j - 1))
    BY <1>1, <1>26, <2>1, <2>2
  <2>5. buckets[j + 1].count = counts[j]
    BY <1>20, <1>21
  <2>6. UpTo(q, Edge(j)) = UpTo(q, Edge(j - 1)) + counts[j]
    BY <1>12
  <2> QED
    BY <2>1, <2>2, <2>3, <2>4, <2>5, <2>6
<1>27. ASSUME NEW i \in 0 .. n PROVE Before(buckets, i + 2) = UpTo(q, Edge(i))
  <2>1. i \in Nat /\ i <= n
    BY <1>1
  <2>2. i \in S
    <3> HIDE DEF S
    <3> QED
      BY <1>25, <1>26, <2>1, SetInduction
  <2> QED
    BY <2>1, <2>2
<1> HIDE DEF S
<1>28. ASSUME NEW k \in 1 .. n
       PROVE  /\ Before(buckets, k + 1) = UpTo(q, x[k] - 1)
              /\ Before(buckets, k + 1) + buckets[k + 1].count = UpTo(q, x[k])
  <2>1. k - 1 \in 0 .. n /\ k - 1 + 2 = k + 1
    BY <1>1
  <2>2. Before(buckets, k + 1) = UpTo(q, Edge(k - 1))
    BY <1>27, <2>1
  <2>3. buckets[k + 1].count = counts[k]
    BY <1>20, <1>21
  <2> QED
    BY <1>12, <2>2, <2>3
<1>29. Before(buckets, n + 2) = Total(q)
  BY <1>1, <1>14, <1>27, n \in 0 .. n
<1>30. \A k \in 1 .. n : /\ buckets[k + 1].lower = Bound[x[k] - 1]
                        /\ buckets[k + 1].upper = Bound[x[k]]
  BY <1>20, <1>21
<1>31. buckets[1].lower = 0 /\ buckets[1].upper = 0
  BY <1>18, <1>21
<1> QED
  BY <1>1, <1>5, <1>22, <1>23, <1>24, <1>28, <1>29, <1>30, <1>31
  DEF n, x, h, buckets
----------------------------------------------------------------------------
(* percentileFromHistogram. *)

LEMMA BucketWithin ==
    ASSUME NEW q, AreSamples(q), NEW percent \in 1 .. 99, NEW i \in Nat,
           IsBucketOf(q, percent, i), NEW b \in Int
    PROVE  /\ 100 * UpTo(q, b) < Total(q) * percent => b < i
           /\ Total(q) * percent <= 100 * UpTo(q, b) => i <= b
<1>1. PICK r \in Nat : r = Total(q) * percent
  BY TotalIsNat
<1>2. UpTo(q, i) \in Nat /\ UpTo(q, i - 1) \in Nat /\ UpTo(q, b) \in Nat
  BY UpToIsNat, i \in Int, i - 1 \in Int
<1>3. 100 * UpTo(q, i - 1) < r /\ r <= 100 * UpTo(q, i)
  BY <1>1 DEF IsBucketOf
<1>4. ASSUME 100 * UpTo(q, b) < r, i <= b PROVE FALSE
  <2>1. UpTo(q, i) <= UpTo(q, b)
    BY <1>4, UpToGrows, i \in Int
  <2> QED
    BY <1>2, <1>3, <1>4, <2>1
<1>5. ASSUME r <= 100 * UpTo(q, b), b < i PROVE FALSE
  <2>1. UpTo(q, b) <= UpTo(q, i - 1)
    BY <1>5, UpToGrows, i - 1 \in Int, b <= i - 1
  <2> QED
    BY <1>2, <1>3, <1>5, <2>1
<1> QED
  BY <1>1, <1>4, <1>5

BucketsOf(h) == IF h.native THEN NativeBuckets(h) ELSE ClassicBuckets(h)

HaveBounds(buckets, n) ==
    \A k \in 1 .. n : /\ buckets[k].lower \in Nat /\ buckets[k].upper \in Nat
                     /\ buckets[k].lower <= buckets[k].upper

\* v is between the bounds of bucket k, which holds the rank.
LiesIn(v, buckets, k, rank) ==
    /\ 100 * Before(buckets, k) < rank
    /\ rank <= 100 * (Before(buckets, k) + buckets[k].count)
    /\ v[1] \in Nat /\ v[2] \in Nat
    /\ v[1] >= buckets[k].lower * v[2] /\ v[1] <= buckets[k].upper * v[2]
    /\ buckets[k].lower = buckets[k].upper => v[1] = buckets[k].lower * v[2]

\* The rank is above all buckets.
LiesAbove(v, buckets, n, rank) ==
    /\ 100 * Before(buckets, n + 1) < rank
    /\ v = <<buckets[n].upper, 1>>

LEMMA PercentileIs ==
    ASSUME NEW h, NEW n \in Nat \ {0}, AreBuckets(BucketsOf(h), n),
           h.total \in Nat, h.total > 0, NEW percent \in 1 .. 99,
           HaveBounds(BucketsOf(h), n)
    PROVE  LET v == Percentile(h, percent)
               rank == h.total * percent
           IN  \/ LiesAbove(v, BucketsOf(h), n, rank)
               \/ \E k \in 1 .. n : LiesIn(v, BucketsOf(h), k, rank)
<1> DEFINE v == Percentile(h, percent)
           rank == h.total * percent
           buckets == BucketsOf(h)
           H == Holding(buckets, rank)
<1>1. rank \in Nat /\ rank > 0
  <2>1. PICK t \in Nat \ {0} : t = h.total
    OBVIOUS
  <2>2. t * percent \in Nat /\ t * percent > 0
    OBVIOUS
  <2> QED
    BY <2>1, <2>2
<1>2. h.total # 0
  OBVIOUS
<1>3. v = LET k == Min(H)
              b == buckets[k]
          IN  IF H = {} THEN <<buckets[Len(buckets)].upper, 1>>
              ELSE <<100 * b.count * b.lower
                        + (b.upper - b.lower)
                             * (rank - 100 * Before(buckets, k)),
                     100 * b.count>>
  BY <1>2 DEF Percentile, Holding, BucketsOf
<1>b. AreBuckets(buckets, n) /\ HaveBounds(buckets, n)
  OBVIOUS
<1> HIDE DEF v, rank, buckets, H
<1>4. CASE H = {}
  <2>1. 100 * Before(buckets, n + 1) < rank
    BY <1>1, <1>4, <1>b, FirstHolding DEF H
  <2>2. v = <<buckets[Len(buckets)].upper, 1>>
    BY <1>3, <1>4
  <2>3. Len(buckets) = n
    BY <1>b DEF AreBuckets
  <2> QED
    BY <2>1, <2>2, <2>3 DEF v, rank, buckets, LiesAbove
<1>5. CASE H # {}
  <2>1. /\ Min(H) \in 1 .. n /\ buckets[Min(H)].count > 0
        /\ 100 * Before(buckets, Min(H)) < rank
        /\ rank <= 100 * (Before(buckets, Min(H)) + buckets[Min(H)].count)
    BY <1>1, <1>5, <1>b, FirstHolding DEF H
  <2>2. PICK k \in 1 .. n : k = Min(H)
    BY <2>1
  <2> DEFINE count == buckets[k].count
             lower == buckets[k].lower
             upper == buckets[k].upper
             before == Before(buckets, k)
             w == Interpolated(lower, upper, count, before, rank)
             c == 100 * count
  <2>3. count \in Nat \ {0}
    BY <1>b, <2>1, <2>2 DEF AreBuckets
  <2>4. before \in Nat
    BY <1>b, BeforeSteps, k \in 1 .. n + 1
  <2>5. lower \in Nat /\ upper \in Nat /\ lower <= upper
    BY <1>b DEF HaveBounds
  <2>6. 100 * before < rank /\ rank <= 100 * (before + count)
    BY <2>1, <2>2
  <2>7. v = <<w, c>>
    BY <1>3, <1>5, <2>2, Zenon DEF Interpolated
  <2> HIDE DEF count, lower, upper, before
  <2>8. /\ w \in Nat /\ w >= lower * c /\ w <= upper * c
        /\ lower = upper => w = lower * c
    <3> HIDE DEF w
    <3>1. LET u == Interpolated(lower, upper, count, before, rank)
          IN  /\ u \in Nat
              /\ u >= lower * (100 * count) /\ u <= upper * (100 * count)
              /\ lower = upper => u = lower * (100 * count)
      BY <1>1, <2>3, <2>4, <2>5, <2>6, Interpolates
    <3> QED
      BY <3>1 DEF w
  <2>9. c \in Nat
    BY <2>3
  <2> HIDE DEF w, c
  <2>10. v[1] = w /\ v[2] = c
    BY <2>7
  <2>11. /\ v[1] \in Nat /\ v[2] \in Nat
         /\ v[1] >= buckets[k].lower * v[2]
         /\ v[1] <= buckets[k].upper * v[2]
         /\ buckets[k].lower = buckets[k].upper
               => v[1] = buckets[k].lower * v[2]
    BY <2>8, <2>9, <2>10 DEF lower, upper
  <2>12. /\ 100 * Before(buckets, k) < rank
         /\ rank <= 100 * (Before(buckets, k) + buckets[k].count)
    BY <2>1, <2>2
  <2> QED
    BY <2>11, <2>12 DEF v, rank, buckets, LiesIn
<1> QED
  BY <1>4, <1>5

\* The percentile of a histogram without Schema.
LEMMA ClassicPercentile ==
    ASSUME NEW q, AreSamples(q), NEW last \in Nat \ {0},
           NEW percent \in 1 .. 99
    PROVE  IsPercentile(Percentile(ClassicHistogram(q, last), percent), q,
                        percent, FALSE, last)
<1> DEFINE h == ClassicHistogram(q, last)
           v == Percentile(h, percent)
           buckets == ClassicBuckets(h)
<1>1. h.native = FALSE /\ h.total = Total(q)
  BY DEF ClassicHistogram
<1>2. Total(q) \in Nat
  BY TotalIsNat
<1>3. CASE Total(q) = 0
  <2>1. v = <<0, 1>>
    BY <1>1, <1>3 DEF Percentile
  <2>2. v[1] = 0
    BY <2>1
  <2> HIDE DEF v
  <2> QED
    BY <1>3, <2>2 DEF IsPercentile, v
<1>4. CASE Total(q) # 0
  <2>1. Total(q) > 0
    BY <1>2, <1>4
  <2>2. PICK i \in Nat : IsBucketOf(q, percent, i)
    BY <2>1, BucketExists
  <2>3. BucketOf(q, percent) = i
    BY <2>1, <2>2, BucketOfIs
  <2>4. /\ AreBuckets(buckets, last)
        /\ \A k \in 1 .. last :
              /\ buckets[k].lower = IF k = 1 THEN 0 ELSE Bound[k - 1]
              /\ buckets[k].upper = Bound[k]
              /\ Before(buckets, k) = IF k = 1 THEN 0 ELSE UpTo(q, k - 1)
              /\ Before(buckets, k) + buckets[k].count = UpTo(q, k)
        /\ Before(buckets, last + 1) = UpTo(q, last)
    BY ClassicFits
  <2>5. buckets = BucketsOf(h)
    BY <1>1 DEF BucketsOf
  <2> HIDE DEF h, v, buckets
  <2>6. HaveBounds(buckets, last)
    <3> SUFFICES ASSUME NEW k \in 1 .. last
                 PROVE  /\ buckets[k].lower \in Nat /\ buckets[k].upper \in Nat
                        /\ buckets[k].lower <= buckets[k].upper
      BY DEF HaveBounds
    <3>1. Bound[k - 1] \in Nat /\ Bound[k] \in Nat /\ Bound[k - 1] <= Bound[k]
      BY BoundGrows, k \in Nat \ {0}
    <3> QED
      BY <2>4, <3>1
  <2>7. \/ LiesAbove(v, buckets, last, Total(q) * percent)
        \/ \E k \in 1 .. last : LiesIn(v, buckets, k, Total(q) * percent)
    <3>1. h.total \in Nat /\ h.total > 0
      BY <1>1, <1>2, <2>1
    <3> QED
      BY <1>1, <2>4, <2>5, <2>6, <3>1, PercentileIs DEF v
  <2>8. CASE LiesAbove(v, buckets, last, Total(q) * percent)
    <3>1. last < i
      <4>1. 100 * UpTo(q, last) < Total(q) * percent
        BY <2>4, <2>8, Zenon DEF LiesAbove
      <4> QED
        BY <2>2, <4>1, BucketWithin, last \in Int
    <3>2. v = <<Bound[last], 1>>
      BY <2>4, <2>8, last \in 1 .. last DEF LiesAbove
    <3> QED
      BY <2>1, <2>3, <3>1, <3>2 DEF IsPercentile, v, h
  <2>9. ASSUME NEW k \in 1 .. last,
               LiesIn(v, buckets, k, Total(q) * percent)
        PROVE  IsPercentile(v, q, percent, FALSE, last)
    <3>0. /\ 100 * Before(buckets, k) < Total(q) * percent
          /\ Total(q) * percent
                <= 100 * (Before(buckets, k) + buckets[k].count)
          /\ v[1] \in Nat /\ v[2] \in Nat
          /\ v[1] >= buckets[k].lower * v[2]
          /\ v[1] <= buckets[k].upper * v[2]
      BY <2>9 DEF LiesIn
    <3>1. i <= k
      <4>1. Total(q) * percent <= 100 * UpTo(q, k)
        BY <2>4, <3>0, Zenon
      <4> QED
        BY <2>2, <4>1, BucketWithin, k \in Int
    <3>2. CASE k = 1
      <4>1. i <= 1 /\ v[1] >= 0 /\ v[1] <= Bound[1] * v[2]
        BY <2>4, <3>0, <3>1, <3>2
      <4> QED
        BY <2>1, <2>3, <4>1 DEF IsPercentile
    <3>3. CASE k # 1
      <4>1. 100 * UpTo(q, k - 1) < Total(q) * percent
        BY <2>4, <3>0, <3>3
      <4>2. k - 1 < i
        BY <2>2, <4>1, BucketWithin, k - 1 \in Int
      <4>3. i = k
        BY <3>1, <4>2
      <4>4. /\ i > 1 /\ i <= last
            /\ v[1] >= Bound[i - 1] * v[2] /\ v[1] <= Bound[i] * v[2]
        BY <2>4, <3>0, <3>3, <4>3
      <4> QED
        BY <2>1, <2>3, <4>4 DEF IsPercentile
    <3> QED
      BY <3>2, <3>3
  <2> QED
    BY <2>7, <2>8, <2>9 DEF v, h
<1> QED
  BY <1>3, <1>4

\* The percentile of a histogram with Schema 0.
LEMMA NativePercentile ==
    ASSUME NEW q, AreSamples(q), NEW last, NEW percent \in 1 .. 99
    PROVE  IsPercentile(Percentile(NativeHistogram(q), percent), q, percent,
                        TRUE, last)
<1> DEFINE h == NativeHistogram(q)
           v == Percentile(h, percent)
           buckets == NativeBuckets(h)
           n == Cardinality(InSpans(q))
           x == Ascending(InSpans(q))
<1>1. h.native = TRUE /\ h.total = Total(q)
  BY DEF NativeHistogram
<1>2. Total(q) \in Nat
  BY TotalIsNat
<1>3. CASE Total(q) = 0
  <2>1. v = <<0, 1>>
    BY <1>1, <1>3 DEF Percentile
  <2>2. v[1] = 0
    BY <2>1
  <2> HIDE DEF v
  <2> QED
    BY <1>3, <2>2 DEF IsPercentile, v
<1>4. CASE Total(q) # 0
  <2>1. Total(q) > 0
    BY <1>2, <1>4
  <2>2. PICK i \in Nat : IsBucketOf(q, percent, i)
    BY <2>1, BucketExists
  <2>3. BucketOf(q, percent) = i
    BY <2>1, <2>2, BucketOfIs
  <2>4. /\ n \in Nat /\ \A k \in 1 .. n : x[k] \in Nat \ {0}
        /\ AreBuckets(buckets, n + 1)
        /\ buckets[1].lower = 0 /\ buckets[1].upper = 0
        /\ Before(buckets, 1) + buckets[1].count = UpTo(q, 0)
        /\ \A k \in 1 .. n :
              /\ buckets[k + 1].lower = Bound[x[k] - 1]
              /\ buckets[k + 1].upper = Bound[x[k]]
              /\ Before(buckets, k + 1) = UpTo(q, x[k] - 1)
              /\ Before(buckets, k + 1) + buckets[k + 1].count = UpTo(q, x[k])
        /\ Before(buckets, n + 2) = Total(q)
    BY NativeFits
  <2>5. buckets = BucketsOf(h)
    BY <1>1 DEF BucketsOf
  <2> HIDE DEF h, v, buckets, n, x
  <2>6. HaveBounds(buckets, n + 1)
    <3> SUFFICES ASSUME NEW k \in 1 .. n + 1
                 PROVE  /\ buckets[k].lower \in Nat /\ buckets[k].upper \in Nat
                        /\ buckets[k].lower <= buckets[k].upper
      BY DEF HaveBounds
    <3>1. CASE k = 1
      BY <2>4, <3>1
    <3>2. CASE k # 1
      <4>1. k - 1 \in 1 .. n /\ k - 1 + 1 = k
        BY <2>4, <3>2
      <4>2. PICK y \in Nat \ {0} : y = x[k - 1]
        BY <2>4, <4>1
      <4>3. Bound[y - 1] \in Nat /\ Bound[y] \in Nat /\ Bound[y - 1] <= Bound[y]
        BY BoundGrows
      <4>4. buckets[k].lower = Bound[y - 1] /\ buckets[k].upper = Bound[y]
        BY <2>4, <4>1, <4>2
      <4> QED
        BY <4>3, <4>4
    <3> QED
      BY <3>1, <3>2
  <2>7. \E k \in 1 .. n + 1 : LiesIn(v, buckets, k, Total(q) * percent)
    <3>1. h.total \in Nat /\ h.total > 0 /\ n + 1 \in Nat \ {0}
      BY <1>1, <1>2, <2>1, <2>4
    <3>2. ~(100 * Before(buckets, n + 1 + 1) < Total(q) * percent)
      <4>1. PICK t \in Nat : t = Total(q)
        BY <1>2
      <4>2. ~(100 * t < t * percent)
        OBVIOUS
      <4>3. n + 1 + 1 = n + 2
        BY <2>4
      <4> QED
        BY <2>4, <4>1, <4>2, <4>3
    <3>3. \/ LiesAbove(v, buckets, n + 1, Total(q) * percent)
          \/ \E k \in 1 .. n + 1 : LiesIn(v, buckets, k, Total(q) * percent)
      BY <1>1, <2>4, <2>5, <2>6, <3>1, PercentileIs DEF v
    <3> QED
      BY <3>2, <3>3 DEF LiesAbove
  <2>8. ASSUME NEW k \in 1 .. n + 1,
               LiesIn(v, buckets, k, Total(q) * percent)
        PROVE  IsPercentile(v, q, percent, TRUE, last)
    <3>0. /\ 100 * Before(buckets, k) < Total(q) * percent
          /\ Total(q) * percent
                <= 100 * (Before(buckets, k) + buckets[k].count)
          /\ v[1] \in Nat /\ v[2] \in Nat
          /\ v[1] >= buckets[k].lower * v[2]
          /\ v[1] <= buckets[k].upper * v[2]
          /\ buckets[k].lower = buckets[k].upper
                => v[1] = buckets[k].lower * v[2]
      BY <2>8 DEF LiesIn
    <3>1. CASE k = 1
      <4>1. Total(q) * percent <= 100 * UpTo(q, 0)
        BY <2>4, <3>0, <3>1, Zenon
      <4>2. i <= 0
        BY <2>2, <4>1, BucketWithin, 0 \in Int, Zenon
      <4>i. i = 0
        BY <4>2
      <4>3. v[1] = 0
        <5>1. v[1] = 0 * v[2]
          BY <2>4, <3>0, <3>1
        <5> QED
          BY <3>0, <5>1
      <4> QED
        BY <2>1, <2>3, <4>i, <4>3 DEF IsPercentile
    <3>2. CASE k # 1
      <4>1. PICK j \in 1 .. n : j + 1 = k
        <5>1. k - 1 \in 1 .. n /\ k - 1 + 1 = k
          BY <2>4, <3>2
        <5> QED
          BY <5>1
      <4>2. PICK y \in Nat \ {0} : y = x[j]
        BY <2>4
      <4>3. /\ 100 * UpTo(q, y - 1) < Total(q) * percent
            /\ Total(q) * percent <= 100 * UpTo(q, y)
            /\ v[1] >= Bound[y - 1] * v[2] /\ v[1] <= Bound[y] * v[2]
        BY <2>4, <3>0, <4>1, <4>2
      <4>4. y - 1 < i /\ i <= y
        BY <2>2, <4>3, BucketWithin, y - 1 \in Int, y \in Int
      <4>5. i = y /\ i > 0
        BY <4>4
      <4> QED
        BY <2>1, <2>3, <4>3, <4>5 DEF IsPercentile
    <3> QED
      BY <3>1, <3>2
  <2> QED
    BY <2>7, <2>8 DEF v, h
<1> QED
  BY <1>3, <1>4

=============================================================================
