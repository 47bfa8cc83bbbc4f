-------------------------------- MODULE Numbers --------------------------------
(***************************************************************************)
(* Facts about numbers that the other proof modules cite: induction for    *)
(* sets of natural numbers, and what follows from it for functions that    *)
(* are defined recursively; products and quotients.                        *)
(***************************************************************************)
EXTENDS Integers, TLAPS
LOCAL INSTANCE WellFoundedInduction

LOCAL Below == {pair \in Nat \X Nat : pair[1] < pair[2]}

LEMMA BelowIsWellFounded == IsWellFoundedOn(Below, Nat)
BY NatLessThanWellFounded DEF OpToRel, Below

\* Every set of natural numbers that has an element has a least one.
THEOREM LeastNumber ==
    ASSUME NEW S, S \subseteq Nat, S # {}
    PROVE  \E m \in S : \A k \in S : m <= k
<1>1. PICK m \in S : \A k \in S : <<k, m>> \notin Below
  BY BelowIsWellFounded, WFMin, Zenon
<1>2. ASSUME NEW k \in S PROVE m <= k
  <2>1. ~(k < m)
    BY <1>1, <<k, m>> \in Nat \X Nat DEF Below
  <2> QED
    BY <2>1
<1> QED
  BY <1>2

\* A set with 0 and the successor of each of its numbers has every number.
THEOREM SetInduction ==
    ASSUME NEW S, 0 \in S, \A n \in Nat : n \in S => n + 1 \in S
    PROVE  Nat \subseteq S
<1> SUFFICES ASSUME Nat \ S # {} PROVE FALSE
  OBVIOUS
<1>1. PICK m \in Nat \ S : \A k \in Nat \ S : m <= k
  BY LeastNumber
<1>2. m # 0 /\ m - 1 \in Nat
  BY <1>1
<1>3. m - 1 \in S
  BY <1>1, <1>2
<1> QED
  BY <1>1, <1>2, <1>3

\* Every set of numbers below a bound that has an element has a greatest one.
THEOREM GreatestNumber ==
    ASSUME NEW S, NEW b \in Nat, S \subseteq 0 .. b, S # {}
    PROVE  \E m \in S : \A k \in S : m >= k
<1> DEFINE T == {n \in Nat : b - n \in S}
<1>1. T # {}
  <2>1. PICK s \in S : TRUE
    OBVIOUS
  <2> QED
    BY <2>1, b - s \in T
<1>2. PICK n \in T : \A k \in T : n <= k
  <2> HIDE DEF T
  <2>1. T \subseteq Nat
    BY DEF T
  <2> QED
    BY <1>1, <2>1, LeastNumber
<1>3. ASSUME NEW k \in S PROVE b - n >= k
  <2>1. k \in Nat /\ b - k \in Nat /\ b - (b - k) = k
    OBVIOUS
  <2>2. b - k \in T
    BY <2>1
  <2>3. n <= b - k /\ n \in Nat
    BY <1>2, <2>2
  <2> QED
    BY <2>1, <2>3
<1> QED
  BY <1>2, <1>3

\* Finitely many numbers have a bound.
THEOREM BoundOfMany ==
    ASSUME NEW n \in Nat, NEW f, \A i \in 1 .. n : f[i] \in Int
    PROVE  \E b \in Nat : \A i \in 1 .. n : f[i] <= b
<1> DEFINE S == {k \in Nat : k <= n =>
                     \E b \in Nat : \A i \in 1 .. k : f[i] <= b}
<1>1. 0 \in S
  OBVIOUS
<1>2. ASSUME NEW k \in Nat, k \in S PROVE k + 1 \in S
  <2> SUFFICES ASSUME k + 1 <= n
               PROVE  \E b \in Nat : \A i \in 1 .. k + 1 : f[i] <= b
    OBVIOUS
  <2>1. PICK b \in Nat : \A i \in 1 .. k : f[i] <= b
    BY <1>2
  <2>2. f[k + 1] \in Int /\ \A i \in 1 .. k + 1 : i \in 1 .. k \/ i = k + 1
    OBVIOUS
  <2>3. CASE f[k + 1] <= b
    BY <2>1, <2>2, <2>3
  <2>4. CASE f[k + 1] > b
    <3>1. f[k + 1] \in Nat
      BY <2>2, <2>4
    <3>2. \A i \in 1 .. k + 1 : f[i] <= f[k + 1]
      BY <2>1, <2>2, <2>4
    <3> QED
      BY <3>1, <3>2
  <2> QED
    BY <2>2, <2>3, <2>4
<1> HIDE DEF S
<1>3. n \in S
  BY <1>1, <1>2, SetInduction
<1> QED
  BY <1>3 DEF S

\* The equation of a function of the sums of g has a solution.
THEOREM SumsExist ==
    ASSUME NEW n \in Nat, NEW g
    PROVE  \E f : f = [i \in 0 .. n |-> IF i = 0 THEN 0 ELSE f[i - 1] + g[i]]
<1> DEFINE Solves(f, k) ==
             f = [i \in 0 .. k |-> IF i = 0 THEN 0 ELSE f[i - 1] + g[i]]
           S == {k \in Nat : \E f : Solves(f, k)}
<1>1. 0 \in S
  <2>1. Solves([i \in 0 .. 0 |-> 0], 0)
    OBVIOUS
  <2> QED
    BY <2>1
<1>2. ASSUME NEW k \in Nat, k \in S PROVE k + 1 \in S
  <2>1. PICK f : Solves(f, k)
    BY <1>2
  <2> DEFINE h == [i \in 0 .. k + 1 |-> IF i = k + 1 THEN f[k] + g[k + 1]
                                        ELSE f[i]]
  <2>2. ASSUME NEW i \in 0 .. k + 1
        PROVE  h[i] = IF i = 0 THEN 0 ELSE h[i - 1] + g[i]
    <3>1. CASE i = 0
      BY <2>1, <3>1
    <3>2. CASE i \in 1 .. k
      <4>1. /\ i \in 0 .. k /\ i \in 0 .. k + 1 /\ i - 1 \in 0 .. k + 1
            /\ i # k + 1 /\ i - 1 # k + 1 /\ i # 0
        BY <3>2
      <4>2. h[i] = f[i] /\ h[i - 1] = f[i - 1]
        BY <4>1
      <4>3. f[i] = f[i - 1] + g[i]
        BY <2>1, <4>1
      <4> QED
        BY <4>1, <4>2, <4>3
    <3>3. CASE i = k + 1
      <4>1. i - 1 = k /\ k \in 0 .. k + 1 /\ k # k + 1 /\ i # 0
        BY <3>3
      <4> QED
        BY <3>3, <4>1
    <3> QED
      BY <3>1, <3>2, <3>3
  <2>3. Solves(h, k + 1)
    <3> HIDE DEF h
    <3>1. h = [i \in 0 .. k + 1 |-> h[i]]
      BY DEF h
    <3> QED
      BY <2>2, <3>1
  <2>4. (\E q : Solves(q, k + 1)) /\ k + 1 \in Nat
    <3> HIDE DEF Solves, h
    <3> QED
      BY <2>3
  <2> QED
    BY <2>4
<1> HIDE DEF S
<1>3. n \in S
  BY <1>1, <1>2, SetInduction
<1> QED
  BY <1>3 DEF S

----------------------------------------------------------------------------
(* Products and quotients. *)

\* A quotient is rounded down.
LEMMA DivRoundsDown ==
    ASSUME NEW a \in Nat, NEW i \in Nat, i > 0
    PROVE  i * (a \div i) <= a
OBVIOUS

\* Products, one factor at a time.
LEMMA TimesSuccessor ==
    ASSUME NEW a \in Int, NEW m \in Int
    PROVE  (a + 1) * m = a * m + m
OBVIOUS

LEMMA TimesNat ==
    ASSUME NEW a \in Nat, NEW m \in Nat
    PROVE  a * m \in Nat
OBVIOUS

\* What a division leaves is less than the divisor.
LEMMA DivRemainder ==
    ASSUME NEW a \in Nat, NEW i \in Nat, i > 0
    PROVE  a <= i * (a \div i) + i - 1
OBVIOUS

\* Quotients of larger numbers are larger.
LEMMA DivMonotone ==
    ASSUME NEW a \in Nat, NEW b \in Nat, NEW i \in Nat, i > 0, a <= b
    PROVE  a \div i \in Nat /\ a \div i <= b \div i
<1>1. /\ a \div i \in Nat /\ b \div i \in Nat
      /\ i * (a \div i) <= a /\ b < i * (b \div i) + i
  OBVIOUS
<1> DEFINE x == a \div i
           y == b \div i
<1>2. x \in Nat /\ y \in Nat /\ i * x < i * y + i
  BY <1>1
<1> HIDE DEF x, y
<1>3. x <= y
  <2> SUFFICES ASSUME x >= y + 1 PROVE FALSE
    BY <1>2
  <2>1. i * x >= i * (y + 1)
    BY <1>2
  <2>2. i * (y + 1) = i * y + i
    BY <1>2
  <2> QED
    BY <1>2, <2>1, <2>2
<1> QED
  BY <1>2, <1>3 DEF x, y

\* One divisor more.
LEMMA DivOfNextMultiple ==
    ASSUME NEW a \in Nat, NEW i \in Nat, i > 0
    PROVE  (a + i) \div i = a \div i + 1
OBVIOUS

\* A quotient is the greatest number that times the divisor fits.
LEMMA QuotientAtLeast ==
    ASSUME NEW x \in Int, NEW q \in Int, NEW i \in Nat, i > 0, q * i <= x
    PROVE  x \div i \in Int /\ q <= x \div i
<1> DEFINE y == x \div i
<1>1. y \in Int /\ x < y * i + i
  OBVIOUS
<1> HIDE DEF y
<1>2. q <= y
  <2> SUFFICES ASSUME q >= y + 1 PROVE FALSE
    BY <1>1
  <2>1. q * i >= (y + 1) * i /\ (y + 1) * i = y * i + i
    BY <1>1
  <2>2. q * i \in Int /\ y * i \in Int
    BY <1>1
  <2> QED
    BY <1>1, <2>1, <2>2
<1> QED
  BY <1>1, <1>2 DEF y

LEMMA QuotientAtMost ==
    ASSUME NEW x \in Int, NEW q \in Int, NEW i \in Nat, i > 0, x < q * i + i
    PROVE  x \div i \in Int /\ x \div i <= q
<1> DEFINE y == x \div i
<1>1. y \in Int /\ y * i <= x
  OBVIOUS
<1> HIDE DEF y
<1>2. y <= q
  <2> SUFFICES ASSUME y >= q + 1 PROVE FALSE
    BY <1>1
  <2>1. y * i >= (q + 1) * i /\ (q + 1) * i = q * i + i
    BY <1>1
  <2>2. q * i \in Int /\ y * i \in Int
    BY <1>1
  <2> QED
    BY <1>1, <2>1, <2>2
<1> QED
  BY <1>1, <1>2 DEF y

===============================================================================
