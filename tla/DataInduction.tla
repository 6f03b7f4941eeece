--------------------------- MODULE DataInduction ----------------------------
(***************************************************************************)
(* Induction over naturals, as facts about sets and functions: a set of    *)
(* naturals has a least element, and a greatest one if it is bounded, and  *)
(* a function defined by recursion along a prefix of Nat exists.           *)
(***************************************************************************)
EXTENDS Integers, WellFoundedInduction, TLAPS

LEMMA LeastNatural ==
    ASSUME NEW S, S \subseteq Nat, S # {}
    PROVE  \E n \in S : \A m \in S : n <= m
<1> DEFINE Less == {pair \in Nat \X Nat : pair[1] < pair[2]}
<1>1. IsWellFoundedOn(Less, Nat)
  BY NatLessThanWellFounded DEF OpToRel
<1> HIDE DEF Less
<1>2. PICK n \in S : \A m \in S : ~(<<m, n>> \in Less)
  BY <1>1, WFMin
<1>3. ASSUME NEW m \in S PROVE n <= m
  <2>1. m \in Nat /\ n \in Nat
    OBVIOUS
  <2>2. <<m, n>> \in Nat \X Nat /\ ~(<<m, n>> \in Less)
    BY <2>1, <1>2
  <2>3. ~(m < n)
    BY <2>1, <2>2 DEF Less
  <2>4. QED
    BY <2>1, <2>3
<1>4. QED
  BY <1>3

LEMMA GreatestNatural ==
    ASSUME NEW S, S \subseteq Nat, S # {}, NEW b \in Int, \A n \in S : n <= b
    PROVE  \E n \in S : \A m \in S : m <= n
<1> DEFINE T == {b - n : n \in S}
<1>1. T \subseteq Nat
  <2>1. ASSUME NEW n \in S PROVE b - n \in Nat
    OBVIOUS
  <2>2. QED
    BY <2>1
<1>2. PICK k \in T : \A m \in T : k <= m
  BY <1>1, LeastNatural
<1>3. PICK n \in S : k = b - n
  OBVIOUS
<1>4. ASSUME NEW m \in S PROVE m <= n
  <2>1. b - m \in T
    OBVIOUS
  <2>2. b - n <= b - m
    BY <1>2, <1>3, <2>1
  <2>3. n \in Int /\ m \in Int
    OBVIOUS
  <2>4. QED
    BY <2>2, <2>3
<1>5. QED
  BY <1>4

\* f, on 0 .. n, starts with a and applies step from one place to the next.
Iterates(f, n, T, a, step) ==
    /\ f \in [0 .. n -> T]
    /\ f[0] = a
    /\ \A i \in 1 .. n : f[i] = step[<<i, f[i - 1]>>]

\* There is such a function if step stays within T.
LEMMA PrefixRecursion ==
    ASSUME NEW n \in Nat, NEW T, NEW a \in T, NEW step,
           \A i \in 1 .. n : \A t \in T : step[<<i, t>>] \in T
    PROVE  \E f : Iterates(f, n, T, a, step)
<1> DEFINE Recurs(f, m) == Iterates(f, m, T, a, step)
           Bad == {m \in 0 .. n : ~\E f : Recurs(f, m)}
<1>1. SUFFICES ASSUME Bad # {} PROVE FALSE
  <2>1. n \in 0 .. n
    OBVIOUS
  <2>2. QED
    BY <2>1
<1>2. PICK m \in Bad : \A k \in Bad : m <= k
  <2>1. Bad \subseteq Nat
    OBVIOUS
  <2> HIDE DEF Bad
  <2>2. QED
    BY <1>1, <2>1, LeastNatural
<1>3. m \in 0 .. n /\ ~\E f : Recurs(f, m)
  OBVIOUS
<1>4. CASE m = 0
  <2>1. Recurs([i \in 0 .. 0 |-> a], m)
    BY <1>4 DEF Iterates
  <2>2. QED
    BY <2>1, <1>3
<1>5. CASE m > 0
  <2>1. m - 1 \in 0 .. n /\ m - 1 \notin Bad
    <3>1. m - 1 \in 0 .. n /\ ~(m <= m - 1)
      BY <1>3, <1>5
    <3> HIDE DEF Bad
    <3>2. QED
      BY <3>1, <1>2
  <2>2. PICK g : Recurs(g, m - 1)
    BY <2>1
  <2> DEFINE f == [i \in 0 .. m |-> IF i < m THEN g[i] ELSE step[<<m, g[m - 1]>>]]
  <2>3. step[<<m, g[m - 1]>>] \in T
    <3>1. m \in 1 .. n /\ g[m - 1] \in T
      BY <1>3, <1>5, <2>2 DEF Iterates
    <3>2. QED
      BY <3>1
  <2>4. f \in [0 .. m -> T]
    BY <1>3, <1>5, <2>2, <2>3 DEF Iterates
  <2>5. f[0] = a
    BY <1>3, <1>5, <2>2 DEF Iterates
  <2>6. ASSUME NEW i \in 1 .. m PROVE f[i] = step[<<i, f[i - 1]>>]
    <3>1. i \in 0 .. m /\ i - 1 \in 0 .. m /\ i - 1 < m
      BY <1>3
    <3>2. f[i - 1] = g[i - 1]
      BY <3>1
    <3>3. CASE i < m
      <4>1. i \in 1 .. m - 1 /\ f[i] = g[i]
        BY <1>3, <3>1, <3>3
      <4>2. g[i] = step[<<i, g[i - 1]>>]
        BY <2>2, <4>1 DEF Iterates
      <4>3. QED
        BY <3>2, <4>1, <4>2
    <3>4. CASE i = m
      <4>1. f[i] = step[<<m, g[m - 1]>>]
        BY <3>1, <3>4
      <4>2. QED
        BY <3>2, <3>4, <4>1
    <3>5. QED
      BY <1>3, <3>3, <3>4
  <2>7. Recurs(f, m)
    BY <2>4, <2>5, <2>6 DEF Iterates
  <2>8. QED
    BY <2>7, <1>3
<1>6. QED
  BY <1>3, <1>4, <1>5
=============================================================================
