-------------------------- MODULE PostFiltersProofs --------------------------
(***************************************************************************)
(* What holds of PostFilters for any number of evaluations, any p-values   *)
(* and any family reported: the scan computes Benjamini-Hochberg, it is    *)
(* never looser than over the whole family, and the counters add up.       *)
(***************************************************************************)
EXTENDS PostFilters, FiniteSetTheorems, TLAPS

\* The adaptive anomalies Apply works on, and how many they are.
Adaptive == kept \cap Series
n == Cardinality(Adaptive)

\* What the first t ranks of a sequence hold.
First(s, t) == {s[i] : i \in 1 .. t}

-----------------------------------------------------------------------------
(* Arithmetic and cardinalities *)

LEMMA TargetNat == Target \in Nat /\ Scale \in Nat
BY UnitsAssumption DEF Target

LEMMA Monotone ==
    ASSUME NEW a \in Nat, NEW b \in Nat, NEW c \in Nat, a <= b
    PROVE  a * c <= b * c /\ c * a <= c * b
OBVIOUS

LEMMA ProductNat ==
    ASSUME NEW a \in Nat, NEW b \in Nat
    PROVE  a * b \in Nat
OBVIOUS

\* An anomaly has one place in a sorted sequence, so the first t are t anomalies.
LEMMA FirstCount ==
    ASSUME NEW A, NEW s, s \in SortedByPValue(A), IsFiniteSet(A),
           NEW t \in 0 .. Cardinality(A)
    PROVE  /\ IsFiniteSet(First(s, t))
           /\ Cardinality(First(s, t)) = t
<1>1. Cardinality(A) \in Nat
  BY FS_CardinalityType
<1>2. s \in [1 .. Cardinality(A) -> A] /\ \A i, j \in 1 .. Cardinality(A) : i < j => s[i] # s[j]
  BY DEF SortedByPValue
<1> DEFINE S == First(s, t)
           f == [i \in 1 .. t |-> s[i]]
<1>3. f \in Surjection(1 .. t, S)
  BY DEF Surjection, First
<1>4. f \in Injection(1 .. t, S)
  <2>1. \A i, j \in 1 .. t : f[i] = f[j] => i = j
    BY <1>1, <1>2
  <2>2. f \in [1 .. t -> S]
    BY DEF First
  <2>3. QED
    BY <2>1, <2>2 DEF Injection, IsInjective
<1>5. IsFiniteSet(1 .. t) /\ Cardinality(1 .. t) = t
  BY <1>1, FS_Interval
<1>6. QED
  BY <1>3, <1>4, <1>5, FS_Surjection

\* A sorted sequence has all the anomalies.
LEMMA SortedHasAll ==
    ASSUME NEW A, NEW s, s \in SortedByPValue(A), IsFiniteSet(A), NEW x \in A
    PROVE  \E i \in 1 .. Cardinality(A) : x = s[i]
<1>1. Cardinality(A) \in Nat
  BY FS_CardinalityType
<1> DEFINE S == First(s, Cardinality(A))
<1>2. S \in SUBSET A
  BY DEF SortedByPValue, First
<1>3. Cardinality(S) = Cardinality(A)
  BY <1>1, FirstCount
<1>4. S = A
  BY <1>2, <1>3, FS_Subset
<1>5. QED
  BY <1>4 DEF First

-----------------------------------------------------------------------------
(* The step-up scan against the reference definition. *)

\* t is the largest rank that passes, 0 when none does.
LargestPassing(s, t, last) ==
    /\ t \in 0 .. last
    /\ t > 0 => Passes(s, t)
    /\ \A i \in 1 .. last : Passes(s, i) => i <= t

LEMMA ScanFindsDiscoveries ==
    ASSUME p \in [Series -> Nat], m \in Nat, NEW A, A \subseteq Series, IsFiniteSet(A),
           NEW s, s \in SortedByPValue(A), NEW t, LargestPassing(s, t, Cardinality(A))
    PROVE  First(s, t) = Discoveries(A, m)
<1> DEFINE c == Cardinality(A)
<1>1. c \in Nat /\ t \in 0 .. c
  BY FS_CardinalityType DEF LargestPassing
<1>2. /\ \A i \in 1 .. c : s[i] \in A /\ p[s[i]] \in Nat
      /\ \A i, j \in 1 .. c : i <= j => p[s[i]] <= p[s[j]]
  <2>1. \A i \in 1 .. c : s[i] \in A /\ p[s[i]] \in Nat
    BY DEF SortedByPValue
  <2>2. \A i, j \in 1 .. c : i < j => p[s[i]] <= p[s[j]]
    BY DEF SortedByPValue
  <2>3. QED
    BY <1>1, <2>1, <2>2
<1>3. \A i, j \in 1 .. c : i <= j => p[s[i]] * m <= p[s[j]] * m
  BY <1>2, Monotone
<1>4. \A i \in 1 .. c : p[s[i]] * m \in Nat /\ i * Target \in Nat
  BY <1>1, <1>2, TargetNat, ProductNat
<1>5. ASSUME NEW j \in 1 .. t PROVE s[j] \in Discoveries(A, m)
  <2>1. t \in 1 .. c /\ p[s[t]] * m <= t * Target
    BY <1>1, <1>5 DEF LargestPassing, Passes
  <2>2. \A i \in 1 .. t : s[i] \in Meets(A, m, t)
    BY <1>1, <1>2, <1>3, <1>4, <2>1 DEF Meets
  <2>3. IsFiniteSet(Meets(A, m, t))
    BY FS_Subset DEF Meets
  <2>4. First(s, t) \in SUBSET Meets(A, m, t)
    BY <2>2 DEF First
  <2>5. Cardinality(Meets(A, m, t)) >= t
    BY <1>1, <2>3, <2>4, FirstCount, FS_Subset, FS_CardinalityType
  <2>6. s[j] \in A /\ s[j] \in Meets(A, m, t)
    BY <2>2 DEF Meets
  <2>7. QED
    BY <2>1, <2>5, <2>6 DEF Discoveries
<1>6. ASSUME NEW x \in Discoveries(A, m) PROVE \E j \in 1 .. t : x = s[j]
  <2>1. PICK i \in 1 .. c : x \in Meets(A, m, i) /\ Cardinality(Meets(A, m, i)) >= i
    BY DEF Discoveries
  <2> DEFINE M == Meets(A, m, i)
  <2>2. M \in SUBSET A /\ IsFiniteSet(M) /\ Cardinality(M) \in Nat
    BY FS_Subset, FS_CardinalityType DEF Meets
  <2>3. PICK j \in 1 .. c : x = s[j]
    BY <2>1, <2>2, SortedHasAll
  <2>4. PICK q \in 1 .. c : s[q] \in M /\ q >= i
    <3>1. SUFFICES ASSUME \A q \in 1 .. c : s[q] \in M => q < i
                   PROVE  FALSE
      BY <1>1
    <3>2. i - 1 \in 0 .. c
      BY <1>1
    <3>3. M \in SUBSET First(s, i - 1)
      <4>1. SUFFICES ASSUME NEW y \in M PROVE \E r \in 1 .. i - 1 : y = s[r]
        BY DEF First
      <4>2. PICK r \in 1 .. c : y = s[r]
        BY <2>2, SortedHasAll
      <4>3. QED
        BY <1>1, <3>1, <4>2
    <3>4. Cardinality(M) <= i - 1
      BY <3>2, <3>3, FirstCount, FS_Subset
    <3>5. QED
      BY <1>1, <2>1, <2>2, <3>4
  <2>5. \A r \in 1 .. c : s[r] \in M /\ r >= i => r <= t
    <3>1. SUFFICES ASSUME NEW r \in 1 .. c, s[r] \in M, r >= i PROVE r <= t
      OBVIOUS
    <3>2. p[s[r]] * m <= i * Target
      BY <3>1 DEF Meets
    <3>3. i * Target <= r * Target
      BY <1>1, <3>1, TargetNat, Monotone
    <3>4. Passes(s, r)
      BY <1>1, <1>4, <3>2, <3>3 DEF Passes
    <3>5. QED
      BY <3>4 DEF LargestPassing
  <2>6. j <= t
    <3>1. CASE j >= i
      BY <2>1, <2>3, <2>5, <3>1
    <3>2. CASE j < i
      BY <1>1, <2>4, <2>5, <3>2
    <3>3. QED
      BY <1>1, <3>1, <3>2
  <2>7. QED
    BY <1>1, <2>3, <2>6
<1>7. QED
  BY <1>5, <1>6 DEF First

\* Fewer anomalies and a larger family discover less.
LEMMA DiscoveriesShrink ==
    ASSUME p \in [Series -> Nat], NEW A, A \subseteq Series,
           NEW d \in Nat, d >= Cardinality(Series)
    PROVE  Discoveries(A, d) \subseteq Discoveries(Series, Cardinality(Series))
<1> DEFINE N == Cardinality(Series)
<1>1. IsFiniteSet(Series) /\ IsFiniteSet(A) /\ N \in Nat /\ Cardinality(A) \in Nat
      /\ Cardinality(A) <= N
  BY SetsAssumption, FS_Subset, FS_CardinalityType
<1>2. SUFFICES ASSUME NEW x \in Discoveries(A, d) PROVE x \in Discoveries(Series, N)
  OBVIOUS
<1>3. PICK i \in 1 .. Cardinality(A) :
        x \in Meets(A, d, i) /\ Cardinality(Meets(A, d, i)) >= i
  BY DEF Discoveries
<1>4. Meets(A, d, i) \in SUBSET Meets(Series, N, i)
  <2>1. SUFFICES ASSUME NEW y \in A, p[y] * d <= i * Target PROVE p[y] * N <= i * Target
    BY DEF Meets
  <2>2. p[y] * N <= p[y] * d
    BY <1>1, Monotone
  <2>3. p[y] * N \in Nat /\ p[y] * d \in Nat /\ i * Target \in Nat
    BY <1>1, TargetNat, ProductNat
  <2>4. QED
    BY <2>1, <2>2, <2>3
<1>5. IsFiniteSet(Meets(Series, N, i)) /\ Cardinality(Meets(Series, N, i)) \in Nat
  BY <1>1, FS_Subset, FS_CardinalityType DEF Meets
<1>6. /\ Cardinality(Meets(A, d, i)) <= Cardinality(Meets(Series, N, i))
      /\ Cardinality(Meets(A, d, i)) \in Nat
  BY <1>4, <1>5, FS_Subset, FS_CardinalityType
<1>7. x \in Series /\ x \in Meets(Series, N, i) /\ i \in 1 .. N
  BY <1>1, <1>3, <1>4 DEF Meets
<1>8. QED
  BY <1>3, <1>5, <1>6, <1>7 DEF Discoveries

-----------------------------------------------------------------------------
(* The inductive invariant *)

\* Outside the scan its variables are as a cycle starts them.
Fresh == k = 1 /\ threshold = 0 /\ rejected = 0

\* What the filters kept and what they dropped are all that was received.
Filtered ==
    /\ Others \subseteq kept
    /\ kept \subseteq Received
    /\ Cardinality(kept) + dropped = Cardinality(Received)

\* The scan has looked at the ranks below k.
Scanning ==
    /\ items \in SortedByPValue(Adaptive)
    /\ Target < Scale
    /\ rejected = 0
    /\ k \in 1 .. n + 1
    /\ LargestPassing(items, threshold, k - 1)

\* What Apply returned.
Returned ==
    /\ Others \subseteq accepted
    /\ accepted \subseteq kept
    /\ Cardinality(accepted) + rejected = Cardinality(kept)
    /\ Target < Scale => accepted \cap Series = Discoveries(Adaptive, m)

StageInv ==
    /\ stage = "idle" => Fresh /\ dropped = 0
    /\ stage \in {"direction", "floor", "fdr"} => Fresh /\ Filtered
    /\ stage = "scan" => Filtered /\ Scanning
    /\ stage = "done" => Filtered /\ Returned

FilterInv == TypeOK /\ StageInv

LEMMA FiniteParts ==
    ASSUME NEW S, S \in SUBSET (Series \cup Others)
    PROVE  IsFiniteSet(S) /\ Cardinality(S) \in Nat
BY SetsAssumption, FS_Union, FS_Subset, FS_CardinalityType

LEMMA FiniteStates ==
    ASSUME TypeOK
    PROVE  /\ IsFiniteSet(Received) /\ Cardinality(Received) \in Nat
           /\ IsFiniteSet(kept) /\ Cardinality(kept) \in Nat
           /\ IsFiniteSet(Adaptive) /\ n \in Nat /\ n <= Cardinality(Series)
           /\ Cardinality(Series) \in Nat
           /\ m \in Nat
<1>1. Received \in SUBSET (Series \cup Others) /\ kept \in SUBSET (Series \cup Others)
  BY DEF Received, Fired, TypeOK
<1>2. Adaptive \in SUBSET Series /\ IsFiniteSet(Series)
  BY SetsAssumption DEF Adaptive
<1>3. /\ IsFiniteSet(Adaptive)
      /\ n \in Nat /\ n <= Cardinality(Series) /\ Cardinality(Series) \in Nat
  BY <1>2, FS_Subset, FS_CardinalityType DEF n
<1>4. m \in Nat
  BY <1>3 DEF m, n, Adaptive, TypeOK
<1>5. QED
  BY <1>1, <1>3, <1>4, FiniteParts

LEMMA ReceiveStep ==
    ASSUME FilterInv, Receive
    PROVE  FilterInv'
<1>1. Fired' \subseteq Series
  BY DEF Fired
<1>2. TypeOK'
  BY <1>1, UnitsAssumption DEF FilterInv, TypeOK, Receive, Stages, Received
<1>3. Cardinality(Received') \in Nat
  <2>1. Received' \in SUBSET (Series \cup Others)
    BY <1>1 DEF Received
  <2>2. QED
    BY <2>1, FiniteParts
<1>4. Fresh' /\ Filtered'
  BY <1>3 DEF FilterInv, StageInv, Fresh, Filtered, Receive, Received
<1>5. QED
  BY <1>2, <1>4 DEF FilterInv, StageInv, Receive

LEMMA DropStep ==
    ASSUME FilterInv, NEW bad, bad \subseteq Series, NEW from, NEW to,
           <<from, to>> \in {<<"direction", "floor">>, <<"floor", "fdr">>},
           Drop(bad, from, to)
    PROVE  FilterInv'
<1>1. from \in {"direction", "floor"} /\ to \in {"floor", "fdr"} /\ stage = from /\ stage' = to
  BY DEF Drop
<1>2. IsFiniteSet(kept) /\ Cardinality(kept) \in Nat
  BY FiniteStates DEF FilterInv
<1>3. /\ Cardinality(kept \cap bad) \in Nat
      /\ Cardinality(kept \ bad) = Cardinality(kept) - Cardinality(kept \cap bad)
  <2>1. kept \cap bad \in SUBSET kept
    OBVIOUS
  <2>2. QED
    BY <1>2, <2>1, FS_Subset, FS_CardinalityType, FS_Difference
<1>4. TypeOK'
  BY <1>1, <1>3 DEF FilterInv, TypeOK, Drop, Stages
<1>5. UNCHANGED Received
  BY DEF Drop, Received, Fired
<1>6. Fresh' /\ Filtered'
  <2>1. Fresh /\ Filtered
    BY <1>1 DEF FilterInv, StageInv
  <2>2. dropped \in Nat
    BY DEF FilterInv, TypeOK
  <2>3. Others \cap bad = {}
    BY SetsAssumption
  <2>4. QED
    BY <1>2, <1>3, <1>5, <2>1, <2>2, <2>3 DEF Fresh, Filtered, Drop
<1>7. QED
  BY <1>1, <1>4, <1>6 DEF FilterInv, StageInv

LEMMA PassStep ==
    ASSUME FilterInv, ApplyPasses
    PROVE  FilterInv'
<1>1. stage = "fdr" /\ stage' = "done" /\ Fresh /\ Filtered
  BY DEF FilterInv, StageInv, ApplyPasses
<1>2. TypeOK'
  BY DEF FilterInv, TypeOK, ApplyPasses, Stages
<1>3. UNCHANGED <<Received, Adaptive, m, kept, p, rejected>>
  BY DEF ApplyPasses, Received, Fired, Adaptive, m
<1>4. Filtered'
  BY <1>1, <1>3 DEF Filtered, ApplyPasses
<1>5. Returned'
  <2>1. accepted' = kept /\ rejected' = 0
    BY <1>1 DEF ApplyPasses, Fresh
  <2>2. Cardinality(kept) \in Nat
    BY FiniteStates DEF FilterInv
  <2>3. ASSUME Target < Scale PROVE (accepted \cap Series)' = Discoveries(Adaptive, m)'
    <3>1. Adaptive = {}
      BY <2>3, TargetNat DEF ApplyPasses, Adaptive
    <3>2. Discoveries(Adaptive, m)' = {}
      BY <1>3, <3>1 DEF Discoveries
    <3>3. QED
      BY <2>1, <3>1, <3>2 DEF Adaptive
  <2>4. QED
    BY <1>1, <1>3, <2>1, <2>2, <2>3 DEF Returned, Filtered
<1>6. QED
  BY <1>1, <1>2, <1>4, <1>5 DEF FilterInv, StageInv

LEMMA SortStep ==
    ASSUME FilterInv, ApplySorts
    PROVE  FilterInv'
<1>1. stage = "fdr" /\ stage' = "scan" /\ Fresh /\ Filtered
  BY DEF FilterInv, StageInv, ApplySorts
<1>2. n \in Nat /\ items' \in [1 .. n -> Adaptive]
  BY FiniteStates DEF FilterInv, ApplySorts, SortedByPValue, n, Adaptive
<1>3. TypeOK'
  <2>1. items' \in Seq(Series)
    BY <1>2 DEF Adaptive
  <2>2. QED
    BY <2>1 DEF FilterInv, TypeOK, ApplySorts, Stages
<1>4. UNCHANGED <<Received, Adaptive, n, kept, p, rejected, k, threshold>>
  BY DEF ApplySorts, Received, Fired, Adaptive, n
<1>5. Filtered'
  BY <1>1, <1>4 DEF Filtered, ApplySorts
<1>6. Scanning'
  <2>1. items' \in SortedByPValue(Adaptive)'
    BY <1>4 DEF ApplySorts, Adaptive, SortedByPValue
  <2>2. k' \in 1 .. n' + 1 /\ LargestPassing(items, threshold, k - 1)'
    BY <1>1, <1>2, <1>4 DEF Fresh, LargestPassing
  <2>3. QED
    BY <1>1, <1>4, <2>1, <2>2 DEF Scanning, Fresh, ApplySorts
<1>7. QED
  BY <1>1, <1>3, <1>5, <1>6 DEF FilterInv, StageInv

LEMMA ScanStep ==
    ASSUME FilterInv, ApplyScans
    PROVE  FilterInv'
<1>1. stage = "scan" /\ stage' = "scan" /\ Filtered /\ Scanning
  BY DEF FilterInv, StageInv, ApplyScans
<1>2. n \in Nat /\ n <= Cardinality(Series) /\ Cardinality(Series) \in Nat
  BY FiniteStates DEF FilterInv
<1>3. Len(items) = n /\ k \in 1 .. n
  BY <1>1, <1>2 DEF Scanning, SortedByPValue, n, ApplyScans
<1>4. UNCHANGED <<Received, Adaptive, n, m, kept, p, items, dropped, rejected>>
  BY DEF ApplyScans, Received, Fired, Adaptive, n, m
<1>5. k' = k + 1 /\ threshold' = IF Passes(items, k) THEN k ELSE threshold
  BY DEF ApplyScans
<1>6. threshold \in 0 .. k - 1
  BY <1>1 DEF Scanning, LargestPassing
<1>7. TypeOK'
  BY <1>2, <1>3, <1>5, <1>6 DEF FilterInv, TypeOK, ApplyScans, Stages
<1>8. Filtered'
  BY <1>1, <1>4 DEF Filtered
<1>9. LargestPassing(items, threshold, k - 1)'
  <2>1. \A i : Passes(items, i)' <=> Passes(items, i)
    BY <1>4 DEF Passes
  <2>2. threshold' \in 0 .. k
    BY <1>3, <1>5, <1>6
  <2>3. threshold' > 0 => Passes(items, threshold')
    BY <1>1, <1>5 DEF Scanning, LargestPassing
  <2>4. \A i \in 1 .. k : Passes(items, i) => i <= threshold'
    BY <1>1, <1>3, <1>5 DEF Scanning, LargestPassing
  <2>5. k' - 1 = k
    BY <1>3, <1>5
  <2>6. threshold' > 0 => Passes(items, threshold)'
    BY <1>4, <2>3 DEF Passes
  <2>7. QED
    BY <2>1, <2>2, <2>4, <2>5, <2>6 DEF LargestPassing
<1>10. Scanning'
  <2>1. items' \in SortedByPValue(Adaptive)'
    BY <1>1, <1>4 DEF Scanning, SortedByPValue
  <2>2. QED
    BY <1>1, <1>3, <1>4, <1>5, <1>9, <2>1 DEF Scanning
<1>11. QED
  BY <1>1, <1>7, <1>8, <1>10 DEF FilterInv, StageInv

LEMMA ReturnStep ==
    ASSUME FilterInv, ApplyReturns
    PROVE  FilterInv'
<1>1. stage = "scan" /\ stage' = "done" /\ Filtered /\ Scanning
  BY DEF FilterInv, StageInv, ApplyReturns
<1>2. /\ n \in Nat /\ m \in Nat /\ IsFiniteSet(Adaptive) /\ IsFiniteSet(kept)
      /\ Cardinality(kept) \in Nat
  BY FiniteStates DEF FilterInv
<1>3. Len(items) = n /\ k - 1 = n
  BY <1>1, <1>2 DEF Scanning, SortedByPValue, n, ApplyReturns
<1>4. LargestPassing(items, threshold, n) /\ threshold \in 0 .. n
  BY <1>1, <1>3 DEF Scanning, LargestPassing
<1>5. UNCHANGED <<Received, Adaptive, m, kept, p, dropped>>
  BY DEF ApplyReturns, Received, Fired, Adaptive, m
<1> DEFINE D == First(items, threshold)
<1>6. D \in SUBSET Adaptive /\ IsFiniteSet(D) /\ Cardinality(D) = threshold
  <2>1. items \in SortedByPValue(Adaptive)
    BY <1>1 DEF Scanning
  <2>2. D \in SUBSET Adaptive
    BY <1>2, <1>4, <2>1 DEF First, SortedByPValue, n
  <2>3. QED
    BY <1>2, <1>4, <2>1, <2>2, FirstCount DEF n
<1>7. accepted' = (kept \ Series) \cup D /\ rejected' = n - threshold
  BY <1>3 DEF ApplyReturns, First
<1>8. TypeOK'
  BY <1>2, <1>4, <1>6, <1>7 DEF FilterInv, TypeOK, ApplyReturns, Stages, Adaptive
<1>9. Filtered'
  BY <1>1, <1>5 DEF Filtered
<1>10. Cardinality(accepted') + rejected' = Cardinality(kept)
  <2>1. /\ IsFiniteSet(kept \ Series)
        /\ Cardinality(kept \ Series) = Cardinality(kept) - n
    BY <1>2, FS_Difference DEF n, Adaptive
  <2>2. (kept \ Series) \cap D = {}
    BY <1>6 DEF Adaptive
  <2>3. Cardinality((kept \ Series) \cup D) = Cardinality(kept) - n + threshold
    <3>1. Cardinality((kept \ Series) \cap D) = 0
      BY <2>2, FS_EmptySet
    <3>2. Cardinality((kept \ Series) \cup D)
            = Cardinality(kept \ Series) + Cardinality(D) - Cardinality((kept \ Series) \cap D)
      <4> HIDE DEF D
      <4>1. QED
        BY <1>6, <2>1, FS_Union
    <3>3. QED
      BY <1>2, <1>4, <1>6, <2>1, <3>1, <3>2
  <2>4. QED
    BY <1>2, <1>4, <1>7, <2>3
<1>11. D = Discoveries(Adaptive, m)
  BY <1>1, <1>2, <1>4, ScanFindsDiscoveries DEF FilterInv, TypeOK, Scanning, n, Adaptive
<1>12. Discoveries(Adaptive, m)' = Discoveries(Adaptive, m)
  BY <1>5 DEF Discoveries, Meets
<1>13. Returned'
  <2>1. Others \subseteq accepted' /\ accepted' \subseteq kept
    BY <1>1, <1>6, <1>7, SetsAssumption DEF Filtered, Adaptive
  <2>2. accepted' \cap Series = D
    BY <1>6, <1>7 DEF Adaptive
  <2>3. QED
    BY <1>5, <1>10, <1>11, <1>12, <2>1, <2>2 DEF Returned
<1>14. QED
  BY <1>1, <1>8, <1>9, <1>13 DEF FilterInv, StageInv

LEMMA InvStep == FilterInv /\ [Next]_vars => FilterInv'
<1> SUFFICES ASSUME FilterInv, [Next]_vars
             PROVE  FilterInv'
  OBVIOUS
<1>1. CASE Receive
  BY <1>1, ReceiveStep
<1>2. CASE FilterByDirection
  BY <1>2, DropStep DEF FilterByDirection, FilterInv, TypeOK
<1>3. CASE FilterByFloor
  BY <1>3, DropStep DEF FilterByFloor, FilterInv, TypeOK
<1>4. CASE ApplyPasses
  BY <1>4, PassStep
<1>5. CASE ApplySorts
  BY <1>5, SortStep
<1>6. CASE ApplyScans
  BY <1>6, ScanStep
<1>7. CASE ApplyReturns
  BY <1>7, ReturnStep
<1>8. CASE NextCycle
  <2>1. Cardinality(Series) \in Nat
    BY SetsAssumption, FS_CardinalityType
  <2>2. TypeOK'
    BY <1>8, <2>1 DEF TypeOK, NextCycle, Stages
  <2>3. QED
    BY <1>8, <2>2 DEF FilterInv, StageInv, NextCycle, Fresh
<1>9. CASE UNCHANGED vars
  <2>1. UNCHANGED <<Received, Adaptive, n, m, stage, kept, items, threshold, k, accepted, rejected>>
    BY <1>9 DEF vars, Received, Fired, Adaptive, n, m
  <2>2. TypeOK'
    BY <1>9 DEF vars, FilterInv, TypeOK
  <2>3. Scanning => Scanning'
    BY <1>9, <2>1 DEF vars, Scanning, LargestPassing, Passes, SortedByPValue
  <2>4. Discoveries(Adaptive, m)' = Discoveries(Adaptive, m)
    BY <1>9, <2>1 DEF vars, Discoveries, Meets
  <2>5. Returned => Returned'
    BY <2>1, <2>4 DEF Returned
  <2>6. (Fresh => Fresh') /\ (Filtered => Filtered') /\ UNCHANGED dropped
    BY <1>9, <2>1 DEF vars, Fresh, Filtered
  <2>7. QED
    BY <2>1, <2>2, <2>3, <2>5, <2>6 DEF FilterInv, StageInv
<1>10. QED
  BY <1>1, <1>2, <1>3, <1>4, <1>5, <1>6, <1>7, <1>8, <1>9 DEF Next

\* From what the filters dropped and what Apply returned, the invariant gives the
\* three properties of a cycle that is done.
LEMMA InvImplies ==
    FilterInv => TypeOK /\ AcceptsDiscoveries /\ NeverLooser /\ Conserved
<1> SUFFICES ASSUME FilterInv
             PROVE  TypeOK /\ AcceptsDiscoveries /\ NeverLooser /\ Conserved
  OBVIOUS
<1>1. AcceptsDiscoveries
  BY DEF FilterInv, StageInv, Returned, AcceptsDiscoveries, Adaptive
<1>2. NeverLooser
  <2>1. SUFFICES ASSUME stage = "done", Target < Scale, family >= Cardinality(Series)
                 PROVE  accepted \cap Series \subseteq Discoveries(Series, Cardinality(Series))
    BY DEF NeverLooser
  <2>2. accepted \cap Series = Discoveries(Adaptive, m)
    BY <2>1 DEF FilterInv, StageInv, Returned
  <2>3. m \in Nat /\ m >= Cardinality(Series)
    BY <2>1, FiniteStates DEF FilterInv, TypeOK, m, n, Adaptive
  <2>4. Adaptive \subseteq Series /\ p \in [Series -> Nat]
    BY DEF FilterInv, TypeOK, Adaptive
  <2>5. QED
    BY <2>2, <2>3, <2>4, DiscoveriesShrink
<1>3. Conserved
  <2>1. SUFFICES ASSUME stage = "done"
                 PROVE  /\ Others \subseteq accepted
                        /\ accepted \subseteq Received
                        /\ Cardinality(accepted) + rejected + dropped = Cardinality(Received)
    BY DEF Conserved
  <2>2. Filtered /\ Returned
    BY <2>1 DEF FilterInv, StageInv
  <2>3. /\ Cardinality(kept) \in Nat /\ Cardinality(Received) \in Nat
        /\ dropped \in Nat /\ rejected \in Nat
    BY FiniteStates DEF FilterInv, TypeOK
  <2>4. Cardinality(accepted) \in Nat
    BY FiniteParts DEF FilterInv, TypeOK
  <2>5. QED
    BY <2>2, <2>3, <2>4 DEF Filtered, Returned
<1>4. QED
  BY <1>1, <1>2, <1>3 DEF FilterInv

LEMMA Invariant == Spec => []FilterInv
<1>1. Init => FilterInv
  BY SetsAssumption, FS_CardinalityType DEF Init, FilterInv, TypeOK, StageInv, Stages, Fresh
<1>2. QED
  BY <1>1, InvStep, PTL DEF Spec

\* The filters and the procedure keep their variables in their types.
THEOREM TypeCorrect == Spec => []TypeOK
BY Invariant, InvImplies, PTL

\* The scan over the sorted anomalies accepts Benjamini-Hochberg's discoveries,
\* whatever the p-values, the family and the order of ties.
THEOREM ScanIsBenjaminiHochberg == Spec => []AcceptsDiscoveries
BY Invariant, InvImplies, PTL

\* Whatever was not shipped and whatever the earlier filters removed, the
\* procedure is never looser than over the whole family.
THEOREM ConservativeControl == Spec => []NeverLooser
BY Invariant, InvImplies, PTL

\* Every anomaly received is dropped, rejected or accepted, and counted so.
THEOREM CountersAddUp == Spec => []Conserved
BY Invariant, InvImplies, PTL
=============================================================================
