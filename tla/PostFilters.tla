---------------------------- MODULE PostFilters -----------------------------
(***************************************************************************)
(* The filters a cycle's anomalies pass before they reach the correlator:  *)
(* runCycle (controller/cmd/controller/main.go) with FilterByDirection,    *)
(* FilterByFloor and the Benjamini-Hochberg procedure FDR.Apply            *)
(* (internal/detection/direction.go, floor.go, fdr.go).                    *)
(*                                                                         *)
(* The workers evaluate all of Series, ship those that fired and report    *)
(* how many they evaluated.  A score matters only through its p-value; p   *)
(* gives every evaluation its p-value, that of the evaluations that did    *)
(* not fire included, which the controller never sees.  P-values and       *)
(* FDRTarget are in units of 1/Scale.                                      *)
(***************************************************************************)
EXTENDS Integers, Sequences, FiniteSets

CONSTANTS
    Series,     \* adaptive evaluations past warm-up
    Others,     \* static and pattern anomalies
    PValues,    \* the p-values that occur
    FiredBelow, \* an evaluation with at most this p-value is an anomaly
    Scale,
    FDRTarget,  \* controller.fdr_target
    Families    \* family sizes the workers may report

ASSUME SetsAssumption ==
    /\ IsFiniteSet(Series)
    /\ IsFiniteSet(Others)
    /\ Series \cap Others = {}
ASSUME UnitsAssumption ==
    /\ PValues \subseteq Nat
    /\ Families \subseteq Nat
    /\ FiredBelow \in Nat /\ Scale \in Nat /\ FDRTarget \in Nat

VARIABLES
    stage,         \* where the cycle is
    p,             \* evaluation -> p-value
    harmless,      \* anomalies that deviated in their rule's harmless direction
    low,           \* anomalies below their rule's floor
    family,        \* AdaptiveSeriesTested
    kept,          \* the anomalies that passed so far
    dropped,       \* how many the direction and floor filters dropped
    items,         \* the adaptive ones among kept, sorted by p-value
    k,             \* the rank the scan looks at next
    threshold,     \* the largest rank that passed so far
    accepted,      \* what Apply returns
    rejected

vars == <<stage, p, harmless, low, family, kept, dropped, items, k, threshold,
          accepted, rejected>>

Stages == {"idle", "direction", "floor", "fdr", "scan", "done"}

\* NewFDR replaces a target that is no probability by 0.05.
Target == IF FDRTarget = 0 \/ FDRTarget > Scale THEN Scale \div 20 ELSE FDRTarget

Fired == {x \in Series : p[x] <= FiredBelow}
Received == Fired \cup Others

\* Faulty variant: the family is what fired, as in the first release.
mCensored == Cardinality(kept \cap Series)

\* The family Apply corrects for: never fewer tests than anomalies.
m == IF family < Cardinality(kept \cap Series) THEN Cardinality(kept \cap Series) ELSE family

\* All sequences of the elements of A that sort.Slice may return.
SortedByPValue(A) ==
    {s \in [1 .. Cardinality(A) -> A] :
        \A i, j \in DOMAIN s : i < j => s[i] # s[j] /\ p[s[i]] <= p[s[j]]}

\* p(i) <= (i / m) * Target
Passes(s, i) == p[s[i]] * m <= i * Target

Init ==
    /\ stage = "idle"
    /\ p = [x \in Series |-> 0]
    /\ harmless = {} /\ low = {}
    /\ family = 0
    /\ kept = {} /\ dropped = 0
    /\ items = <<>> /\ k = 1 /\ threshold = 0
    /\ accepted = {} /\ rejected = 0

\* ProcessJobs returns.
Receive ==
    /\ stage = "idle"
    /\ stage' = "direction"
    /\ p' \in [Series -> PValues]
    /\ harmless' \in SUBSET Fired'
    /\ low' \in SUBSET Fired'
    /\ family' \in Families
    /\ kept' = Received'
    /\ UNCHANGED <<dropped, items, k, threshold, accepted, rejected>>

\* Faulty variant: a filter that drops whatever its rule's name maps to.
DropAll(bad, from, to) ==
    /\ stage = from
    /\ stage' = to
    /\ kept' = kept \ (bad \cup Others)
    /\ dropped' = dropped + Cardinality(kept \cap bad)
    /\ UNCHANGED <<p, harmless, low, family, items, k, threshold, accepted, rejected>>

\* One filter: only adaptive anomalies are dropped.
Drop(bad, from, to) ==
    /\ stage = from
    /\ stage' = to
    /\ kept' = kept \ bad
    /\ dropped' = dropped + Cardinality(kept \cap bad)
    /\ UNCHANGED <<p, harmless, low, family, items, k, threshold, accepted, rejected>>

FilterByDirection == Drop(harmless, "direction", "floor")
FilterByFloor == Drop(low, "floor", "fdr")

\* Apply has nothing to correct: a target of one, or no adaptive anomaly.
ApplyPasses ==
    /\ stage = "fdr"
    /\ Target >= Scale \/ kept \cap Series = {}
    /\ stage' = "done"
    /\ accepted' = kept
    /\ UNCHANGED <<p, harmless, low, family, kept, dropped, items, k, threshold, rejected>>

\* Apply separates and sorts the adaptive anomalies.
ApplySorts ==
    /\ stage = "fdr"
    /\ Target < Scale
    /\ kept \cap Series # {}
    /\ stage' = "scan"
    /\ items' \in SortedByPValue(kept \cap Series)
    /\ UNCHANGED <<p, harmless, low, family, kept, dropped, k, threshold, accepted, rejected>>

\* Faulty variant: the scan stops at the first rank that does not pass.
ApplyStepsDown ==
    /\ stage = "scan"
    /\ k <= Len(items)
    /\ threshold' = IF Passes(items, k) /\ threshold = k - 1 THEN k ELSE threshold
    /\ k' = k + 1
    /\ UNCHANGED <<stage, p, harmless, low, family, kept, dropped, items, accepted, rejected>>

\* One turn of the step-up loop.
ApplyScans ==
    /\ stage = "scan"
    /\ k <= Len(items)
    /\ threshold' = IF Passes(items, k) THEN k ELSE threshold
    /\ k' = k + 1
    /\ UNCHANGED <<stage, p, harmless, low, family, kept, dropped, items, accepted, rejected>>

\* Faulty variant: the count of the rejected with its operands swapped.
ApplyReturnsSwapped ==
    /\ stage = "scan"
    /\ k > Len(items)
    /\ stage' = "done"
    /\ accepted' = (kept \ Series) \cup {items[i] : i \in 1 .. threshold}
    /\ rejected' = threshold - Len(items)
    /\ UNCHANGED <<p, harmless, low, family, kept, dropped, items, k, threshold>>

\* Apply returns the others and the first `threshold` adaptive anomalies.
ApplyReturns ==
    /\ stage = "scan"
    /\ k > Len(items)
    /\ stage' = "done"
    /\ accepted' = (kept \ Series) \cup {items[i] : i \in 1 .. threshold}
    /\ rejected' = Len(items) - threshold
    /\ UNCHANGED <<p, harmless, low, family, kept, dropped, items, k, threshold>>

\* The cycle goes on with the accepted anomalies; the next one starts afresh.
NextCycle ==
    /\ stage = "done"
    /\ stage' = "idle"
    /\ p' = [x \in Series |-> 0]
    /\ harmless' = {} /\ low' = {}
    /\ family' = 0
    /\ kept' = {} /\ dropped' = 0
    /\ items' = <<>> /\ k' = 1 /\ threshold' = 0
    /\ accepted' = {} /\ rejected' = 0

Next ==
    \/ Receive \/ FilterByDirection \/ FilterByFloor
    \/ ApplyPasses \/ ApplySorts \/ ApplyScans \/ ApplyReturns \/ NextCycle

Spec == Init /\ [][Next]_vars

-----------------------------------------------------------------------------
(* Properties *)

TypeOK ==
    /\ stage \in Stages
    /\ p \in [Series -> Nat]
    /\ harmless \subseteq Series /\ low \subseteq Series
    /\ family \in Nat
    /\ kept \subseteq Series \cup Others
    /\ dropped \in Nat
    /\ items \in Seq(Series)
    /\ k \in 1 .. Cardinality(Series) + 1
    /\ threshold \in 0 .. Cardinality(Series)
    /\ accepted \subseteq Series \cup Others
    /\ rejected \in Nat

\* Reference definition of Benjamini-Hochberg for n tests of which those in A are
\* known: x is a discovery if its p-value is at most some critical value (i/n)Target
\* that at least i of A meet. No order, hence no ties.
Meets(A, n, i) == {y \in A : p[y] * n <= i * Target}
Discoveries(A, n) ==
    {x \in A : \E i \in 1 .. Cardinality(A) :
        x \in Meets(A, n, i) /\ Cardinality(Meets(A, n, i)) >= i}

\* The scan over the sorted anomalies accepts exactly the discoveries, however
\* the sort arranged equal p-values.
AcceptsDiscoveries ==
    stage = "done" /\ Target < Scale =>
        accepted \cap Series = Discoveries(kept \cap Series, m)

\* The procedure is never looser than Benjamini-Hochberg over every p-value of
\* the family, whatever the p-values that were not shipped and whatever the
\* earlier filters removed, provided that the reported family is no smaller.
NeverLooser ==
    stage = "done" /\ Target < Scale /\ family >= Cardinality(Series) =>
        accepted \cap Series \subseteq Discoveries(Series, Cardinality(Series))

\* Every anomaly received is dropped, rejected or accepted, the counters say how
\* many, and the static and pattern anomalies always arrive.
Conserved ==
    stage = "done" =>
        /\ Others \subseteq accepted
        /\ accepted \subseteq Received
        /\ Cardinality(accepted) + rejected + dropped = Cardinality(Received)
=============================================================================
