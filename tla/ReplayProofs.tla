---------------------------- MODULE ReplayProofs ----------------------------
(***************************************************************************)
(* Proofs about Replay, for every history, profile of faults, list of      *)
(* rules and window, any cap on the report and any number of failures.     *)
(***************************************************************************)
EXTENDS Replay, DataInduction, FiniteSetTheorems

-----------------------------------------------------------------------------
(* The inductive invariant *)

\* A tick was begun and has not ended.
Begun == IF stage \in {"metrics", "static", "logs"} THEN 1 ELSE 0

Numbers ==
    /\ from \in Int /\ to \in Int /\ tick \in Int
    /\ i \in Nat \ {0}
    /\ failed \in Nat /\ failed <= Len(AdaptiveMetrics)
    /\ queryErrors \in Nat /\ warmupSkipped \in Nat /\ processed \in Nat
    /\ skipped \in Nat /\ filtered \in Nat /\ evaluated \in Nat /\ fired \in Nat

Labels ==
    /\ stage \in {"parse", "preflight", "refused", "tick", "metrics", "static", "logs",
                  "done", "written"}
    /\ interrupted \in BOOLEAN
    /\ status \in {NoStatus, "partial", "anomalies_detected", "no_anomalies"}
    /\ files \subseteq {"json", "md"}

Collections ==
    /\ fetched \subseteq NamesOf(AdaptiveMetrics)
    /\ found \subseteq DOMAIN History
    /\ count \in [DOMAIN History -> 0 .. WarmUpSamples]
    /\ report \subseteq [tick : Int, series : DOMAIN History] /\ IsFiniteSet(report)
    /\ truths \subseteq GroundTruths(DOMAIN History)

\* TypeOK in parts, with a report that is finite.
Types == Numbers /\ Labels /\ Collections

\* Where a stage stands in the window, in the ticks and in its list of rules.
Places ==
    /\ stage = "parse" => tick = from
    /\ stage \notin {"parse", "refused"} =>
        from < to /\ to - from >= MinWindow /\ from <= tick /\ tick <= to
    /\ stage = "preflight" => tick = from
    /\ Begun = 1 => from < tick
    /\ processed + skipped = tick - from - Begun
    /\ stage = "metrics" => i <= Len(AdaptiveMetrics) + 1 /\ failed < i
    /\ stage = "static" => i <= Len(StaticRules) + 1
    /\ stage = "logs" => i <= Len(LogPatterns) + 1
    /\ failed <= queryErrors

\* The first n names of a list.
FirstOf(rules, n) == {rules[r] : r \in 1 .. n}

\* The rules evaluated in the tick that is going on.
EvaluatedInTick ==
    CASE stage = "static" -> Len(AdaptiveMetrics) + i - 1
      [] stage = "logs" -> Len(AdaptiveMetrics) + Len(StaticRules) + i - 1
      [] OTHER -> 0

Complete ==
    /\ skipped = 0
    /\ stage = "metrics" => fetched = FirstOf(AdaptiveMetrics, i - 1)
    /\ evaluated = (tick - from - Begun) * Rules + EvaluatedInTick

\* Without an error nothing is left out, and only the end of the run says so.
NothingLeftOut ==
    /\ queryErrors = 0 => Complete
    /\ status # NoStatus => stage \in {"done", "written"}
    /\ StatusHonest

\* The names of the rules that may have found something in this tick.
EvaluatedNames ==
    CASE stage = "static" -> NamesOf(AdaptiveMetrics) \cup FirstOf(StaticRules, i - 1)
      [] stage = "logs" -> NamesOf(AdaptiveMetrics) \cup NamesOf(StaticRules)
                           \cup FirstOf(LogPatterns, i - 1)
      [] OTHER -> {}

\* The anomalies found are of rules already evaluated, and of a tick past the warm-up;
\* the reported ones are of earlier ticks.
Findings ==
    /\ \A s \in found : s[1] \in EvaluatedNames
    /\ found # {} => ~IsWarmUp
    /\ stage \in {"parse", "preflight"} => report = {}
    /\ \A a \in report : WarmUpEnd(from, to) <= a.tick /\ a.tick <= tick - Begun

\* What the counters cannot account for was lost to the cap.
Lost == fired - warmupSkipped - filtered - Cardinality(report) - Cardinality(found)

Accounts ==
    /\ Lost >= 0
    /\ Lost > 0 => MaxAnomalies # 0 /\ Cardinality(report) = MaxAnomalies
    /\ MaxAnomalies # 0 => Cardinality(report) <= MaxAnomalies

\* For each fault of a series a truth was recorded, or one like it.
RecordedFor(s) ==
    \A e \in EntriesFor(s) :
        \E t \in truths : KeyOf(t) = <<s, Injections[e].type, Injections[e].start>>

\* Every truth is of an entry that targets its series, every fault of a series that
\* was answered has one, and what was found has a sample.
TruthsWhole ==
    /\ \A t \in truths : Targets(FaultOf(t), t.target)
    /\ stage = "metrics" =>
        \A rule \in fetched : \A s \in Answered(rule, from, tick) : RecordedFor(s)
    /\ \A s \in found : Points(s, from, tick) # {} /\ RecordedFor(s)
    /\ \A a \in report : Points(a.series, from, a.tick) # {} /\ RecordedFor(a.series)

IInv == Types /\ Places /\ NothingLeftOut /\ Findings /\ Accounts /\ TruthsWhole

-----------------------------------------------------------------------------
(* The lists of rules, the window and the samples *)

LEMMA RuleLists ==
    ASSUME NEW rules \in {AdaptiveMetrics, StaticRules, LogPatterns}
    PROVE  /\ Len(rules) \in Nat
           /\ DOMAIN rules = 1 .. Len(rules)
           /\ \A q, r \in 1 .. Len(rules) : rules[q] = rules[r] => q = r
           /\ NamesOf(rules) = FirstOf(rules, Len(rules))
<1>1. /\ rules \in Seq(NamesOf(rules))
      /\ \A q, r \in DOMAIN rules : rules[q] = rules[r] => q = r
  BY RulesAssumption
<1>2. Len(rules) \in Nat /\ DOMAIN rules = 1 .. Len(rules)
  BY <1>1
<1>3. QED
  BY <1>1, <1>2 DEF NamesOf, FirstOf

LEMMA RulesType == Rules \in Nat
  BY RuleLists DEF Rules

\* Sets that a function maps one to one onto each other have as many elements.
LEMMA CountsAlike ==
    ASSUME NEW S, NEW T, NEW f \in [S -> T], IsFiniteSet(S),
           \A x, y \in S : f[x] = f[y] => x = y,
           \A t \in T : \E x \in S : f[x] = t
    PROVE  IsFiniteSet(T) /\ Cardinality(T) = Cardinality(S)
<1>1. f \in Injection(S, T) /\ f \in Surjection(S, T)
  BY DEF Injection, Surjection, IsInjective
<1>2. QED
  BY <1>1, FS_Surjection

\* A list's first n names are n names.
LEMMA FirstNames ==
    ASSUME NEW rules \in {AdaptiveMetrics, StaticRules, LogPatterns},
           NEW n \in 0 .. Len(rules)
    PROVE  IsFiniteSet(FirstOf(rules, n)) /\ Cardinality(FirstOf(rules, n)) = n
<1> DEFINE f == [r \in 1 .. n |-> rules[r]]
<1>1. n \in Nat /\ 1 .. n \subseteq 1 .. Len(rules)
  BY RuleLists
<1>2. \A q, r \in 1 .. n : f[q] = f[r] => q = r
  BY <1>1, RuleLists
<1>3. f \in [1 .. n -> FirstOf(rules, n)]
  BY DEF FirstOf
<1>4. \A name \in FirstOf(rules, n) : \E r \in 1 .. n : f[r] = name
  BY DEF FirstOf
<1>5. IsFiniteSet(1 .. n) /\ Cardinality(1 .. n) = n
  BY <1>1, FS_Interval
<1> DEFINE S == 1 .. n
<1> HIDE DEF f, S
<1>6. IsFiniteSet(FirstOf(rules, n)) /\ Cardinality(FirstOf(rules, n)) = Cardinality(S)
  BY <1>2, <1>3, <1>4, <1>5, CountsAlike DEF S
<1>7. QED
  BY <1>5, <1>6 DEF S

LEMMA NamesApart ==
    /\ NamesOf(AdaptiveMetrics) \cap NamesOf(StaticRules) = {}
    /\ NamesOf(AdaptiveMetrics) \cap NamesOf(LogPatterns) = {}
    /\ NamesOf(StaticRules) \cap NamesOf(LogPatterns) = {}
  BY RulesAssumption

\* Multiplying keeps an order.
LEMMA TimesMonotone ==
    ASSUME NEW a \in Int, NEW b \in Int, NEW n \in Nat, a <= b
    PROVE  a * n <= b * n
  OBVIOUS

\* One more per unit is more.
LEMMA TimesGap ==
    ASSUME NEW a \in Nat, NEW m \in Nat, NEW n \in Nat, m < n
    PROVE  a * m <= a * n - a
<1>1. n - m \in Nat /\ n - m >= 1 /\ n = m + (n - m)
  OBVIOUS
<1>2. a * (n - m) >= a
  BY <1>1
<1>3. a * n = a * m + a * (n - m)
  BY <1>1
<1>4. QED
  BY <1>2, <1>3

\* The quotient of a number below d * (q + 1) is at most q.
LEMMA QuotientBound ==
    ASSUME NEW n \in Int, NEW q \in Int, NEW d \in Nat \ {0}, n < d * (q + 1)
    PROVE  n \div d \in Int /\ n \div d <= q
  OBVIOUS

LEMMA WarmUpEndType ==
    ASSUME NEW f \in Int, NEW t \in Int
    PROVE  WarmUpEnd(f, t) \in Int
<1>1. (t - f) * WarmUpNum + WarmUpDen - 1 \in Int /\ WarmUpDen \in Nat \ {0}
      /\ WarmUpSamples \in Int
  BY ReplayAssumption
<1>2. ((t - f) * WarmUpNum + WarmUpDen - 1) \div WarmUpDen \in Int
  BY <1>1
<1>3. QED
  BY <1>1, <1>2 DEF WarmUpEnd

\* A window that is long enough ends after both warm-ups.
LEMMA WarmUpEnds ==
    ASSUME NEW f \in Int, NEW t \in Int, f < t, t - f >= MinWindow,
           WarmUpSamples * WarmUpDen <= MinWindow * WarmUpNum, WarmUpNum < WarmUpDen
    PROVE  WarmUpEnd(f, t) <= t /\ WarmUpSamples < t - f
<1> DEFINE span == t - f
           fraction == (span * WarmUpNum + WarmUpDen - 1) \div WarmUpDen
<1>1. /\ WarmUpSamples \in Nat /\ WarmUpNum \in Nat /\ WarmUpDen \in Nat \ {0}
      /\ MinWindow \in Int /\ span \in Nat \ {0}
  BY ReplayAssumption
<1>d. f \in Int /\ t = f + span /\ span >= MinWindow
  OBVIOUS
<1> HIDE DEF span
<1>2. span * WarmUpNum <= span * WarmUpDen - span
  BY <1>1, TimesGap
<1>3. MinWindow * WarmUpNum <= span * WarmUpNum
  BY <1>1, <1>d, TimesMonotone
<1>4. WarmUpSamples < span
  <2>1. /\ WarmUpSamples * WarmUpDen \in Int /\ MinWindow * WarmUpNum \in Int
        /\ span * WarmUpNum \in Int /\ span * WarmUpDen \in Int
    BY <1>1
  <2>2. WarmUpSamples * WarmUpDen < span * WarmUpDen
    BY <1>1, <1>2, <1>3, <2>1
  <2>3. ~(span <= WarmUpSamples)
    <3>1. ASSUME span <= WarmUpSamples
          PROVE  span * WarmUpDen <= WarmUpSamples * WarmUpDen
      BY <1>1, <3>1, TimesMonotone
    <3>2. QED
      BY <2>1, <2>2, <3>1
  <2>4. QED
    BY <1>1, <2>3
<1>5. fraction <= span /\ fraction \in Int
  <2>1. WarmUpDen * (span + 1) = span * WarmUpDen + WarmUpDen
    BY <1>1
  <2>2. /\ span * WarmUpNum \in Int /\ span * WarmUpDen \in Int
    BY <1>1
  <2>3. span * WarmUpNum + WarmUpDen - 1 < WarmUpDen * (span + 1)
    BY <1>1, <1>2, <2>1, <2>2
  <2>4. span * WarmUpNum + WarmUpDen - 1 \in Int
    BY <1>1, <2>2
  <2>5. QED
    BY <1>1, <2>3, <2>4, QuotientBound
<1>6. WarmUpEnd(f, t) = f + IF WarmUpSamples > fraction THEN WarmUpSamples ELSE fraction
  BY DEF WarmUpEnd, span
<1> HIDE DEF fraction
<1>7. QED
  BY <1>1, <1>d, <1>4, <1>5, <1>6 DEF span

\* A sample is a point, none of a later tick.
LEMMA SampleIsPoint ==
    ASSUME NEW s \in DOMAIN History, NEW f, NEW n \in Int, Points(s, f, n) # {}
    PROVE  /\ SampleTime(s, f, n) \in Points(s, f, n)
           /\ SampleTime(s, f, n) \in Nat
           /\ SampleTime(s, f, n) <= n
<1>1. Points(s, f, n) \subseteq Nat /\ \A t \in Points(s, f, n) : t <= n
  BY ReplayAssumption DEF Points
<1>2. PICK t \in Points(s, f, n) : \A u \in Points(s, f, n) : u <= t
  BY <1>1, GreatestNatural
<1>3. SampleTime(s, f, n) \in Points(s, f, n)
  BY <1>2 DEF SampleTime
<1>4. QED
  BY <1>1, <1>3

-----------------------------------------------------------------------------
(* What the steps do to the anomalies *)

LEMMA SeriesAreFinite ==
    ASSUME NEW S \in SUBSET DOMAIN History
    PROVE  IsFiniteSet(S) /\ Cardinality(S) \in Nat
<1>1. IsFiniteSet(DOMAIN History)
  BY ReplayAssumption
<1>2. IsFiniteSet(S)
  BY <1>1, FS_Subset
<1>3. QED
  BY <1>2, FS_CardinalityType

\* Anomalies on series of S are counted and, past the warm-up, found.
Detects(S) ==
    \E anomalies \in SUBSET S :
        /\ fired' = fired + Cardinality(anomalies)
        /\ warmupSkipped' = warmupSkipped + IF IsWarmUp THEN Cardinality(anomalies) ELSE 0
        /\ found' = found \cup IF IsWarmUp THEN {} ELSE anomalies

LEMMA EvaluateDetects ==
    ASSUME NEW S, Evaluate(S), warmupSkipped \in Nat
    PROVE  Detects(S)
<1>1. PICK anomalies \in SUBSET Suspects({s \in S : count[s] >= WarmUpSamples}) :
        /\ fired' = fired + Cardinality(anomalies)
        /\ IF IsWarmUp
           THEN /\ warmupSkipped' = warmupSkipped + Cardinality(anomalies)
                /\ UNCHANGED found
           ELSE /\ found' = found \cup anomalies
                /\ UNCHANGED warmupSkipped
  BY DEF Evaluate
<1>2. anomalies \in SUBSET S
  BY DEF Suspects
<1>3. QED
  BY <1>1, <1>2 DEF Detects

LEMMA StaticDetects ==
    ASSUME StaticAnswers, warmupSkipped \in Nat
    PROVE  Detects(SeriesAt(StaticRules[i], from, tick))
<1>1. PICK breaches \in SUBSET Suspects(SeriesAt(StaticRules[i], from, tick)) :
        /\ IsWarmUp => breaches = {}
        /\ fired' = fired + Cardinality(breaches)
        /\ found' = found \cup breaches
  BY DEF StaticAnswers
<1>2. breaches \in SUBSET SeriesAt(StaticRules[i], from, tick)
  BY DEF Suspects
<1>3. UNCHANGED warmupSkipped
  BY DEF StaticAnswers
<1>4. Cardinality({}) = 0
  BY FS_EmptySet
<1>5. QED
  BY <1>1, <1>2, <1>3, <1>4 DEF Detects

\* The series of a rule's answer.
LEMMA SeriesOfRule ==
    ASSUME NEW rule, NEW f, NEW n, NEW s \in SeriesAt(rule, f, n)
    PROVE  s \in DOMAIN History /\ s[1] = rule /\ Points(s, f, n) # {}
           /\ s \in Answered(rule, f, n)
<1>1. s \in DOMAIN History /\ Names(s, rule) /\ Points(s, f, n) # {}
  BY DEF SeriesAt
<1>2. PICK t \in Points(s, f, n) : TRUE
  BY <1>1
<1>3. s \in Answered(rule, f, n)
  BY <1>1, <1>2 DEF Points, Answered
<1>4. QED
  BY <1>1, <1>3 DEF Names

LEMMA EntriesCounted ==
    ASSUME NEW S \in SUBSET DOMAIN History
    PROVE  /\ IsFiniteSet({Entry(s) : s \in S})
           /\ Cardinality({Entry(s) : s \in S}) = Cardinality(S)
<1> DEFINE T == {Entry(s) : s \in S}
           f == [s \in S |-> Entry(s)]
<1>1. f \in [S -> T] /\ \A t \in T : \E s \in S : f[s] = t
  OBVIOUS
<1>2. \A x, y \in S : f[x] = f[y] => x = y
  BY DEF Entry
<1>3. IsFiniteSet(S)
  BY SeriesAreFinite
<1> HIDE DEF f, T
<1>4. IsFiniteSet(T) /\ Cardinality(T) = Cardinality(S)
  BY <1>1, <1>2, <1>3, CountsAlike
<1>5. QED
  BY <1>4 DEF T

-----------------------------------------------------------------------------
(* Types *)

LEMMA RecordedType ==
    ASSUME NEW T \in SUBSET GroundTruths(DOMAIN History),
           NEW S \in SUBSET DOMAIN History
    PROVE  Recorded(T, S) \in SUBSET GroundTruths(DOMAIN History)
<1>1. GroundTruths(S) \subseteq GroundTruths(DOMAIN History)
  BY DEF GroundTruths
<1>2. QED
  BY <1>1 DEF Recorded

LEMMA TypesMeanTypeOK ==
    ASSUME Types PROVE TypeOK
<1>1. failed \in 0 .. Len(AdaptiveMetrics)
  BY RuleLists DEF Types, Numbers
<1>2. {queryErrors, warmupSkipped, processed, skipped, filtered, evaluated, fired} \subseteq Nat
  BY DEF Types, Numbers
<1>3. QED
  BY <1>1, <1>2 DEF Types, Numbers, Labels, Collections, TypeOK

LEMMA InitTypes ==
    ASSUME Init PROVE Types
<1>1. IsFiniteSet({})
  BY FS_EmptySet
<1>2. Len(AdaptiveMetrics) \in Nat /\ WarmUpSamples \in Nat
  BY RuleLists, ReplayAssumption
<1>3. Numbers
  BY <1>2 DEF Init, Numbers
<1>4. Labels
  BY DEF Init, Labels
<1>5. Collections
  <2>1. count = [s \in DOMAIN History |-> 0] /\ 0 \in 0 .. WarmUpSamples
    BY <1>2 DEF Init
  <2>2. count \in [DOMAIN History -> 0 .. WarmUpSamples]
    BY <2>1
  <2>3. QED
    BY <1>1, <2>2 DEF Init, Collections
<1>6. QED
  BY <1>3, <1>4, <1>5 DEF Types

\* A detection step keeps the types of what it touches.
LEMMA DetectsTypes ==
    ASSUME Types, NEW S \in SUBSET DOMAIN History, Detects(S)
    PROVE  fired' \in Nat /\ warmupSkipped' \in Nat /\ found' \subseteq DOMAIN History
<1>1. PICK anomalies \in SUBSET S :
        /\ fired' = fired + Cardinality(anomalies)
        /\ warmupSkipped' = warmupSkipped + IF IsWarmUp THEN Cardinality(anomalies) ELSE 0
        /\ found' = found \cup IF IsWarmUp THEN {} ELSE anomalies
  BY DEF Detects
<1>2. Cardinality(anomalies) \in Nat
  BY SeriesAreFinite
<1>3. fired \in Nat /\ warmupSkipped \in Nat /\ found \subseteq DOMAIN History
  BY DEF Types, Numbers, Labels, Collections
<1>4. QED
  BY <1>1, <1>2, <1>3

LEMMA EvaluateTypes ==
    ASSUME Types, NEW S \in SUBSET DOMAIN History, Evaluate(S)
    PROVE  /\ fired' \in Nat /\ warmupSkipped' \in Nat /\ found' \subseteq DOMAIN History
           /\ count' \in [DOMAIN History -> 0 .. WarmUpSamples]
<1>1. WarmUpSamples \in Nat /\ warmupSkipped \in Nat
      /\ count \in [DOMAIN History -> 0 .. WarmUpSamples]
  BY ReplayAssumption DEF Types, Numbers, Labels, Collections
<1>2. count' \in [DOMAIN History -> 0 .. WarmUpSamples]
  BY <1>1 DEF Evaluate
<1>3. Detects(S)
  BY <1>1, EvaluateDetects
<1>4. QED
  BY <1>2, <1>3, DetectsTypes

LEMMA NextTypes ==
    ASSUME IInv, Next PROVE Types'
<1> USE DEF window, loop, counters, output
<1>a. Types /\ Places
  BY DEF IInv
<1>b. Numbers /\ Labels /\ Collections /\ Len(AdaptiveMetrics) \in Nat
  BY <1>a, RuleLists DEF Types
<1>1. CASE Parse
  <2>1. CASE UNCHANGED <<window, tick>>
    BY <1>1, <1>b, <2>1 DEF Parse, Types, Numbers, Labels, Collections
  <2>2. ASSUME NEW f \in FromFlags, NEW t \in ToFlags,
               from' = TimeOf(f), to' = EndOf(t), tick' = TimeOf(f), stage' = "preflight"
        PROVE  Types'
    <3>1. from' \in Int /\ to' \in Int /\ tick' \in Int
      BY <2>2, ReplayAssumption, OptionsAssumption DEF TimeOf, EndOf
    <3>2. QED
      BY <1>1, <1>b, <2>2, <3>1 DEF Parse, Types, Numbers, Labels, Collections
  <2>3. QED
    BY <1>1, <2>1, <2>2 DEF Parse
<1>2. CASE Preflight
  BY <1>2, <1>b DEF Preflight, Types, Numbers, Labels, Collections
<1>3. CASE StartTick
  <2>1. Cardinality({}) = 0 /\ tick \in Int
    BY <1>b, FS_EmptySet DEF Numbers, Collections
  <2>2. ASSUME NEW partial \in BOOLEAN, Finish(partial) PROVE Types'
    <3>1. StatusOf(partial) \in {"partial", "anomalies_detected", "no_anomalies"}
      BY DEF StatusOf
    <3>2. QED
      BY <1>b, <2>2, <3>1 DEF Finish, Types, Numbers, Labels, Collections
  <2>3. ASSUME ~interrupted, ~(tick + 1 > to) PROVE Types'
    <3>1. /\ tick' = tick + 1
          /\ stage' = "metrics"
          /\ i' = 1 /\ failed' = 0 /\ fetched' = {} /\ found' = {}
          /\ UNCHANGED <<window, count, counters, output, interrupted>>
      BY <1>3, <2>3 DEF StartTick
    <3>2. QED
      BY <1>b, <2>1, <3>1 DEF Types, Numbers, Labels, Collections
  <2>4. QED
    BY <1>3, <2>2, <2>3 DEF StartTick
<1>4. CASE MetricAnswers
  <2>1. AdaptiveMetrics[i] \in NamesOf(AdaptiveMetrics)
    <3>1. i \in 1 .. Len(AdaptiveMetrics)
      BY <1>4, <1>b DEF MetricAnswers, Numbers
    <3>2. QED
      BY <3>1, RuleLists DEF NamesOf
  <2>2. truths' \in SUBSET GroundTruths(DOMAIN History)
    <3>1. Answered(AdaptiveMetrics[i], from, tick) \in SUBSET DOMAIN History
      BY DEF Answered
    <3>2. truths \in SUBSET GroundTruths(DOMAIN History)
      BY <1>b DEF Numbers, Collections
    <3>3. QED
      BY <1>4, <3>1, <3>2, RecordedType DEF MetricAnswers
  <2>3. QED
    BY <1>4, <1>b, <2>1, <2>2 DEF MetricAnswers, Types, Numbers, Labels, Collections
<1>5. CASE MetricFails
  <2>1. failed < i /\ i <= Len(AdaptiveMetrics) /\ failed \in Nat /\ i \in Nat
    BY <1>5, <1>a, <1>b DEF MetricFails, Places, Numbers
  <2>2. failed' \in Nat /\ failed' <= Len(AdaptiveMetrics) /\ i' \in Nat \ {0}
    BY <1>5, <1>b, <2>1 DEF MetricFails, Numbers
  <2>3. QED
    BY <1>5, <1>b, <2>2 DEF MetricFails, Types, Numbers, Labels, Collections
<1>6. CASE SkipTick
  BY <1>6, <1>b DEF SkipTick, Types, Numbers, Labels, Collections
<1>7. CASE EvaluateMetrics
  <2> DEFINE S == UNION {SeriesAt(rule, from, tick) : rule \in fetched}
  <2>1. S \in SUBSET DOMAIN History
    BY DEF SeriesAt
  <2>2. Evaluate(S)
    BY <1>7 DEF EvaluateMetrics
  <2> HIDE DEF S
  <2>3. /\ fired' \in Nat /\ warmupSkipped' \in Nat /\ found' \subseteq DOMAIN History
        /\ count' \in [DOMAIN History -> 0 .. WarmUpSamples]
    BY <1>a, <2>1, <2>2, EvaluateTypes
  <2>4. evaluated' \in Nat
    <3>1. IsFiniteSet(fetched)
      <4>1. IsFiniteSet(FirstOf(AdaptiveMetrics, Len(AdaptiveMetrics)))
        BY <1>b, FirstNames
      <4>2. fetched \in SUBSET NamesOf(AdaptiveMetrics)
        BY <1>b DEF Numbers, Collections
      <4>3. QED
        BY <4>1, <4>2, RuleLists, FS_Subset
    <3>2. Cardinality(fetched) \in Nat
      BY <3>1, FS_CardinalityType
    <3>3. QED
      BY <1>7, <1>b, <3>2 DEF EvaluateMetrics, Numbers
  <2>5. QED
    BY <1>7, <1>b, <2>3, <2>4 DEF EvaluateMetrics, Types, Numbers, Labels, Collections
<1>8. CASE StaticAnswers
  <2> DEFINE S == SeriesAt(StaticRules[i], from, tick)
  <2>1. S \in SUBSET DOMAIN History
    BY DEF SeriesAt
  <2>2. Detects(S)
    BY <1>8, <1>b, StaticDetects DEF Numbers
  <2> HIDE DEF S
  <2>3. fired' \in Nat /\ found' \subseteq DOMAIN History
    BY <1>a, <2>1, <2>2, DetectsTypes
  <2>4. QED
    BY <1>8, <1>b, <2>3 DEF StaticAnswers, Types, Numbers, Labels, Collections
<1>9. CASE StaticFails
  BY <1>9, <1>b DEF StaticFails, Types, Numbers, Labels, Collections
<1>10. CASE StaticDone
  BY <1>10, <1>b DEF StaticDone, Types, Numbers, Labels, Collections
<1>11. CASE LogAnswers
  <2> DEFINE S == SeriesAt(LogPatterns[i], from, tick)
  <2>1. S \in SUBSET DOMAIN History
    BY DEF SeriesAt
  <2>2. Evaluate(S)
    BY <1>11 DEF LogAnswers
  <2> HIDE DEF S
  <2>3. /\ fired' \in Nat /\ warmupSkipped' \in Nat /\ found' \subseteq DOMAIN History
        /\ count' \in [DOMAIN History -> 0 .. WarmUpSamples]
    BY <1>a, <2>1, <2>2, EvaluateTypes
  <2>4. QED
    BY <1>11, <1>b, <2>3 DEF LogAnswers, Types, Numbers, Labels, Collections
<1>12. CASE LogFails
  BY <1>12, <1>b DEF LogFails, Types, Numbers, Labels, Collections
<1>13. CASE EndTick
  <2>0. PICK accepted \in SUBSET found :
          /\ filtered' = filtered + Cardinality(found \ accepted)
          /\ \E added \in SUBSET accepted : report' = report \cup {Entry(s) : s \in added}
    BY <1>13 DEF EndTick
  <2>1. PICK added \in SUBSET accepted : report' = report \cup {Entry(s) : s \in added}
    BY <2>0
  <2>2. added \in SUBSET DOMAIN History /\ (found \ accepted) \in SUBSET DOMAIN History
    BY <1>b DEF Numbers, Collections
  <2>3. Cardinality(found \ accepted) \in Nat
    BY <2>2, SeriesAreFinite
  <2>4. IsFiniteSet(report')
    <3>1. IsFiniteSet({Entry(s) : s \in added})
      BY <2>2, EntriesCounted
    <3> DEFINE new == {Entry(s) : s \in added}
    <3>2. report' = report \cup new /\ IsFiniteSet(new) /\ IsFiniteSet(report)
      BY <1>b, <2>1, <3>1 DEF Collections
    <3> HIDE DEF new
    <3>3. IsFiniteSet(report \cup new)
      BY <3>2, FS_Union
    <3>4. QED
      BY <3>2, <3>3
  <2>5. report' \subseteq [tick : Int, series : DOMAIN History]
    <3>1. report \subseteq [tick : Int, series : DOMAIN History] /\ tick \in Int
      BY <1>b DEF Numbers, Collections
    <3>2. \A s \in added : Entry(s) \in [tick : Int, series : DOMAIN History]
      BY <2>2, <3>1 DEF Entry
    <3>3. QED
      BY <2>1, <3>1, <3>2
  <2>6. QED
    BY <1>13, <1>b, <2>0, <2>3, <2>4, <2>5 DEF EndTick, Types, Numbers, Labels, Collections
<1>14. CASE Write
  BY <1>14, <1>b DEF Write, Types, Numbers, Labels, Collections
<1>15. CASE Interrupt
  BY <1>15, <1>b DEF Interrupt, Types, Numbers, Labels, Collections
<1>16. QED
  BY <1>1, <1>2, <1>3, <1>4, <1>5, <1>6, <1>7, <1>8, <1>9, <1>10, <1>11, <1>12, <1>13,
     <1>14, <1>15 DEF Next, Run

-----------------------------------------------------------------------------
(* The window and the ticks *)

LEMMA NextPlaces ==
    ASSUME IInv, Next PROVE Places'
<1> USE DEF window, loop, counters, output, Begun
<1>b. Numbers /\ Places
  BY DEF IInv, Types
<1>c. Len(AdaptiveMetrics) \in Nat /\ Len(StaticRules) \in Nat /\ Len(LogPatterns) \in Nat
  BY RuleLists
<1>1. CASE Parse
  <2>1. CASE UNCHANGED <<window, tick>> /\ stage' = "refused"
    BY <1>1, <1>b, <2>1 DEF Parse, Places, Numbers
  <2>2. ASSUME NEW f \in FromFlags, NEW t \in ToFlags, AcceptsWindow(f, t, MaxRange),
               from' = TimeOf(f), to' = EndOf(t), tick' = TimeOf(f), stage' = "preflight"
        PROVE  Places'
    <3>1. from' \in Int /\ to' \in Int
      BY <2>2, ReplayAssumption, OptionsAssumption DEF TimeOf, EndOf
    <3>2. from' < to' /\ to' - from' >= MinWindow /\ tick' = from'
      BY <2>2 DEF AcceptsWindow
    <3>3. processed + skipped = 0 /\ failed <= queryErrors
      BY <1>1, <1>b DEF Parse, Places, Numbers
    <3>4. UNCHANGED <<processed, skipped, failed, queryErrors>>
      BY <1>1 DEF Parse
    <3>5. processed' + skipped' = tick' - from' - Begun'
      BY <2>2, <3>1, <3>2, <3>3, <3>4
    <3>6. stage' = "preflight" /\ tick' \in Int /\ failed' <= queryErrors'
      BY <2>2, <3>1, <3>2, <3>3, <3>4
    <3>7. QED
      BY <3>1, <3>2, <3>5, <3>6 DEF Places
  <2>3. QED
    BY <1>1, <2>1, <2>2 DEF Parse
<1>2. CASE Preflight
  BY <1>2, <1>b DEF Preflight, Places, Numbers
<1>3. CASE StartTick
  <2>1. ASSUME NEW partial, Finish(partial) PROVE Places'
    BY <1>3, <1>b, <2>1 DEF StartTick, Finish, Places, Numbers
  <2>2. ASSUME ~interrupted, ~(tick + 1 > to) PROVE Places'
    <3>1. /\ tick' = tick + 1
          /\ stage = "tick" /\ stage' = "metrics"
          /\ i' = 1 /\ failed' = 0
          /\ UNCHANGED <<window, counters>>
      BY <1>3, <2>2 DEF StartTick
    <3>2. QED
      BY <1>b, <1>c, <2>2, <3>1 DEF Places, Numbers
  <2>3. QED
    BY <1>3, <2>1, <2>2 DEF StartTick
<1>4. CASE MetricAnswers
  BY <1>4, <1>b, <1>c DEF MetricAnswers, Places, Numbers
<1>5. CASE MetricFails
  BY <1>5, <1>b, <1>c DEF MetricFails, Places, Numbers
<1>6. CASE SkipTick
  BY <1>6, <1>b DEF SkipTick, Places, Numbers
<1>7. CASE EvaluateMetrics
  BY <1>7, <1>b, <1>c DEF EvaluateMetrics, Places, Numbers
<1>8. CASE StaticAnswers
  BY <1>8, <1>b, <1>c DEF StaticAnswers, Places, Numbers
<1>9. CASE StaticFails
  BY <1>9, <1>b, <1>c DEF StaticFails, Places, Numbers
<1>10. CASE StaticDone
  BY <1>10, <1>b, <1>c DEF StaticDone, Places, Numbers
<1>11. CASE LogAnswers
  BY <1>11, <1>b, <1>c DEF LogAnswers, Places, Numbers
<1>12. CASE LogFails
  BY <1>12, <1>b, <1>c DEF LogFails, Places, Numbers
<1>13. CASE EndTick
  BY <1>13, <1>b DEF EndTick, Places, Numbers
<1>14. CASE Write
  BY <1>14, <1>b DEF Write, Places, Numbers
<1>15. CASE Interrupt
  BY <1>15, <1>b DEF Interrupt, Places, Numbers
<1>16. QED
  BY <1>1, <1>2, <1>3, <1>4, <1>5, <1>6, <1>7, <1>8, <1>9, <1>10, <1>11, <1>12, <1>13,
     <1>14, <1>15 DEF Next, Run

-----------------------------------------------------------------------------
(* What is left out *)

LEMMA Distribute ==
    ASSUME NEW a \in Int, NEW b \in Int, NEW n \in Int
    PROVE  /\ (a + b) * n = a * n + b * n
           /\ 0 * n = 0 /\ 1 * n = n
           /\ a * n \in Int
  OBVIOUS

\* One name more.
LEMMA NextName ==
    ASSUME NEW rules, NEW n \in Nat
    PROVE  FirstOf(rules, n + 1) = FirstOf(rules, n) \cup {rules[n + 1]}
<1>1. 1 .. n + 1 = 1 .. n \cup {n + 1}
  OBVIOUS
<1>2. QED
  BY <1>1 DEF FirstOf

LEMMA NoName ==
    ASSUME NEW rules PROVE FirstOf(rules, 0) = {}
<1>1. 1 .. 0 = {}
  OBVIOUS
<1>2. QED
  BY <1>1 DEF FirstOf

LEMMA NoStatusYet ==
    ASSUME IInv, stage \notin {"done", "written"}
    PROVE  status = NoStatus /\ status \notin {"anomalies_detected", "no_anomalies"}
<1>1. status = NoStatus
  BY DEF IInv, NothingLeftOut
<1>2. NoStatus \notin {"anomalies_detected", "no_anomalies"}
  BY Zenon DEF NoStatus
<1>3. QED
  BY <1>1, <1>2

\* Where the tick goes on, its part of the count must.
LEMMA CountGoesOn ==
    ASSUME Complete, Numbers, (tick - from - Begun) * Rules \in Int,
           skipped' = 0,
           (tick - from - Begun)' = tick - from - Begun,
           stage' = "metrics" => fetched' = FirstOf(AdaptiveMetrics, i' - 1),
           evaluated' - EvaluatedInTick' = evaluated - EvaluatedInTick,
           evaluated' \in Int, EvaluatedInTick' \in Int, EvaluatedInTick \in Int
    PROVE  Complete'
<1> DEFINE before == (tick - from - Begun) * Rules
<1>1. evaluated = before + EvaluatedInTick /\ evaluated \in Int /\ before \in Int
  BY DEF Complete, Numbers
<1>2. before' = before
  BY DEF Rules
<1> HIDE DEF before
<1>3. evaluated' = before + EvaluatedInTick'
  <2>1. PICK n \in Int, e \in Int, c \in Int :
           n = before /\ e = evaluated' /\ c = EvaluatedInTick'
    BY <1>1
  <2>2. e - c = n
    <3>1. PICK a \in Int, b \in Int : a = evaluated /\ b = EvaluatedInTick
      BY <1>1
    <3>2. a = n + b /\ e - c = a - b
      BY <1>1, <2>1, <3>1
    <3>3. QED
      BY <3>2
  <2>3. e = n + c
    BY <2>2
  <2>4. QED
    BY <2>1, <2>3
<1>4. evaluated' = (tick - from - Begun)' * Rules' + EvaluatedInTick'
  BY <1>2, <1>3 DEF before
<1>5. QED
  BY <1>4 DEF Complete

LEMMA NextComplete ==
    ASSUME IInv, Next, queryErrors' = 0
    PROVE  Complete'
<1> USE DEF window, loop, counters, output, Begun
<1> DEFINE ticks == tick - from - Begun
<1>b. Numbers /\ Places /\ (queryErrors = 0 => Complete)
  BY DEF IInv, Types, NothingLeftOut
<1>c. /\ Len(AdaptiveMetrics) \in Nat /\ Len(StaticRules) \in Nat /\ Len(LogPatterns) \in Nat
      /\ Rules = Len(AdaptiveMetrics) + Len(StaticRules) + Len(LogPatterns) /\ Rules \in Int
  BY RuleLists DEF Rules
<1>e. ticks \in Int /\ ticks * Rules \in Int
  BY <1>b, <1>c, Distribute DEF Numbers
<1>f. ASSUME queryErrors = 0, skipped' = 0,
             (tick - from - Begun)' = ticks,
             stage' = "metrics" => fetched' = FirstOf(AdaptiveMetrics, i' - 1),
             evaluated' - EvaluatedInTick' = evaluated - EvaluatedInTick,
             evaluated' \in Int, EvaluatedInTick' \in Int, EvaluatedInTick \in Int
      PROVE  Complete'
  <2> HIDE DEF Begun
  <2>1. Complete /\ Numbers /\ (tick - from - Begun) * Rules \in Int
    BY <1>b, <1>e, <1>f
  <2>2. QED
    BY <1>f, <2>1, CountGoesOn
<1>d. i \in Int
  BY <1>b DEF Numbers
<1>g. EvaluatedInTick \in Int
  <2> DEFINE A == Len(AdaptiveMetrics)
             B == Len(StaticRules)
  <2>1. A + i - 1 \in Int /\ A + B + i - 1 \in Int
    BY <1>c, <1>d
  <2>2. \/ EvaluatedInTick = A + i - 1
        \/ EvaluatedInTick = A + B + i - 1
        \/ EvaluatedInTick = 0
    BY DEF EvaluatedInTick
  <2>3. QED
    BY <2>1, <2>2
<1> HIDE DEF ticks
<1>1. CASE Parse
  <2>1. queryErrors = 0 /\ stage = "parse" /\ stage' \in {"preflight", "refused"}
        /\ UNCHANGED <<skipped, evaluated>> /\ tick' - from' = tick - from
    <3>1. stage = "parse" /\ UNCHANGED <<queryErrors, skipped, evaluated>>
      BY <1>1 DEF Parse
    <3>2. tick - from = 0
      BY <1>b, <3>1 DEF Places, Numbers
    <3>3. /\ stage' \in {"preflight", "refused"}
          /\ (tick' = from' /\ from' \in Int) \/ UNCHANGED <<window, tick>>
      BY <1>1, ReplayAssumption, OptionsAssumption DEF Parse, TimeOf
    <3>4. QED
      BY <3>1, <3>2, <3>3
  <2>2. EvaluatedInTick = 0 /\ EvaluatedInTick' = 0
    BY <2>1 DEF EvaluatedInTick
  <2>3. (tick - from - Begun)' = ticks
    BY <2>1 DEF ticks
  <2>4. skipped = 0
    BY <1>b, <2>1 DEF Complete
  <2>5. QED
    BY <1>b, <1>f, <2>1, <2>2, <2>3, <2>4 DEF Numbers
<1>2. CASE Preflight
  <2>1. /\ UNCHANGED <<queryErrors, skipped, evaluated, tick, from>>
        /\ stage = "preflight" /\ stage' \in {"tick", "refused"}
    BY <1>2 DEF Preflight
  <2>2. EvaluatedInTick = 0 /\ EvaluatedInTick' = 0
    BY <2>1 DEF EvaluatedInTick
  <2>3. (tick - from - Begun)' = ticks
    BY <2>1 DEF ticks
  <2>4. QED
    BY <1>b, <1>f, <2>1, <2>2, <2>3 DEF Numbers, Complete
<1>3. CASE StartTick
  <2>1. ASSUME NEW partial, Finish(partial) PROVE Complete'
    <3>1. /\ UNCHANGED <<queryErrors, skipped, evaluated, tick, from>>
          /\ stage = "tick" /\ stage' = "done"
      BY <1>3, <2>1 DEF StartTick, Finish
    <3>2. EvaluatedInTick = 0 /\ EvaluatedInTick' = 0
      BY <3>1 DEF EvaluatedInTick
    <3>3. (tick - from - Begun)' = ticks
      BY <3>1 DEF ticks
    <3>4. QED
      BY <1>b, <1>f, <3>1, <3>2, <3>3 DEF Numbers, Complete
  <2>2. ASSUME ~interrupted, ~(tick + 1 > to) PROVE Complete'
    <3>1. /\ tick' = tick + 1
          /\ stage = "tick" /\ stage' = "metrics"
          /\ i' = 1 /\ fetched' = {}
          /\ UNCHANGED <<from, queryErrors, skipped, evaluated>>
      BY <1>3, <2>2 DEF StartTick
    <3>2. EvaluatedInTick = 0 /\ EvaluatedInTick' = 0
      BY <3>1 DEF EvaluatedInTick
    <3>3. (tick - from - Begun)' = ticks
      BY <1>b, <3>1 DEF ticks, Numbers
    <3>4. fetched' = FirstOf(AdaptiveMetrics, i' - 1)
      BY <3>1, NoName
    <3>5. QED
      BY <1>b, <1>f, <3>1, <3>2, <3>3, <3>4 DEF Numbers, Complete
  <2>3. QED
    BY <1>3, <2>1, <2>2 DEF StartTick
<1>4. CASE MetricAnswers
  <2>1. /\ UNCHANGED <<queryErrors, skipped, evaluated, tick, from>>
        /\ stage = "metrics" /\ stage' = "metrics"
        /\ i' = i + 1 /\ fetched' = fetched \cup {AdaptiveMetrics[i]}
    BY <1>4 DEF MetricAnswers
  <2>2. EvaluatedInTick = 0 /\ EvaluatedInTick' = 0
    BY <2>1 DEF EvaluatedInTick
  <2>3. (tick - from - Begun)' = ticks
    BY <2>1 DEF ticks
  <2>4. fetched' = FirstOf(AdaptiveMetrics, i' - 1)
    <3>1. fetched = FirstOf(AdaptiveMetrics, i - 1)
      BY <1>b, <2>1 DEF Complete
    <3>2. i - 1 \in Nat /\ i' - 1 = (i - 1) + 1 /\ (i - 1) + 1 = i
      BY <1>b, <2>1 DEF Numbers
    <3>3. FirstOf(AdaptiveMetrics, (i - 1) + 1)
            = FirstOf(AdaptiveMetrics, i - 1) \cup {AdaptiveMetrics[(i - 1) + 1]}
      BY <3>2, NextName
    <3>4. QED
      BY <2>1, <3>1, <3>2, <3>3
  <2>5. QED
    BY <1>b, <1>f, <2>1, <2>2, <2>3, <2>4 DEF Numbers, Complete
<1>5. CASE MetricFails
  BY <1>5, <1>b DEF MetricFails, Numbers
<1>6. CASE SkipTick
  <2>1. /\ queryErrors = 0
        /\ stage = "metrics" /\ i > Len(AdaptiveMetrics)
        /\ Len(AdaptiveMetrics) > 0 /\ fetched = {}
    BY <1>6 DEF SkipTick
  <2>2. i - 1 = Len(AdaptiveMetrics)
    BY <1>b, <1>c, <2>1 DEF Places, Numbers
  <2>3. AdaptiveMetrics[1] \in FirstOf(AdaptiveMetrics, i - 1)
    <3>1. 1 \in 1 .. i - 1
      BY <1>c, <2>1, <2>2
    <3>2. QED
      BY <3>1 DEF FirstOf
  <2>4. QED
    BY <1>b, <2>1, <2>3 DEF Complete
<1>7. CASE EvaluateMetrics
  <2>1. /\ UNCHANGED <<queryErrors, skipped, tick, from>>
        /\ stage = "metrics" /\ stage' = "static" /\ i' = 1
        /\ i > Len(AdaptiveMetrics)
        /\ evaluated' = evaluated + Cardinality(fetched)
    BY <1>7 DEF EvaluateMetrics
  <2>2. Cardinality(fetched) = Len(AdaptiveMetrics)
    <3>1. i - 1 = Len(AdaptiveMetrics)
      BY <1>b, <1>c, <2>1 DEF Places, Numbers
    <3>2. fetched = FirstOf(AdaptiveMetrics, Len(AdaptiveMetrics))
      BY <1>b, <2>1, <3>1 DEF Complete
    <3>3. Len(AdaptiveMetrics) \in 0 .. Len(AdaptiveMetrics)
      BY <1>c
    <3>4. QED
      BY <3>2, <3>3, FirstNames
  <2>3. EvaluatedInTick = 0 /\ EvaluatedInTick' = Len(AdaptiveMetrics)
    <3>1. EvaluatedInTick' = Len(AdaptiveMetrics) + 1 - 1
      BY <2>1 DEF EvaluatedInTick
    <3>2. EvaluatedInTick = 0
      BY <2>1 DEF EvaluatedInTick
    <3>3. QED
      BY <1>c, <3>1, <3>2
  <2>4. (tick - from - Begun)' = ticks
    BY <2>1 DEF ticks
  <2>5. QED
    BY <1>b, <1>c, <1>f, <2>1, <2>2, <2>3, <2>4 DEF Numbers, Complete
<1>8. CASE StaticAnswers
  <2>1. /\ UNCHANGED <<queryErrors, skipped, tick, from>>
        /\ stage = "static" /\ stage' = "static" /\ i' = i + 1
        /\ evaluated' = evaluated + 1
    BY <1>8 DEF StaticAnswers
  <2>2. EvaluatedInTick' = EvaluatedInTick + 1
    <3>1. /\ EvaluatedInTick = Len(AdaptiveMetrics) + i - 1
          /\ EvaluatedInTick' = Len(AdaptiveMetrics) + i' - 1
      BY <2>1 DEF EvaluatedInTick
    <3>2. QED
      BY <1>c, <1>d, <2>1, <3>1
  <2>3. (tick - from - Begun)' = ticks
    BY <2>1 DEF ticks
  <2>4. QED
    BY <1>b, <1>f, <1>g, <2>1, <2>2, <2>3 DEF Numbers, Complete
<1>9. CASE StaticFails
  BY <1>9, <1>b DEF StaticFails, Numbers
<1>10. CASE StaticDone
  <2>1. /\ UNCHANGED <<queryErrors, skipped, tick, from, evaluated>>
        /\ stage = "static" /\ stage' = "logs" /\ i' = 1 /\ i > Len(StaticRules)
    BY <1>10 DEF StaticDone
  <2>2. i = Len(StaticRules) + 1
    BY <1>b, <1>c, <2>1 DEF Places, Numbers
  <2>3. EvaluatedInTick' = EvaluatedInTick
    BY <1>c, <2>1, <2>2 DEF EvaluatedInTick
  <2>4. (tick - from - Begun)' = ticks
    BY <2>1 DEF ticks
  <2>5. QED
    BY <1>b, <1>f, <1>g, <2>1, <2>3, <2>4 DEF Numbers, Complete
<1>11. CASE LogAnswers
  <2>1. /\ UNCHANGED <<queryErrors, skipped, tick, from>>
        /\ stage = "logs" /\ stage' = "logs" /\ i' = i + 1
        /\ evaluated' = evaluated + 1
    BY <1>11 DEF LogAnswers
  <2>2. EvaluatedInTick' = EvaluatedInTick + 1
    <3>1. /\ EvaluatedInTick = Len(AdaptiveMetrics) + Len(StaticRules) + i - 1
          /\ EvaluatedInTick' = Len(AdaptiveMetrics) + Len(StaticRules) + (i + 1) - 1
      BY <2>1 DEF EvaluatedInTick
    <3>2. i \in Int
      BY <1>b DEF Numbers
    <3>3. QED
      BY <1>c, <3>1, <3>2
  <2>3. (tick - from - Begun)' = ticks
    BY <2>1 DEF ticks
  <2>4. QED
    BY <1>b, <1>f, <1>g, <2>1, <2>2, <2>3 DEF Numbers, Complete
<1>12. CASE LogFails
  BY <1>12, <1>b DEF LogFails, Numbers
\* The tick's rules make up one more full tick.
<1>13. CASE EndTick
  <2>1. /\ UNCHANGED <<queryErrors, skipped, tick, from, evaluated>>
        /\ stage = "logs" /\ stage' = "tick" /\ i > Len(LogPatterns)
    BY <1>13 DEF EndTick
  <2>2. i = Len(LogPatterns) + 1
    BY <1>b, <1>c, <2>1 DEF Places, Numbers
  <2>3. EvaluatedInTick = Rules
    BY <1>c, <2>1, <2>2 DEF EvaluatedInTick
  <2>4. evaluated = ticks * Rules + Rules
    BY <1>b, <2>1, <2>3 DEF Complete, ticks
  <2>5. tick' - from' - Begun' = ticks + 1
    BY <1>b, <2>1 DEF ticks, Numbers
  <2>6. (ticks + 1) * Rules = ticks * Rules + Rules
    BY <1>c, <1>e, Distribute
  <2>7. EvaluatedInTick' = 0
    BY <2>1 DEF EvaluatedInTick
  <2>8. evaluated' = (tick' - from' - Begun') * Rules' + EvaluatedInTick'
    <3>1. Rules' = Rules
      BY DEF Rules
    <3>2. QED
      BY <1>e, <1>c, <2>1, <2>4, <2>5, <2>6, <2>7, <3>1
  <2>9. skipped' = 0
    BY <1>b, <2>1 DEF Complete
  <2> HIDE DEF Begun
  <2>10. QED
    BY <2>1, <2>8, <2>9 DEF Complete
<1>14. CASE Write
  <2>1. /\ UNCHANGED <<queryErrors, skipped, evaluated, tick, from>>
        /\ stage = "done" /\ stage' = "written"
    BY <1>14 DEF Write
  <2>2. EvaluatedInTick = 0 /\ EvaluatedInTick' = 0
    BY <2>1 DEF EvaluatedInTick
  <2>3. (tick - from - Begun)' = ticks
    BY <2>1 DEF ticks
  <2>4. QED
    BY <1>b, <1>f, <2>1, <2>2, <2>3 DEF Numbers, Complete
<1>15. CASE Interrupt
  <2>1. UNCHANGED <<queryErrors, skipped, evaluated, tick, from, stage, i, fetched>>
    BY <1>15 DEF Interrupt
  <2>2. EvaluatedInTick' = EvaluatedInTick
    BY <2>1 DEF EvaluatedInTick
  <2>3. (tick - from - Begun)' = ticks
    BY <2>1 DEF ticks
  <2>4. QED
    BY <1>b, <1>f, <1>g, <2>1, <2>2, <2>3 DEF Numbers, Complete
<1>16. QED
  BY <1>1, <1>2, <1>3, <1>4, <1>5, <1>6, <1>7, <1>8, <1>9, <1>10, <1>11, <1>12, <1>13,
     <1>14, <1>15 DEF Next, Run

LEMMA NextNothingLeftOut ==
    ASSUME IInv, Next PROVE NothingLeftOut'
<1> USE DEF window, loop, counters, output
<1>b. Numbers /\ Labels /\ Places /\ NothingLeftOut
  BY DEF IInv, Types
<1>1. queryErrors' = 0 => Complete'
  BY NextComplete
\* A status is given at the end of the loop.
<1>2. ASSUME UNCHANGED status, stage \notin {"done", "written"}
      PROVE  NothingLeftOut'
  <2>1. status' = NoStatus /\ status' \notin {"anomalies_detected", "no_anomalies"}
    BY <1>2, NoStatusYet
  <2>2. QED
    BY <1>1, <2>1 DEF NothingLeftOut, StatusHonest
<1>3. CASE StartTick
  <2>1. ASSUME NEW partial, partial \/ tick + 1 > to, Finish(partial)
        PROVE  NothingLeftOut'
    <3>1. /\ stage = "tick" /\ stage' = "done"
          /\ UNCHANGED <<queryErrors, evaluated, tick, from, to>>
          /\ status' = StatusOf(partial)
      BY <1>3, <2>1 DEF StartTick, Finish
    <3>2. ASSUME status' \in {"anomalies_detected", "no_anomalies"}
          PROVE  evaluated' = (to' - from') * Rules'
      <4>1. ~partial /\ ~(queryErrors > 0)
        BY <3>1, <3>2 DEF StatusOf
      <4>2. queryErrors = 0 /\ tick = to
        BY <1>b, <2>1, <3>1, <4>1 DEF Numbers, Places
      <4>3. evaluated = (tick - from - 0) * Rules + 0
        BY <1>b, <3>1, <4>2 DEF NothingLeftOut, Complete, Begun, EvaluatedInTick
      <4>4. tick - from - 0 = to - from /\ (to - from) * Rules \in Int
        BY <1>b, <4>2, Distribute, RulesType DEF Numbers
      <4>5. evaluated = (to - from) * Rules
        BY <4>3, <4>4
      <4>6. Rules' = Rules
        BY DEF Rules
      <4>7. QED
        BY <3>1, <4>5, <4>6
    <3>3. QED
      BY <1>1, <3>1, <3>2 DEF NothingLeftOut, StatusHonest
  <2>2. ASSUME ~interrupted, ~(tick + 1 > to) PROVE NothingLeftOut'
    BY <1>2, <1>3, <2>2 DEF StartTick
  <2>3. QED
    BY <1>3, <2>1, <2>2 DEF StartTick
<1>4. CASE Write
  <2>1. /\ stage' = "written" /\ UNCHANGED <<status, evaluated, from, to>>
    BY <1>4 DEF Write
  <2>2. Rules' = Rules
    BY DEF Rules
  <2>3. QED
    BY <1>1, <1>b, <2>1, <2>2 DEF NothingLeftOut, StatusHonest
<1>5. CASE Parse
  BY <1>2, <1>5 DEF Parse
<1>6. CASE EndTick
  BY <1>2, <1>6 DEF EndTick
<1>7. CASE Preflight \/ MetricAnswers \/ MetricFails \/ SkipTick \/ EvaluateMetrics
  BY <1>2, <1>7 DEF Preflight, MetricAnswers, MetricFails, SkipTick, EvaluateMetrics
<1>8. CASE StaticAnswers \/ StaticFails \/ StaticDone \/ LogAnswers \/ LogFails
  BY <1>2, <1>8 DEF StaticAnswers, StaticFails, StaticDone, LogAnswers, LogFails
<1>9. CASE Interrupt
  BY <1>2, <1>9 DEF Interrupt
<1>10. QED
  BY <1>3, <1>4, <1>5, <1>6, <1>7, <1>8, <1>9 DEF Next, Run

-----------------------------------------------------------------------------
(* The anomalies *)

LEMMA DisjointUnion ==
    ASSUME NEW S, NEW T, IsFiniteSet(S), IsFiniteSet(T), S \cap T = {}
    PROVE  /\ Cardinality(S) \in Nat /\ Cardinality(T) \in Nat
           /\ Cardinality(S \cup T) = Cardinality(S) + Cardinality(T)
<1>1. Cardinality(S \cap T) = 0
  BY FS_EmptySet
<1>2. Cardinality(S) \in Nat /\ Cardinality(T) \in Nat
  BY FS_CardinalityType
<1>3. Cardinality(S \cup T) = Cardinality(S) + Cardinality(T) - Cardinality(S \cap T)
  BY FS_Union
<1>4. QED
  BY <1>1, <1>2, <1>3

\* Nothing is found outside a tick.
LEMMA NothingFound ==
    ASSUME IInv, stage \notin {"static", "logs"} PROVE found = {}
<1>1. EvaluatedNames = {}
  BY DEF EvaluatedNames
<1>2. \A s \in found : s[1] \in EvaluatedNames
  BY DEF IInv, Findings
<1>3. QED
  BY <1>1, <1>2

\* The name of a rule is not among those before it.
LEMMA NewName ==
    ASSUME NEW rules \in {AdaptiveMetrics, StaticRules, LogPatterns},
           NEW n \in Nat \ {0}, n <= Len(rules)
    PROVE  rules[n] \in NamesOf(rules) /\ rules[n] \notin FirstOf(rules, n - 1)
<1>1. n \in 1 .. Len(rules) /\ \A r \in 1 .. n - 1 : r \in 1 .. Len(rules) /\ r # n
  BY RuleLists
<1>2. \A r \in 1 .. n - 1 : rules[r] # rules[n]
  BY <1>1, RuleLists
<1>3. rules[n] \in NamesOf(rules)
  BY <1>1, RuleLists DEF NamesOf
<1>4. QED
  BY <1>2, <1>3 DEF FirstOf

LEMMA StaticNameIsNew ==
    ASSUME IInv, StaticAnswers
    PROVE  /\ StaticRules[i] \notin EvaluatedNames
           /\ EvaluatedNames' = EvaluatedNames \cup {StaticRules[i]}
<1>1. /\ stage = "static" /\ stage' = "static" /\ i' = i + 1 /\ i <= Len(StaticRules)
      /\ i \in Nat \ {0}
  BY DEF IInv, Types, Numbers, StaticAnswers
<1>2. EvaluatedNames = NamesOf(AdaptiveMetrics) \cup FirstOf(StaticRules, i - 1)
  BY <1>1 DEF EvaluatedNames
<1>3. EvaluatedNames' = NamesOf(AdaptiveMetrics) \cup FirstOf(StaticRules, i)
  <2>1. EvaluatedNames' = NamesOf(AdaptiveMetrics) \cup FirstOf(StaticRules, i' - 1)
    BY <1>1 DEF EvaluatedNames, NamesOf, FirstOf
  <2>2. i' - 1 = i
    BY <1>1
  <2>3. QED
    BY <2>1, <2>2
<1>4. FirstOf(StaticRules, i) = FirstOf(StaticRules, i - 1) \cup {StaticRules[i]}
  <2>1. i - 1 \in Nat /\ (i - 1) + 1 = i
    BY <1>1
  <2>2. QED
    BY <2>1, NextName
<1>5. StaticRules[i] \in NamesOf(StaticRules) /\ StaticRules[i] \notin FirstOf(StaticRules, i - 1)
  BY <1>1, NewName
<1>6. QED
  BY <1>2, <1>3, <1>4, <1>5, NamesApart

LEMMA LogNameIsNew ==
    ASSUME IInv, LogAnswers
    PROVE  /\ LogPatterns[i] \notin EvaluatedNames
           /\ EvaluatedNames' = EvaluatedNames \cup {LogPatterns[i]}
<1>1. /\ stage = "logs" /\ stage' = "logs" /\ i' = i + 1 /\ i <= Len(LogPatterns)
      /\ i \in Nat \ {0}
  BY DEF IInv, Types, Numbers, LogAnswers
<1>2. EvaluatedNames = NamesOf(AdaptiveMetrics) \cup NamesOf(StaticRules)
                       \cup FirstOf(LogPatterns, i - 1)
  BY <1>1 DEF EvaluatedNames
<1>3. EvaluatedNames' = NamesOf(AdaptiveMetrics) \cup NamesOf(StaticRules)
                        \cup FirstOf(LogPatterns, i)
  <2>1. EvaluatedNames' = NamesOf(AdaptiveMetrics) \cup NamesOf(StaticRules)
                          \cup FirstOf(LogPatterns, i' - 1)
    BY <1>1 DEF EvaluatedNames, NamesOf, FirstOf
  <2>2. i' - 1 = i
    BY <1>1
  <2>3. QED
    BY <2>1, <2>2
<1>4. FirstOf(LogPatterns, i) = FirstOf(LogPatterns, i - 1) \cup {LogPatterns[i]}
  <2>1. i - 1 \in Nat /\ (i - 1) + 1 = i
    BY <1>1
  <2>2. QED
    BY <2>1, NextName
<1>5. LogPatterns[i] \in NamesOf(LogPatterns) /\ LogPatterns[i] \notin FirstOf(LogPatterns, i - 1)
  BY <1>1, NewName
<1>6. QED
  BY <1>2, <1>3, <1>4, <1>5, NamesApart

\* The counters behind Lost, as numbers: what a detection step adds, and what EndTick
\* moves from the found to the filtered and the reported.
LEMMA Balance ==
    ASSUME NEW a \in Int, NEW b \in Int, NEW c \in Int, NEW r \in Int, NEW d \in Int,
           NEW n \in Int
    PROVE  /\ (a + n) - (b + n) - c - r - d = a - b - c - r - d
           /\ (a + n) - b - c - r - (d + n) = a - b - c - r - d
OBVIOUS

LEMMA EndBalance ==
    ASSUME NEW a \in Int, NEW b \in Int, NEW c \in Int, NEW r \in Int, NEW d \in Int,
           NEW p \in Int, NEW q \in Int
    PROVE  a - b - (c + q) - (r + d) - 0 = (a - b - c - r - (p + q)) + p - d
OBVIOUS

\* What a detection step finds is new, so that it is counted once.
LEMMA DetectsAccounts ==
    ASSUME IInv, NEW S \in SUBSET DOMAIN History, Detects(S), S \cap found = {},
           UNCHANGED <<filtered, report>>
    PROVE  Accounts'
<1>1. PICK anomalies \in SUBSET S :
        /\ fired' = fired + Cardinality(anomalies)
        /\ warmupSkipped' = warmupSkipped + IF IsWarmUp THEN Cardinality(anomalies) ELSE 0
        /\ found' = found \cup IF IsWarmUp THEN {} ELSE anomalies
  BY DEF Detects
<1>2. Numbers /\ Collections /\ Accounts
  BY DEF IInv, Types
<1>3. IsFiniteSet(found) /\ IsFiniteSet(anomalies) /\ Cardinality(anomalies) \in Nat
      /\ Cardinality(found) \in Nat /\ Cardinality(report) \in Nat
  BY <1>2, SeriesAreFinite, FS_CardinalityType DEF Collections
<1>4. /\ fired \in Int /\ warmupSkipped \in Int /\ filtered \in Int
      /\ Cardinality(report) \in Int /\ Cardinality(found) \in Int
      /\ Cardinality(anomalies) \in Int
  BY <1>2, <1>3 DEF Numbers
<1>5. Lost' = Lost
  <2>1. CASE IsWarmUp
    <3>1. found' = found
      BY <1>1, <2>1
    <3>2. Cardinality(found') = Cardinality(found) /\ Cardinality(report') = Cardinality(report)
      BY <3>1
    <3>3. /\ fired' = fired + Cardinality(anomalies)
          /\ warmupSkipped' = warmupSkipped + Cardinality(anomalies)
          /\ filtered' = filtered
      BY <1>1, <2>1
    <3>4. Lost' = (fired + Cardinality(anomalies)) - (warmupSkipped + Cardinality(anomalies))
                  - filtered - Cardinality(report) - Cardinality(found)
      BY <3>2, <3>3 DEF Lost
    <3>5. QED
      BY <1>4, <3>4, Balance DEF Lost
  <2>2. CASE ~IsWarmUp
    <3>1. found' = found \cup anomalies /\ found \cap anomalies = {}
      BY <1>1, <2>2
    <3>2. Cardinality(found \cup anomalies) = Cardinality(found) + Cardinality(anomalies)
      BY <1>3, <3>1, DisjointUnion
    <3>3. Cardinality(found') = Cardinality(found) + Cardinality(anomalies)
          /\ Cardinality(report') = Cardinality(report)
      BY <3>1, <3>2
    <3>4. fired' = fired + Cardinality(anomalies) /\ filtered' = filtered
          /\ warmupSkipped' = warmupSkipped
      BY <1>1, <1>4, <2>2
    <3>5. Lost' = (fired + Cardinality(anomalies)) - warmupSkipped - filtered
                  - Cardinality(report) - (Cardinality(found) + Cardinality(anomalies))
      BY <3>3, <3>4 DEF Lost
    <3>6. QED
      BY <1>4, <3>5, Balance DEF Lost
  <2>3. QED
    BY <2>1, <2>2
<1>6. QED
  BY <1>2, <1>5 DEF Accounts

\* Only the cap makes an accepted anomaly disappear.
LEMMA EndTickAccounts ==
    ASSUME IInv, EndTick PROVE Accounts'
<1>1. PICK accepted \in SUBSET found :
        /\ filtered' = filtered + Cardinality(found \ accepted)
        /\ \E added \in SUBSET accepted :
            /\ Cardinality(added) =
                 IF Cardinality(accepted) <= Room THEN Cardinality(accepted) ELSE Room
            /\ report' = report \cup {Entry(s) : s \in added}
  BY DEF EndTick
<1>2. PICK added \in SUBSET accepted :
        /\ Cardinality(added) =
             IF Cardinality(accepted) <= Room THEN Cardinality(accepted) ELSE Room
        /\ report' = report \cup {Entry(s) : s \in added}
  BY <1>1
<1>3. Numbers /\ Collections /\ Accounts /\ Findings /\ stage = "logs"
  BY DEF IInv, Types, EndTick
<1>4. /\ accepted \in SUBSET DOMAIN History /\ added \in SUBSET DOMAIN History
      /\ (found \ accepted) \in SUBSET DOMAIN History
  BY <1>3 DEF Collections
<1>5. Cardinality(found) = Cardinality(accepted) + Cardinality(found \ accepted)
  <2>1. accepted \cup (found \ accepted) = found /\ accepted \cap (found \ accepted) = {}
    OBVIOUS
  <2>2. IsFiniteSet(accepted) /\ IsFiniteSet(found \ accepted)
    BY <1>4, SeriesAreFinite
  <2>3. Cardinality(accepted \cup (found \ accepted))
          = Cardinality(accepted) + Cardinality(found \ accepted)
    BY <2>1, <2>2, DisjointUnion
  <2>4. QED
    BY <2>1, <2>3
<1>6. Cardinality(report') = Cardinality(report) + Cardinality(added)
  <2> DEFINE new == {Entry(s) : s \in added}
  <2>1. IsFiniteSet(new) /\ Cardinality(new) = Cardinality(added)
    BY <1>4, EntriesCounted
  <2>2. \A a \in new : a.tick = tick
    BY DEF Entry
  <2>3. \A a \in report : a.tick # tick
    <3>1. \A a \in report : a.tick \in Int /\ a.tick <= tick - 1
      BY <1>3 DEF Findings, Begun, Collections
    <3>2. QED
      BY <1>3, <3>1 DEF Numbers
  <2>4. report' = report \cup new
    BY <1>2
  <2>5. IsFiniteSet(report)
    BY <1>3 DEF Collections
  <2> HIDE DEF new
  <2>6. report \cap new = {}
    BY <2>2, <2>3
  <2>7. Cardinality(report \cup new) = Cardinality(report) + Cardinality(new)
    BY <2>1, <2>5, <2>6, DisjointUnion
  <2>8. QED
    BY <2>1, <2>4, <2>7
<1>7. Cardinality(found') = 0
  BY FS_EmptySet DEF EndTick
<1>8. /\ Cardinality(accepted) \in Nat /\ Cardinality(added) \in Nat
      /\ Cardinality(found \ accepted) \in Nat /\ Cardinality(report) \in Nat
  BY <1>3, <1>4, SeriesAreFinite, FS_CardinalityType DEF Collections
<1>9. Lost' = Lost + Cardinality(accepted) - Cardinality(added)
  <2>1. UNCHANGED <<fired, warmupSkipped>>
    BY DEF EndTick
  <2>2. Lost' = fired - warmupSkipped - (filtered + Cardinality(found \ accepted))
                - (Cardinality(report) + Cardinality(added)) - 0
    BY <1>1, <1>6, <1>7, <2>1 DEF Lost
  <2>3. Lost = fired - warmupSkipped - filtered - Cardinality(report)
               - (Cardinality(accepted) + Cardinality(found \ accepted))
    BY <1>5 DEF Lost
  <2>4. /\ fired \in Int /\ warmupSkipped \in Int /\ filtered \in Int
        /\ Cardinality(report) \in Int /\ Cardinality(added) \in Int
        /\ Cardinality(accepted) \in Int /\ Cardinality(found \ accepted) \in Int
    BY <1>3, <1>8 DEF Numbers
  <2>5. QED
    BY <2>2, <2>3, <2>4, EndBalance
<1>10. Lost \in Int /\ MaxAnomalies \in Nat
  <2>1. Cardinality(found) \in Int
    BY <1>5, <1>8
  <2>2. QED
    BY <1>3, <1>8, <2>1, OptionsAssumption DEF Lost, Numbers
<1>11. CASE Cardinality(accepted) <= Room
  <2>1. Cardinality(added) = Cardinality(accepted) /\ Lost' = Lost
    BY <1>2, <1>8, <1>9, <1>10, <1>11
  <2>2. MaxAnomalies # 0 => Cardinality(report) + Cardinality(added) <= MaxAnomalies
    BY <1>8, <1>10, <1>11, <2>1 DEF Room
  <2>3. Lost > 0 => MaxAnomalies # 0 /\ Cardinality(report') = MaxAnomalies
    <3>1. ASSUME Lost > 0
          PROVE  MaxAnomalies # 0 /\ Cardinality(report) = MaxAnomalies
      BY <1>3, <3>1 DEF Accounts
    <3>2. QED
      BY <1>6, <1>8, <1>10, <2>2, <3>1
  <2>4. QED
    BY <1>3, <1>6, <2>1, <2>2, <2>3 DEF Accounts
<1>12. CASE ~(Cardinality(accepted) <= Room)
  <2>1. MaxAnomalies # 0
    <3>1. ASSUME MaxAnomalies = 0 PROVE FALSE
      <4>1. Room = Cardinality(found)
        BY <3>1 DEF Room
      <4>2. QED
        BY <1>5, <1>8, <1>12, <4>1
    <3>2. QED
      BY <3>1
  <2>2. Room = MaxAnomalies - Cardinality(report)
    BY <2>1 DEF Room
  <2>3. Cardinality(added) = Room
    BY <1>2, <1>12
  <2>4. Cardinality(report') = MaxAnomalies
    BY <1>6, <1>8, <1>10, <2>2, <2>3
  <2>5. Cardinality(accepted) > Cardinality(added)
    BY <1>8, <1>10, <1>12, <2>2, <2>3
  <2>6. Lost' >= 0
    BY <1>3, <1>8, <1>9, <1>10, <2>5 DEF Accounts
  <2>7. QED
    BY <1>10, <2>1, <2>4, <2>6 DEF Accounts
<1>13. QED
  BY <1>11, <1>12

LEMMA NextAccounts ==
    ASSUME IInv, Next PROVE Accounts'
<1> USE DEF window, loop, counters, output
<1>b. Accounts /\ warmupSkipped \in Nat
  BY DEF IInv, Types, Numbers
<1>1. ASSUME UNCHANGED <<fired, warmupSkipped, filtered, report, found>>
      PROVE  Accounts'
  BY <1>b, <1>1 DEF Accounts, Lost
<1>2. CASE EvaluateMetrics
  <2> DEFINE S == UNION {SeriesAt(rule, from, tick) : rule \in fetched}
  <2>1. S \in SUBSET DOMAIN History
    BY DEF SeriesAt
  <2>2. Evaluate(S) /\ found = {} /\ UNCHANGED <<filtered, report>>
    BY <1>2, NothingFound DEF EvaluateMetrics
  <2> HIDE DEF S
  <2>3. QED
    BY <1>b, <2>1, <2>2, EvaluateDetects, DetectsAccounts
<1>3. CASE StaticAnswers
  <2> DEFINE S == SeriesAt(StaticRules[i], from, tick)
  <2>1. S \in SUBSET DOMAIN History
    BY DEF SeriesAt
  <2>2. \A s \in S : s[1] = StaticRules[i]
    BY SeriesOfRule
  <2>3. \A s \in found : s[1] # StaticRules[i]
    BY <1>3, StaticNameIsNew DEF IInv, Findings
  <2>4. Detects(S)
    BY <1>b, <1>3, StaticDetects
  <2>5. UNCHANGED <<filtered, report>>
    BY <1>3 DEF StaticAnswers
  <2> HIDE DEF S
  <2>6. QED
    BY <2>1, <2>2, <2>3, <2>4, <2>5, DetectsAccounts
<1>4. CASE LogAnswers
  <2> DEFINE S == SeriesAt(LogPatterns[i], from, tick)
  <2>1. S \in SUBSET DOMAIN History
    BY DEF SeriesAt
  <2>2. \A s \in S : s[1] = LogPatterns[i]
    BY SeriesOfRule
  <2>3. \A s \in found : s[1] # LogPatterns[i]
    BY <1>4, LogNameIsNew DEF IInv, Findings
  <2>4. Evaluate(S) /\ UNCHANGED <<filtered, report>>
    BY <1>4 DEF LogAnswers
  <2> HIDE DEF S
  <2>5. QED
    BY <1>b, <2>1, <2>2, <2>3, <2>4, EvaluateDetects, DetectsAccounts
<1>5. CASE EndTick
  BY <1>5, EndTickAccounts
<1>6. CASE StartTick
  <2>1. ASSUME NEW partial, Finish(partial) PROVE Accounts'
    BY <1>1, <2>1 DEF Finish
  <2>2. ASSUME ~interrupted, ~(tick + 1 > to) PROVE Accounts'
    <3>1. found' = found
      BY <1>6, <2>2, NothingFound DEF StartTick
    <3>2. QED
      BY <1>1, <1>6, <2>2, <3>1 DEF StartTick
  <2>3. QED
    BY <1>6, <2>1, <2>2 DEF StartTick
<1>7. CASE Parse \/ Preflight \/ MetricAnswers \/ MetricFails \/ SkipTick
  BY <1>1, <1>7 DEF Parse, Preflight, MetricAnswers, MetricFails, SkipTick
<1>8. CASE StaticFails \/ StaticDone \/ LogFails \/ Write \/ Interrupt
  BY <1>1, <1>8 DEF StaticFails, StaticDone, LogFails, Write, Interrupt
<1>9. QED
  BY <1>2, <1>3, <1>4, <1>5, <1>6, <1>7, <1>8 DEF Next, Run

LEMMA DetectsFindings ==
    ASSUME IInv, NEW S, Detects(S), \A s \in S : s[1] \in EvaluatedNames',
           EvaluatedNames \subseteq EvaluatedNames',
           UNCHANGED <<from, to, tick, report>>, Begun' = Begun,
           stage' \notin {"parse", "preflight"}
    PROVE  Findings'
<1>1. PICK anomalies \in SUBSET S :
        found' = found \cup IF IsWarmUp THEN {} ELSE anomalies
  BY DEF Detects
<1>2. Findings
  BY DEF IInv
<1>3. WarmUpEnd(from, to)' = WarmUpEnd(from, to) /\ IsWarmUp' = IsWarmUp
  BY DEF IsWarmUp, WarmUpEnd
<1>4. \A s \in found' : s[1] \in EvaluatedNames'
  BY <1>1, <1>2 DEF Findings
<1>5. found' # {} => ~IsWarmUp'
  BY <1>1, <1>2, <1>3 DEF Findings
<1>6. \A a \in report' : WarmUpEnd(from, to)' <= a.tick /\ a.tick <= tick' - Begun'
  BY <1>2, <1>3 DEF Findings
<1>7. QED
  BY <1>4, <1>5, <1>6 DEF Findings

LEMMA NextFindings ==
    ASSUME IInv, Next PROVE Findings'
<1> USE DEF window, loop, counters, output
<1>b. Numbers /\ Collections /\ Findings
  BY DEF IInv, Types
\* A step that finds nothing.
<1>1. ASSUME UNCHANGED <<from, to, tick, report, found>>, Begun' = Begun,
             EvaluatedNames \subseteq EvaluatedNames',
             stage' \in {"parse", "preflight"} => report = {}
      PROVE  Findings'
  <2>1. WarmUpEnd(from, to)' = WarmUpEnd(from, to) /\ IsWarmUp' = IsWarmUp
    BY <1>1 DEF IsWarmUp, WarmUpEnd
  <2>2. QED
    BY <1>b, <1>1, <2>1 DEF Findings
\* A step that starts or ends a tick.
<1>2. ASSUME found' = {}, report' = {} PROVE Findings'
  BY <1>2 DEF Findings
<1>3. CASE Parse
  BY <1>2, <1>3, <1>b, NothingFound DEF Parse, Findings
<1>4. CASE Preflight
  BY <1>2, <1>4, <1>b, NothingFound DEF Preflight, Findings
<1>5. CASE StartTick
  <2>1. ASSUME NEW partial, Finish(partial) PROVE Findings'
    <3>1. /\ stage = "tick" /\ stage' = "done"
          /\ UNCHANGED <<from, to, tick, report, found>>
      BY <1>5, <2>1 DEF StartTick, Finish
    <3>2. Begun' = Begun /\ EvaluatedNames = {}
      BY <3>1 DEF Begun, EvaluatedNames
    <3>3. QED
      BY <1>1, <3>1, <3>2
  <2>2. ASSUME ~interrupted, ~(tick + 1 > to) PROVE Findings'
    <3>1. /\ tick' = tick + 1 /\ stage = "tick" /\ stage' = "metrics" /\ found' = {}
          /\ UNCHANGED <<from, to, report>>
      BY <1>5, <2>2 DEF StartTick
    <3>2. WarmUpEnd(from, to)' = WarmUpEnd(from, to)
      BY <3>1 DEF WarmUpEnd
    <3>3. Begun = 0 /\ Begun' = 1
      BY <3>1 DEF Begun
    <3>4. tick' - Begun' = tick - Begun
      BY <1>b, <3>1, <3>3 DEF Numbers
    <3>5. QED
      BY <1>b, <3>1, <3>2, <3>4 DEF Findings
  <2>3. QED
    BY <1>5, <2>1, <2>2 DEF StartTick
<1>6. CASE MetricAnswers \/ MetricFails
  <2>1. /\ UNCHANGED <<from, to, tick, report, found, stage>> /\ stage = "metrics"
    BY <1>6 DEF MetricAnswers, MetricFails
  <2>2. Begun' = Begun /\ EvaluatedNames = {}
    BY <2>1 DEF Begun, EvaluatedNames
  <2>3. QED
    BY <1>1, <2>1, <2>2
<1>7. CASE SkipTick
  <2>1. /\ stage = "metrics" /\ stage' = "tick"
        /\ UNCHANGED <<from, to, tick, report, found>>
    BY <1>7 DEF SkipTick
  <2>2. found' = {}
    BY <2>1, NothingFound
  <2>3. WarmUpEnd(from, to)' = WarmUpEnd(from, to)
    BY <2>1 DEF WarmUpEnd
  <2>4. \A a \in report : a.tick \in Int /\ a.tick <= tick - 1
    BY <1>b, <2>1 DEF Findings, Begun, Collections
  <2>5. \A a \in report : a.tick <= tick - 0
    BY <1>b, <2>4 DEF Numbers
  <2>6. QED
    BY <1>b, <2>1, <2>2, <2>3, <2>5 DEF Findings, Begun
<1>8. CASE EvaluateMetrics
  <2> DEFINE S == UNION {SeriesAt(rule, from, tick) : rule \in fetched}
  <2>1. /\ stage = "metrics" /\ stage' = "static"
        /\ UNCHANGED <<from, to, tick, report>>
    BY <1>8 DEF EvaluateMetrics
  <2>2. Begun' = Begun /\ EvaluatedNames = {} /\ NamesOf(AdaptiveMetrics) \subseteq EvaluatedNames'
    BY <2>1 DEF Begun, EvaluatedNames, NamesOf, FirstOf
  <2>3. \A s \in S : s[1] \in EvaluatedNames'
    <3>1. \A s \in S : s[1] \in fetched
      BY SeriesOfRule
    <3>2. QED
      BY <1>b, <2>2, <3>1 DEF Collections
  <2>4. Evaluate(S)
    BY <1>8 DEF EvaluateMetrics
  <2> HIDE DEF S
  <2>5. Detects(S)
    BY <1>b, <2>4, EvaluateDetects DEF Numbers
  <2>6. QED
    BY <2>1, <2>2, <2>3, <2>5, DetectsFindings
<1>9. CASE StaticAnswers
  <2> DEFINE S == SeriesAt(StaticRules[i], from, tick)
  <2>1. /\ stage = "static" /\ stage' = "static"
        /\ UNCHANGED <<from, to, tick, report>>
    BY <1>9 DEF StaticAnswers
  <2>2. Begun' = Begun
    BY <2>1 DEF Begun
  <2>3. Detects(S)
    BY <1>9, <1>b, StaticDetects DEF Numbers
  <2>4. \A s \in S : s[1] \in EvaluatedNames'
    BY <1>9, SeriesOfRule, StaticNameIsNew
  <2> HIDE DEF S
  <2>5. QED
    BY <1>9, <2>1, <2>2, <2>3, <2>4, StaticNameIsNew, DetectsFindings
<1>10. CASE StaticDone
  <2>1. /\ stage = "static" /\ stage' = "logs" /\ i' = 1 /\ i > Len(StaticRules)
        /\ UNCHANGED <<from, to, tick, report, found>>
    BY <1>10 DEF StaticDone
  <2>2. i - 1 = Len(StaticRules)
    BY <1>b, <2>1, RuleLists DEF IInv, Places, Numbers
  <2>3. EvaluatedNames = NamesOf(AdaptiveMetrics) \cup NamesOf(StaticRules)
    BY <2>1, <2>2, RuleLists DEF EvaluatedNames
  <2>4. NamesOf(AdaptiveMetrics) \cup NamesOf(StaticRules) \subseteq EvaluatedNames'
    BY <2>1 DEF EvaluatedNames, NamesOf
  <2>5. Begun' = Begun
    BY <2>1 DEF Begun
  <2>6. QED
    BY <1>1, <2>1, <2>3, <2>4, <2>5
<1>11. CASE LogAnswers
  <2> DEFINE S == SeriesAt(LogPatterns[i], from, tick)
  <2>1. /\ stage = "logs" /\ stage' = "logs"
        /\ UNCHANGED <<from, to, tick, report>>
    BY <1>11 DEF LogAnswers
  <2>2. Begun' = Begun
    BY <2>1 DEF Begun
  <2>3. Evaluate(S)
    BY <1>11 DEF LogAnswers
  <2>4. \A s \in S : s[1] \in EvaluatedNames'
    BY <1>11, SeriesOfRule, LogNameIsNew
  <2> HIDE DEF S
  <2>5. Detects(S)
    BY <1>b, <2>3, EvaluateDetects DEF Numbers
  <2>6. QED
    BY <1>11, <2>1, <2>2, <2>4, <2>5, LogNameIsNew, DetectsFindings
<1>12. CASE StaticFails
  <2>1. /\ stage = "static" /\ stage' = "static" /\ i' = i + 1
        /\ UNCHANGED <<from, to, tick, report, found>>
    BY <1>12 DEF StaticFails
  <2>2. EvaluatedNames \subseteq EvaluatedNames'
    <3>1. EvaluatedNames = NamesOf(AdaptiveMetrics) \cup FirstOf(StaticRules, i - 1)
      BY <2>1 DEF EvaluatedNames
    <3>2. EvaluatedNames' = NamesOf(AdaptiveMetrics) \cup FirstOf(StaticRules, (i + 1) - 1)
      BY <2>1 DEF EvaluatedNames, NamesOf, FirstOf
    <3>3. 1 .. i - 1 \subseteq 1 .. (i + 1) - 1
      BY <1>b DEF Numbers
    <3>4. QED
      BY <3>1, <3>2, <3>3 DEF FirstOf
  <2>3. Begun' = Begun
    BY <2>1 DEF Begun
  <2>4. QED
    BY <1>1, <2>1, <2>2, <2>3
<1>13. CASE LogFails
  <2>1. /\ stage = "logs" /\ stage' = "logs" /\ i' = i + 1
        /\ UNCHANGED <<from, to, tick, report, found>>
    BY <1>13 DEF LogFails
  <2>2. EvaluatedNames \subseteq EvaluatedNames'
    <3>1. EvaluatedNames = NamesOf(AdaptiveMetrics) \cup NamesOf(StaticRules)
                           \cup FirstOf(LogPatterns, i - 1)
      BY <2>1 DEF EvaluatedNames
    <3>2. EvaluatedNames' = NamesOf(AdaptiveMetrics) \cup NamesOf(StaticRules)
                            \cup FirstOf(LogPatterns, (i + 1) - 1)
      BY <2>1 DEF EvaluatedNames, NamesOf, FirstOf
    <3>3. 1 .. i - 1 \subseteq 1 .. (i + 1) - 1
      BY <1>b DEF Numbers
    <3>4. QED
      BY <3>1, <3>2, <3>3 DEF FirstOf
  <2>3. Begun' = Begun
    BY <2>1 DEF Begun
  <2>4. QED
    BY <1>1, <2>1, <2>2, <2>3
<1>14. CASE EndTick
  <2>0. PICK accepted \in SUBSET found :
          \E added \in SUBSET accepted : report' = report \cup {Entry(s) : s \in added}
    BY <1>14 DEF EndTick
  <2>1. PICK added \in SUBSET accepted : report' = report \cup {Entry(s) : s \in added}
    BY <2>0
  <2>2. /\ stage = "logs" /\ stage' = "tick" /\ found' = {}
        /\ UNCHANGED <<from, to, tick>>
    BY <1>14 DEF EndTick
  <2>3. WarmUpEnd(from, to)' = WarmUpEnd(from, to) /\ WarmUpEnd(from, to) \in Int
    BY <1>b, <2>2, WarmUpEndType DEF WarmUpEnd, Numbers
  <2>4. \A a \in report : WarmUpEnd(from, to) <= a.tick /\ a.tick <= tick
    <3>1. \A a \in report : a.tick \in Int /\ WarmUpEnd(from, to) <= a.tick /\ a.tick <= tick - 1
      BY <1>b, <2>2 DEF Findings, Begun, Collections
    <3>2. QED
      BY <1>b, <3>1 DEF Numbers
  <2>5. \A s \in added : WarmUpEnd(from, to) <= Entry(s).tick /\ Entry(s).tick <= tick
    <3>1. \A s \in added : Entry(s).tick = tick /\ ~IsWarmUp
      BY <1>b DEF Findings, Entry
    <3>2. QED
      BY <1>b, <2>3, <3>1 DEF IsWarmUp, Numbers
  <2>6. \A a \in report' : WarmUpEnd(from, to)' <= a.tick /\ a.tick <= tick'
    BY <2>1, <2>2, <2>3, <2>4, <2>5
  <2>7. tick' - Begun' = tick'
    BY <1>b, <2>2 DEF Begun, Numbers
  <2>8. QED
    BY <2>2, <2>6, <2>7 DEF Findings
<1>15. CASE Write
  <2>1. /\ stage = "done" /\ stage' = "written"
        /\ UNCHANGED <<from, to, tick, report, found>>
    BY <1>15 DEF Write
  <2>2. Begun' = Begun /\ EvaluatedNames = {}
    BY <2>1 DEF Begun, EvaluatedNames
  <2>3. QED
    BY <1>1, <2>1, <2>2
<1>16. CASE Interrupt
  <2>1. UNCHANGED <<from, to, tick, report, found, stage, i>>
    BY <1>16 DEF Interrupt
  <2>2. Begun' = Begun /\ EvaluatedNames' = EvaluatedNames
    BY <2>1 DEF Begun, EvaluatedNames, NamesOf, FirstOf
  <2>3. QED
    BY <1>1, <1>b, <2>1, <2>2 DEF Findings
<1>17. QED
  BY <1>3, <1>4, <1>5, <1>6, <1>7, <1>8, <1>9, <1>10, <1>11, <1>12, <1>13, <1>14, <1>15,
     <1>16 DEF Next, Run

-----------------------------------------------------------------------------
(* The ground truths *)

\* Only adaptive metrics are injected.
LEMMA NoEntries ==
    ASSUME NEW s, s[1] \notin NamesOf(AdaptiveMetrics)
    PROVE  EntriesFor(s) = {}
<1>1. ASSUME NEW e \in EntriesFor(s) PROVE FALSE
  <2>1. /\ s[1] = Injections[e].rule
        /\ \E m \in DOMAIN AdaptiveMetrics : AdaptiveMetrics[m] = Injections[e].rule
    BY DEF EntriesFor, Targets, Names
  <2>2. QED
    BY <2>1 DEF NamesOf
<1>2. QED
  BY <1>1

\* Truths are never taken back.
LEMMA RecordedStays ==
    ASSUME NEW s, RecordedFor(s), truths \subseteq truths'
    PROVE  RecordedFor(s)'
  BY DEF RecordedFor, KeyOf, FaultOf, EntriesFor, Targets, Names

\* Recording covers every fault of an answered series: the truth itself is recorded,
\* or one with its key was before it.
LEMMA RecordingCovers ==
    ASSUME NEW T, NEW S, NEW s \in S, NEW e \in EntriesFor(s)
    PROVE  \E t \in Recorded(T, S) :
              KeyOf(t) = <<s, Injections[e].type, Injections[e].start>>
<1> DEFINE key == <<s, Injections[e].type, Injections[e].start>>
           new == {t \in GroundTruths(S) : Targets(FaultOf(t), t.target)}
           taken(t) == \/ \E k \in T : KeyOf(k) = KeyOf(t)
                       \/ \E k \in new : KeyOf(k) = KeyOf(t) /\ k.entry < t.entry
           t0 == [entry |-> e, target |-> s]
           alike == {t \in new : KeyOf(t) = key}
           places == {t.entry : t \in alike}
<1>1. Recorded(T, S) = T \cup {t \in new : ~taken(t)}
  BY DEF Recorded
<1>2. t0 \in alike
  <2>1. e \in DOMAIN Injections /\ Targets(Injections[e], s)
    BY DEF EntriesFor
  <2>2. t0 \in GroundTruths(S) /\ FaultOf(t0) = Injections[e] /\ t0.target = s
    BY <2>1 DEF GroundTruths, FaultOf
  <2>3. KeyOf(t0) = key
    BY <2>2 DEF KeyOf
  <2>4. QED
    BY <2>1, <2>2, <2>3
<1>3. \A t \in new : t.entry \in Nat
  <2>1. DOMAIN Injections \subseteq Nat
    BY ReplayAssumption
  <2>2. \A t \in GroundTruths(S) : t.entry \in DOMAIN Injections
    BY DEF GroundTruths
  <2>3. QED
    BY <2>1, <2>2
<1>4. places \subseteq Nat /\ places # {}
  BY <1>2, <1>3
<1> HIDE DEF new, t0, key
<1>5. PICK n \in places : \A m \in places : n <= m
  <2> HIDE DEF places
  <2>1. QED
    BY <1>4, LeastNatural
<1>6. PICK t \in alike : t.entry = n
  OBVIOUS
<1>7. ASSUME NEW k \in new, KeyOf(k) = KeyOf(t) PROVE ~(k.entry < t.entry)
  <2>1. k \in alike
    BY <1>6, <1>7
  <2>2. n <= k.entry /\ k.entry \in Nat /\ n \in Nat
    BY <1>3, <1>4, <1>5, <2>1
  <2>3. QED
    BY <1>6, <2>2
<1>8. CASE \E k \in T : KeyOf(k) = key
  BY <1>1, <1>8 DEF key
<1>9. CASE ~ \E k \in T : KeyOf(k) = key
  <2>1. t \in new /\ KeyOf(t) = key
    BY <1>6
  <2>2. ~taken(t)
    BY <1>7, <1>9, <2>1
  <2>3. t \in Recorded(T, S)
    BY <1>1, <2>1, <2>2
  <2>4. QED
    BY <2>1, <2>3 DEF key
<1>10. QED
  BY <1>8, <1>9

LEMMA RecordedTargets ==
    ASSUME NEW T, NEW S, \A t \in T : Targets(FaultOf(t), t.target)
    PROVE  \A t \in Recorded(T, S) : Targets(FaultOf(t), t.target)
  BY DEF Recorded

LEMMA DetectsTruths ==
    ASSUME IInv, NEW S, Detects(S),
           \A s \in S : Points(s, from, tick) # {} /\ RecordedFor(s),
           UNCHANGED <<from, tick, report, truths>>, stage' # "metrics"
    PROVE  TruthsWhole'
<1>1. PICK anomalies \in SUBSET S :
        found' = found \cup IF IsWarmUp THEN {} ELSE anomalies
  BY DEF Detects
<1>2. TruthsWhole
  BY DEF IInv
<1>3. \A s : RecordedFor(s)' = RecordedFor(s)
  BY DEF RecordedFor
<1>4. \A s \in found' : Points(s, from, tick) # {} /\ RecordedFor(s)
  BY <1>1, <1>2 DEF TruthsWhole
<1>5. \A s \in found' : Points(s, from', tick') # {} /\ RecordedFor(s)'
  BY <1>3, <1>4
<1>6. \A a \in report' : Points(a.series, from', a.tick) # {} /\ RecordedFor(a.series)'
  BY <1>2, <1>3 DEF TruthsWhole
<1>7. \A t \in truths' : Targets(FaultOf(t), t.target)
  BY <1>2 DEF TruthsWhole
<1>8. QED
  BY <1>5, <1>6, <1>7 DEF TruthsWhole

LEMMA NextTruths ==
    ASSUME IInv, Next PROVE TruthsWhole'
<1> USE DEF window, loop, counters, output
<1>b. Numbers /\ Collections /\ TruthsWhole
  BY DEF IInv, Types
<1>r. ASSUME UNCHANGED truths PROVE \A s : RecordedFor(s)' = RecordedFor(s)
  BY <1>r DEF RecordedFor
\* A step that neither finds nor records.
<1>1. ASSUME UNCHANGED <<from, tick, report, truths, found>>,
             stage' = "metrics" => stage = "metrics" /\ fetched' = fetched
      PROVE  TruthsWhole'
  <2>1. \A s \in found' : Points(s, from', tick') # {} /\ RecordedFor(s)'
    BY <1>b, <1>1, <1>r DEF TruthsWhole
  <2>2. \A a \in report' : Points(a.series, from', a.tick) # {} /\ RecordedFor(a.series)'
    BY <1>b, <1>1, <1>r DEF TruthsWhole
  <2>3. stage' = "metrics" =>
          \A rule \in fetched' : \A s \in Answered(rule, from', tick') : RecordedFor(s)'
    BY <1>b, <1>1, <1>r DEF TruthsWhole
  <2>4. \A t \in truths' : Targets(FaultOf(t), t.target)
    BY <1>b, <1>1 DEF TruthsWhole
  <2>5. QED
    BY <2>1, <2>2, <2>3, <2>4 DEF TruthsWhole
\* Before the first tick nothing is found and nothing reported.
<1>2. CASE Parse
  <2>1. found' = {} /\ report' = {} /\ truths' = truths /\ stage' # "metrics"
    <3>1. found = {} /\ report = {}
      BY <1>2, NothingFound DEF Parse, IInv, Findings
    <3>2. QED
      BY <1>2, <3>1 DEF Parse
  <2>2. \A t \in truths' : Targets(FaultOf(t), t.target)
    BY <1>b, <2>1 DEF TruthsWhole
  <2>3. QED
    BY <2>1, <2>2 DEF TruthsWhole
<1>3. CASE StartTick
  <2>1. ASSUME NEW partial, Finish(partial) PROVE TruthsWhole'
    BY <1>1, <2>1 DEF Finish
  <2>2. ASSUME ~interrupted, ~(tick + 1 > to) PROVE TruthsWhole'
    <3>1. /\ stage' = "metrics" /\ found' = {} /\ fetched' = {}
          /\ UNCHANGED <<from, report, truths>>
      BY <1>3, <2>2 DEF StartTick
    <3>2. \A a \in report' : Points(a.series, from', a.tick) # {} /\ RecordedFor(a.series)'
      BY <1>b, <1>r, <3>1 DEF TruthsWhole
    <3>3. \A t \in truths' : Targets(FaultOf(t), t.target)
      BY <1>b, <3>1 DEF TruthsWhole
    <3>4. QED
      BY <3>1, <3>2, <3>3 DEF TruthsWhole
  <2>3. QED
    BY <1>3, <2>1, <2>2 DEF StartTick
<1>4. CASE MetricAnswers
  <2> DEFINE answered == Answered(AdaptiveMetrics[i], from, tick)
  <2>1. /\ UNCHANGED <<from, tick, report, found>> /\ stage = "metrics" /\ stage' = "metrics"
        /\ fetched' = fetched \cup {AdaptiveMetrics[i]}
        /\ truths' = Recorded(truths, answered)
    BY <1>4 DEF MetricAnswers
  <2>2. truths \subseteq truths'
    BY <2>1 DEF Recorded
  <2>3. \A s : RecordedFor(s) => RecordedFor(s)'
    BY <2>2, RecordedStays
  <2>6. \A s \in answered : RecordedFor(s)'
    <3>1. ASSUME NEW s \in answered, NEW e \in EntriesFor(s)
          PROVE  \E t \in truths' : KeyOf(t) = <<s, Injections[e].type, Injections[e].start>>
      <4> HIDE DEF answered
      <4>1. QED
        BY <2>1, RecordingCovers
    <3>2. QED
      BY <3>1 DEF RecordedFor, KeyOf, FaultOf, EntriesFor, Targets, Names
  <2>7. \A t \in truths' : Targets(FaultOf(t), t.target)
    <3>1. \A t \in truths : Targets(FaultOf(t), t.target)
      BY <1>b DEF TruthsWhole
    <3> HIDE DEF answered
    <3>2. QED
      BY <2>1, <3>1, RecordedTargets
  <2>8. \A rule \in fetched' : \A s \in Answered(rule, from, tick) : RecordedFor(s)'
    <3>1. \A rule \in fetched : \A s \in Answered(rule, from, tick) : RecordedFor(s)
      BY <1>b, <2>1 DEF TruthsWhole
    <3>2. QED
      BY <2>1, <2>3, <2>6, <3>1
  <2>9. \A s \in found' : Points(s, from', tick') # {} /\ RecordedFor(s)'
    BY <1>b, <2>1, <2>3 DEF TruthsWhole
  <2>10. \A a \in report' : Points(a.series, from', a.tick) # {} /\ RecordedFor(a.series)'
    BY <1>b, <2>1, <2>3 DEF TruthsWhole
  <2>11. \A rule \in fetched' : \A s \in Answered(rule, from', tick') : RecordedFor(s)'
    BY <2>1, <2>8
  <2>12. QED
    BY <2>7, <2>9, <2>10, <2>11 DEF TruthsWhole
<1>5. CASE EvaluateMetrics
  <2> DEFINE S == UNION {SeriesAt(rule, from, tick) : rule \in fetched}
  <2>1. /\ stage = "metrics" /\ stage' # "metrics"
        /\ UNCHANGED <<from, tick, report, truths>>
    BY <1>5 DEF EvaluateMetrics
  <2>2. \A s \in S : Points(s, from, tick) # {} /\ RecordedFor(s)
    <3>1. ASSUME NEW rule \in fetched, NEW s \in SeriesAt(rule, from, tick)
          PROVE  Points(s, from, tick) # {} /\ RecordedFor(s)
      <4>1. Points(s, from, tick) # {} /\ s \in Answered(rule, from, tick)
        BY SeriesOfRule
      <4>2. RecordedFor(s)
        BY <1>b, <2>1, <4>1 DEF TruthsWhole
      <4>3. QED
        BY <4>1, <4>2
    <3>2. QED
      BY <3>1
  <2>3. Evaluate(S)
    BY <1>5 DEF EvaluateMetrics
  <2> HIDE DEF S
  <2>4. Detects(S)
    BY <1>b, <2>3, EvaluateDetects DEF Numbers
  <2>5. QED
    BY <2>1, <2>2, <2>4, DetectsTruths
\* Static rules and log patterns are never injected: there is nothing to record.
<1>6. CASE StaticAnswers
  <2> DEFINE S == SeriesAt(StaticRules[i], from, tick)
  <2>1. /\ stage = "static" /\ stage' = "static" /\ i <= Len(StaticRules)
        /\ UNCHANGED <<from, tick, report, truths>>
    BY <1>6 DEF StaticAnswers
  <2>2. StaticRules[i] \notin NamesOf(AdaptiveMetrics)
    BY <1>b, <2>1, NewName, NamesApart DEF Numbers
  <2>3. \A s \in S : Points(s, from, tick) # {} /\ RecordedFor(s)
    <3>1. ASSUME NEW s \in S PROVE Points(s, from, tick) # {} /\ RecordedFor(s)
      <4>1. Points(s, from, tick) # {} /\ s[1] = StaticRules[i]
        BY SeriesOfRule
      <4>2. EntriesFor(s) = {}
        BY <2>2, <4>1, NoEntries
      <4>3. QED
        BY <4>1, <4>2 DEF RecordedFor
    <3>2. QED
      BY <3>1
  <2>4. Detects(S)
    BY <1>6, <1>b, StaticDetects DEF Numbers
  <2> HIDE DEF S
  <2>5. QED
    BY <2>1, <2>3, <2>4, DetectsTruths
<1>7. CASE LogAnswers
  <2> DEFINE S == SeriesAt(LogPatterns[i], from, tick)
  <2>1. /\ stage = "logs" /\ stage' = "logs" /\ i <= Len(LogPatterns)
        /\ UNCHANGED <<from, tick, report, truths>>
    BY <1>7 DEF LogAnswers
  <2>2. LogPatterns[i] \notin NamesOf(AdaptiveMetrics)
    BY <1>b, <2>1, NewName, NamesApart DEF Numbers
  <2>3. \A s \in S : Points(s, from, tick) # {} /\ RecordedFor(s)
    <3>1. ASSUME NEW s \in S PROVE Points(s, from, tick) # {} /\ RecordedFor(s)
      <4>1. Points(s, from, tick) # {} /\ s[1] = LogPatterns[i]
        BY SeriesOfRule
      <4>2. EntriesFor(s) = {}
        BY <2>2, <4>1, NoEntries
      <4>3. QED
        BY <4>1, <4>2 DEF RecordedFor
    <3>2. QED
      BY <3>1
  <2>4. Evaluate(S)
    BY <1>7 DEF LogAnswers
  <2> HIDE DEF S
  <2>5. Detects(S)
    BY <1>b, <2>4, EvaluateDetects DEF Numbers
  <2>6. QED
    BY <2>1, <2>3, <2>5, DetectsTruths
\* What was found becomes the report's, at the tick of its samples.
<1>8. CASE EndTick
  <2>0. PICK accepted \in SUBSET found :
          \E added \in SUBSET accepted : report' = report \cup {Entry(s) : s \in added}
    BY <1>8 DEF EndTick
  <2>1. PICK added \in SUBSET accepted : report' = report \cup {Entry(s) : s \in added}
    BY <2>0
  <2>2. /\ stage' = "tick" /\ found' = {} /\ UNCHANGED <<from, tick, truths>>
    BY <1>8 DEF EndTick
  <2>3. ASSUME NEW s \in added
        PROVE  Points(Entry(s).series, from, Entry(s).tick) # {} /\ RecordedFor(Entry(s).series)
    <3>1. Entry(s).series = s /\ Entry(s).tick = tick
      BY DEF Entry
    <3>2. QED
      BY <1>b, <3>1 DEF TruthsWhole
  <2>4. \A a \in report' : Points(a.series, from, a.tick) # {} /\ RecordedFor(a.series)
    BY <1>b, <2>1, <2>3 DEF TruthsWhole
  <2>5. \A a \in report' : Points(a.series, from', a.tick) # {} /\ RecordedFor(a.series)'
    BY <1>r, <2>2, <2>4
  <2>6. \A t \in truths' : Targets(FaultOf(t), t.target)
    BY <1>b, <2>2 DEF TruthsWhole
  <2>7. QED
    BY <2>2, <2>5, <2>6 DEF TruthsWhole
<1>9. CASE MetricFails
  BY <1>1, <1>9 DEF MetricFails
<1>10. CASE Preflight \/ SkipTick \/ StaticFails \/ StaticDone \/ LogFails \/ Write
  BY <1>1, <1>10 DEF Preflight, SkipTick, StaticFails, StaticDone, LogFails, Write
<1>11. CASE Interrupt
  BY <1>1, <1>11 DEF Interrupt
<1>12. QED
  BY <1>2, <1>3, <1>4, <1>5, <1>6, <1>7, <1>8, <1>9, <1>10, <1>11 DEF Next, Run

-----------------------------------------------------------------------------
(* The inductive invariant holds *)

LEMMA InitInv ==
    ASSUME Init PROVE IInv
<1>1. Types
  BY InitTypes
<1>2. /\ stage = "parse" /\ from = 0 /\ tick = 0 /\ processed = 0 /\ skipped = 0
      /\ failed = 0 /\ queryErrors = 0 /\ evaluated = 0 /\ found = {} /\ report = {}
      /\ truths = {} /\ status = NoStatus
      /\ fired = 0 /\ warmupSkipped = 0 /\ filtered = 0
  BY DEF Init
<1>3. Places
  <2>1. Begun = 0
    BY <1>2 DEF Begun
  <2>2. processed + skipped = tick - from - Begun
    BY <1>2, <2>1
  <2>3. failed <= queryErrors
    BY <1>2
  <2>4. QED
    BY <1>2, <2>1, <2>2, <2>3 DEF Places
<1>4. NothingLeftOut
  <2>1. EvaluatedInTick = 0 /\ Begun = 0
    BY <1>2 DEF EvaluatedInTick, Begun
  <2>2. (tick - from - Begun) * Rules = 0
    <3>1. tick - from - Begun = 0
      BY <1>2, <2>1
    <3>2. QED
      BY <3>1, RulesType, Distribute
  <2>3. Complete
    BY <1>2, <2>1, <2>2 DEF Complete
  <2>4. NoStatus \notin {"anomalies_detected", "no_anomalies"}
    BY Zenon DEF NoStatus
  <2>5. QED
    BY <1>2, <2>3, <2>4 DEF NothingLeftOut, StatusHonest
<1>5. Findings
  BY <1>2 DEF Findings
<1>6. Accounts
  <2>1. Cardinality(found) = 0 /\ Cardinality(report) = 0
    BY <1>2, FS_EmptySet
  <2>2. QED
    BY <1>2, <2>1, OptionsAssumption DEF Accounts, Lost
<1>7. TruthsWhole
  BY <1>2 DEF TruthsWhole
<1>8. QED
  BY <1>1, <1>3, <1>4, <1>5, <1>6, <1>7 DEF IInv

LEMMA StutterInv ==
    ASSUME IInv, UNCHANGED vars PROVE IInv'
<1> USE DEF vars, window, loop, counters, output
<1>1. Types'
  BY DEF IInv, Types, Numbers, Labels, Collections
<1>2. Places'
  BY DEF IInv, Places, Begun
<1>3. NothingLeftOut'
  BY DEF IInv, NothingLeftOut, Complete, Begun, EvaluatedInTick, Rules, StatusHonest
<1>4. Findings'
  BY DEF IInv, Findings, Begun, EvaluatedNames, IsWarmUp, NamesOf, FirstOf
<1>5. Accounts'
  BY DEF IInv, Accounts, Lost
<1>6. TruthsWhole'
  BY DEF IInv, TruthsWhole, RecordedFor
<1>7. QED
  BY <1>1, <1>2, <1>3, <1>4, <1>5, <1>6 DEF IInv

LEMMA Invariant == Spec => []IInv
<1>1. Init => IInv
  BY InitInv
<1>2. IInv /\ [Next]_vars => IInv'
  <2>1. ASSUME IInv, Next PROVE IInv'
    BY <2>1, NextTypes, NextPlaces, NextNothingLeftOut, NextFindings, NextAccounts, NextTruths
    DEF IInv
  <2>2. QED
    BY <2>1, StutterInv
<1>3. QED
  BY <1>1, <1>2, PTL DEF Spec

-----------------------------------------------------------------------------
(* What it implies *)

\* Every variable keeps its type.
THEOREM TypeCorrect == Spec => []TypeOK
<1>1. IInv => TypeOK
  BY TypesMeanTypeOK DEF IInv
<1>2. QED
  BY <1>1, Invariant, PTL

\* Whatever window passes the checks, its end lies behind both warm-ups if the
\* shortest window's fraction covers warm_up_samples.
THEOREM SomethingIsDetected == Spec => []DetectionPhaseExists
<1>1. ASSUME IInv PROVE DetectionPhaseExists
  <2>1. SUFFICES ASSUME InLoop, WarmUpSamples * WarmUpDen <= MinWindow * WarmUpNum,
                        WarmUpNum < WarmUpDen
                 PROVE  \E t \in from + 1 .. to :
                            t >= WarmUpEnd(from, to) /\ t - from > WarmUpSamples
    BY DEF DetectionPhaseExists
  <2>2. from \in Int /\ to \in Int /\ from < to /\ to - from >= MinWindow
    BY <1>1, <2>1 DEF IInv, Types, Numbers, Places, InLoop
  <2>3. WarmUpEnd(from, to) <= to /\ WarmUpSamples < to - from
        /\ WarmUpEnd(from, to) \in Int /\ WarmUpSamples \in Nat
    BY <2>1, <2>2, WarmUpEnds, WarmUpEndType, ReplayAssumption
  <2>4. to \in from + 1 .. to
    BY <2>2
  <2>5. QED
    BY <2>2, <2>3, <2>4
<1>2. QED
  BY <1>1, Invariant, PTL

\* No tick is lost between the processed and the skipped ones, whatever fails.
THEOREM EveryTickCounts == Spec => []TicksAccounted
<1>1. ASSUME IInv PROVE TicksAccounted
  BY <1>1 DEF IInv, Types, Numbers, Places, Begun, TicksAccounted, AtRest
<1>2. QED
  BY <1>1, Invariant, PTL

\* A status other than "partial" means that every rule was evaluated at every tick.
THEOREM StatusIsHonest == Spec => []StatusHonest
<1>1. IInv => StatusHonest
  BY DEF IInv, NothingLeftOut
<1>2. QED
  BY <1>1, Invariant, PTL

\* An anomaly is reported, set aside in warm-up or filtered; the cap alone loses any.
THEOREM NoAnomalyVanishes == Spec => []AnomaliesAccounted
<1>1. ASSUME IInv PROVE AnomaliesAccounted
  <2>1. SUFFICES ASSUME AtRest PROVE AnomaliesAccounted
    BY DEF AnomaliesAccounted
  <2>2. found = {}
    BY <1>1, <2>1, NothingFound DEF AtRest
  <2>3. Cardinality(found) = 0
    BY <2>2, FS_EmptySet
  <2>4. Lost = fired - warmupSkipped - filtered - Cardinality(report)
    <3>1. Cardinality(report) \in Nat
      BY <1>1, FS_CardinalityType DEF IInv, Types, Collections
    <3>2. QED
      BY <1>1, <2>3, <3>1 DEF Lost, IInv, Types, Numbers
  <2>5. \A a \in report : a.tick >= WarmUpEnd(from, to)
    <3>1. WarmUpEnd(from, to) \in Int
      BY <1>1, WarmUpEndType DEF IInv, Types, Numbers
    <3>2. \A a \in report : a.tick \in Int /\ WarmUpEnd(from, to) <= a.tick
      BY <1>1 DEF IInv, Findings, Types, Collections
    <3>3. QED
      BY <3>1, <3>2
  <2>6. Accounts
    BY <1>1 DEF IInv
  <2>7. QED
    BY <2>4, <2>5, <2>6 DEF Accounts, AnomaliesAccounted
<1>2. QED
  BY <1>1, Invariant, PTL

\* Where the profile's entries have keys of their own, a reported anomaly on a
\* perturbed sample no older than a tick is a true positive.
THEOREM InjectedFaultsAreHits == Spec => []InjectedIsHit
<1>1. ASSUME IInv PROVE InjectedIsHit
  <2>1. SUFFICES ASSUME DistinctEntries, NEW a \in report,
                        Perturbed(a.series, SampleTime(a.series, from, a.tick)),
                        a.tick <= SampleTime(a.series, from, a.tick) + 1
                 PROVE  a \in Score(truths, report).tp
    BY DEF InjectedIsHit
  <2> DEFINE t == SampleTime(a.series, from, a.tick)
  <2>2. a.series \in DOMAIN History /\ a.tick \in Int
    BY <1>1 DEF IInv, Types, Collections
  <2>3. Points(a.series, from, a.tick) # {} /\ RecordedFor(a.series)
    BY <1>1 DEF IInv, TruthsWhole
  <2>4. t \in Nat /\ t <= a.tick
    BY <2>2, <2>3, SampleIsPoint
  <2>5. PICK e \in EntriesFor(a.series) : During(Injections[e], t)
    BY <2>1 DEF Perturbed
  <2>6. PICK truth \in truths :
          KeyOf(truth) = <<a.series, Injections[e].type, Injections[e].start>>
    BY <2>3 DEF RecordedFor
  <2>7. /\ truth.target = a.series
        /\ FaultOf(truth).type = Injections[e].type
        /\ FaultOf(truth).start = Injections[e].start
    BY <2>6 DEF KeyOf
  <2>8. truth.entry \in DOMAIN Injections /\ e \in DOMAIN Injections
    BY <1>1 DEF IInv, Types, Collections, GroundTruths, EntriesFor
  <2>9. FaultOf(truth).rule = Injections[e].rule
    <3>1. Targets(FaultOf(truth), a.series) /\ Targets(Injections[e], a.series)
      BY <1>1, <2>7 DEF IInv, TruthsWhole, EntriesFor
    <3>2. QED
      BY <3>1 DEF Targets, Names
  <2>10. truth.entry = e
    BY <2>1, <2>7, <2>8, <2>9 DEF DistinctEntries, FaultOf
  <2>11. /\ Injections[e].start \in Int /\ Injections[e].end \in Int
         /\ Injections[e].start <= t /\ t <= Injections[e].end
    BY <2>5, <2>8, ReplayAssumption DEF During
  <2>12. FaultOf(truth).start <= a.tick /\ a.tick <= FaultOf(truth).end + 1
    <3>1. FaultOf(truth) = Injections[e] /\ a.tick <= t + 1
      BY <2>1, <2>10 DEF FaultOf
    <3> HIDE DEF t
    <3>2. QED
      BY <2>2, <2>4, <2>11, <3>1
  <2>13. truth \in Matching(truths, a)
    BY <2>7, <2>12 DEF Matching
  <2>14. QED
    BY <2>13 DEF Score
<1>2. QED
  BY <1>1, Invariant, PTL
=============================================================================
