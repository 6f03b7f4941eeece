--------------------------- MODULE BaselineProofs ---------------------------
(***************************************************************************)
(* What holds of Baseline for any number of overlapping evaluators, any    *)
(* values, thresholds and smoothing factor: detection never starts early,  *)
(* and the statistics never leave the range of the samples.                *)
(***************************************************************************)
EXTENDS Baseline, TLAPS

\* The samples a baseline claims to have learned have been evaluated, and the one
\* an evaluator works on is not among them. (samples stops at WarmUpSamples.)
LearnedSamples ==
    /\ samples \in Nat
    /\ stored.n \in Nat
    /\ samples < WarmUpSamples => stored.n <= samples
    /\ job = [e \in Evaluators |-> job[e]]
    /\ \A e \in Evaluators : job[e] # Idle =>
          /\ job[e].stats.n \in Nat
          /\ samples < WarmUpSamples => job[e].stats.n < samples

\* Learning counts one sample.
LEMMA LearnedCount ==
    ASSUME NEW s, NEW v, s.n \in Nat
    PROVE  Learned(s, v).n = s.n + 1
BY DEF Learned, FirstStats

LEMMA BusyIsNotIdle ==
    ASSUME NEW j, j.busy
    PROVE  j # Idle
BY DEF Idle

LEMMA LoadStep ==
    ASSUME LearnedSamples, SilentWarmUp, NEW e \in Evaluators, NEW v \in Values, Load(e, v)
    PROVE  LearnedSamples' /\ SilentWarmUp'
<1>1. WarmUpSamples \in Nat
  BY ThresholdAssumption
<1>2. samples' \in Nat /\ samples <= samples'
  BY <1>1 DEF Load, LearnedSamples
<1>3. samples' < WarmUpSamples => samples < samples' /\ samples < WarmUpSamples
  BY <1>1 DEF Load, LearnedSamples
<1>4. /\ job' = [d \in Evaluators |-> job'[d]]
      /\ \A d \in Evaluators : d # e => job'[d] = job[d]
      /\ job'[e].stats = stored
  BY DEF Load, LearnedSamples
<1>5. UNCHANGED <<stored, result>>
  BY DEF Load
<1>6. LearnedSamples'
  BY <1>1, <1>2, <1>3, <1>4, <1>5 DEF LearnedSamples
<1>7. SilentWarmUp'
  <2>1. SUFFICES ASSUME Reported PROVE samples' >= WarmUpSamples
    BY <1>5 DEF SilentWarmUp, Reported
  <2>2. samples >= WarmUpSamples
    BY <2>1 DEF SilentWarmUp
  <2>3. QED
    BY <1>1, <1>2, <2>2 DEF LearnedSamples
<1>8. QED
  BY <1>6, <1>7

\* What an evaluation that ends does to the counts, saved or not.
LEMMA EndStep ==
    ASSUME LearnedSamples, NEW e \in Evaluators, job[e].busy,
           job' = [job EXCEPT ![e] = Idle], UNCHANGED samples,
           stored' = stored \/ stored' = Learned(job[e].stats, job[e].value)
    PROVE  LearnedSamples'
<1>1. WarmUpSamples \in Nat
  BY ThresholdAssumption
<1>2. /\ job[e].stats.n \in Nat
      /\ samples < WarmUpSamples => job[e].stats.n < samples
  BY BusyIsNotIdle DEF LearnedSamples
<1>3. stored'.n \in Nat /\ (samples < WarmUpSamples => stored'.n <= samples)
  <2>1. CASE stored' = stored
    BY <2>1 DEF LearnedSamples
  <2>2. CASE stored' = Learned(job[e].stats, job[e].value)
    BY <1>1, <1>2, <2>2, LearnedCount DEF LearnedSamples
  <2>3. QED
    BY <2>1, <2>2
<1>4. /\ job' = [d \in Evaluators |-> job'[d]]
      /\ \A d \in Evaluators : job'[d] # Idle => job'[d] = job[d]
  BY DEF LearnedSamples
<1>5. QED
  BY <1>3, <1>4 DEF LearnedSamples

\* What an evaluation reports is based on enough samples.
LEMMA VerdictWarm ==
    ASSUME LearnedSamples, NEW e \in Evaluators, job[e].busy, UNCHANGED samples,
           NEW shown, result' = Verdict(job[e].value, job[e].stats, shown)
    PROVE  SilentWarmUp'
<1>1. SUFFICES ASSUME Reported'
               PROVE  result'.used.n >= WarmUpSamples /\ samples' >= WarmUpSamples
  BY DEF SilentWarmUp
<1>2. result'.used = job[e].stats
  BY DEF Verdict
<1>3. ~(job[e].stats.n = 0 \/ WarmingUp(job[e].stats))
  BY <1>1 DEF Reported, Verdict
<1>4. /\ job[e].stats.n \in Nat /\ samples \in Nat
      /\ samples < WarmUpSamples => job[e].stats.n < samples
  BY BusyIsNotIdle DEF LearnedSamples
<1>5. WarmUpSamples \in Nat
  BY ThresholdAssumption
<1>6. QED
  BY <1>2, <1>3, <1>4, <1>5 DEF WarmingUp

LEMMA WarmUpStep ==
    ASSUME LearnedSamples, SilentWarmUp, [Next]_vars
    PROVE  LearnedSamples' /\ SilentWarmUp'
<1>1. ASSUME NEW e \in Evaluators, NEW v \in Values, Load(e, v)
      PROVE  LearnedSamples' /\ SilentWarmUp'
  BY <1>1, LoadStep
<1>2. ASSUME NEW e \in Evaluators, Save(e)
      PROVE  LearnedSamples' /\ SilentWarmUp'
  BY <1>2, EndStep, VerdictWarm DEF Save
<1>3. ASSUME NEW e \in Evaluators, SaveFails(e)
      PROVE  LearnedSamples' /\ SilentWarmUp'
  <2>1. LearnedSamples'
    BY <1>3, EndStep DEF SaveFails
  <2>2. SilentWarmUp'
    BY <1>3 DEF SaveFails, SilentWarmUp, Reported
  <2>3. QED
    BY <2>1, <2>2
<1>4. ASSUME NEW e \in Evaluators, Reject(e)
      PROVE  LearnedSamples' /\ SilentWarmUp'
  BY <1>4, EndStep, VerdictWarm DEF Reject
<1>5. CASE Forget
  <2>1. LearnedSamples'
    BY <1>5, ThresholdAssumption DEF Forget, LearnedSamples, NoStats
  <2>2. SilentWarmUp'
    BY <1>5 DEF Forget, SilentWarmUp, Reported
  <2>3. QED
    BY <2>1, <2>2
<1>6. CASE UNCHANGED vars
  BY <1>6 DEF vars, LearnedSamples, SilentWarmUp, Reported
<1>7. QED
  BY <1>1, <1>2, <1>3, <1>4, <1>5, <1>6 DEF Next

\* However batches overlap, fail or lose updates, no sample is judged before
\* WarmUpSamples others were evaluated.
THEOREM DetectionWaits == Spec => []SilentWarmUp
<1>1. Init => LearnedSamples /\ SilentWarmUp
  BY ThresholdAssumption DEF Init, LearnedSamples, NoStats, SilentWarmUp, Reported
<1>2. QED
  BY <1>1, WarmUpStep, PTL DEF Spec

-----------------------------------------------------------------------------
(* The statistics stay between the samples *)

\* A weighted sum is at least the total weight times a lower bound of both summands,
\* and at most the total weight times an upper one.
LEMMA WeightedSum ==
    ASSUME NEW p \in Nat, NEW q \in Nat, NEW x \in Nat, NEW y \in Nat, NEW a \in Nat
    PROVE  /\ a <= x /\ a <= y => (p + q) * a <= p * x + q * y
           /\ x <= a /\ y <= a => p * x + q * y <= (p + q) * a
<1>1. (p + q) * a = p * a + q * a
  OBVIOUS
<1>2. a <= x => p * a <= p * x
  OBVIOUS
<1>3. a <= y => q * a <= q * y
  OBVIOUS
<1>4. x <= a => p * x <= p * a
  OBVIOUS
<1>5. y <= a => q * y <= q * a
  OBVIOUS
<1>6. p * a \in Nat /\ q * a \in Nat /\ p * x \in Nat /\ q * y \in Nat
  OBVIOUS
<1>7. QED
  BY <1>1, <1>2, <1>3, <1>4, <1>5, <1>6

LEMMA StatsFields ==
    ASSUME NEW s \in Stats
    PROVE  /\ s = [n |-> s.n, sum |-> s.sum, squares |-> s.squares, ewma |-> s.ewma,
                   unit |-> s.unit]
           /\ s.n \in Nat /\ s.n <= MaxCount /\ s.sum \in Nat /\ s.squares \in Nat
           /\ s.ewma \in Nat /\ s.unit \in Nat \ {0}
  BY ThresholdAssumption DEF Stats

LEMMA LearnedType ==
    ASSUME NEW s \in Stats, NEW v \in Nat, s.n < MaxCount
    PROVE  Learned(s, v) \in Stats
<1>1. /\ s.n \in Nat /\ s.sum \in Nat /\ s.squares \in Nat /\ s.ewma \in Nat
      /\ s.unit \in Nat \ {0} /\ MaxCount \in Nat
  BY StatsFields, ThresholdAssumption
<1>2. AlphaNum \in Nat /\ AlphaDen \in Nat \ {0} /\ AlphaDen - AlphaNum \in Nat
  BY AlphaAssumption
<1>3. v * v \in Nat /\ 1 \in 0 .. MaxCount /\ s.n + 1 \in 0 .. MaxCount
  BY <1>1
<1>4. AlphaNum * v * s.unit + (AlphaDen - AlphaNum) * s.ewma \in Nat
  <2>1. AlphaNum * v \in Nat /\ (AlphaDen - AlphaNum) * s.ewma \in Nat
    BY <1>1, <1>2
  <2>2. AlphaNum * v * s.unit \in Nat
    BY <1>1, <2>1
  <2>3. QED
    BY <2>1, <2>2
<1>5. AlphaDen * s.unit \in Nat \ {0}
  BY <1>1, <1>2
<1>6. CASE s.n = 0
  BY <1>1, <1>3, <1>6 DEF Learned, FirstStats, Stats
<1>7. CASE s.n # 0
  <2>1. s.sum + v \in Nat /\ s.squares + v * v \in Nat
    BY <1>1, <1>3
  <2>2. Learned(s, v) = [n       |-> s.n + 1,
                         sum     |-> s.sum + v,
                         squares |-> s.squares + v * v,
                         ewma    |-> AlphaNum * v * s.unit + (AlphaDen - AlphaNum) * s.ewma,
                         unit    |-> AlphaDen * s.unit]
    BY <1>7 DEF Learned
  <2>3. QED
    BY <1>3, <1>4, <1>5, <2>1, <2>2 DEF Stats
<1>8. QED
  BY <1>6, <1>7

\* Between, for any set of values.
InRange(s, values) ==
    s.n > 0 =>
        \E low, high \in values :
            /\ low * s.n <= s.sum /\ s.sum <= high * s.n
            /\ low * s.unit <= s.ewma /\ s.ewma <= high * s.unit

\* Learning a sample of values keeps the mean and the EWMA between two of its values.
LEMMA LearnedBetween ==
    ASSUME NEW values, values \subseteq Nat, NEW s \in Stats, NEW v \in values,
           InRange(s, values)
    PROVE  InRange(Learned(s, v), values)
<1>1. /\ s.n \in Nat /\ s.sum \in Nat /\ s.ewma \in Nat /\ s.unit \in Nat \ {0} /\ v \in Nat
  BY StatsFields
<1>2. AlphaNum \in Nat /\ AlphaDen \in Nat \ {0} /\ AlphaDen - AlphaNum \in Nat
      /\ AlphaNum + (AlphaDen - AlphaNum) = AlphaDen
  BY AlphaAssumption
<1>3. CASE s.n = 0
  <2>1. /\ Learned(s, v).n = 1 /\ Learned(s, v).sum = v /\ Learned(s, v).ewma = v
        /\ Learned(s, v).unit = 1
    BY <1>3 DEF Learned, FirstStats
  <2>2. v * 1 <= v /\ v <= v * 1
    BY <1>1
  <2>3. QED
    BY <2>1, <2>2 DEF InRange
<1>4. CASE s.n # 0
  <2>1. PICK low \in values, high \in values :
          /\ low * s.n <= s.sum /\ s.sum <= high * s.n
          /\ low * s.unit <= s.ewma /\ s.ewma <= high * s.unit
    BY <1>1, <1>4 DEF InRange
  <2> DEFINE least == IF low < v THEN low ELSE v
             most == IF high > v THEN high ELSE v
             share == (AlphaDen - AlphaNum) * s.ewma
  <2>2. /\ low \in Nat /\ high \in Nat /\ least \in values /\ most \in values
        /\ least \in Nat /\ most \in Nat
        /\ least <= low /\ least <= v /\ high <= most /\ v <= most
    BY <1>1
  <2>3. /\ Learned(s, v).n = s.n + 1
        /\ Learned(s, v).sum = s.sum + v
        /\ Learned(s, v).ewma = AlphaNum * v * s.unit + share
        /\ Learned(s, v).unit = AlphaDen * s.unit
    BY <1>4 DEF Learned
  <2> HIDE DEF least, most
  <2>4. least * (s.n + 1) <= s.sum + v /\ s.sum + v <= most * (s.n + 1)
    <3>1. least * s.n <= low * s.n /\ high * s.n <= most * s.n
      BY <1>1, <2>2
    <3>2. least * (s.n + 1) = least * s.n + least /\ most * (s.n + 1) = most * s.n + most
      BY <1>1, <2>2
    <3>3. /\ least * s.n \in Int /\ low * s.n \in Int /\ high * s.n \in Int
          /\ most * s.n \in Int
      BY <1>1, <2>2
    <3>4. QED
      BY <1>1, <2>1, <2>2, <3>1, <3>2, <3>3
  <2>5. /\ least * s.unit \in Nat /\ most * s.unit \in Nat /\ v * s.unit \in Nat
        /\ least * s.unit <= s.ewma /\ s.ewma <= most * s.unit
        /\ least * s.unit <= v * s.unit /\ v * s.unit <= most * s.unit
    <3>1. /\ least * s.unit <= low * s.unit /\ high * s.unit <= most * s.unit
          /\ least * s.unit <= v * s.unit /\ v * s.unit <= most * s.unit
      BY <1>1, <2>2
    <3>2. /\ least * s.unit \in Nat /\ low * s.unit \in Nat /\ high * s.unit \in Nat
          /\ most * s.unit \in Nat /\ v * s.unit \in Nat
      BY <1>1, <2>2
    <3>3. QED
      BY <1>1, <2>1, <3>1, <3>2
  <2>6. /\ AlphaDen * (least * s.unit) <= AlphaNum * (v * s.unit) + share
        /\ AlphaNum * (v * s.unit) + share <= AlphaDen * (most * s.unit)
    BY <1>1, <1>2, <2>5, WeightedSum
  <2>7. /\ least * (AlphaDen * s.unit) = AlphaDen * (least * s.unit)
        /\ most * (AlphaDen * s.unit) = AlphaDen * (most * s.unit)
        /\ AlphaNum * v * s.unit = AlphaNum * (v * s.unit)
    BY <1>1, <1>2, <2>2
  <2> HIDE DEF share
  <2>8. /\ least * Learned(s, v).n <= Learned(s, v).sum
        /\ Learned(s, v).sum <= most * Learned(s, v).n
        /\ least * Learned(s, v).unit <= Learned(s, v).ewma
        /\ Learned(s, v).ewma <= most * Learned(s, v).unit
    BY <2>3, <2>4, <2>6, <2>7
  <2>9. QED
    BY <2>2, <2>8 DEF InRange
<1>5. QED
  BY <1>3, <1>4

\* What an evaluator works on: a sample of the key and statistics that have room.
WorksOn(e) ==
    /\ job[e].busy
    /\ job[e].value \in seen
    /\ job[e].stats \in Stats /\ job[e].stats.n < MaxCount
    /\ InRange(job[e].stats, seen)

StatsInv ==
    /\ stored \in Stats /\ InRange(stored, seen)
    /\ job = [e \in Evaluators |-> job[e]]
    /\ \A e \in Evaluators : job[e] = Idle \/ WorksOn(e)
    /\ result.outcome \in {"none", "warming_up", "normal", "anomaly", "error"}
    /\ samples \in 0 .. WarmUpSamples
    /\ seen \subseteq Values

LEMMA NoStatsInv ==
    ASSUME NEW values
    PROVE  NoStats \in Stats /\ InRange(NoStats, values)
<1>1. NoStats \in Stats
  BY ThresholdAssumption DEF NoStats, Stats
<1>2. QED
  BY <1>1 DEF NoStats, InRange

\* More values leave more room.
LEMMA RangeGrows ==
    ASSUME NEW s, NEW few, NEW many, few \subseteq many, InRange(s, few)
    PROVE  InRange(s, many)
  BY DEF InRange

LEMMA StatsLoad ==
    ASSUME StatsInv, NEW e \in Evaluators, NEW v \in Values, Load(e, v)
    PROVE  StatsInv'
<1>1. /\ job' = [d \in Evaluators |-> job'[d]]
      /\ \A d \in Evaluators : d # e => job'[d] = job[d]
      /\ job'[e].busy /\ job'[e].value = v /\ job'[e].stats = stored
  BY DEF Load, StatsInv
<1>2. UNCHANGED <<stored, result>> /\ seen' = seen \cup {v} /\ stored.n < MaxCount
  BY DEF Load
<1>3. samples' \in 0 .. WarmUpSamples
  BY ThresholdAssumption DEF Load, StatsInv
<1>4. \A s : InRange(s, seen) => InRange(s, seen')
  BY <1>2, RangeGrows
<1>5. stored \in Stats /\ InRange(stored, seen) /\ seen \subseteq Values
  BY DEF StatsInv
<1>6. stored' \in Stats /\ InRange(stored', seen')
  BY <1>2, <1>4, <1>5
<1>7. ASSUME NEW d \in Evaluators PROVE job'[d] = Idle \/ WorksOn(d)'
  <2>1. CASE d = e
    <3>1. InRange(job'[e].stats, seen')
      BY <1>1, <1>4, <1>5
    <3>2. QED
      BY <1>1, <1>2, <1>5, <2>1, <3>1 DEF WorksOn
  <2>2. CASE d # e
    <3>1. job'[d] = job[d] /\ (job[d] = Idle \/ WorksOn(d))
      BY <1>1, <2>2 DEF StatsInv
    <3>2. ASSUME WorksOn(d) PROVE WorksOn(d)'
      <4>1. /\ job'[d].busy /\ job'[d].value \in seen'
            /\ job'[d].stats \in Stats /\ job'[d].stats.n < MaxCount
        BY <1>2, <3>1, <3>2 DEF WorksOn
      <4>2. InRange(job'[d].stats, seen')
        BY <1>4, <3>1, <3>2 DEF WorksOn
      <4>3. QED
        BY <4>1, <4>2 DEF WorksOn
    <3>3. QED
      BY <3>1, <3>2
  <2>3. QED
    BY <2>1, <2>2
<1>8. result'.outcome \in {"none", "warming_up", "normal", "anomaly", "error"}
  BY <1>2 DEF StatsInv
<1>9. seen' \subseteq Values
  BY <1>2, <1>5
<1>10. QED
  BY <1>1, <1>3, <1>6, <1>7, <1>8, <1>9 DEF StatsInv

\* An evaluation that ends, whether or not it saved what it learned.
LEMMA StatsEnd ==
    ASSUME StatsInv, NEW e \in Evaluators, job[e].busy,
           job' = [job EXCEPT ![e] = Idle], UNCHANGED <<samples, seen>>,
           stored' = stored \/ stored' = Learned(job[e].stats, job[e].value),
           result'.outcome \in {"none", "warming_up", "normal", "anomaly", "error"}
    PROVE  StatsInv'
<1>1. WorksOn(e)
  BY BusyIsNotIdle DEF StatsInv
<1>2. seen \subseteq Nat
  BY ValuesAssumption DEF StatsInv
<1>4. stored' \in Stats /\ InRange(stored', seen')
  <2>1. CASE stored' = stored
    BY <2>1 DEF StatsInv
  <2>2. CASE stored' = Learned(job[e].stats, job[e].value)
    BY <1>1, <1>2, <2>2, LearnedType, LearnedBetween DEF WorksOn
  <2>3. QED
    BY <2>1, <2>2
<1>5. /\ job' = [d \in Evaluators |-> job'[d]]
      /\ \A d \in Evaluators : job'[d] = Idle \/ job'[d] = job[d]
  BY DEF StatsInv
<1>6. ASSUME NEW d \in Evaluators PROVE job'[d] = Idle \/ WorksOn(d)'
  <2>1. job[d] = Idle \/ WorksOn(d)
    BY DEF StatsInv
  <2>2. ASSUME job'[d] = job[d], WorksOn(d) PROVE WorksOn(d)'
    BY <2>2 DEF WorksOn
  <2>3. QED
    BY <1>5, <2>1, <2>2
<1>8. samples' \in 0 .. WarmUpSamples /\ seen' \subseteq Values
  BY DEF StatsInv
<1>9. QED
  BY <1>4, <1>5, <1>6, <1>8 DEF StatsInv

LEMMA StatsStep ==
    ASSUME StatsInv, [Next]_vars PROVE StatsInv'
<1>1. ASSUME NEW e \in Evaluators, NEW v \in Values, Load(e, v) PROVE StatsInv'
  BY <1>1, StatsLoad
<1>v. \A v, used, shown :
        Verdict(v, used, shown).outcome \in {"none", "warming_up", "normal", "anomaly", "error"}
  BY DEF Verdict
<1>2. ASSUME NEW e \in Evaluators, Save(e) PROVE StatsInv'
  BY <1>2, <1>v, StatsEnd DEF Save
<1>3. ASSUME NEW e \in Evaluators, SaveFails(e) PROVE StatsInv'
  BY <1>3, StatsEnd DEF SaveFails
<1>4. ASSUME NEW e \in Evaluators, Reject(e) PROVE StatsInv'
  BY <1>4, <1>v, StatsEnd DEF Reject
<1>5. CASE Forget
  <2>1. /\ stored' = NoStats /\ UNCHANGED job /\ samples' = 0 /\ seen' = {}
        /\ \A e \in Evaluators : job'[e] = Idle
        /\ result'.outcome = "none"
    BY <1>5 DEF Forget
  <2>2. stored' \in Stats /\ InRange(stored', seen')
    BY <2>1, NoStatsInv
  <2>3. samples' \in 0 .. WarmUpSamples /\ job' = [e \in Evaluators |-> job'[e]]
    BY <2>1, ThresholdAssumption DEF StatsInv
  <2>4. QED
    BY <2>1, <2>2, <2>3 DEF StatsInv
<1>6. CASE UNCHANGED vars
  <2>1. UNCHANGED <<stored, job, result, samples, seen>>
    BY <1>6 DEF vars
  <2>2. QED
    BY <2>1 DEF StatsInv, WorksOn
<1>7. QED
  BY <1>1, <1>2, <1>3, <1>4, <1>5, <1>6 DEF Next

LEMMA StatsInvariant == Spec => []StatsInv
<1>1. Init => StatsInv
  <2>1. ASSUME Init PROVE StatsInv
    <3>1. stored \in Stats /\ InRange(stored, seen)
      BY <2>1, NoStatsInv DEF Init
    <3>2. job = [e \in Evaluators |-> job[e]] /\ \A e \in Evaluators : job[e] = Idle
      BY <2>1 DEF Init
    <3>3. samples \in 0 .. WarmUpSamples /\ result.outcome = "none" /\ seen = {}
      BY <2>1, ThresholdAssumption DEF Init
    <3>4. QED
      BY <3>1, <3>2, <3>3 DEF StatsInv
  <2>2. QED
    BY <2>1
<1>2. QED
  BY <1>1, StatsStep, PTL DEF Spec

\* Counts, sums and evaluators keep their types; no EWMA ever turns negative.
THEOREM TypeCorrect == Spec => []TypeOK
<1>1. StatsInv => TypeOK
  BY DEF StatsInv, TypeOK, WorksOn
<1>2. QED
  BY <1>1, StatsInvariant, PTL

\* However batches overwrite each other, what is stored and what is worked on stays
\* between samples the key has had.
THEOREM NeverOutsideTheSamples == Spec => []WithinSeen
<1>1. StatsInv => WithinSeen
  <2>1. ASSUME StatsInv, NEW e \in Evaluators, job[e].busy PROVE Between(job[e].stats)
    BY <2>1, BusyIsNotIdle DEF StatsInv, WorksOn, InRange, Between
  <2>2. QED
    BY <2>1 DEF StatsInv, WithinSeen, InRange, Between
<1>2. QED
  BY <1>1, StatsInvariant, PTL
=============================================================================
