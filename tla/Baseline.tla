------------------------------ MODULE Baseline ------------------------------
(***************************************************************************)
(* One baseline key and the samples evaluated against it: Store.Evaluate   *)
(* (controller/internal/baseline/store.go) as the adaptive detector calls  *)
(* it, and the direction filter that looks at its result                   *)
(* (internal/detection/adaptive.go, direction.go).                         *)
(*                                                                         *)
(* Loading and saving the statistics are two Redis commands, and batches   *)
(* of the same job may overlap: every evaluator loads and saves at its own *)
(* pace.  The pods of a workload share the key, so several samples of one  *)
(* cycle are evaluated against it.                                         *)
(*                                                                         *)
(* Numbers are exact.  Values are naturals; the statistics of n samples    *)
(* are their sum and the sum of their squares, from which mean and         *)
(* variance (Welford's recurrence computes the same) are fractions, and    *)
(* the EWMA, a fraction too.                                               *)
(***************************************************************************)
EXTENDS Integers, FiniteSets

CONSTANTS
    Evaluators,       \* batches that may be under way at the same time
    Values,           \* values a sample may have
    WarmUpSamples,    \* samples before detection starts
    ZScoreThreshold,  \* an anomaly is further than this from the EWMA
    PoisonThreshold,  \* a sample further than this is not learned; 0 disables it
    AlphaNum,         \* the EWMA's smoothing factor is AlphaNum / AlphaDen
    AlphaDen,
    MaxCount          \* bound of the model on the samples learned

ASSUME ValuesAssumption == Values \subseteq Nat
ASSUME ThresholdAssumption ==
    {WarmUpSamples, ZScoreThreshold, PoisonThreshold, MaxCount} \subseteq Nat
ASSUME AlphaAssumption ==
    AlphaNum \in Nat /\ AlphaDen \in Nat \ {0} /\ AlphaNum <= AlphaDen

VARIABLES
    stored,   \* the statistics in Redis
    job,      \* evaluator -> the sample and statistics it works on, or none
    result,   \* the last evaluation that ended
    \* history, read by the properties only:
    samples,  \* samples evaluated so far, up to WarmUpSamples
    seen      \* their values

vars == <<stored, job, result, samples, seen>>

\* n samples: sum, sum of squares, and the EWMA, ewma / unit.
Stats == [n : 0 .. MaxCount, sum : Nat, squares : Nat, ewma : Nat, unit : Nat \ {0}]
NoStats == [n |-> 0, sum |-> 0, squares |-> 0, ewma |-> 0, unit |-> 1]
Idle == [busy |-> FALSE]

\* The first sample is the baseline.
FirstStats(v) == [n |-> 1, sum |-> v, squares |-> v * v, ewma |-> v, unit |-> 1]

\* Faulty variant: the EWMA starts from zero.
LearnedFromZero(s, v) ==
    IF s.n = 0
    THEN [FirstStats(v) EXCEPT !.ewma = 0]
    ELSE [n       |-> s.n + 1,
          sum     |-> s.sum + v,
          squares |-> s.squares + v * v,
          ewma    |-> AlphaNum * v * s.unit + (AlphaDen - AlphaNum) * s.ewma,
          unit    |-> AlphaDen * s.unit]

\* Faulty variant: the old EWMA is subtracted.
LearnedMinus(s, v) ==
    IF s.n = 0
    THEN FirstStats(v)
    ELSE [n       |-> s.n + 1,
          sum     |-> s.sum + v,
          squares |-> s.squares + v * v,
          ewma    |-> AlphaNum * v * s.unit - (AlphaDen - AlphaNum) * s.ewma,
          unit    |-> AlphaDen * s.unit]

\* The statistics s after learning v.
Learned(s, v) ==
    IF s.n = 0
    THEN FirstStats(v)
    ELSE [n       |-> s.n + 1,
          sum     |-> s.sum + v,
          squares |-> s.squares + v * v,
          ewma    |-> AlphaNum * v * s.unit + (AlphaDen - AlphaNum) * s.ewma,
          unit    |-> AlphaDen * s.unit]

Distance(x, y) == IF x > y THEN x - y ELSE y - x

\* n^2 times the variance.
Spread(s) == s.n * s.squares - s.sum * s.sum

\* zscore > t: v is more than t standard deviations from the EWMA; while all
\* samples were equal the standard deviation is 1% of the EWMA or of v.
Beyond(s, v, t) ==
    LET far == Distance(v * s.unit, s.ewma)
    IN  IF Spread(s) = 0
        THEN far * 100 > t * (IF s.ewma > v * s.unit THEN s.ewma ELSE v * s.unit)
        ELSE far * far * s.n * s.n > t * t * s.unit * s.unit * Spread(s)

Poisoned(s, v) == PoisonThreshold > 0 /\ Beyond(s, v, PoisonThreshold)

\* Faulty variant: the sample being evaluated counts as learned.
WarmingUpAfter(s) == s.n + 1 < WarmUpSamples

WarmingUp(s) == s.n < WarmUpSamples

\* What Evaluate returns for v: used is the baseline the z-score was computed
\* with, shown the one whose mean the result carries.
Verdict(v, used, shown) ==
    [outcome |-> IF used.n = 0 \/ WarmingUp(used) THEN "warming_up"
                 ELSE IF Beyond(used, v, ZScoreThreshold) THEN "anomaly" ELSE "normal",
     value   |-> v, used |-> used, shown |-> shown]

\* The sample is learned: always while warming up, and then unless it is poisoned.
Learns(s, v) == s.n > 0 /\ ~WarmingUp(s) => ~Poisoned(s, v)

Init ==
    /\ stored = NoStats
    /\ job = [e \in Evaluators |-> Idle]
    /\ result = [outcome |-> "none"]
    /\ samples = 0
    /\ seen = {}

\* An evaluator has a sample and loads the baseline. (When that fails the
\* sample is skipped and nothing changes.)
Load(e, v) ==
    /\ job[e] = Idle
    /\ stored.n < MaxCount
    /\ job' = [job EXCEPT ![e] = [busy |-> TRUE, value |-> v, stats |-> stored]]
    /\ samples' = IF samples < WarmUpSamples THEN samples + 1 ELSE samples
    /\ seen' = seen \cup {v}
    /\ UNCHANGED <<stored, result>>

\* It saves what it learned over whatever is stored by now, and reports.
Save(e) ==
    /\ job[e].busy
    /\ Learns(job[e].stats, job[e].value)
    /\ stored' = Learned(job[e].stats, job[e].value)
    /\ result' = Verdict(job[e].value, job[e].stats, Learned(job[e].stats, job[e].value))
    /\ job' = [job EXCEPT ![e] = Idle]
    /\ UNCHANGED <<samples, seen>>

\* Saving fails, or its answer is lost: the sample is reported by nobody.
SaveFails(e) ==
    /\ job[e].busy
    /\ Learns(job[e].stats, job[e].value)
    /\ stored' \in {stored, Learned(job[e].stats, job[e].value)}
    /\ result' = [outcome |-> "error"]
    /\ job' = [job EXCEPT ![e] = Idle]
    /\ UNCHANGED <<samples, seen>>

\* The poison gate: reported without being learned.
Reject(e) ==
    /\ job[e].busy
    /\ ~Learns(job[e].stats, job[e].value)
    /\ result' = Verdict(job[e].value, job[e].stats, job[e].stats)
    /\ job' = [job EXCEPT ![e] = Idle]
    /\ UNCHANGED <<stored, samples, seen>>

\* Redis loses its data, between two cycles.
Forget ==
    /\ stored.n > 0
    /\ \A e \in Evaluators : job[e] = Idle
    /\ stored' = NoStats
    /\ result' = [outcome |-> "none"]
    /\ samples' = 0
    /\ seen' = {}
    /\ UNCHANGED job

Next ==
    \/ \E e \in Evaluators :
          (\E v \in Values : Load(e, v)) \/ Save(e) \/ SaveFails(e) \/ Reject(e)
    \/ Forget

Spec == Init /\ [][Next]_vars

-----------------------------------------------------------------------------
(* Properties *)

TypeOK ==
    /\ stored \in Stats
    /\ \A e \in Evaluators :
          \/ job[e] = Idle
          \/ job[e].busy /\ job[e].value \in Values /\ job[e].stats \in Stats
    /\ result.outcome \in {"none", "warming_up", "normal", "anomaly", "error"}
    /\ samples \in 0 .. WarmUpSamples
    /\ seen \subseteq Values

Reported == result.outcome \in {"normal", "anomaly"}

\* Nothing is reported as an anomaly, or as normal, before WarmUpSamples samples
\* were evaluated, the current one not counted: overlapping batches may lose
\* updates and delay detection, and never start it early.
SilentWarmUp == Reported => result.used.n >= WarmUpSamples /\ samples >= WarmUpSamples

\* The statistics in Redis and in every evaluator's hands are of samples the key
\* has had: the mean and the EWMA stay between the smallest and the largest.
Between(s) ==
    s.n > 0 =>
        \E low, high \in seen :
            /\ low * s.n <= s.sum /\ s.sum <= high * s.n
            /\ low * s.unit <= s.ewma /\ s.ewma <= high * s.unit

WithinSeen ==
    /\ Between(stored)
    /\ \A e \in Evaluators : job[e].busy => Between(job[e].stats)

\* FilterByDirection's question: is the deviation one the rule considers bad?
DirectionAllows(r, direction) ==
    CASE direction = "up_bad"   -> r.value * r.shown.n >= r.shown.sum
      [] direction = "down_bad" -> r.value * r.shown.n <= r.shown.sum
      [] OTHER -> TRUE

\* An anomaly that rose above the baseline it was measured against fires for a
\* rule with direction up_bad, one that fell below it for down_bad.
BadWayFires ==
    result.outcome = "anomaly" =>
        LET baseline == result.used.ewma
            value == result.value * result.used.unit
        IN  /\ value > baseline => DirectionAllows(result, "up_bad")
            /\ value < baseline => DirectionAllows(result, "down_bad")
=============================================================================
