---------------------------- MODULE ReplayInputs ----------------------------
(***************************************************************************)
(* What a replay is given, and the parts of it that compute without state: *)
(* the window (controller/internal/replay/window.go), the injected faults  *)
(* (inject/config.go, injector.go, faults.go), the samples of a tick       *)
(* (adapter.go) and the scores (inject/scorer.go).                         *)
(*                                                                         *)
(* Time is counted in ticks (controller.job_interval).  A series is        *)
(* identified by its rule and its labels, which is also the fingerprint    *)
(* that ground truths and anomalies are compared by.  A point's value is   *)
(* either the recorded one or that of a fault.                             *)
(***************************************************************************)
EXTENDS Integers, FiniteSets, Sequences

CONSTANTS
    Now,              \* when the replay is started
    FutureSlack, MinWindow, DefaultMaxWindow,
    WarmUpSamples,    \* baseline.warm_up_samples
    WarmUpNum, WarmUpDen, \* --warmup-fraction
    Hour,             \* ticks in a chunk
    History,          \* series -> the ticks at which the backend has a point of it
    AdaptiveMetrics,  \* detection.adaptive_metrics: sequence of rule names
    Injections        \* the profile: sequence of [rule, labels, type, start, end]

ASSUME ReplayAssumption ==
    /\ Now \in Int /\ MinWindow \in Int
    /\ WarmUpSamples \in Nat /\ WarmUpNum \in Nat /\ WarmUpDen \in Nat \ {0}
    /\ Hour \in Nat
    /\ IsFiniteSet(DOMAIN History)
    /\ \A s \in DOMAIN History : History[s] \subseteq Nat
    /\ \A e \in DOMAIN Injections :
        e \in Nat /\ Injections[e].start \in Int /\ Injections[e].end \in Int

-----------------------------------------------------------------------------
(* The window *)

\* parseTimeOrDuration: a span before now, not a negative one, or a point in time.
Parses(flag) == flag.form = "at" \/ (flag.form = "ago" /\ flag.n >= 0)
TimeOf(flag) == IF flag.form = "ago" THEN Now - flag.n ELSE flag.n

\* --to defaults to now.
EndOf(flag) == IF flag.form = "empty" THEN Now ELSE TimeOf(flag)

\* Faulty variant: the shortest window is not checked.
AcceptsAnyLength(fromFlag, toFlag, maxRange) ==
    LET from == TimeOf(fromFlag)
        to == EndOf(toFlag)
    IN  /\ Parses(fromFlag)
        /\ Parses(toFlag) \/ toFlag.form = "empty"
        /\ from < to
        /\ to <= Now + FutureSlack
        /\ to - from <= IF maxRange > 0 THEN maxRange ELSE DefaultMaxWindow

\* ParseWindow returns no error.
AcceptsWindow(fromFlag, toFlag, maxRange) ==
    LET from == TimeOf(fromFlag)
        to == EndOf(toFlag)
    IN  /\ Parses(fromFlag)
        /\ Parses(toFlag) \/ toFlag.form = "empty"
        /\ from < to
        /\ to <= Now + FutureSlack
        /\ to - from >= MinWindow
        /\ to - from <= IF maxRange > 0 THEN maxRange ELSE DefaultMaxWindow

\* warmupEnd: a fraction of the window, but as many ticks as a baseline needs.
\* The fraction may end between two ticks: the first tick not before it counts.
WarmUpEnd(from, to) ==
    LET fraction == ((to - from) * WarmUpNum + WarmUpDen - 1) \div WarmUpDen
    IN  from + IF WarmUpSamples > fraction THEN WarmUpSamples ELSE fraction

-----------------------------------------------------------------------------
(* Injected faults *)

Names(series, rule) == series[1] = rule

\* An entry without labels targets all series of its metric.
Targets(entry, series) ==
    Names(series, entry.rule) /\ (entry.labels = {} \/ series[2] \in entry.labels)

\* Apply is called for adaptive metrics only.
EntriesFor(series) ==
    {e \in DOMAIN Injections :
        /\ Targets(Injections[e], series)
        /\ \E m \in DOMAIN AdaptiveMetrics : AdaptiveMetrics[m] = Injections[e].rule}

During(entry, t) == entry.start <= t /\ t <= entry.end

\* faultSilence takes the points of its window away,
Silenced(series, t) ==
    \E e \in EntriesFor(series) : Injections[e].type = "silence" /\ During(Injections[e], t)

\* the other faults change their values; a ramp starts at zero.
Perturbed(series, t) ==
    \E e \in EntriesFor(series) :
        /\ During(Injections[e], t)
        /\ \/ Injections[e].type \in {"spike", "step"}
           \/ Injections[e].type = "ramp" /\ t > Injections[e].start

\* What is left of the hour before a tick in an answer.
Points(series, from, tick) ==
    LET start == IF tick - Hour < from THEN from ELSE tick - Hour
    IN  {t \in History[series] : start <= t /\ t <= tick /\ ~Silenced(series, t)}

\* SamplesAt: every series with a point, and the last point of it.
SeriesAt(rule, from, tick) ==
    {s \in DOMAIN History : Names(s, rule) /\ Points(s, from, tick) # {}}
SampleTime(series, from, tick) ==
    CHOOSE t \in Points(series, from, tick) : \A u \in Points(series, from, tick) : u <= t

\* A series is in the answer if the backend has a point of it in the hour.
Answered(rule, from, tick) ==
    LET start == IF tick - Hour < from THEN from ELSE tick - Hour
    IN  {s \in DOMAIN History :
            Names(s, rule) /\ \E t \in History[s] : start <= t /\ t <= tick}

\* A ground truth: an entry of the profile and a series it targets.  The truths of a
\* series are recorded together, in the order of the profile.
GroundTruths(series) == [entry : DOMAIN Injections, target : series]
FaultOf(truth) == Injections[truth.entry]

\* The key a truth is recorded under; neither end nor magnitude are part of it.
KeyOf(truth) == <<truth.target, FaultOf(truth).type, FaultOf(truth).start>>

\* Apply adds a truth for every targeted series in the answer, once per key, even
\* if none of its points lies in the window yet.
Recorded(truths, answered) ==
    LET new == {t \in GroundTruths(answered) : Targets(FaultOf(t), t.target)}
        taken(t) == \/ \E k \in truths : KeyOf(k) = KeyOf(t)
                    \/ \E k \in new : KeyOf(k) = KeyOf(t) /\ k.entry < t.entry
    IN  truths \cup {t \in new : ~taken(t)}

-----------------------------------------------------------------------------
(* Scores *)

\* Faulty variant: no grace after the end of a truth.
MatchingNoGrace(truths, a) ==
    {t \in truths : t.target = a.series /\ During(FaultOf(t), a.tick)}

\* The truths an anomaly matches: its series, from start to end plus one tick.
Matching(truths, a) ==
    {t \in truths : /\ t.target = a.series
                    /\ FaultOf(t).start <= a.tick /\ a.tick <= FaultOf(t).end + 1}

\* Score: an anomaly is credited to the first truth it matches.
Score(truths, anomalies) ==
    LET hits == {a \in anomalies : Matching(truths, a) # {}}
        first(a) == CHOOSE t \in Matching(truths, a) :
                        \A k \in Matching(truths, a) : t.entry <= k.entry
    IN  [tp |-> hits, fp |-> anomalies \ hits, detected |-> {first(a) : a \in hits}]
=============================================================================
