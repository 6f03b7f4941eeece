------------------------------- MODULE Replay -------------------------------
(***************************************************************************)
(* A replay of the detectors over recorded metrics and logs: runReplay     *)
(* (controller/cmd/controller/main.go), Run, the report builder and the    *)
(* in-memory baselines (internal/replay), and the injector and scorer it   *)
(* uses (internal/replay/inject, here in ReplayInputs).                    *)
(*                                                                         *)
(* A tick queries every rule, evaluates what it got and filters it as a    *)
(* cycle of the controller would.  Queries may fail, up to MaxErrors of    *)
(* them, and all do once the user has interrupted the run.  A baseline is  *)
(* how often its series was evaluated; a series in Noisy may be anomalous  *)
(* at any time, another one only while a fault perturbs it.  What the      *)
(* filters decide is PostFilters' question: here they keep any part of     *)
(* the adaptive anomalies, and one counter stands for all they drop.       *)
(***************************************************************************)
EXTENDS ReplayInputs

CONSTANTS
    FromFlags, ToFlags, MaxRange,  \* --from, --to, --max-range
    StaticRules, LogPatterns,      \* detection.static_rules, detection.log_patterns
    SystemicFailureThreshold,      \* 3 in engine.go
    Noisy,                         \* series that may be anomalous by themselves
    MaxAnomalies,                  \* --max-anomalies, 0 for no cap
    MaxErrors                      \* bound of the model: queries that may fail

NamesOf(rules) == {rules[r] : r \in DOMAIN rules}

\* A name stands for one rule, so that it identifies the rule's series.
ASSUME RulesAssumption ==
    /\ \A rules \in {AdaptiveMetrics, StaticRules, LogPatterns} :
        /\ rules \in Seq(NamesOf(rules))
        /\ \A q, r \in DOMAIN rules : rules[q] = rules[r] => q = r
    /\ NamesOf(AdaptiveMetrics) \cap NamesOf(StaticRules) = {}
    /\ NamesOf(AdaptiveMetrics) \cap NamesOf(LogPatterns) = {}
    /\ NamesOf(StaticRules) \cap NamesOf(LogPatterns) = {}

ASSUME OptionsAssumption ==
    /\ \A flag \in FromFlags \cup ToFlags : flag.n \in Int
    /\ MaxAnomalies \in Nat

VARIABLES
    stage,        \* where the run is
    from, to,     \* the window
    tick,
    i,            \* the next rule of the stage's list
    failed,       \* adaptive queries that failed in this tick
    fetched,      \* adaptive metrics whose query answered in this tick
    found,        \* tickAnomalies
    count,        \* series -> evaluations, as far as warm-up counts them
    queryErrors, warmupSkipped, processed, skipped,
    filtered,     \* directionFiltered, floorFiltered and fdrRejected together
    report,       \* anomalies of the report: [tick, series]
    truths,       \* ground truths
    interrupted,  \* SIGINT or SIGTERM has come
    status,       \* ResultStatus
    files,        \* what was written
    \* What nobody in the program keeps:
    evaluated,    \* queries whose answer was evaluated
    fired         \* anomalies the detectors returned

counters == <<queryErrors, warmupSkipped, processed, skipped, filtered, evaluated, fired>>
window == <<from, to>>
loop == <<i, failed, fetched, found>>
output == <<report, truths, status, files>>
vars == <<stage, window, tick, loop, count, counters, output, interrupted>>

NoStatus == ""
IsWarmUp == tick < WarmUpEnd(from, to)
Rules == Len(AdaptiveMetrics) + Len(StaticRules) + Len(LogPatterns)

Init ==
    /\ stage = "parse"
    /\ from = 0 /\ to = 0 /\ tick = 0
    /\ i = 1 /\ failed = 0 /\ fetched = {} /\ found = {}
    /\ count = [s \in DOMAIN History |-> 0]
    /\ queryErrors = 0 /\ warmupSkipped = 0 /\ processed = 0 /\ skipped = 0
    /\ filtered = 0 /\ evaluated = 0 /\ fired = 0
    /\ report = {} /\ truths = {} /\ status = NoStatus /\ files = {}
    /\ interrupted = FALSE

-----------------------------------------------------------------------------
(* Before and after the loop *)

\* ParseWindow on the flags.
Parse ==
    /\ stage = "parse"
    /\ \E f \in FromFlags, t \in ToFlags :
        IF AcceptsWindow(f, t, MaxRange)
        THEN /\ stage' = "preflight"
             /\ from' = TimeOf(f) /\ to' = EndOf(t) /\ tick' = TimeOf(f)
        ELSE stage' = "refused" /\ UNCHANGED <<window, tick>>
    /\ UNCHANGED <<loop, count, counters, output, interrupted>>

\* Configuration, profile, Prometheus, Loki and the output path, in this order; the
\* first that fails ends the program.
Preflight ==
    /\ stage = "preflight"
    /\ stage' \in {"tick", "refused"}
    /\ UNCHANGED <<window, tick, loop, count, counters, output, interrupted>>

\* BuildReport's status, unless an interruption has set it.
StatusOf(partial) ==
    IF partial \/ queryErrors > 0 THEN "partial"
    ELSE IF report # {} THEN "anomalies_detected" ELSE "no_anomalies"

Finish(partial) ==
    /\ stage' = "done"
    /\ status' = StatusOf(partial)
    /\ UNCHANGED <<window, tick, loop, count, counters, report, truths, files, interrupted>>

\* WriteJSON, then WriteMarkdown; the first that fails ends the program.
Write ==
    /\ stage = "done"
    /\ stage' = "written"
    /\ files' \in {{}, {"json"}, {"json", "md"}}
    /\ UNCHANGED <<window, tick, loop, count, counters, report, truths, status, interrupted>>

Interrupt ==
    /\ stage \in {"tick", "metrics", "static", "logs"}
    /\ ~interrupted
    /\ interrupted' = TRUE
    /\ UNCHANGED <<stage, window, tick, loop, count, counters, output>>

-----------------------------------------------------------------------------
(* The loop over ticks *)

\* The loop's condition comes first: an interruption is noticed only by a tick that
\* would still begin.
StartTick ==
    /\ stage = "tick"
    /\ IF tick + 1 > to THEN Finish(FALSE)
       ELSE IF interrupted THEN Finish(TRUE)
       ELSE /\ tick' = tick + 1
            /\ stage' = "metrics"
            /\ i' = 1 /\ failed' = 0 /\ fetched' = {} /\ found' = {}
            /\ UNCHANGED <<window, count, counters, output, interrupted>>

Fails == queryErrors < MaxErrors \/ interrupted

\* A metric answers: its series are injected and kept for evaluation.
MetricAnswers ==
    /\ stage = "metrics"
    /\ i <= Len(AdaptiveMetrics)
    /\ ~interrupted
    /\ fetched' = fetched \cup {AdaptiveMetrics[i]}
    /\ truths' = Recorded(truths, Answered(AdaptiveMetrics[i], from, tick))
    /\ i' = i + 1
    /\ UNCHANGED <<stage, window, tick, failed, found, count, counters, report, status,
                   files, interrupted>>

\* Faulty variant: a failing metric is asked again.
MetricFailsRetries ==
    /\ stage = "metrics"
    /\ i <= Len(AdaptiveMetrics)
    /\ Fails
    /\ queryErrors' = queryErrors + 1
    /\ failed' = failed + 1
    /\ UNCHANGED <<stage, window, tick, i, fetched, found, count, warmupSkipped, processed,
                   skipped, filtered, evaluated, fired, output, interrupted>>

\* A metric's query fails: the metric is passed over, or, when nothing but failures
\* came first, all that are left.
MetricFails ==
    /\ stage = "metrics"
    /\ i <= Len(AdaptiveMetrics)
    /\ Fails
    /\ queryErrors' = queryErrors + 1
    /\ failed' = failed + 1
    /\ i' = IF failed + 1 >= SystemicFailureThreshold /\ i = failed + 1
            THEN Len(AdaptiveMetrics) + 1 ELSE i + 1
    /\ UNCHANGED <<stage, window, tick, fetched, found, count, warmupSkipped, processed,
                   skipped, filtered, evaluated, fired, output, interrupted>>

\* Faulty variant: a lost tick is counted and goes on.
SkipTickGoesOn ==
    /\ stage = "metrics"
    /\ i > Len(AdaptiveMetrics)
    /\ Len(AdaptiveMetrics) > 0 /\ fetched = {}
    /\ skipped' = skipped + 1
    /\ stage' = "static" /\ i' = 1
    /\ UNCHANGED <<window, tick, failed, fetched, found, count, queryErrors, warmupSkipped,
                   processed, filtered, evaluated, fired, output, interrupted>>

\* Nothing answered: the tick is lost, its static rules and logs with it.
SkipTick ==
    /\ stage = "metrics"
    /\ i > Len(AdaptiveMetrics)
    /\ Len(AdaptiveMetrics) > 0 /\ fetched = {}
    /\ skipped' = skipped + 1
    /\ stage' = "tick"
    /\ UNCHANGED <<window, tick, loop, count, queryErrors, warmupSkipped, processed,
                   filtered, evaluated, fired, output, interrupted>>

\* The series among S that may be anomalous at this tick.
Suspects(S) == {s \in S : s \in Noisy \/ Perturbed(s, SampleTime(s, from, tick))}

\* The in-memory store evaluates the samples of S: those past warm-up may fire.  While
\* the replay warms up their anomalies are only counted.
Evaluate(S) ==
    /\ count' = [s \in DOMAIN count |->
                    IF s \in S /\ count[s] < WarmUpSamples THEN count[s] + 1 ELSE count[s]]
    /\ \E anomalies \in SUBSET Suspects({s \in S : count[s] >= WarmUpSamples}) :
        /\ fired' = fired + Cardinality(anomalies)
        /\ IF IsWarmUp
           THEN /\ warmupSkipped' = warmupSkipped + Cardinality(anomalies)
                /\ UNCHANGED found
           ELSE /\ found' = found \cup anomalies
                /\ UNCHANGED warmupSkipped

EvaluateMetrics ==
    /\ stage = "metrics"
    /\ i > Len(AdaptiveMetrics)
    /\ Len(AdaptiveMetrics) = 0 \/ fetched # {}
    /\ evaluated' = evaluated + Cardinality(fetched)
    /\ Evaluate(UNION {SeriesAt(rule, from, tick) : rule \in fetched})
    /\ stage' = "static" /\ i' = 1
    /\ UNCHANGED <<window, tick, failed, fetched, queryErrors, processed, skipped, filtered,
                   output, interrupted>>

\* A static rule answers; it is evaluated after the warm-up only.
StaticAnswers ==
    /\ stage = "static"
    /\ i <= Len(StaticRules)
    /\ ~interrupted
    /\ evaluated' = evaluated + 1
    /\ \E breaches \in SUBSET Suspects(SeriesAt(StaticRules[i], from, tick)) :
        /\ IsWarmUp => breaches = {}
        /\ fired' = fired + Cardinality(breaches)
        /\ found' = found \cup breaches
    /\ i' = i + 1
    /\ UNCHANGED <<stage, window, tick, failed, fetched, count, queryErrors, warmupSkipped,
                   processed, skipped, filtered, output, interrupted>>

\* Faulty variant: a static rule's failure is logged and forgotten.
StaticFailsSilently ==
    /\ stage = "static"
    /\ i <= Len(StaticRules)
    /\ Fails
    /\ i' = i + 1
    /\ UNCHANGED <<stage, window, tick, failed, fetched, found, count, counters, output,
                   interrupted>>

\* Faulty variant: a failing static rule is asked again.
StaticFailsForever ==
    /\ stage = "static"
    /\ i <= Len(StaticRules)
    /\ Fails
    /\ UNCHANGED vars

StaticFails ==
    /\ stage = "static"
    /\ i <= Len(StaticRules)
    /\ Fails
    /\ queryErrors' = queryErrors + 1
    /\ i' = i + 1
    /\ UNCHANGED <<stage, window, tick, failed, fetched, found, count, warmupSkipped,
                   processed, skipped, filtered, evaluated, fired, output, interrupted>>

StaticDone ==
    /\ stage = "static"
    /\ i > Len(StaticRules)
    /\ stage' = "logs" /\ i' = 1
    /\ UNCHANGED <<window, tick, failed, fetched, found, count, counters, output, interrupted>>

LogAnswers ==
    /\ stage = "logs"
    /\ i <= Len(LogPatterns)
    /\ ~interrupted
    /\ evaluated' = evaluated + 1
    /\ Evaluate(SeriesAt(LogPatterns[i], from, tick))
    /\ i' = i + 1
    /\ UNCHANGED <<stage, window, tick, failed, fetched, queryErrors, processed, skipped,
                   filtered, output, interrupted>>

LogFails ==
    /\ stage = "logs"
    /\ i <= Len(LogPatterns)
    /\ Fails
    /\ queryErrors' = queryErrors + 1
    /\ i' = i + 1
    /\ UNCHANGED <<stage, window, tick, failed, fetched, found, count, warmupSkipped,
                   processed, skipped, filtered, evaluated, fired, output, interrupted>>

\* Direction, floor and FDR drop adaptive anomalies only.
IsStatic(s) == \E r \in DOMAIN StaticRules : Names(s, StaticRules[r])

Entry(s) == [tick |-> tick, series |-> s]

\* Faulty variant: the cap is compared before the anomaly is counted in.
RoomPlusOne == IF MaxAnomalies = 0 THEN Cardinality(found)
               ELSE MaxAnomalies + 1 - Cardinality(report)

\* How many anomalies addAnomaly still takes.
Room == IF MaxAnomalies = 0 THEN Cardinality(found)
        ELSE MaxAnomalies - Cardinality(report)

\* The accepted anomalies enter the report until it is full; the order they come in
\* is left open.
EndTick ==
    /\ stage = "logs"
    /\ i > Len(LogPatterns)
    /\ \E accepted \in SUBSET found :
        /\ {s \in found : IsStatic(s)} \subseteq accepted
        /\ filtered' = filtered + Cardinality(found \ accepted)
        /\ \E added \in SUBSET accepted :
            /\ Cardinality(added) =
                 IF Cardinality(accepted) <= Room THEN Cardinality(accepted) ELSE Room
            /\ report' = report \cup {Entry(s) : s \in added}
    /\ processed' = processed + 1
    /\ found' = {}
    /\ stage' = "tick"
    /\ UNCHANGED <<window, tick, i, failed, fetched, count, queryErrors, warmupSkipped,
                   skipped, evaluated, fired, truths, status, files, interrupted>>

Run ==
    \/ Parse \/ Preflight \/ StartTick
    \/ MetricAnswers \/ MetricFails \/ SkipTick \/ EvaluateMetrics
    \/ StaticAnswers \/ StaticFails \/ StaticDone
    \/ LogAnswers \/ LogFails \/ EndTick
    \/ Write

Next == Run \/ Interrupt

Spec == Init /\ [][Next]_vars

\* The replay is one goroutine and its queries have timeouts; nobody need interrupt it.
FairSpec == Spec /\ WF_vars(Run)

-----------------------------------------------------------------------------
(* Properties *)

InLoop == stage \in {"tick", "metrics", "static", "logs"}
AtRest == stage \in {"tick", "done", "written"}

TypeOK ==
    /\ stage \in {"parse", "preflight", "refused", "tick", "metrics", "static", "logs",
                  "done", "written"}
    /\ from \in Int /\ to \in Int /\ tick \in Int
    /\ i \in Nat /\ failed \in 0 .. Len(AdaptiveMetrics)
    /\ fetched \subseteq NamesOf(AdaptiveMetrics)
    /\ found \subseteq DOMAIN History
    /\ count \in [DOMAIN History -> 0 .. WarmUpSamples]
    /\ {queryErrors, warmupSkipped, processed, skipped, filtered, evaluated, fired} \subseteq Nat
    /\ report \subseteq [tick : Int, series : DOMAIN History]
    /\ truths \subseteq GroundTruths(DOMAIN History)
    /\ interrupted \in BOOLEAN
    /\ status \in {NoStatus, "partial", "anomalies_detected", "no_anomalies"}
    /\ files \subseteq {"json", "md"}

\* A window that passes the checks has a tick that detects: one after the replay's
\* warm-up and after that of a baseline that began with the window, as the comment
\* on MinWindow says, provided that the shortest window's fraction covers
\* warm_up_samples.
DetectionPhaseExists ==
    InLoop /\ WarmUpSamples * WarmUpDen <= MinWindow * WarmUpNum /\ WarmUpNum < WarmUpDen =>
        \E t \in from + 1 .. to : t >= WarmUpEnd(from, to) /\ t - from > WarmUpSamples

\* A report that does not say "partial" has evaluated every rule at every tick of its
\* window: no query failed, no tick was skipped and no interruption cut anything off.
\* "no_anomalies" is never an infrastructure artifact.
StatusHonest ==
    status \in {"anomalies_detected", "no_anomalies"} =>
        evaluated = (to - from) * Rules

\* Every tick that was begun is either processed or skipped, never both.
TicksAccounted ==
    AtRest => processed + skipped = tick - from

\* What the detectors returned was set aside in warm-up, dropped by a filter or is in
\* the report, and only a full report loses any; nothing from the warm-up is in it.
AnomaliesAccounted ==
    AtRest =>
        LET lost == fired - warmupSkipped - filtered - Cardinality(report)
        IN  /\ lost >= 0
            /\ lost > 0 => Cardinality(report) = MaxAnomalies
            /\ \A a \in report : a.tick >= WarmUpEnd(from, to)

\* Two entries of the profile that would share a key of KeyOf are not told apart: the
\* truth of the second is never recorded.
DistinctEntries ==
    \A e, f \in DOMAIN Injections :
        Injections[e].rule = Injections[f].rule /\ Injections[e].type = Injections[f].type
        /\ Injections[e].start = Injections[f].start => e = f

\* The injector and the scorer agree: with distinct entries, an anomaly on a sample
\* that a fault perturbed is a true positive, even if the sample is a tick old when
\* it is evaluated, and whichever queries failed before.
InjectedIsHit ==
    stage = "done" /\ DistinctEntries =>
        \A a \in report :
            LET t == SampleTime(a.series, from, a.tick)
            IN  Perturbed(a.series, t) /\ a.tick <= t + 1 =>
                    a \in Score(truths, report).tp

\* The run ends, with a report or with an error, whatever fails.
Ends == <>(stage \in {"refused", "written"})
=============================================================================
