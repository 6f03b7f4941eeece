# A formal model of staffops-anomaly-detection

The repository detects anomalies in metrics and logs of Kubernetes workloads and alerts
on them. This directory holds TLA+ modules that model its parts, TLC configurations that
check them on small instances, and proofs, checked by TLAPS, of what holds for every
instance. Paths below are relative to `src/`; `internal/` stands for
`controller/internal/`.

## 1. The system and its parts

    config file --> Configuration, Watcher
                        |
     ticker --> Controller: runCycle --JobBatch (gRPC)--> Worker: ProcessJobs
                        |                                   |  rate limiter, Prometheus, Loki
                        |                                   |  static / adaptive / pattern detectors
                        |                                   |  baseline store <--> Redis
                        |<------ anomalies, family size ----+  suppression, seasonal profile
                        |
              direction, floor, FDR filters
                        |
              Correlator.Add / Flush  <--> Redis (deduplication), enrichment cache
                        |
              ML verdict --> Dispatcher --> Alertmanager
     leader election (Kubernetes Lease) decides which controller replica runs cycles

| Component | State | Operations | Made correct by |
|---|---|---|---|
| Correlator (`internal/correlation`) | pending groups, in memory; deduplication entries, in Redis | `Add`, `Flush` with pattern detection, `finalize` | every anomaly accounted for once; patterns collapsed completely; cooldown kept; drops justified; nothing waits for ever |
| Detection cycle (`cmd/controller/main.go: runCycle`) | the phase of the cycle | batch, call, filters, add, flush, ML, dispatch | early returns lose nothing |
| Dispatcher (`internal/alert`) | none | `FireCorrelated` | one POST per alert, no retry |
| Leader election (`internal/leader`, `cmd/controller`) | the Lease, each replica's context | acquire, renew, give up, release, shutdown | at most one replica leads; alerting resumes after a failure |
| Filters (`internal/detection/{direction,floor,fdr}.go`) | none | three filters in a row | the procedure is Benjamini-Hochberg over the whole family; no anomaly goes uncounted |
| Detectors (`internal/detection`) | none | static, adaptive, log pattern | thresholds; the family size is what was evaluated |
| Baseline store (`internal/baseline/store.go`) | mean, deviation, EWMA and count per key, in Redis | `Evaluate`: load, judge, learn, save | no verdict before warm-up; statistics are of real samples |
| Seasonal profile (`internal/baseline/seasonal.go`) | statistics per key and hour of the week | `Update`, `Get` | as above |
| Absence tracker (`internal/absence`) | last time each series was seen | `RecordSample`, `Check` | silence is reported, and only silence |
| Worker (`cmd/worker/main.go`) | per-batch query cache | `ProcessJobs` | one failing job spares the others; the family counts the evaluations |
| Suppression (`internal/suppression`) | none | a filter | only what the lists name is dropped: breaches elsewhere arrive |
| Rate limiter (`internal/ratelimit`) | bucket of tokens | `Wait`, refill | bounded rate; waiters proceed or fail with their call |
| Redis client (`internal/redis`) | circuit breaker | get, set, hash operations, ping | opens after five failures; counts its trials; recovers, also without traffic |
| Enrichment (`internal/enrichment`) | cached bundles, in Redis | `Run` | fails softly and in time; a bundle is complete and of one pod or service |
| Configuration (`internal/config`) | current configuration, last modification time | `Load`, `check` | an edit is picked up, a broken file is not; a cycle holds one configuration |
| Replay (`internal/replay`) | baselines in memory, report under construction | window, tick loop, report | every tick and anomaly accounted for; the status hides no failure; the program ends |
| Injection and scoring (`internal/replay/inject`) | ground truths | `Apply`, `Score` | an anomaly at an injected fault is a hit |
| ML client and server (`internal/ml`, `ml/server`) | history of feature vectors | `detect`, forecast | soft failure |
| Ingestion, metrics server, readiness, deployment files | - | I/O | - |

How they interact: the controller calls workers synchronously and hands what they return
through the filters to the correlator, in one goroutine. Replicas share state only
through the Kubernetes Lease and Redis. Batches of overlapping cycles, or of different
workers, share baselines through Redis. The configuration watcher runs concurrently with
the cycle loop. Enrichment and ML answer or fail within a timeout and never stop a cycle.

What is hard to test here: the moment at which a leader's context is cancelled against
the moment another replica may take the lease; restarts between two steps of a flush;
Redis or Alertmanager failing at one of several calls; overlapping read-modify-write of a
baseline; groups that outlive aborted cycles; ties and family sizes in the FDR procedure;
a breaker whose trials meet late answers; a batch whose call expires between two of its
jobs; an edit of the configuration between two steps of a reload or of a cycle; failures
in a replay that look like one another.
`PROJECT.json` lists these hazards at their lines, with the properties that cover them or
the reason why none does yet.

## 2. The modules

| Module | Models | Extends | Runs |
|---|---|---|---|
| `Grouping` | the correlator's pure part: keys, patterns, severity, fingerprint, identity of an alert | | through `Correlator` |
| `Correlator` | one replica's cycle around the correlator, with Redis entries, POSTs, restarts and time | `Grouping` | `correlator_*` |
| `MCCorrelator` | label sets for TLC | `Correlator` | |
| `CooldownGate` | the abstract promise: alerts of one incident pass at least `Cooldown` apart | | refined by `ControllerHA` |
| `ControllerHA` | replicas behind a Lease, and one incident every cycle finds again | | `ha_*` |
| `Baseline` | one baseline key and the samples evaluated against it | | `baseline_*` |
| `PostFilters` | direction, floor and FDR filters of a cycle | | `post_filters` |
| `RedisBreaker` | the breaker around every Redis command | | through `Worker` |
| `Worker` | handlers working through batches, with suppression, rate limiters, Redis behind the breaker, and `/readyz` | `RedisBreaker` | `worker` |
| `ReplayInputs` | a replay's window, faults, samples and scores: pure operators | | through `Replay` |
| `Replay` | the replay program from its flags to its exit | `ReplayInputs` | `replay` |
| `Configuration` | the file, `Load`, the watcher and the pointer the controller reads | | through `ControllerCycle` |
| `Enrichment` | the bundle of one alert, with its fan-out and its cache | | through `ControllerCycle` |
| `ControllerCycle` | `runCycle` beside the watcher, with enrichment inside | `Configuration`, `Enrichment` | `controller_cycle` |
| `MCWorker`, `MCReplay`, `MCControllerCycle` | batches, histories and faults, configurations for TLC | the module | |
| `CorrelatorProofs`, `ControllerHAProofs`, `BaselineProofs`, `PostFiltersProofs`, `WorkerProofs`, `ReplayProofs`, `ControllerCycleProofs` | proofs | the module, `TLAPS` | |
| `DataInduction` | lemmas: least and greatest element of a set of naturals, functions defined along a prefix of `Nat` | `WellFoundedInduction`, `TLAPS` | through `WorkerProofs`, `ReplayProofs` |

The definitions keep the code's names where that is possible; `PROJECT.json` maps each to
its lines. Definitions whose comment says "Faulty variant" are not part of the model:
each is a plausible bug in the definition below it, and replacing the definition by it
makes the property named in `PROJECT.json` fail.

### Grouping and Correlator

`pending` is `Correlator.pending`; a group is the labels and the origin of its first anomaly
(`anomalies[0]`, the one the code reads), its anomalies and its age, which saturates at `Window` because the code
only compares it with the window. `ttl` holds the Redis entries with the time they have
left. `phase` is where `runCycle` is; `batch`, `checking` and `out` are the alerts that
`finalize` has not looked at, has found to be no duplicate, and has let through.

The actions follow the code's order: `StartCycle`, then `CycleAborted` (a failed
`ProcessJobs`, which returns before `Flush`) or `JobsProcessed`, any number of `AddSome`,
`Flush` (which takes the ready groups out of the map and forms the alerts of workload
patterns and of the remaining pods), for each alert `DedupHit` or `DedupMiss` and
`DedupSet`, `Finalized`, `Dispatch` for each alert, and `EndCycle`. `Restart` may happen
at any point and loses everything but Redis. `Tick` lets time pass between any two steps.
A Redis call may fail at each of its two places and the code lets the alert through; a
POST may fail although it was received.

SIGTERM or a lost lease cancels the context of a cycle, whose remaining calls then fail, and
ends the process: `Restart` stands for that too, at the moment of the cancellation.

Four history variables serve the properties: `accepted`, `settled`, `passed` and
`delivered`. They are never read by a guard except to give each anomaly a fresh id.

An anomaly has an origin, its signal and detector, and an alert those of its first
anomaly. For a workload alert that is the first anomaly of whichever group Go's map
iteration yields first, hence `Representatives`. Two operators say what an alert is:
`fingerprint`, the key of its deduplication entry, and `target`, what its receiver tells it
apart by, namely the labels of `buildAlert` in the dispatcher (`cluster` falls back to the
controller's own `ClusterName`, `workload` is `amWorkloadLabel`, `signal` and `detector` are
the origin's) and the identity annotation. The two differ, and `DropJustified` says what a
drop still owes the receiver: within the cooldown it was told of the same subject, at least
as severely, though possibly of another signal or detector.

Abstractions: an anomaly is its labels, origin and severity; label values are model
strings; keys joined with "/" are tuples; 64 bits of SHA-256 are collision free;
`ExtractWorkload` is a constant function of the pod name; the ML verdict is
nondeterministic; the labels `enriched`, `ml_confirmed` and `workload_pattern` and the
other annotations are left out; enrichment has no effect on what is alerted.

### ControllerHA and CooldownGate

client-go's leader election is external and modelled from the parameters `leader.Run`
passes: a candidate acquires a lease that is free, its own or `LeaseDuration` old; a leader
renews; when renewals have failed for `RetryPeriod + RenewDeadline` it gives up. Calls
reach the API server at once and their answers come up to `Latency` later or never, so a
replica may hold the lease without knowing. The context of the cycle is live in states
`leading` and `releasing`: with `ReleaseOnCancel` client-go v0.29.4 (the version of `go.mod`)
gives the lease back before `RunOrDie` returns and cancels it. That call has no deadline:
client-go passes `context.TODO()`, and `buildClient` (`leader.go:180-196`) makes a client
without a timeout. So `releasing` may last for ever while the API server is silent
(`Exit` is fair only once failures have stopped), and `Tick` waits for the timers of
`leading` replicas only. `Release` may land at any moment, or never. On SIGTERM the context is
cancelled first (`stopping`).

Hence two statements. `SingleWorker`, that no two replicas run cycles, is what the documents
say and `ha_release` refutes. `SoleLeader`, that no two replicas renew as leaders, holds:
what overlaps with a new leader is only a former one that has given up.

After `leader.Run` returns, `main` returns too, and the
container is started again under the same identity (the comments at `main.go:197-198` and
`leader.go:85`, "keeps trying to re-acquire" and "loops forever", say otherwise; the code
decides here).

Each live leader's cycle checks the incident's deduplication entry (`Check`), sets it
(`Mark`) and sends (`Send`); leadership may move between any two of them. `CooldownGate`
sees only the entry's time left, a parity bit and whether a handover is on: two replicas
that both found no entry may both let the alert through, and `overtaken`, a history
variable, holds those whose check another's mark has made void while one of the two was
`releasing`. Outside of that the gate keeps the cooldown.

Abstractions: clocks run at one rate, timers fire in time (`Tick` is not enabled beyond a
leading replica's patience), a Redis or Alertmanager call whose context is cancelled has no
effect. Processes that stall for longer than the lease are outside the model: no lease
protocol without fencing survives them, and this code has none.

### Baseline

An evaluation is two steps: `Load` takes the sample and the statistics, then `Save`,
`SaveFails` or `Reject` (the poison gate) ends it. Evaluators are batches under way at the
same time, so updates may be lost. All pods of a workload share a key, hence many samples
per cycle. Numbers are exact: `n` samples are represented by their sum, the sum of their
squares and the EWMA, a fraction `ewma / unit` whose `unit` is multiplied by `AlphaDen` with
every sample. Welford's recurrence computes the same
mean and variance from them; comparisons of z-scores are multiplied out. `MaxCount` bounds
the samples learned in a run. Rounding, NaN and infinities are not modelled.

### PostFilters

`Receive` is what the workers return: an arbitrary p-value for each evaluation, those that
fired shipped, an arbitrary subset of them harmless or below the floor, and a family size
that may be too small (0), exact or too large. `FilterByDirection`, `FilterByFloor`, then
`Apply`, whose sort may return any order of equal p-values and whose scan is one step per
rank. P-values are integers in units of `1/Scale`; `zscoreToPValue` is monotone, so any
set of values stands for z-scores. Floating-point rounding of `k/m*Target` is not modelled.

### RedisBreaker and Worker

gobreaker is external and modelled from `NewClient`'s settings: closed, it counts
consecutive failures and opens at `TripAfter`; open, it refuses until its timeout passes;
half-open, it admits `MaxRequests` trials and closes when all succeed. gobreaker numbers its
generations and ignores the end of a call of another one; a new generation marks the calls
in flight as stale here. `IntervalPasses` and `TimeoutPasses` are its two clocks. A call
refused by the breaker is an error like any other.

A handler's `pc` walks through `ProcessJobs`: for each job a cached answer (`UseCache`), a
query behind the limiter (`QueryAnswers`) or an error (`JobFails`), then for adaptive jobs
the samples one by one, each with a load and a save that may be refused, fail or come back
late, then `Filter` (suppression), the seasonal profile of what is kept, and `NextJob`.
`Expire` is the cycle's deadline of `main.go:241`, at any moment; the controller reads
nothing of a call that has expired, which is why `BreachesArrive` speaks of the step in
which a call that has not returns. Two details of the code
that decide a property: a sample that fails to load or to save is skipped and not counted,
one that the poison gate rejects is counted without a save; and only Prometheus answers
are cached, so log jobs always query. `Readyz` is the kubelet's request, which passes the
breaker unless it is open (`ReadinessCheck` then answers at once).

Abstractions: a sample is a series with "low" or "high", which is what a static threshold
sees; an adaptive verdict is any that `Evaluate` may return (`Baseline` treats it), except
that nothing is reported of a series that is warming up; the workload of an anomaly is a
label, where the code derives it from the pod; the rate is left out and the bucket kept;
what a job's samples are called does not matter, so the one a command was for is chosen
when the command ends. Commands in flight at the deadline may still end well.

### ReplayInputs and Replay

Time is counted in ticks. `ReplayInputs` holds what computes without state: which windows
`ParseWindow` accepts, when warm-up ends, which series and points an injected fault changes
or removes, what a tick finds at its instant (`SamplesAt`: the last point within an hour),
which ground truths an answer records, and how anomalies are matched to them. A ground truth
is an entry of the profile and a series; the truths are a set, since all of a series are
recorded at its first answer and in the profile's order, which is the order the scorer
looks at them in. `Replay` is
`runReplay`, `Run` and the report: `Parse`, `Preflight`, then for each tick the adaptive
metrics (`MetricAnswers`, `MetricFails`), where failures of the first
`SystemicFailureThreshold` rules end the tick (`SkipTick`), `EvaluateMetrics`, static rules,
log patterns and `EndTick` with the filters and the capped report; `Finish`, `Write`.
`Interrupt` may come at any time and makes every later query fail. As in the code, a tick
begins by asking whether the window has ended and only then whether the replay was
interrupted: an interruption during the last tick leaves no mark unless a query failed.

Abstractions: a series in `Noisy` may be anomalous at any evaluation past its warm-up,
another one only at a perturbed point; the filters keep any part of the adaptive anomalies;
magnitudes and the ratios of the score are left out; `MaxErrors` bounds the failing queries.
A rule is its name, and names differ (`RulesAssumption`): the code keeps series apart by rule
name too, and two rules of one name would share baselines and ground truths.

### Configuration, Enrichment and ControllerCycle

A content of the file is what loading and enrichment look at: whether it parses, which
variables it needs, its rules, the queries of its two bundles and `max_concurrent`.
`LoadInitial` and `NewWatcher` are two steps of `main`; `Stat`, `Load`, `Apply` and `Assign` are the steps of the watcher's `check` and of
`main`'s callback; the file may be written between any two of them. `Enrich`, `CacheHit` or
`CacheMiss`, `Launch` behind the semaphore, `QueryAnswers` or `QueryFails`, `Collect` and
`Store` are `Run`; the cache may lose a bundle at any time.

`ControllerCycle` puts both into the process: `StartCycle` reads the shared pointer once and
hands it to the cycle as `held`; the direction and floor filters use it after the workers
have answered, by when the pointer may have moved. The enrichment engine keeps the
configuration the process started with (`engine`, set by `NewEngine`). `Crash` loses
everything but the file and the cache, so a process started after an edit may find bundles of
the old queries. An identity carries a `container`, which is no part of `CacheKey` and stands
for the labels a query may use beside it: two containers of one pod share an entry.
`BundlesWhole` says what remains: a bundle just collected has a result for each query of the
running engine and values of its own identity; one that is served or cached is whole by some
loadable configuration and of one identity of the same key, never a mixture.

What the model shows and no run asserts: a bundle of the old queries is served after an edit
and a restart, for at most `cache_ttl` (`docs/site/configuration/enrichment.md:106` describes
the key and says nothing of it); the bundle of one container is served for another of its
pod; an edit between `Load` and `NewWatcher` is never
picked up, since its time is taken for the loaded one's; a bundle of errors is cached like
any other; a rule name that occurs twice gets the last direction and floor in the maps the
filters use, while `validate` looks at each rule alone, which is why `FallsArrive` and
`OneConfigPerCycle` speak of configurations with unique names.

Abstractions: the file is read as a whole, and later writes have later modification times
(two writes within the clock's resolution are outside the model); a first `Load` that fails
ends the process, which is started again; queries are names, and what a query finds is named by
the identity it was rendered for.

## 3. What the runs show

| Run | Instance | Properties |
|---|---|---|
| `correlator_accounting` | 3 anomalies; two replicas of a workload and a service named like the first; threshold 2 (stands for the default 3), window 1, cooldown 2; POSTs may fail, restarts at any point. | `TypeOK`, `AccountedOnce`, `CollapseComplete`, `CooldownRespected` |
| `correlator_delivery` | 2 anomalies of two signals and detectors; one pod name in two clusters and without one, and a sibling; Redis may fail at each call; ML escalates or not; fairness. | `DropJustified`, `EventuallySettled` |
| `correlator_services` | two services without pod labels. | violates `DropJustified` |
| `correlator_detectors` | two replicas, metrics seen by a static and an adaptive rule. | violates `CooldownPerDetector` |
| `ha_failover` | two replicas; lease 8, deadline 4, retry 1, latency 1, cooldown 6; lost answers, releases that land or hang, shutdowns, crashes, restarts; fairness. | `TypeOK`, `SoleLeader`, `GateKept`, `AlertsGoOn` |
| `ha_release` | the same. | violates `SingleWorker` |
| `baseline_races` | two evaluators, values 2, 3, 9, warm-up 3, thresholds 1 and 2, alpha 1/2, five samples learned. | `TypeOK`, `SilentWarmUp`, `WithinSeen` |
| `baseline_direction` | one evaluator, values 0, 7, 10. | violates `BadWayFires` |
| `post_filters` | four evaluations, one static anomaly, five p-values, families 0, 4 and 5. | `TypeOK`, `AcceptsDiscoveries`, `NeverLooser`, `Conserved` |
| `worker` | one handler and the probe; a static and an adaptive job with one query, a log job and a pattern the batch leaves out; two series, one suppressed for adaptive detection, one in a namespace without static rules; bucket 1, breaker 2 and 2; Redis comes and goes, calls expire; fairness. | `TypeOK`, `FamilyCoversReports`, `OneSnapshotPerQuery`, `BreachesArrive`, `TrialsCounted`, `BatchEnds`, `RecoversByProbes` |
| `replay` | five ticks, three metrics, a static rule and a log pattern; three faults, two overlapping; a gap; fifteen combinations of flags; two failing queries, a report of two, interruption at any point; fairness. | `TypeOK`, `DetectionPhaseExists`, `StatusHonest`, `TicksAccounted`, `AnomaliesAccounted`, `InjectedIsHit`, `Ends` |
| `controller_cycle` | three contents of the file: of two that load, one adds a query to the bundle of pods; the third combines a floor with `down_bad`; three writes; two containers of one pod, a service and an alert that is neither; one anomaly and one alert per cycle; crashes; fairness. | `TypeOK`, `OneConfigPerCycle`, `FallsArrive`, `BundlesWhole`, `BoundedFanOut`, `EditEventuallyLoaded`, `CycleEnds` |

Why these bounds are enough for the questions asked. Three anomalies are the fewest with
which a pattern of two pods, a third anomaly in one of its groups, and a group left over
occur together; the service named like a pod makes the two share a group, with a first
label set that decides for both. A window of 1 separates groups that are ready from
groups that are not; a cooldown of 2 lets an entry run out before, during and after a
cycle. In `correlator_delivery` two anomalies are enough for an alert and its twin, whose
signal, detector, cluster or severity may differ, and for a workload alert. The recommended
lease timings of 15, 10 and 2 seconds with latency 1 and cooldown 16 pass too (2.5 million states); the smaller ones keep the run short, and the proof covers all.
With three warm-up samples and two evaluators an update can be lost before, at and after
the end of warm-up. Four evaluations show ties, gaps in the ranks that pass (so that
stopping early differs from stepping up) and a family larger than what is left after the
filters; the p-value 6 is above `FiredBelow`, so it is not shipped. In `worker` two failures
and two trials stand for five and three: trials can be exhausted, one can fail after
another succeeded, and a call can outlive the generation it was admitted in, by a handler
and a probe that race. The handlers of a worker share nothing but Redis, the breaker and
the buckets; the probe plays the second caller. Two series let one command fail and the
next succeed within a job. `replay` uses a threshold of 2 for the code's 3, below the number
of metrics, so that systemic failure, fewer failures and failures of later rules all occur;
a warm-up of three fifths makes the shortest accepted window the one that leaves two ticks
of detection. In `controller_cycle` three writes allow a good edit, a broken one and a good
one again, and with a crash in between a bundle that lacks the query of the edit; of two bundle
queries one can hang while the other holds the only slot, and `max_concurrent` is left out
in one content and 1 in the others. A variable that is unset would give one more content that
does not load, beside the one the validation refuses.

**Fairness.** `Correlator` assumes weak fairness of each step of the cycle and of time,
because every call in `runCycle` has a timeout and the ticker keeps firing; strong fairness
of `JobsProcessed`, because workers answer again and again although any one call may fail.
Nothing is assumed of `AddSome` and `Restart`; the liveness run has no restarts, since
a restart settles what it loses. `ControllerHA` assumes that time passes, that a
candidate keeps trying, a leader keeps renewing, a live leader's cycle goes on, and that
`leader.Run` returns once the API server answers; nothing of `Start`, nor of a release that
hangs. `Calm` marks the point after which failures stop, which
`AlertsGoOn` is conditional on.
`Worker` assumes that a handler goes on (a query or a command ends, well or badly), that the
kubelet keeps asking `/readyz` and gets an answer, that the refill goroutine runs and that
the breaker's timeout passes; nothing of Redis, of new batches or of `Expire`. `Replay`
assumes only that the one goroutine goes on. `ControllerCycle` assumes that the cycle and
the watcher's ticker go on; it assumes nothing of a query's answer: a backend that hangs
is ended by the timeout of `runOne`, which is why `CycleEnds` needs `QueryFails` and not
`QueryAnswers`. `BatchEnds` needs neither Redis nor the backends.

**Disagreements found.** Four runs end in a violation, each of a statement of the
repository:

1. `correlator_services`. `buildPodAlert` takes the alert's identity for the fingerprint from
   the pod label alone (`correlator.go:314`), so services without pods share one cooldown per
   cluster, namespace and severity; `workloadKey` and the dispatcher's `identityOf` do fall
   back to the service name. The second service's alert is dropped although nobody was told.
2. `correlator_detectors`. `docs/site/detection/correlation.md:39` gives the deduplication key
   as namespace, workload and detector; the fingerprint (`correlator.go:357`) has no
   detector. What the adaptive detector finds of a workload is dropped while the cooldown
   of a static alert runs, although Alertmanager's labels would tell the two apart.
3. `ha_release`. A leader that cannot renew releases the lease while its cycle's context is
   live (`leader.go:133`). If the release lands, a follower starts at once; if it hangs, a
   follower starts when the lease has run out. `specs/leader-election/design.md:112-113` says
   that exactly one replica leads and followers never run cycles.
4. `baseline_direction`. The direction filter compares with the mean of all time
   (`direction.go:26`), the z-score with the EWMA (`store.go:165`). After a level has
   fallen, a rise above the current baseline may lie below that mean, and an `up_bad` rule
   drops it, against `docs/site/configuration/rules.md:60`.

`leader.Run` only demands that the lease outlasts the renewal deadline. The proof needs
`RetryPeriod + RenewDeadline + Latency < LeaseDuration`, which the recommended 15, 10 and 2
seconds meet as long as answers take less than 3 seconds and, say, 11, 10 and 2 seconds never
do. `Latency` is an assumption: the renewals are bounded by `RenewDeadline`, but the answer to
an acquiring call has no timeout of its own either.

## 4. What is proved

All proofs are for every value of the constants that meets the modules' assumptions; a
theorem that needs more states it. Every safety property of a passing run has a theorem; the
runs confirm the properties on their instances.

- `CorrelatorProofs`. `TypeCorrect`. `EveryAnomalyAccounted`: `[]AccountedOnce`; inductive
  together with `TypeOK` and `OneBatch`, which says that an alert is in one of the three
  sets only and that there are none before a flush. Without it a second flush could meet
  alerts of the first. The flush step rests on two lemmas about
  `correlate`: the alerts cover the groups' anomalies (`CorrelateCovers`) and share none
  (`CorrelateDisjoint`). `NoRepeatWithinCooldown`: with a Redis that answers, no
  fingerprint passes twice within the cooldown; inductive because the entries outlive what
  is left of every cooldown that started, and because the alert being checked has none.
  `PatternsCollapse`: `[]CollapseComplete`. `CollapseComplete` by itself is kept by steps that
  take an alert away only if the sets it counts are finite; the invariant (`CollapseInv`)
  therefore says where the alerts come from: finitely many groups, and one flush of them.
  `PodAlertsSource` is the lemma behind it: an eligible pod alert comes from a group whose
  workload shows no pattern.
  `DropsAreJustified`: `DropJustified`, under these hypotheses: POSTs arrive, the dispatcher
  is not in dry-run mode, the process is not restarted, no series names a service without a
  pod (what `correlator_services` violates), and no cluster is called "unknown", the name the
  fingerprint gives to series without one (both in `PodsNameGroups`). Redis may fail at every
  call and ML may escalate. The invariant (`DropInv`): groups are filed under the key of their first label
  set, fingerprints tell the alerts in flight apart, and behind every entry there is an alert
  about to be sent or a delivery that lasts at least as long (`EntriesTold`). The second
  part excludes that a twin in the same batch is dropped before the first is sent.
- `ControllerHAProofs`, under `SafeLease` for the last three. `TypeCorrect`. `Invariance`:
  `HAInv`, whose core `ReignInv` says that a leading replica holds the lease and bounds the sum
  of the lease's age and the replica's patience; `SoleLeader` alone is not inductive, since it
  does not say that the lease a candidate finds run out has no leader behind it. `OneLeader`
  follows. Nothing is assumed of a release: it may land, fail or hang. `GateImplemented`: the
  replicas implement `CooldownGate`; the step that sets the entry maps to `LetThrough`
  because a checked alert's entry is still absent unless its replica is `overtaken`
  (`StepInv`), and two replicas can only be live together while one has given up.
- `BaselineProofs`. `DetectionWaits`: `[]SilentWarmUp`; the strengthening bounds the count
  in Redis and in every evaluator's hands by the samples evaluated. `TypeCorrect` and
  `NeverOutsideTheSamples` (`[]WithinSeen`) from `StatsInv`: what is stored and what every
  evaluator holds is `InRange` of the values seen. `LearnedBetween` is the step: mean and EWMA
  of the old statistics and a new sample are weighted sums (`WeightedSum`) of values between
  two seen ones. A save of a stale copy overwrites others' samples, which leaves it in range.
- `PostFiltersProofs`. `TypeCorrect`, `ScanIsBenjaminiHochberg`, `ConservativeControl` and
  `CountersAddUp`, from one inductive invariant, `FilterInv`: what the filters kept and
  dropped is all that was received (`Filtered`), and the scan holds the largest rank that
  passes among those it has looked at (`Scanning`). That this rank separates the discoveries
  is `ScanFindsDiscoveries`: below it, enough p-values meet its critical value; a
  discovery above it would put a larger passing rank in the sequence.
  `DiscoveriesShrink` compares with the procedure that sees every p-value.
- `WorkerProofs`. `TypeCorrect`, `FamilyCorrect`, `SnapshotsShared`, `StaticBreachesArrive`
  and `TrialsAccounted`, from one inductive invariant `IInv`. `FamilyCoversReports` is not
  inductive, since the family grows when a sample is evaluated and the reports only after the
  filter: `Tests` counts what is reported together with what the detector has found and the
  filter has not seen. `Answers` says that what a job evaluated is what the batch's
  cache holds, and that no job ahead of the current one has an answer. `Static`
  follows the breaches through the filter. `BreachesArrive` is about a step: `Settled` (every
  static job behind has its error or an answer) is kept by all steps of a handler and, with
  `OnlyReturn` (only `Return` ends a call), gives it. `TrialsCounted` is inductive with the
  breaker's types; the handlers enter only through the calls they have in flight. `Advances` gathers
  what an action of one handler has to show, and `Frame` carries it to the others.
- `ControllerCycleProofs`. `TypeCorrect`, `CycleJudgesByOneConfig`, `FallsPassTheFilters`,
  `BundlesAreWhole` and `FanOutBounded`, from `IInv`. Its parts: everything that serves as
  a configuration went through `Load`, so it is valid and has defaults
  (`LoadedContents`); what the cycle kept is what the filters of its own configuration pass
  (`CycleInv`); the engine was built from a configuration that loads (`Built`,
  `BuiltBundle`); running queries, results and the missing ones make up its bundle, and a bundle is cached whole under
  its key (`Collecting`, `CacheWhole`; `CollectedServes`: what is collected for one identity
  may be served to every other of the key); the semaphore has as many slots as the
  configuration of the start said (`EngineInv`). `ContentsAssumption` excludes a negative
  `max_concurrent`, with which `make(chan, n)` panics.
- `ReplayProofs`. `TypeCorrect`, `SomethingIsDetected`, `EveryTickCounts`, `StatusIsHonest`,
  `NoAnomalyVanishes` and `InjectedFaultsAreHits`, from one inductive invariant `IInv`:
  where each stage stands in the window and in its list of rules (`Places`); as long as no
  query failed, the number of evaluated queries is that of the ticks gone through, times the
  rules, plus those of the current tick (`Complete`); what is found is of rules already
  evaluated, so that a rule's anomalies are counted once (`Findings`); what the counters do
  not explain was lost to the cap (`Accounts`); every series that was answered has a truth
  for each fault that targets it (`TruthsWhole`). None of the properties is inductive alone:
  they speak of the end of a run or of a tick.

`DataInduction`: what a recursive definition computes for every input is out of the reach of
the induction schemes, which take an operator as a parameter. Where a proof needs such an
induction (that the list of a batch's jobs is a sequence, `RatesType`), it argues
with the least counterexample, from the well-foundedness of the naturals as a fact about sets.

Only model-checked: the liveness properties (`EventuallySettled`, `AlertsGoOn`,
`BatchEnds`, `RecoversByProbes`, `Ends`, `EditEventuallyLoaded`, `CycleEnds`), which TLAPS
cannot treat because of `ENABLED`, and the four runs that end in a violation.

## 5. What is not modelled, and the plan

Not modelled:

- HTTP, JSON and protobuf: a query is its outcome. Metrics, log lines, links, and
  annotations of payloads other than the identity, the report's percentiles and layout, the numbers behind a score.
- The ML server (`ml/server`): numerical models in another program; what it answers is
  left open. Its feature vectors are left out with it.
- The absence tracker, the event watcher with `EvaluateEvent`, `SeasonalProfile.Get` and
  `Fire`: no program of this commit calls them.
- `normalizeLabels` and `ExtractWorkload`: string patterns that decide what shares a baseline
  key or a workload. The models take the result as given, so nothing here says that two
  pods of one workload get the same one.
- Rounding, NaN and infinities; clocks that jump; processes that stall for longer than a
  lease.
- The controller's own readiness checks and preflight checks beyond their outcome, SIGTERM
  inside a worker (`GracefulStop` waits for the batches), the deployment files.

Met while modelling, asserted by no run, and worth knowing:

- Two statements of the documents that the code does not keep, beside those of section 3.
  `exclude_adaptive_workloads` also silences log-rate anomalies, because `EvaluateLogRate`
  reports under the detector name "adaptive" (`internal/detection/engine.go:64`,
  `internal/suppression/suppression.go:46`), while `docs/site/configuration/suppression.md:11,90-92`
  and the comments at `suppression.go:13` and `:42-45` promise that logs still fire;
  `Suppresses` models what the code does. A workload alert of metrics and logs stays a
  warning (`correlator.go:226-235`), where `docs/site/architecture/data-flow.md:46` says that
  several signals escalate; only `buildPodAlert` does (`correlator.go:304`).
- A replay that is interrupted after the last query of its last tick writes a report without
  "partial" (`internal/replay/engine.go:84-93`), against `docs/site/operations/replay.md:199`. It is
  complete, which is what `StatusHonest` asks.
- The filters reuse the array of the slice they read; `PostFilters` has sets, in which that
  cannot go wrong. `ReplayInputs` leaves out the non-finite samples that the adapter skips.
- The replay's in-memory baseline keys series by their full labels, without the pod-name
  normalisation of the Redis store, applies no suppression, and evaluates `pattern_match`
  log patterns that a batch leaves out: its verdicts are not those of production.
- A ground truth is identified by series, type and start, without its end; two entries that
  differ in the end only are recorded once. An anomaly within two overlapping truths counts
  for the first.
- A full report drops later anomalies without a trace in its counters; `AnomaliesAccounted`
  says that only a full report does.
- A worker has no configuration watcher: an edit reaches it by restart, while the
  controller builds batches from the new file.
- A POST to Alertmanager that fails, or a crash before it, leaves the deduplication entry
  behind and mutes the incident for the cooldown.

To come: models of label normalisation and `ExtractWorkload` over name shapes, and a
`Baseline` with two keys. Theorems to come: a proof that `Worker`'s evaluations of one key
implement the steps of `Baseline`, whose verdicts the worker leaves open; that a correlator
behind `ControllerHA`'s gate keeps the cooldown per fingerprint rather than per incident; and
`DropJustified` with a weaker hypothesis on services, that no two of one cluster and
namespace share a severity.
