------------------------------- MODULE Worker -------------------------------
(***************************************************************************)
(* A worker evaluating batches of detection jobs: buildJobBatch of         *)
(* controller/cmd/controller/main.go, ProcessJobs and its helpers in       *)
(* controller/cmd/worker/main.go, the suppression rules of                 *)
(* internal/suppression and the rate limiter of internal/ratelimit, with   *)
(* every Redis command behind the breaker of RedisBreaker and the kubelet  *)
(* asking /readyz in between.                                              *)
(*                                                                         *)
(* A handler serves one batch after the other.  Its pc names where it is:  *)
(*   "job"      before a job          "sample"   before a sample           *)
(*   "load"     HGetAll in flight     "store"    statistics computed       *)
(*   "save"     HSet in flight        "filter"   the job's anomalies known *)
(* and "profile", "profileLoad", "profileStore", "profileSave" for the     *)
(* seasonal profile of an anomaly.  What the statistics are is module      *)
(* Baseline's question; here the verdict is any that Evaluate can return.  *)
(* The order of samples does not matter: which one a command was for is    *)
(* said when it ends.                                                      *)
(***************************************************************************)
EXTENDS RedisBreaker, Sequences

CONSTANTS
    Handlers,         \* gRPC handlers
    Probe,            \* the goroutine of a /readyz request
    StaticRules,      \* detection.static_rules, a sequence of [query]
    AdaptiveMetrics,  \* detection.adaptive_metrics, a sequence of [query]
    LogPatterns,      \* detection.log_patterns, a sequence of [query, type]
    Snapshots,        \* what a query may answer: series -> "low" or "high"
    ExcludeNamespaces, ExcludeStaticOnly, ExcludeAdaptiveWorkloads,
    Burst             \* operations the bucket of a rate limiter holds

ASSUME WorkerAssumption ==
    /\ Probe \notin Handlers
    /\ Callers = Handlers \cup {Probe}
    /\ Burst \in Nat \ {0}
    /\ \A rules \in {StaticRules, AdaptiveMetrics, LogPatterns} :
        rules \in Seq({rules[i] : i \in DOMAIN rules})
    /\ \A snapshot \in Snapshots : IsFiniteSet(DOMAIN snapshot)

VARIABLES
    pc,
    job,       \* index into the batch
    expired,   \* the context of the call is done
    cache,     \* query -> its answer, one per batch
    answered,  \* job -> the answer it evaluated
    todo,      \* series the loop has still to visit
    found,     \* series the job's detector found anomalous
    family,    \* AdaptiveSeriesTested
    reported,  \* Anomalies: <<job, series>>
    errors,    \* Errors: jobs
    tokens,    \* datasource -> tokens in its bucket
    redisUp    \* whether Redis answers

batchVars == <<cache, answered, family, reported, errors>>
envVars == <<expired, tokens, redisUp>>
vars == <<breakerVars, pc, job, todo, found, batchVars, envVars>>

Typed(type, rules) == [i \in DOMAIN rules |-> [type |-> type, query |-> rules[i].query]]

\* Of the first n log patterns those that become jobs.
Rates[n \in 0 .. Len(LogPatterns)] ==
    IF n = 0 THEN <<>>
    ELSE IF LogPatterns[n].type = "pattern_match" THEN Rates[n - 1]
    ELSE Append(Rates[n - 1], LogPatterns[n])

buildJobBatch ==
    Typed("static", StaticRules) \o Typed("adaptive", AdaptiveMetrics)
    \o Typed("logs", Rates[Len(LogPatterns)])

Jobs == DOMAIN buildJobBatch
TypeOf(j) == buildJobBatch[j].type
QueryOf(j) == buildJobBatch[j].query
DatasourceOf(j) == IF TypeOf(j) = "logs" THEN "loki" ELSE "prometheus"

Empty == [x \in {} |-> "low"]

\* The map f after f[key] = value.
Put(f, key, value) == [k \in DOMAIN f \cup {key} |-> IF k = key THEN value ELSE f[k]]

Init ==
    /\ BreakerInit
    /\ pc = [h \in Handlers |-> "idle"]
    /\ job = [h \in Handlers |-> 1]
    /\ expired = [h \in Handlers |-> FALSE]
    /\ cache = [h \in Handlers |-> Empty]
    /\ answered = [h \in Handlers |-> Empty]
    /\ todo = [h \in Handlers |-> {}]
    /\ found = [h \in Handlers |-> {}]
    /\ family = [h \in Handlers |-> 0]
    /\ reported = [h \in Handlers |-> {}]
    /\ errors = [h \in Handlers |-> {}]
    /\ tokens = [d \in {"prometheus", "loki"} |-> Burst]
    /\ redisUp = TRUE

Goto(h, label) == pc' = [pc EXCEPT ![h] = label]

\* The handler's loop goes on without series s.
Visited(h, s, label) ==
    /\ todo' = [todo EXCEPT ![h] = @ \ {s}]
    /\ Goto(h, label)

-----------------------------------------------------------------------------
(* Suppression *)

\* Faulty variant: excluded workloads lose every detector's anomalies.
SuppressesAnyDetector(detector, s) ==
    \/ s.workload \in ExcludeAdaptiveWorkloads
    \/ /\ s.namespace # ""
       /\ \/ s.namespace \in ExcludeNamespaces
          \/ s.namespace \in ExcludeStaticOnly /\ detector = "static"

\* SuppressReason gives a reason.
Suppresses(detector, s) ==
    \/ detector = "adaptive" /\ s.workload \in ExcludeAdaptiveWorkloads
    \/ /\ s.namespace # ""
       /\ \/ s.namespace \in ExcludeNamespaces
          \/ s.namespace \in ExcludeStaticOnly /\ detector = "static"

\* Anomalies of log rates carry the detector of the evaluation behind them.
DetectorOf(j) == IF TypeOf(j) = "static" THEN "static" ELSE "adaptive"

-----------------------------------------------------------------------------
(* A job's query *)

ProcessJobs(h) ==
    /\ pc[h] = "idle"
    /\ Goto(h, "job")
    /\ UNCHANGED <<breakerVars, job, todo, found, batchVars, envVars>>

\* The samples are there: static rules compare them at once.
Answer(h, snapshot) ==
    /\ answered' = [answered EXCEPT ![h] = Put(@, job[h], snapshot)]
    /\ IF TypeOf(job[h]) = "static"
       THEN /\ found' = [found EXCEPT ![h] =
                            {s \in DOMAIN snapshot : snapshot[s] = "high"}]
            /\ Goto(h, "filter")
            /\ UNCHANGED todo
       ELSE /\ todo' = [todo EXCEPT ![h] = DOMAIN snapshot]
            /\ Goto(h, "sample")
            /\ UNCHANGED found

AtJob(h) == pc[h] = "job" /\ job[h] \in Jobs

\* Faulty variant: a cache that is never consulted.
NeverCached(h) == FALSE

Cached(h) == TypeOf(job[h]) # "logs" /\ QueryOf(job[h]) \in DOMAIN cache[h]

\* cachedQueryVM finds the answer.
UseCache(h) ==
    /\ AtJob(h)
    /\ Cached(h)
    /\ Answer(h, cache[h][QueryOf(job[h])])
    /\ UNCHANGED <<breakerVars, job, cache, family, reported, errors, envVars>>

\* Wait takes a token.
TakeToken(d) == tokens[d] > 0 /\ tokens' = [tokens EXCEPT ![d] = @ - 1]

\* Query or QueryMetric answers; only Prometheus' answers are cached.
QueryAnswers(h) ==
    /\ AtJob(h)
    /\ ~Cached(h)
    /\ ~expired[h]
    /\ TakeToken(DatasourceOf(job[h]))
    /\ \E snapshot \in Snapshots :
        /\ Answer(h, snapshot)
        /\ cache' = IF TypeOf(job[h]) = "logs" THEN cache
                    ELSE [cache EXCEPT ![h] = Put(@, QueryOf(job[h]), snapshot)]
    /\ UNCHANGED <<breakerVars, job, family, reported, errors, expired, redisUp>>

\* Faulty variant: the failing job is tried again instead of passed over.
JobFailsAgain(h) ==
    /\ AtJob(h)
    /\ ~Cached(h)
    /\ TakeToken(DatasourceOf(job[h])) \/ (expired[h] /\ UNCHANGED tokens)
    /\ errors' = [errors EXCEPT ![h] = @ \cup {job[h]}]
    /\ UNCHANGED <<breakerVars, pc, job, todo, found, cache, answered, family,
                   reported, expired, redisUp>>

\* Wait or the query fails: the job is reported, the batch goes on.
JobFails(h) ==
    /\ AtJob(h)
    /\ ~Cached(h)
    /\ TakeToken(DatasourceOf(job[h])) \/ (expired[h] /\ UNCHANGED tokens)
    /\ errors' = [errors EXCEPT ![h] = @ \cup {job[h]}]
    /\ job' = [job EXCEPT ![h] = @ + 1]
    /\ UNCHANGED <<breakerVars, pc, todo, found, cache, answered, family,
                   reported, expired, redisUp>>

-----------------------------------------------------------------------------
(* Redis commands of a handler *)

\* A handler sends its next command, or the breaker refuses it and the series is
\* skipped.
Command(h, from, inFlight, skip) ==
    /\ pc[h] = from
    /\ todo[h] # {}
    /\ \/ Send(h) /\ Goto(h, inFlight) /\ UNCHANGED todo
       \/ Refuse(h) /\ \E s \in todo[h] : Visited(h, s, skip)
    /\ UNCHANGED <<job, found, batchVars, envVars>>

\* Redis, or the context of the call, makes the command fail.
CommandFails(h, inFlight, skip) ==
    /\ pc[h] = inFlight
    /\ ~redisUp \/ expired[h]
    /\ Fail(h)
    /\ \E s \in todo[h] : Visited(h, s, skip)
    /\ UNCHANGED <<job, found, batchVars, envVars>>

\* HGetAll has answered.
ReadSucceeds(h, inFlight, next) ==
    /\ pc[h] = inFlight
    /\ redisUp
    /\ Succeed(h)
    /\ Goto(h, next)
    /\ UNCHANGED <<job, todo, found, batchVars, envVars>>

-----------------------------------------------------------------------------
(* Adaptive evaluation *)

LoadBaseline(h) ==
    \/ Command(h, "sample", "load", "sample")
    \/ ReadSucceeds(h, "load", "store")
    \/ CommandFails(h, "load", "sample")

\* Faulty variant: log rates do not report their tests.
TestedMetricsOnly(h, s, anomalous) ==
    /\ Visited(h, s, "sample")
    /\ family' = IF TypeOf(job[h]) = "logs" THEN family ELSE [family EXCEPT ![h] = @ + 1]
    /\ found' = IF anomalous THEN [found EXCEPT ![h] = @ \cup {s}] ELSE found
    /\ UNCHANGED <<job, cache, answered, reported, errors, envVars>>

\* Evaluate returns without error and past warm-up.
Tested(h, s, anomalous) ==
    /\ Visited(h, s, "sample")
    /\ family' = [family EXCEPT ![h] = @ + 1]
    /\ found' = IF anomalous THEN [found EXCEPT ![h] = @ \cup {s}] ELSE found
    /\ UNCHANGED <<job, cache, answered, reported, errors, envVars>>

\* A sample beyond poison_threshold is judged but not saved.
Poisoned(h) ==
    /\ pc[h] = "store"
    /\ \E s \in todo[h], anomalous \in BOOLEAN : Tested(h, s, anomalous)
    /\ UNCHANGED breakerVars

SaveBaseline(h) ==
    \/ Command(h, "store", "save", "sample")
    \/ CommandFails(h, "save", "sample")
    \/ /\ pc[h] = "save"
       /\ redisUp
       /\ Succeed(h)
       /\ \E s \in todo[h] :
            \/ \E anomalous \in BOOLEAN : Tested(h, s, anomalous)
            \/ Visited(h, s, "sample") \* warming up
               /\ UNCHANGED <<job, found, batchVars, envVars>>

\* The loop over the samples ends.
Evaluated(h) ==
    /\ pc[h] = "sample"
    /\ todo[h] = {}
    /\ Goto(h, "filter")
    /\ UNCHANGED <<breakerVars, job, todo, found, batchVars, envVars>>

-----------------------------------------------------------------------------
(* The job's results *)

\* The anomalies that are not suppressed are reported; their profiles come next.
Filter(h) ==
    /\ pc[h] = "filter"
    /\ LET kept == {s \in found[h] : ~Suppresses(DetectorOf(job[h]), s)}
       IN  /\ reported' = [reported EXCEPT ![h] = @ \cup ({job[h]} \X kept)]
           /\ todo' = [todo EXCEPT ![h] = kept]
    /\ found' = [found EXCEPT ![h] = {}]
    /\ Goto(h, "profile")
    /\ UNCHANGED <<breakerVars, job, cache, answered, family, errors, envVars>>

\* seasonal.Update for each of them; what it returns is ignored.
UpdateProfile(h) ==
    \/ Command(h, "profile", "profileLoad", "profile")
    \/ ReadSucceeds(h, "profileLoad", "profileStore")
    \/ CommandFails(h, "profileLoad", "profile")
    \/ Command(h, "profileStore", "profileSave", "profile")
    \/ CommandFails(h, "profileSave", "profile")
    \/ /\ pc[h] = "profileSave"
       /\ redisUp
       /\ Succeed(h)
       /\ \E s \in todo[h] : Visited(h, s, "profile")
       /\ UNCHANGED <<job, found, batchVars, envVars>>

NextJob(h) ==
    /\ pc[h] = "profile"
    /\ todo[h] = {}
    /\ Goto(h, "job")
    /\ job' = [job EXCEPT ![h] = @ + 1]
    /\ UNCHANGED <<breakerVars, todo, found, batchVars, envVars>>

\* ProcessJobs returns; nobody reads the results once the call has expired.
Return(h) ==
    /\ pc[h] = "job"
    /\ job[h] \notin Jobs
    /\ Goto(h, "idle")
    /\ job' = [job EXCEPT ![h] = 1]
    /\ expired' = [expired EXCEPT ![h] = FALSE]
    /\ cache' = [cache EXCEPT ![h] = Empty]
    /\ answered' = [answered EXCEPT ![h] = Empty]
    /\ family' = [family EXCEPT ![h] = 0]
    /\ reported' = [reported EXCEPT ![h] = {}]
    /\ errors' = [errors EXCEPT ![h] = {}]
    /\ UNCHANGED <<breakerVars, todo, found, tokens, redisUp>>

-----------------------------------------------------------------------------
(* Readiness, limiter, environment *)

rest == <<pc, job, todo, found, batchVars, envVars>>

\* Faulty variant: not ready until the breaker is closed.
ReadyzOnlyClosed == breaker = "closed" /\ Send(Probe) /\ UNCHANGED rest

\* ReadinessCheck: an open breaker answers at once, otherwise Ping is sent.
Readyz == breaker # "open" /\ Send(Probe) /\ UNCHANGED rest

PingEnds ==
    /\ \/ redisUp /\ Succeed(Probe)
       \/ ~redisUp /\ Fail(Probe)
    /\ UNCHANGED rest

\* The refill goroutine of New; a full bucket takes no more.
Refill(d) ==
    /\ tokens[d] < Burst
    /\ tokens' = [tokens EXCEPT ![d] = @ + 1]
    /\ UNCHANGED <<breakerVars, pc, job, todo, found, batchVars, expired, redisUp>>

\* The controller's 90 seconds, or the end of its lease.
Expire(h) ==
    /\ pc[h] # "idle"
    /\ ~expired[h]
    /\ expired' = [expired EXCEPT ![h] = TRUE]
    /\ UNCHANGED <<breakerVars, pc, job, todo, found, batchVars, tokens, redisUp>>

RedisChanges ==
    /\ redisUp' = ~redisUp
    /\ UNCHANGED <<breakerVars, pc, job, todo, found, batchVars, expired, tokens>>

BreakerClock == (IntervalPasses \/ TimeoutPasses) /\ UNCHANGED rest

Step(h) ==
    \/ UseCache(h) \/ QueryAnswers(h) \/ JobFails(h)
    \/ LoadBaseline(h) \/ Poisoned(h) \/ SaveBaseline(h) \/ Evaluated(h)
    \/ Filter(h) \/ UpdateProfile(h) \/ NextJob(h) \/ Return(h)

Next ==
    \/ \E h \in Handlers : ProcessJobs(h) \/ Step(h) \/ Expire(h)
    \/ Readyz \/ PingEnds
    \/ \E d \in DOMAIN tokens : Refill(d)
    \/ BreakerClock \/ RedisChanges

Spec == Init /\ [][Next]_vars

\* Commands and queries have timeouts, the limiter's ticker ticks, the breaker's
\* timeout passes, and the kubelet asks /readyz every five seconds.  Nothing says
\* that a batch ever comes or that Redis heals.
FairSpec ==
    /\ Spec
    /\ \A h \in Handlers : WF_vars(Step(h))
    /\ WF_vars(Readyz) /\ WF_vars(PingEnds)
    /\ \A d \in {"prometheus", "loki"} : WF_vars(Refill(d))
    /\ WF_vars(TimeoutPasses /\ UNCHANGED rest)

-----------------------------------------------------------------------------
(* Properties *)

TypeOK ==
    /\ BreakerTypeOK
    /\ pc \in [Handlers -> {"idle", "job", "sample", "load", "store", "save", "filter",
                            "profile", "profileLoad", "profileStore", "profileSave"}]
    /\ job \in [Handlers -> 1 .. Len(buildJobBatch) + 1]
    /\ expired \in [Handlers -> BOOLEAN]
    /\ \A h \in Handlers :
        /\ \A q \in DOMAIN cache[h] : cache[h][q] \in Snapshots
        /\ \A j \in DOMAIN answered[h] : answered[h][j] \in Snapshots
        /\ reported[h] \subseteq Jobs \X UNION {DOMAIN a : a \in Snapshots}
        /\ found[h] \cup todo[h] \subseteq UNION {DOMAIN a : a \in Snapshots}
        /\ errors[h] \subseteq Jobs
    /\ family \in [Handlers -> Nat]
    /\ tokens \in [{"prometheus", "loki"} -> 0 .. Burst]
    /\ redisUp \in BOOLEAN

\* The controller corrects for at least as many tests as it gets adaptive
\* anomalies, log rates included, whichever samples Redis lost: what PostFilters
\* needs of the reported family.
FamilyCoversReports ==
    \A h \in Handlers :
        Cardinality({r \in reported[h] : DetectorOf(r[1]) = "adaptive"}) <= family[h]

\* Jobs of one batch with the same PromQL query evaluate the same samples, so that a
\* static and an adaptive rule cannot contradict each other about one cycle.
OneSnapshotPerQuery ==
    \A h \in Handlers : \A i, j \in DOMAIN answered[h] :
        QueryOf(i) = QueryOf(j) /\ TypeOf(i) # "logs" /\ TypeOf(j) # "logs" =>
            answered[h][i] = answered[h][j]

\* A response the controller still waits for says of every static rule that it failed,
\* or reports each of its breaches outside the namespaces that exclude them, whatever
\* happened to Redis, the breaker or the other jobs on the way:
\* exclude_adaptive_workloads and a failing Redis silence adaptive detection only.  Of
\* a call that has expired the controller reads nothing.
BreachesArrive ==
    [][\A h \in Handlers :
        pc[h] # "idle" /\ pc'[h] = "idle" /\ ~expired[h] =>
            \A j \in Jobs : TypeOf(j) = "static" /\ j \notin errors[h] =>
                /\ j \in DOMAIN answered[h]
                /\ \A s \in DOMAIN answered[h][j] :
                    /\ answered[h][j][s] = "high"
                    /\ s.namespace \notin ExcludeNamespaces \cup ExcludeStaticOnly
                    => <<j, s>> \in reported[h]
      ]_vars

\* In the half-open state Redis gets MaxRequests trial commands and no more, however
\* many callers come, and only their answers decide: every success was one of
\* them, and an answer to a command from before the breaker opened is none.
TrialsCounted ==
    breaker = "halfopen" =>
        /\ requests <= MaxRequests
        /\ successes + Cardinality({c \in Callers : flight[c] = "current"}) = requests

\* Every batch ends, whatever fails: a job that fails is passed over.
BatchEnds == \A h \in Handlers : pc[h] # "idle" ~> pc[h] = "idle"

\* Once Redis is there for good and no call expires any more the breaker keeps
\* closing, even if no batch ever comes: the readiness probes are trials enough.
RecoversByProbes ==
    <>[](redisUp /\ \A h \in Handlers : ~expired[h]) => []<>(breaker = "closed")
=============================================================================
