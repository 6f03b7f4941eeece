-------------------------- MODULE ControllerCycle --------------------------
(***************************************************************************)
(* The cycle loop of the controller beside its configuration watcher:      *)
(* main and runCycle of controller/cmd/controller/main.go, with            *)
(* Configuration (load, hot reload) and Enrichment (the context of each    *)
(* alert).  The loop passes the pointer the watcher's callback overwrites  *)
(* to runCycle, which reads it throughout the cycle; the enrichment engine *)
(* keeps the configuration the process was started with.                   *)
(*                                                                         *)
(* An anomaly is a record: rule, the name of its adaptive metric; fell,    *)
(* whether the value lies below the mean; value, the size of the reading.  *)
(* Which anomalies pass the false-discovery filter and which of them       *)
(* become alerts is left open: PostFilters and Correlator treat it.        *)
(***************************************************************************)
EXTENDS Configuration, Enrichment

CONSTANTS
    Readings,     \* sizes of readings
    MaxAnomalies, \* bound of the model: anomalies a worker returns
    MaxAlerts     \* bound of the model: alerts of one cycle

ASSUME CycleAssumption ==
    /\ Readings \subseteq Nat /\ MaxAnomalies \in Nat /\ MaxAlerts \in Nat
    /\ \A c \in Contents : c.podBundle \cup c.serviceBundle \subseteq Queries

VARIABLES
    cpc,           \* runCycle: "idle", "call", "filter", "flush" or "alerts"
    held,          \* the configuration runCycle was given
    fired,         \* the anomalies the workers returned
    kept,          \* those the direction and floor filters let through
    alerts         \* alerts still to be finalized and dispatched

cycleVars == <<cpc, held, fired, kept, alerts>>
vars == <<configVars, enrichmentVars, cycleVars, engine>>

-----------------------------------------------------------------------------
(* The filters *)

RuleNames(content) == {content.rules[r].name : r \in DOMAIN content.rules}

\* What workers can return for the jobs of a configuration.
AnomaliesOf(content) ==
    [rule : RuleNames(content), fell : BOOLEAN, value : Readings]

\* DirectionAllows, for a value that differs from the mean.
Allows(direction, a) ==
    /\ direction = "up_bad" => ~a.fell
    /\ direction = "down_bad" => a.fell

\* What FilterByDirection and FilterByFloor let through.
Passing(content, anomalies) ==
    {a \in anomalies : /\ Allows(Direction(content, a.rule), a)
                       /\ a.value >= Floor(content, a.rule)}

-----------------------------------------------------------------------------
(* The cycle *)

Init ==
    /\ ConfigInit /\ EnrichmentInit
    /\ cpc = "idle"
    /\ held = None
    /\ fired = {} /\ kept = {}
    /\ alerts = 0

\* A tick: runCycle gets the pointer as it is now, builds the batch and calls a
\* worker.  Without jobs it returns at once.
StartCycle ==
    /\ process = "running"
    /\ cpc = "idle"
    /\ cfg.content.rules # <<>>
    /\ held' = cfg
    /\ cpc' = "call"
    /\ UNCHANGED <<configVars, enrichmentVars, fired, kept, alerts, engine>>

\* ProcessJobs fails or takes more than 90 s: no Flush in this cycle.
CallFails ==
    /\ cpc = "call"
    /\ cpc' = "idle"
    /\ held' = None
    /\ UNCHANGED <<configVars, enrichmentVars, fired, kept, alerts, engine>>

CallReturns ==
    /\ cpc = "call"
    /\ fired' \in {S \in SUBSET AnomaliesOf(held.content) : Cardinality(S) <= MaxAnomalies}
    /\ cpc' = "filter"
    /\ UNCHANGED <<configVars, enrichmentVars, held, kept, alerts, engine>>

\* Faulty variant: the filters look at the pointer instead of runCycle's parameter.
FilterByCurrent ==
    /\ cpc = "filter"
    /\ kept' = Passing(cfg.content, fired)
    /\ cpc' = "flush"
    /\ UNCHANGED <<configVars, enrichmentVars, held, fired, alerts, engine>>

Filter ==
    /\ cpc = "filter"
    /\ kept' = Passing(held.content, fired)
    /\ cpc' = "flush"
    /\ UNCHANGED <<configVars, enrichmentVars, held, fired, alerts, engine>>

\* FDR, Add and the groups that Flush takes; some may be of earlier cycles.
Flush ==
    /\ cpc = "flush"
    /\ alerts' \in 0 .. MaxAlerts
    /\ cpc' = "alerts"
    /\ held' = None /\ fired' = {} /\ kept' = {}
    /\ UNCHANGED <<configVars, enrichmentVars, engine>>

\* finalize asks for the context of the next alert.
FinalizeNext ==
    /\ cpc = "alerts"
    /\ alerts > 0
    /\ \E id \in Identities : Enrich(id)
    /\ UNCHANGED <<configVars, cycleVars, engine>>

EnrichmentRuns ==
    /\ RunStep
    /\ UNCHANGED <<configVars, cycleVars, engine>>

\* The bundle is part of the alert, which is fired once Flush has returned.
Finalized ==
    /\ epc = "done"
    /\ alerts' = alerts - 1
    /\ epc' = "idle" /\ identity' = Nobody /\ bundle' = NoResults
    /\ UNCHANGED <<configVars, cpc, held, fired, kept, running, cache, engine>>

\* Every alert was fired: the cycle counts as a success.
EndCycle ==
    /\ cpc = "alerts"
    /\ alerts = 0
    /\ cpc' = "idle"
    /\ UNCHANGED <<configVars, enrichmentVars, held, fired, kept, alerts, engine>>

CycleStep ==
    \/ CallFails \/ CallReturns \/ Filter \/ Flush
    \/ FinalizeNext \/ EnrichmentRuns \/ Finalized \/ EndCycle

-----------------------------------------------------------------------------
(* The process *)

\* main builds the enrichment engine from the configuration it has just loaded.
StartUp ==
    /\ \/ LoadInitial /\ engine' = NewEngine(cfg'.content)
       \/ LoadInitialFails /\ UNCHANGED engine
    /\ UNCHANGED <<enrichmentVars, cycleVars>>

Watch == (NewWatcher \/ Check) /\ UNCHANGED <<enrichmentVars, cycleVars, engine>>

Edit == Write /\ UNCHANGED <<enrichmentVars, cycleVars, engine>>

\* The process ends in the middle of a cycle; Redis keeps its cache.
Crash ==
    /\ Restart
    /\ epc' = "idle" /\ identity' = Nobody /\ running' = {} /\ bundle' = NoResults
    /\ cpc' = "idle" /\ held' = None /\ fired' = {} /\ kept' = {} /\ alerts' = 0
    /\ engine' = NoEngine
    /\ UNCHANGED cache

Outside == (BackendAnswers \/ CacheExpires) /\ UNCHANGED <<configVars, cycleVars, engine>>

Next == StartCycle \/ CycleStep \/ StartUp \/ Watch \/ Edit \/ Crash \/ Outside

Spec == Init /\ [][Next]_vars

\* The worker call, each query and each Redis command have a timeout, and nothing in
\* the cycle waits for anything else; the watcher's ticker goes on ticking.
FairSpec == Spec /\ WF_vars(CycleStep) /\ WF_vars(Watch)

-----------------------------------------------------------------------------
(* What makes the cycle correct *)

TypeOK ==
    /\ ConfigTypeOK /\ EnrichmentTypeOK
    /\ cpc \in {"idle", "call", "filter", "flush", "alerts"}
    /\ held.version \in 0 .. file.mtime
    /\ \A a \in fired : a.fell \in BOOLEAN /\ a.value \in Readings
    /\ kept \subseteq fired
    /\ alerts \in 0 .. MaxAlerts
    /\ process = "running" => engine.maxConcurrent > 0

\* Load does not check it; the maps of directions and floors are keyed by name.
UniqueNames(content) ==
    \A r, q \in DOMAIN content.rules : content.rules[r].name = content.rules[q].name => r = q

\* An anomaly is judged by the rule of the configuration whose job found it, however
\* often the file is edited and reloaded while the worker is busy (runCycle's cfg
\* parameter against the pointer the callback overwrites): what is dropped was
\* harmless or small by that rule, and what is kept was not.  Two rules of one name
\* share an entry of the maps and are judged by each other's.
OneConfigPerCycle ==
    cpc = "flush" /\ UniqueNames(held.content) =>
        \A a \in fired : \A r \in DOMAIN held.content.rules :
            held.content.rules[r].name = a.rule =>
                (a \in kept <=> /\ a.value >= held.content.rules[r].min_value
                                /\ held.content.rules[r].direction = "up_bad" => ~a.fell
                                /\ held.content.rules[r].direction = "down_bad" => a.fell)

\* A fall that a down_bad rule is there to find passes the filters, however small the
\* reading: no configuration with a floor for such a rule gets past Load, at the start
\* or at a reload (validate, FilterByFloor).  validate looks at one rule at a time: a
\* second rule of the same name may still bring a floor.
FallsArrive ==
    cpc = "flush" /\ UniqueNames(held.content) =>
        \A a \in fired : Direction(held.content, a.rule) = "down_bad" /\ a.fell => a \in kept

\* The bundle of an identity as some configuration that loads has it, with no value but
\* those of one identity of the same pod or service.
Served(results, id) ==
    /\ \E c \in Contents : Loads(c) /\ DOMAIN results = BundleOf(c, id)
    /\ \E other \in Identities :
        /\ CacheKey(other) = CacheKey(id)
        /\ \A q \in DOMAIN results : results[q] \in {Error, ValueFor(other)}

\* A bundle just collected has a result for each query of the running engine, all of
\* them the alert's own.  What an alert carries, or the cache holds, may be older than
\* the last edit and restart, and of another container, but it is one whole bundle:
\* never a mixture of two configurations or of two identities, and never another
\* pod's or service's (runQueries' slice of results, CacheKey).
BundlesWhole ==
    /\ epc = "store" =>
        /\ DOMAIN bundle = bundleFor(identity)
        /\ \A q \in DOMAIN bundle : bundle[q] \in {Error, ValueFor(identity)}
    /\ epc = "done" => Served(bundle, identity)
    /\ \A id \in Identities :
        cache[CacheKey(id)] # NoResults => Served(cache[CacheKey(id)], id)

\* There are never more queries in flight than the engine was built to allow, whatever
\* the file says by now.
BoundedFanOut == Cardinality(running) <= engine.maxConcurrent

\* An edit that loads and is newer than what the watcher has taken comes into force,
\* unless another edit or the end of the process comes before it.
EditEventuallyLoaded ==
    \A v \in 1 .. MaxWrites :
        (process = "running" /\ file.mtime = v /\ v > lastMod /\ Loads(file.content))
            ~> (cfg.version = v \/ file.mtime # v \/ process # "running")

\* A cycle ends, although Prometheus, Loki and Redis may be silent, and whether or not
\* the configuration sets the number of concurrent queries.
CycleEnds == cpc # "idle" ~> cpc = "idle"
=============================================================================
