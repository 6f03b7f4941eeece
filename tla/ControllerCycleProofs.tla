----------------------- MODULE ControllerCycleProofs ------------------------
(***************************************************************************)
(* Proofs about ControllerCycle, for every set of configurations and       *)
(* identities, every bundle of queries and any number of edits.            *)
(***************************************************************************)
EXTENDS ControllerCycle, FiniteSetTheorems, TLAPS

-----------------------------------------------------------------------------
(* Configurations that were loaded *)

LoadedContents == {WithDefaults(c) : c \in {d \in Contents : Loads(d)}}

\* Defaults change nothing but the number of concurrent queries, which they make
\* positive.
LEMMA DefaultsAdded ==
    ASSUME NEW c \in Contents
    PROVE  /\ WithDefaults(c).rules = c.rules
           /\ WithDefaults(c).podBundle = c.podBundle
           /\ WithDefaults(c).serviceBundle = c.serviceBundle
           /\ WithDefaults(c).maxConcurrent \in Nat \ {0}
<1>1. /\ c = [parses |-> c.parses, variables |-> c.variables, rules |-> c.rules,
              podBundle |-> c.podBundle, serviceBundle |-> c.serviceBundle,
              maxConcurrent |-> c.maxConcurrent]
      /\ c.maxConcurrent \in Nat
  BY ContentsAssumption
<1>2. CASE c.maxConcurrent = 0
  <2>1. WithDefaults(c) = [parses |-> c.parses, variables |-> c.variables,
                           rules |-> c.rules, podBundle |-> c.podBundle,
                           serviceBundle |-> c.serviceBundle, maxConcurrent |-> 5]
    BY <1>1, <1>2 DEF WithDefaults
  <2>2. QED
    BY <2>1
<1>3. CASE c.maxConcurrent # 0
  BY <1>1, <1>3 DEF WithDefaults
<1>4. QED
  BY <1>2, <1>3

LEMMA LoadedContentsType ==
    ASSUME NEW c \in LoadedContents
    PROVE  /\ c.maxConcurrent \in Nat \ {0}
           /\ DOMAIN c.rules \subseteq Nat
           /\ \A r \in DOMAIN c.rules : c.rules[r].min_value \in Int
           /\ Valid(c)
<1>1. PICK d \in Contents : Loads(d) /\ c = WithDefaults(d)
  BY DEF LoadedContents
<1>2. c.rules = d.rules /\ c.maxConcurrent \in Nat \ {0}
  BY <1>1, DefaultsAdded
<1>3. d.rules \in Seq({d.rules[r] : r \in DOMAIN d.rules})
      /\ \A r \in DOMAIN d.rules : d.rules[r].min_value \in Int
  BY ContentsAssumption
<1>4. DOMAIN d.rules = 1 .. Len(d.rules)
  BY <1>3
<1>5. Valid(c)
  BY <1>1, <1>2 DEF Loads, Valid
<1>6. QED
  BY <1>2, <1>3, <1>4, <1>5

\* Where names are unique, the maps hold what the rule says.
LEMMA RuleOfName ==
    ASSUME NEW c \in LoadedContents, UniqueNames(c), NEW r \in DOMAIN c.rules
    PROVE  /\ Direction(c, c.rules[r].name) = IF c.rules[r].direction = "" THEN "both_bad"
                                              ELSE c.rules[r].direction
           /\ Floor(c, c.rules[r].name) = IF c.rules[r].min_value > 0
                                          THEN c.rules[r].min_value ELSE 0
<1> DEFINE name == c.rules[r].name
           directed == {q \in Named(c, name) : c.rules[q].direction # ""}
           floored == {q \in Named(c, name) : c.rules[q].min_value > 0}
<1>1. Named(c, name) = {r}
  BY DEF Named, UniqueNames
<1>2. Last({r}) = r
  <2>1. r \in Nat
    BY LoadedContentsType
  <2>2. \E q \in {r} : \A p \in {r} : p <= q
    BY <2>1
  <2>3. QED
    BY <2>2 DEF Last
<1>3. directed = IF c.rules[r].direction = "" THEN {} ELSE {r}
  BY <1>1
<1>4. floored = IF c.rules[r].min_value > 0 THEN {r} ELSE {}
  BY <1>1
<1>5. Direction(c, name) = IF c.rules[r].direction = "" THEN "both_bad"
                           ELSE c.rules[r].direction
  BY <1>2, <1>3 DEF Direction
<1>6. Floor(c, name) = IF c.rules[r].min_value > 0 THEN c.rules[r].min_value ELSE 0
  BY <1>2, <1>4 DEF Floor
<1>7. QED
  BY <1>5, <1>6

-----------------------------------------------------------------------------
(* The configuration and its watcher *)

\* What the process runs with, and what the watcher is about to put in its place, was
\* loaded.
ConfigInv ==
    /\ ConfigTypeOK
    /\ process # "loading" => cfg.content \in LoadedContents
    /\ wpc \in {"apply", "assign"} => loaded.content \in LoadedContents
    /\ wpc # "idle" => process = "running"

LEMMA ConfigLoaded ==
    ASSUME ConfigInv, Loads(file.content)
    PROVE  Config.content \in LoadedContents /\ Config.version \in 0 .. file.mtime
BY DEF ConfigInv, ConfigTypeOK, Config, LoadedContents

LEMMA NoneVersion == None.version = 0
BY DEF None

LEMMA ConfigInitially == ConfigInit => ConfigInv
BY NoneVersion, WritesAssumption DEF ConfigInit, ConfigInv, ConfigTypeOK

LEMMA ConfigStep ==
    ASSUME ConfigInv,
           \/ Write \/ LoadInitial \/ LoadInitialFails \/ NewWatcher \/ Check \/ Restart
           \/ UNCHANGED configVars
    PROVE  ConfigInv'
<1>1. CASE Write
  BY <1>1, WritesAssumption DEF Write, ConfigInv, ConfigTypeOK, watcherVars
<1>2. CASE LoadInitial
  BY <1>2, ConfigLoaded DEF LoadInitial, ConfigInv, ConfigTypeOK, watcherVars
<1>3. CASE NewWatcher
  BY <1>3 DEF NewWatcher, ConfigInv, ConfigTypeOK
<1>4. CASE Stat
  BY <1>4 DEF Stat, ConfigInv, ConfigTypeOK
<1>5. CASE Load
  BY <1>5, ConfigLoaded DEF Load, ConfigInv, ConfigTypeOK
<1>6. CASE Apply
  BY <1>6 DEF Apply, ConfigInv, ConfigTypeOK
<1>7. CASE Assign
  BY <1>7, NoneVersion DEF Assign, ConfigInv, ConfigTypeOK
<1>8. CASE Restart
  BY <1>8, NoneVersion DEF Restart, ConfigInv, ConfigTypeOK
<1>9. CASE UNCHANGED configVars
  BY <1>9 DEF configVars, watcherVars, ConfigInv, ConfigTypeOK
<1>10. QED
  BY <1>1, <1>2, <1>3, <1>4, <1>5, <1>6, <1>7, <1>8, <1>9 DEF Check, LoadInitialFails

-----------------------------------------------------------------------------
(* The enrichment of an alert *)

Keys == {CacheKey(id) : id \in Identities}

\* The engine was built from a configuration that loads.
Built == \E c \in Contents : Loads(c) /\ engine = NewEngine(WithDefaults(c))

\* Results of an identity's own queries.
Own(results, id) == \A q \in DOMAIN results : results[q] \in {Error, ValueFor(id)}

Collecting ==
    /\ epc # "idle" => identity \in Identities /\ Built
    /\ epc # "fanout" => running = {}
    /\ epc \in {"idle", "lookup"} => DOMAIN bundle = {}
    /\ IsFiniteSet(running)
    /\ epc = "fanout" =>
        running \subseteq bundleFor(identity) /\ DOMAIN bundle \subseteq bundleFor(identity) \ running
    /\ epc = "store" => DOMAIN bundle = bundleFor(identity)
    /\ epc \in {"fanout", "store"} => Own(bundle, identity)
    /\ epc = "done" => Served(bundle, identity)

\* Bundles are cached whole, and under the key of those they belong to.
CacheWhole ==
    \A id \in Identities :
        cache[CacheKey(id)] # NoResults => Served(cache[CacheKey(id)], id)

EnrichmentInv == EnrichmentTypeOK /\ Collecting /\ CacheWhole

\* Whichever configuration the engine was built from, it is that one's bundle.
LEMMA BuiltBundle ==
    ASSUME Built, NEW id
    PROVE  /\ bundleFor(id) \subseteq Queries
           /\ \E c \in Contents : Loads(c) /\ bundleFor(id) = BundleOf(c, id)
<1>1. PICK c \in Contents : Loads(c) /\ engine = NewEngine(WithDefaults(c))
  BY DEF Built
<1>2. engine.podBundle = c.podBundle /\ engine.serviceBundle = c.serviceBundle
  BY <1>1, DefaultsAdded DEF NewEngine
<1>3. bundleFor(id) = BundleOf(c, id)
  BY <1>2 DEF bundleFor, BundleOf
<1>4. c.podBundle \cup c.serviceBundle \subseteq Queries
  BY CycleAssumption
<1>5. bundleFor(id) \subseteq Queries
  BY <1>3, <1>4 DEF BundleOf
<1>6. QED
  BY <1>1, <1>3, <1>5

LEMMA ServedType ==
    ASSUME NEW results, NEW id, Served(results, id)
    PROVE  DOMAIN results \subseteq Queries
<1>1. PICK c \in Contents : DOMAIN results = BundleOf(c, id)
  BY DEF Served
<1>2. c.podBundle \cup c.serviceBundle \subseteq Queries
  BY CycleAssumption
<1>3. QED
  BY <1>1, <1>2 DEF BundleOf

\* What has just been collected may be served, to every identity of the key.
LEMMA CollectedServes ==
    ASSUME Built, NEW i \in Identities, NEW j \in Identities, CacheKey(i) = CacheKey(j),
           NEW results, DOMAIN results = bundleFor(i), Own(results, i)
    PROVE  Served(results, j)
<1>1. PICK c \in Contents : Loads(c) /\ bundleFor(i) = BundleOf(c, i)
  BY BuiltBundle
<1>2. BundleOf(c, i) = BundleOf(c, j)
  BY DEF CacheKey, BundleOf
<1>3. QED
  BY <1>1, <1>2 DEF Served, Own

LEMMA EnrichmentInitially == EnrichmentInit => EnrichmentInv
<1> SUFFICES ASSUME EnrichmentInit PROVE EnrichmentInv
  OBVIOUS
<1>1. /\ epc = "idle" /\ identity = Nobody /\ running = {} /\ bundle = NoResults
      /\ DOMAIN cache = Keys /\ \A k \in Keys : cache[k] = NoResults
      /\ engine = NoEngine
  BY DEF EnrichmentInit, Keys
<1>2. DOMAIN NoResults = {} /\ NoEngine = NewEngine(NoEngine) /\ NoEngine.maxConcurrent \in Nat
  BY DEF NoResults, NoEngine, NewEngine
<1>3. Collecting
  BY <1>1, <1>2, FS_EmptySet DEF Collecting
<1>4. CacheWhole
  BY <1>1 DEF CacheWhole, Keys
<1>5. QED
  BY <1>1, <1>2, <1>3, <1>4 DEF EnrichmentInv, EnrichmentTypeOK, Keys

LEMMA CacheStays ==
    ASSUME CacheWhole, UNCHANGED cache PROVE CacheWhole'
BY DEF CacheWhole, Served

LEMMA EnrichmentUnchanged ==
    ASSUME EnrichmentInv, UNCHANGED enrichmentVars, UNCHANGED engine
    PROVE  EnrichmentInv'
<1>1. CacheWhole'
  BY CacheStays DEF EnrichmentInv, enrichmentVars
<1>2. Collecting'
  BY DEF EnrichmentInv, Collecting, Built, Own, Served, bundleFor, enrichmentVars
<1>3. QED
  BY <1>1, <1>2 DEF EnrichmentInv, EnrichmentTypeOK, enrichmentVars

\* Run has ended or never started: the cache stays, whatever becomes of the engine.
LEMMA EnrichmentReset ==
    ASSUME EnrichmentInv, epc' = "idle", identity' \in Identities \cup {Nobody},
           running' = {}, DOMAIN bundle' = {}, UNCHANGED cache,
           engine' = NewEngine(engine'), engine'.maxConcurrent \in Nat
    PROVE  EnrichmentInv'
<1>1. Collecting'
  BY FS_EmptySet DEF Collecting
<1>2. CacheWhole'
  BY CacheStays DEF EnrichmentInv
<1>3. QED
  BY <1>1, <1>2 DEF EnrichmentInv, EnrichmentTypeOK

LEMMA EnrichKeeps ==
    ASSUME EnrichmentInv, Built, NEW id \in Identities, Enrich(id), UNCHANGED engine
    PROVE  EnrichmentInv'
<1>1. /\ epc = "idle" /\ identity' = id /\ bundle' = NoResults /\ running' = {}
      /\ epc' = IF bundleFor(id) = {} THEN "done" ELSE "lookup"
      /\ cache' = cache
  BY DEF Enrich, EnrichmentInv, Collecting
<1>2. DOMAIN NoResults = {}
  BY DEF NoResults
<1>3. ASSUME bundleFor(id) = {} PROVE Served(bundle, identity)'
  <2>1. Served(NoResults, id)
    BY <1>2, <1>3, CollectedServes DEF Own
  <2>2. QED
    BY <1>1, <2>1 DEF Served
<1>4. Built'
  BY DEF Built
<1>5. Collecting'
  BY <1>1, <1>2, <1>3, <1>4, FS_EmptySet DEF Collecting
<1>6. CacheWhole'
  BY <1>1, CacheStays DEF EnrichmentInv
<1>7. QED
  BY <1>1, <1>2, <1>5, <1>6 DEF EnrichmentInv, EnrichmentTypeOK

LEMMA LaunchKeeps ==
    ASSUME EnrichmentInv, NEW q, Launch(q), UNCHANGED engine
    PROVE  EnrichmentInv'
<1>1. /\ epc = "fanout" /\ q \in bundleFor(identity) \ DOMAIN bundle
      /\ running' = running \cup {q}
      /\ UNCHANGED <<epc, identity, bundle, cache>>
  BY DEF Launch
<1>2. IsFiniteSet(running')
  BY <1>1, FS_AddElement DEF EnrichmentInv, Collecting
<1>3. Built /\ identity \in Identities
  BY <1>1 DEF EnrichmentInv, Collecting
<1>4. bundleFor(identity)' = bundleFor(identity) /\ Built'
  BY <1>1, <1>3 DEF bundleFor, Built
<1>5. Collecting'
  BY <1>1, <1>2, <1>3, <1>4 DEF EnrichmentInv, Collecting, Own
<1>6. CacheWhole'
  BY <1>1, CacheStays DEF EnrichmentInv
<1>7. running' \subseteq Queries
  BY <1>1, <1>3, BuiltBundle DEF EnrichmentInv, EnrichmentTypeOK
<1>8. QED
  BY <1>1, <1>5, <1>6, <1>7 DEF EnrichmentInv, EnrichmentTypeOK

LEMMA AnsweredKeeps ==
    ASSUME EnrichmentInv, NEW q \in running, NEW result \in {Error, ValueFor(identity)},
           Answered(q, result), UNCHANGED engine
    PROVE  EnrichmentInv'
<1>1. /\ bundle' = [p \in DOMAIN bundle \cup {q} |-> IF p = q THEN result ELSE bundle[p]]
      /\ running' = running \ {q}
      /\ UNCHANGED <<epc, identity, cache>>
  BY DEF Answered
<1>2. epc = "fanout" /\ q \in bundleFor(identity) /\ Built /\ identity \in Identities
  BY DEF EnrichmentInv, Collecting
<1>3. IsFiniteSet(running')
  BY <1>1, FS_Subset DEF EnrichmentInv, Collecting
<1>4. bundleFor(identity)' = bundleFor(identity) /\ Built'
  BY <1>1, <1>2 DEF bundleFor, Built
<1>5. Own(bundle', identity)
  <2>1. Own(bundle, identity)
    BY <1>2 DEF EnrichmentInv, Collecting
  <2>2. QED
    BY <1>1, <2>1 DEF Own
<1>6. Collecting'
  <2>1. /\ running' \subseteq bundleFor(identity)
        /\ DOMAIN bundle' \subseteq bundleFor(identity) \ running'
    BY <1>1, <1>2 DEF EnrichmentInv, Collecting
  <2>2. Own(bundle, identity)'
    BY <1>1, <1>5 DEF Own
  <2>3. QED
    BY <1>1, <1>2, <1>3, <1>4, <2>1, <2>2 DEF Collecting
<1>7. CacheWhole'
  BY <1>1, CacheStays DEF EnrichmentInv
<1>8. DOMAIN bundle' \subseteq Queries /\ running' \subseteq Queries
  BY <1>1, <1>2, BuiltBundle DEF EnrichmentInv, EnrichmentTypeOK
<1>9. QED
  BY <1>1, <1>6, <1>7, <1>8 DEF EnrichmentInv, EnrichmentTypeOK

LEMMA CacheHitKeeps ==
    ASSUME EnrichmentInv, CacheHit, UNCHANGED engine
    PROVE  EnrichmentInv'
<1>1. /\ identity \in Identities /\ epc' = "done" /\ Built
      /\ bundle' = cache[CacheKey(identity)]
      /\ running = {} /\ UNCHANGED <<identity, running, cache>>
  BY DEF CacheHit, EnrichmentInv, Collecting
<1>2. Served(bundle', identity)
  BY <1>1 DEF CacheHit, EnrichmentInv, CacheWhole
<1>3. Collecting'
  BY <1>1, <1>2, FS_EmptySet DEF Collecting, Built, Served
<1>4. CacheWhole'
  BY <1>1, CacheStays DEF EnrichmentInv
<1>5. DOMAIN bundle' \subseteq Queries
  BY <1>2, ServedType
<1>6. QED
  BY <1>1, <1>3, <1>4, <1>5 DEF EnrichmentInv, EnrichmentTypeOK

LEMMA StoreKeeps ==
    ASSUME EnrichmentInv, Store, UNCHANGED engine
    PROVE  EnrichmentInv'
<1>1. /\ epc = "store" /\ epc' = "done" /\ identity \in Identities /\ Built
      /\ UNCHANGED <<identity, running, bundle>> /\ running = {}
      /\ \/ cache' = cache
         \/ cache' = [cache EXCEPT ![CacheKey(identity)] = bundle]
  BY DEF Store, EnrichmentInv, Collecting
<1>2. DOMAIN bundle = bundleFor(identity) /\ Own(bundle, identity)
  BY <1>1 DEF EnrichmentInv, Collecting
<1>3. Collecting'
  <2>1. Served(bundle, identity)
    BY <1>1, <1>2, CollectedServes
  <2>2. Served(bundle, identity)' /\ Built'
    BY <1>1, <2>1 DEF Served, Built
  <2>3. QED
    BY <1>1, <2>2, FS_EmptySet DEF Collecting
<1>4. ASSUME NEW id \in Identities, cache'[CacheKey(id)] # NoResults
      PROVE  Served(cache'[CacheKey(id)], id)
  <2>1. CASE cache'[CacheKey(id)] = cache[CacheKey(id)]
    BY <1>4, <2>1 DEF EnrichmentInv, CacheWhole
  <2>2. CASE CacheKey(id) = CacheKey(identity) /\ cache'[CacheKey(id)] = bundle
    BY <1>1, <1>2, <2>2, CollectedServes
  <2>3. CacheKey(id) \in DOMAIN cache
    BY DEF EnrichmentInv, EnrichmentTypeOK
  <2>4. QED
    BY <1>1, <2>1, <2>2, <2>3
<1>5. CacheWhole'
  BY <1>4 DEF CacheWhole, Served
<1>6. QED
  BY <1>1, <1>3, <1>5 DEF EnrichmentInv, EnrichmentTypeOK

LEMMA RunStepKeeps ==
    ASSUME EnrichmentInv, RunStep \/ BackendAnswers \/ CacheExpires, UNCHANGED engine
    PROVE  EnrichmentInv'
<1>1. CASE CacheHit
  BY <1>1, CacheHitKeeps
<1>2. CASE CacheMiss \/ Collect
  <2>1. /\ UNCHANGED <<identity, running, bundle, cache>>
        /\ \/ epc = "lookup" /\ epc' = "fanout"
           \/ epc = "fanout" /\ epc' = "store" /\ DOMAIN bundle = bundleFor(identity)
    BY <1>2 DEF CacheMiss, Collect
  <2>2. Own(bundle, identity)' /\ running' \subseteq bundleFor(identity)
        /\ DOMAIN bundle \subseteq bundleFor(identity)
    BY <2>1 DEF EnrichmentInv, Collecting, Own
  <2>3. bundleFor(identity)' = bundleFor(identity) /\ (Built => Built')
    BY <2>1 DEF bundleFor, Built
  <2>4. running = {}
    BY <1>2, <2>1 DEF Collect, EnrichmentInv, Collecting
  <2>5. Collecting'
    BY <2>1, <2>2, <2>3, <2>4 DEF EnrichmentInv, Collecting
  <2>6. CacheWhole'
    BY <2>1, CacheStays DEF EnrichmentInv
  <2>7. QED
    BY <2>1, <2>5, <2>6 DEF EnrichmentInv, EnrichmentTypeOK
<1>3. CASE Store
  BY <1>3, StoreKeeps
<1>4. ASSUME NEW q, Launch(q) PROVE EnrichmentInv'
  BY <1>4, LaunchKeeps
<1>5. ASSUME NEW q, QueryFails(q) \/ QueryAnswers(q) PROVE EnrichmentInv'
  <2>1. q \in running /\ (Answered(q, Error) \/ Answered(q, ValueFor(identity)))
    BY <1>5 DEF QueryFails, QueryAnswers
  <2>2. Error \in {Error, ValueFor(identity)} /\ ValueFor(identity) \in {Error, ValueFor(identity)}
    OBVIOUS
  <2>3. QED
    BY <2>1, <2>2, AnsweredKeeps, Zenon
<1>6. CASE CacheExpires
  <2>1. PICK k \in DOMAIN cache : cache' = [cache EXCEPT ![k] = NoResults]
    BY <1>6 DEF CacheExpires
  <2>2. UNCHANGED <<epc, identity, running, bundle>> /\ DOMAIN cache' = DOMAIN cache
    BY <1>6, <2>1 DEF CacheExpires
  <2>3. CacheWhole'
    BY <2>1 DEF EnrichmentInv, EnrichmentTypeOK, CacheWhole, Served
  <2>4. Collecting'
    BY <2>2 DEF EnrichmentInv, Collecting, Own, Served, Built, bundleFor
  <2>5. QED
    BY <2>2, <2>3, <2>4 DEF EnrichmentInv, EnrichmentTypeOK
<1>7. QED
  BY <1>1, <1>2, <1>3, <1>4, <1>5, <1>6 DEF RunStep, BackendAnswers

-----------------------------------------------------------------------------
(* The cycle *)

Judging == {"call", "filter", "flush"}

CycleInv ==
    /\ cpc \in Judging \cup {"idle", "alerts"}
    /\ process # "running" => cpc = "idle"
    /\ epc # "idle" => cpc = "alerts" /\ alerts > 0
    /\ held.version \in 0 .. file.mtime
    /\ cpc \in Judging => held.content \in LoadedContents
    /\ cpc \in {"filter", "flush"} => fired \subseteq AnomaliesOf(held.content)
    /\ cpc \notin {"filter", "flush"} => fired = {}
    /\ kept = IF cpc = "flush" THEN Passing(held.content, fired) ELSE {}
    /\ alerts \in 0 .. MaxAlerts

\* The semaphore, and the engine that holds it.
EngineInv ==
    /\ process # "loading" => Built
    /\ Cardinality(running) <= engine.maxConcurrent

LEMMA BuiltPositive ==
    ASSUME Built PROVE engine.maxConcurrent \in Nat \ {0} /\ engine = NewEngine(engine)
BY DefaultsAdded DEF Built, NewEngine

IInv == ConfigInv /\ EnrichmentInv /\ CycleInv /\ EngineInv

LEMMA Initially == Init => IInv
<1> SUFFICES ASSUME Init PROVE IInv
  OBVIOUS
<1>1. ConfigInv /\ EnrichmentInv
  BY ConfigInitially, EnrichmentInitially DEF Init
<1>2. CycleInv
  BY NoneVersion, CycleAssumption
     DEF Init, ConfigInit, EnrichmentInit, CycleInv, Judging
<1>3. EngineInv
  BY FS_EmptySet DEF Init, ConfigInit, EnrichmentInit, EngineInv, NoEngine
<1>4. QED
  BY <1>1, <1>2, <1>3 DEF IInv

LEMMA StartCycleKeeps ==
    ASSUME IInv, StartCycle
    PROVE  IInv'
<1>1. /\ process = "running" /\ cpc = "idle" /\ cpc' = "call" /\ held' = cfg
      /\ UNCHANGED <<configVars, enrichmentVars, fired, kept, alerts, engine>>
  BY DEF StartCycle
<1>2. ConfigInv' /\ EnrichmentInv'
  BY <1>1, ConfigStep, EnrichmentUnchanged DEF IInv
<1>3. CycleInv'
  BY <1>1 DEF IInv, CycleInv, Judging, ConfigInv, ConfigTypeOK, configVars, enrichmentVars
<1>4. EngineInv'
  BY <1>1 DEF IInv, EngineInv, Built, configVars, enrichmentVars
<1>5. QED
  BY <1>2, <1>3, <1>4 DEF IInv

\* runCycle up to Flush: the configuration it judges by is the one it was given.
LEMMA JudgeKeeps ==
    ASSUME IInv, CallFails \/ CallReturns \/ Filter \/ Flush
    PROVE  IInv'
<1>1. UNCHANGED <<configVars, enrichmentVars, engine>>
  BY DEF CallFails, CallReturns, Filter, Flush
<1>2. ConfigInv' /\ EnrichmentInv' /\ EngineInv'
  BY <1>1, ConfigStep, EnrichmentUnchanged
     DEF IInv, EngineInv, Built, configVars, enrichmentVars
<1>3. UNCHANGED <<process, file, epc>> /\ CycleInv
  BY <1>1 DEF IInv, configVars, enrichmentVars
<1>4. file.mtime \in Nat
  BY DEF IInv, ConfigInv, ConfigTypeOK
<1>5. ASSUME CallFails PROVE CycleInv'
  BY <1>3, <1>4, <1>5, NoneVersion DEF CallFails, CycleInv, Judging
<1>6. ASSUME CallReturns PROVE CycleInv'
  BY <1>3, <1>6 DEF CallReturns, CycleInv, Judging
<1>7. ASSUME Filter PROVE CycleInv'
  BY <1>3, <1>7 DEF Filter, CycleInv, Judging
<1>8. ASSUME Flush PROVE CycleInv'
  BY <1>3, <1>4, <1>8, NoneVersion DEF Flush, CycleInv, Judging
<1>9. QED
  BY <1>2, <1>5, <1>6, <1>7, <1>8 DEF IInv

\* The alerts of the cycle.
LEMMA AlertsKeep ==
    ASSUME IInv, FinalizeNext \/ EnrichmentRuns \/ Finalized \/ EndCycle \/ Outside
    PROVE  IInv'
<1>1. UNCHANGED configVars /\ UNCHANGED <<held, fired, kept>> /\ UNCHANGED engine
  BY DEF FinalizeNext, EnrichmentRuns, Finalized, EndCycle, Outside, cycleVars
<1>2. ConfigInv'
  BY <1>1, ConfigStep DEF IInv
<1>3. UNCHANGED <<process, file>> /\ (Built' <=> Built)
  BY <1>1 DEF configVars, Built
<1>4. CASE FinalizeNext
  <2>1. PICK id \in Identities : Enrich(id)
    BY <1>4 DEF FinalizeNext
  <2>2. EnrichmentInv'
    <3>1. Built
      BY <1>4 DEF FinalizeNext, IInv, CycleInv, EngineInv
    <3>2. QED
      BY <1>1, <2>1, <3>1, EnrichKeeps DEF IInv
  <2>3. CycleInv'
    BY <1>3, <1>4 DEF FinalizeNext, cycleVars, IInv, CycleInv
  <2>4. EngineInv'
    BY <1>1, <1>3, <2>1 DEF Enrich, IInv, EngineInv
  <2>5. QED
    BY <1>2, <2>2, <2>3, <2>4 DEF IInv
<1>5. CASE EnrichmentRuns \/ Outside
  <2>1. RunStep \/ BackendAnswers \/ CacheExpires
    BY <1>5 DEF EnrichmentRuns, Outside
  <2>2. EnrichmentInv'
    BY <1>1, <2>1, RunStepKeeps DEF IInv
  <2>3. UNCHANGED cycleVars
    BY <1>5 DEF EnrichmentRuns, Outside
  <2>4. epc' # "idle" => epc # "idle"
    BY <2>1 DEF RunStep, CacheHit, CacheMiss, Collect, Store, Launch, QueryFails, Answered,
                BackendAnswers, QueryAnswers, CacheExpires
  <2>5. CycleInv'
    BY <1>3, <2>3, <2>4 DEF cycleVars, IInv, CycleInv
  <2>6. Cardinality(running') <= engine.maxConcurrent
    <3> DEFINE n == engine.maxConcurrent
    <3>1. /\ IsFiniteSet(running) /\ Cardinality(running) \in Nat
          /\ n \in Nat /\ Cardinality(running) <= n
      BY FS_CardinalityType DEF IInv, EnrichmentInv, EnrichmentTypeOK, Collecting, EngineInv
    <3>2. CASE running' \subseteq running
      <4>1. Cardinality(running') \in Nat /\ Cardinality(running') <= Cardinality(running)
        BY <3>1, <3>2, FS_Subset, FS_CardinalityType
      <4>2. QED
        BY <3>1, <4>1
    <3>3. ASSUME NEW q, Launch(q) PROVE Cardinality(running') <= n
      <4>1. running' = running \cup {q} /\ Cardinality(running) < n
        BY <3>3 DEF Launch
      <4>2. Cardinality(running') = IF q \in running THEN Cardinality(running)
                                     ELSE Cardinality(running) + 1
        <5>1. IsFiniteSet(running)
          BY <3>1
        <5>2. Cardinality(running \cup {q}) = IF q \in running THEN Cardinality(running)
                                               ELSE Cardinality(running) + 1
          BY ONLY <5>1, FS_AddElement
        <5>3. QED
          BY ONLY <4>1, <5>2
      <4>3. QED
        BY ONLY <3>1, <4>1, <4>2
    <3>4. running' \subseteq running \/ \E q : Launch(q)
      BY <2>1 DEF RunStep, CacheHit, CacheMiss, Collect, Store, QueryFails, Answered,
                  BackendAnswers, QueryAnswers, CacheExpires
    <3>5. QED
      BY <3>2, <3>3, <3>4
  <2>7. QED
    BY <1>1, <1>2, <1>3, <2>2, <2>5, <2>6 DEF IInv, EngineInv
<1>6. CASE Finalized
  <2>1. /\ epc = "done" /\ epc' = "idle" /\ running = {} /\ running' = {}
        /\ cpc = "alerts" /\ cpc' = "alerts" /\ alerts > 0 /\ alerts' = alerts - 1
    BY <1>6 DEF Finalized, IInv, EnrichmentInv, Collecting, CycleInv
  <2>2. EnrichmentInv'
    <3>1. DOMAIN NoResults = {}
      BY DEF NoResults
    <3>2. QED
      BY <1>1, <1>6, <2>1, <3>1, EnrichmentReset
         DEF Finalized, IInv, EnrichmentInv, EnrichmentTypeOK
  <2>3. CycleInv'
    BY <1>1, <1>3, <2>1, CycleAssumption DEF IInv, CycleInv, Judging
  <2>4. EngineInv'
    BY <1>1, <1>3, <2>1 DEF IInv, EngineInv
  <2>5. QED
    BY <1>2, <2>2, <2>3, <2>4 DEF IInv
<1>7. CASE EndCycle
  <2>1. EnrichmentInv' /\ EngineInv'
    BY <1>1, <1>3, <1>7, EnrichmentUnchanged DEF EndCycle, IInv, EngineInv, enrichmentVars
  <2>2. CycleInv'
    BY <1>3, <1>7 DEF EndCycle, IInv, CycleInv, Judging, enrichmentVars
  <2>3. QED
    BY <1>2, <2>1, <2>2 DEF IInv
<1>8. QED
  BY <1>4, <1>5, <1>6, <1>7

\* Steps around the cycle.
LEMMA ProcessKeeps ==
    ASSUME IInv, StartUp \/ Watch \/ Edit
    PROVE  IInv'
<1>1. /\ Write \/ LoadInitial \/ LoadInitialFails \/ NewWatcher \/ Check
      /\ UNCHANGED <<enrichmentVars, cycleVars>>
  BY DEF StartUp, Watch, Edit
<1>2. ConfigInv'
  BY <1>1, ConfigStep DEF IInv
<1>3. file.mtime \in Nat /\ file'.mtime \in Nat /\ file.mtime <= file'.mtime
  BY <1>1, WritesAssumption
     DEF Write, LoadInitial, LoadInitialFails, NewWatcher, Check, Stat, Load, Apply, Assign,
         configVars, IInv, ConfigInv, ConfigTypeOK
<1>4. process' # "running" => process # "running"
  BY <1>1 DEF Write, LoadInitial, LoadInitialFails, NewWatcher, Check, Stat, Load, Apply,
              Assign, configVars
<1>5. CycleInv'
  BY <1>1, <1>3, <1>4 DEF cycleVars, enrichmentVars, IInv, CycleInv
<1>6. EngineInv' /\ EnrichmentInv'
  <2>1. CASE LoadInitial /\ engine' = NewEngine(cfg'.content)
    <3>1. epc = "idle" /\ running = {} /\ DOMAIN bundle = {}
      BY <2>1 DEF LoadInitial, IInv, CycleInv, EnrichmentInv, Collecting
    <3>2. running' = {} /\ Cardinality({}) = 0
      BY <1>1, <3>1, FS_EmptySet DEF enrichmentVars
    <3>3. PICK c \in Contents : Loads(c) /\ cfg'.content = WithDefaults(c)
      BY <1>2, <2>1 DEF LoadInitial, ConfigInv, LoadedContents
    <3>4. Built'
      BY <2>1, <3>3 DEF Built
    <3>5. engine'.maxConcurrent \in Nat \ {0} /\ engine' = NewEngine(engine')
      BY <2>1, <3>3, DefaultsAdded DEF NewEngine
    <3>6. EngineInv'
      BY <3>2, <3>4, <3>5 DEF EngineInv
    <3>7. EnrichmentInv'
      BY <1>1, <3>1, <3>2, <3>5, EnrichmentReset
         DEF enrichmentVars, IInv, EnrichmentInv, EnrichmentTypeOK
    <3>8. QED
      BY <3>6, <3>7
  <2>2. CASE UNCHANGED engine /\ (process' # "loading" => process # "loading")
    BY <1>1, <2>2, EnrichmentUnchanged DEF enrichmentVars, IInv, EngineInv, Built
  <2>3. QED
    BY <2>1, <2>2 DEF StartUp, Watch, Edit, Write, LoadInitialFails, NewWatcher, Check, Stat,
                      Load, Apply, Assign, configVars
<1>7. QED
  BY <1>2, <1>5, <1>6 DEF IInv

LEMMA CrashKeeps ==
    ASSUME IInv, Crash
    PROVE  IInv'
<1>1. ConfigInv'
  BY ConfigStep DEF Crash, IInv
<1>2. EnrichmentInv'
  <2>1. DOMAIN NoResults = {} /\ NoEngine = NewEngine(NoEngine) /\ NoEngine.maxConcurrent \in Nat
    BY DEF NoResults, NoEngine, NewEngine
  <2>2. QED
    BY <2>1, EnrichmentReset DEF Crash, IInv
<1>3. CycleInv'
  BY NoneVersion, CycleAssumption DEF Crash, Restart, IInv, ConfigInv, ConfigTypeOK, CycleInv, Judging
<1>4. EngineInv'
  BY FS_EmptySet DEF Crash, Restart, EngineInv, NoEngine
<1>5. QED
  BY <1>1, <1>2, <1>3, <1>4 DEF IInv

LEMMA Inductive == IInv /\ [Next]_vars => IInv'
<1> SUFFICES ASSUME IInv, [Next]_vars PROVE IInv'
  OBVIOUS
<1>1. CASE StartCycle
  BY <1>1, StartCycleKeeps
<1>2. CASE CycleStep \/ Outside
  BY <1>2, JudgeKeeps, AlertsKeep DEF CycleStep
<1>3. CASE StartUp \/ Watch \/ Edit
  BY <1>3, ProcessKeeps
<1>4. CASE Crash
  BY <1>4, CrashKeeps
<1>5. CASE UNCHANGED vars
  <2>1. ConfigInv' /\ EnrichmentInv'
    BY <1>5, ConfigStep, EnrichmentUnchanged DEF vars, IInv
  <2>2. CycleInv' /\ EngineInv'
    BY <1>5 DEF vars, cycleVars, configVars, enrichmentVars, IInv, CycleInv, EngineInv, Built
  <2>3. QED
    BY <2>1, <2>2 DEF IInv
<1>6. QED
  BY <1>1, <1>2, <1>3, <1>4, <1>5 DEF Next

LEMMA Invariance == Spec => []IInv
BY Initially, Inductive, PTL DEF Spec

-----------------------------------------------------------------------------
(* What follows *)

\* The file, the process, its watcher, the cycle and the enrichment keep their types,
\* and a running process always allows at least one query.
THEOREM TypeCorrect == Spec => []TypeOK
<1>1. IInv => TypeOK
  <2>1. SUFFICES ASSUME IInv PROVE TypeOK
    OBVIOUS
  <2>2. \A a \in fired : a.fell \in BOOLEAN /\ a.value \in Readings
    BY <2>1 DEF IInv, CycleInv, AnomaliesOf
  <2>3. kept \subseteq fired
    BY <2>1 DEF IInv, CycleInv, Passing
  <2>4. QED
    BY <2>1, <2>2, <2>3, BuiltPositive
       DEF IInv, ConfigInv, EnrichmentInv, CycleInv, EngineInv, TypeOK, Judging
<1>2. QED
  BY <1>1, Invariance, PTL

\* However many edits and reloads happen during a cycle, every anomaly is judged by
\* the rule, direction and floor, whose job found it.
THEOREM CycleJudgesByOneConfig == Spec => []OneConfigPerCycle
<1>1. IInv => OneConfigPerCycle
  <2>1. SUFFICES ASSUME IInv, cpc = "flush", UniqueNames(held.content),
                        NEW a \in fired, NEW r \in DOMAIN held.content.rules,
                        held.content.rules[r].name = a.rule
                 PROVE  a \in kept <=> /\ a.value >= held.content.rules[r].min_value
                                       /\ held.content.rules[r].direction = "up_bad" => ~a.fell
                                       /\ held.content.rules[r].direction = "down_bad" => a.fell
    BY DEF OneConfigPerCycle
  <2> DEFINE rule == held.content.rules[r]
  <2>2. /\ held.content \in LoadedContents
        /\ fired \subseteq AnomaliesOf(held.content)
        /\ kept = Passing(held.content, fired)
    BY <2>1 DEF IInv, CycleInv, Judging
  <2>3. a.value \in Nat /\ rule.min_value \in Int
    BY <2>1, <2>2, LoadedContentsType, CycleAssumption DEF AnomaliesOf
  <2>4. /\ Direction(held.content, a.rule) = IF rule.direction = "" THEN "both_bad"
                                             ELSE rule.direction
        /\ Floor(held.content, a.rule) = IF rule.min_value > 0 THEN rule.min_value ELSE 0
    BY <2>1, <2>2, RuleOfName
  <2>5. a \in kept <=> /\ Allows(Direction(held.content, a.rule), a)
                       /\ a.value >= Floor(held.content, a.rule)
    BY <2>1, <2>2 DEF Passing
  <2>6. a.value >= Floor(held.content, a.rule) <=> a.value >= rule.min_value
    <3>1. CASE rule.min_value > 0
      <4>1. Floor(held.content, a.rule) = rule.min_value
        BY <2>4, <3>1
      <4>2. QED
        BY <4>1
    <3>2. CASE ~(rule.min_value > 0)
      <4>1. Floor(held.content, a.rule) = 0
        BY <2>4, <3>2
      <4>2. a.value >= 0 /\ a.value >= rule.min_value
        <5> HIDE DEF rule
        <5>1. QED
          BY <2>3, <3>2
      <4>3. QED
        BY <4>1, <4>2
    <3>3. QED
      BY <3>1, <3>2
  <2>7. Allows(Direction(held.content, a.rule), a)
          <=> /\ rule.direction = "up_bad" => ~a.fell
              /\ rule.direction = "down_bad" => a.fell
    BY <2>4 DEF Allows
  <2>8. QED
    BY <2>5, <2>6, <2>7
<1>2. QED
  BY <1>1, Invariance, PTL

\* No configuration that loads, first or later, lets a floor swallow a fall that a
\* down_bad rule looks for.
THEOREM FallsPassTheFilters == Spec => []FallsArrive
<1>1. IInv => FallsArrive
  <2>1. SUFFICES ASSUME IInv, cpc = "flush", UniqueNames(held.content), NEW a \in fired,
                        Direction(held.content, a.rule) = "down_bad", a.fell
                 PROVE  a \in kept
    BY DEF FallsArrive
  <2>2. /\ held.content \in LoadedContents
        /\ a \in AnomaliesOf(held.content)
        /\ kept = Passing(held.content, fired)
    BY <2>1 DEF IInv, CycleInv, Judging
  <2>3. PICK r \in DOMAIN held.content.rules : held.content.rules[r].name = a.rule
    BY <2>2 DEF AnomaliesOf, RuleNames
  <2>4. held.content.rules[r].direction = "down_bad"
    BY <2>1, <2>2, <2>3, RuleOfName
  <2>5. ~(held.content.rules[r].min_value > 0)
    BY <2>2, <2>4, LoadedContentsType DEF Valid
  <2>6. Floor(held.content, a.rule) = 0
    <3>1. Floor(held.content, held.content.rules[r].name)
             = IF held.content.rules[r].min_value > 0 THEN held.content.rules[r].min_value ELSE 0
      BY <2>1, <2>2, RuleOfName
    <3>2. QED
      BY <2>3, <2>5, <3>1
  <2>7. a.value \in Nat
    BY <2>2, CycleAssumption DEF AnomaliesOf
  <2>8. Allows("down_bad", a)
    BY <2>1 DEF Allows
  <2>9. QED
    BY <2>1, <2>2, <2>6, <2>7, <2>8 DEF Passing
<1>2. QED
  BY <1>1, Invariance, PTL

\* For any configurations, edits, restarts and identities: what was just collected
\* answers the running engine's queries for the alert itself, and what the cache serves
\* is one whole bundle of one identity of its key.
THEOREM BundlesAreWhole == Spec => []BundlesWhole
<1>1. IInv => BundlesWhole
  BY DEF IInv, EnrichmentInv, Collecting, CacheWhole, Own, BundlesWhole
<1>2. QED
  BY <1>1, Invariance, PTL

\* The semaphore of the engine bounds the queries in flight, for any bundle.
THEOREM FanOutBounded == Spec => []BoundedFanOut
<1>1. IInv => BoundedFanOut
  BY DEF IInv, EngineInv, BoundedFanOut
<1>2. QED
  BY <1>1, Invariance, PTL

=============================================================================
