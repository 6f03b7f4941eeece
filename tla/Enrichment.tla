----------------------------- MODULE Enrichment -----------------------------
(***************************************************************************)
(* The enrichment of one alert at a time: Run of                           *)
(* controller/internal/enrichment/engine.go with its cache in Redis and    *)
(* the identities of identity.go.                                          *)
(*                                                                         *)
(* An identity is a record of labels: namespace, pod and service decide    *)
(* which bundle of queries it gets and the key it is cached under;         *)
(* container stands for the labels a query may use beside them.  The       *)
(* cluster, part of the key, is the same for all.  A result is an error or *)
(* a value, named by the identity its query was rendered for.              *)
(***************************************************************************)
EXTENDS Integers, FiniteSets

CONSTANTS
    Identities,  \* records [namespace, pod, service, container], "" for no label
    Queries      \* the queries that bundles are made of

VARIABLES
    epc,        \* Run: "idle", "lookup", "fanout", "store" or "done"
    identity,   \* the alert's
    running,    \* queries in flight
    bundle,     \* query -> its result
    cache,      \* cache key -> a bundle, as Redis holds it
    engine      \* the engine's cfg: [podBundle, serviceBundle, maxConcurrent]

enrichmentVars == <<epc, identity, running, bundle, cache>>

Nobody == [namespace |-> "", pod |-> "", service |-> "", container |-> ""]
Error == <<>>
NoResults == [q \in {} |-> Error]

\* An engine keeps the section of the configuration that the process was started with.
NewEngine(content) ==
    [podBundle |-> content.podBundle, serviceBundle |-> content.serviceBundle,
     maxConcurrent |-> content.maxConcurrent]

NoEngine == [podBundle |-> {}, serviceBundle |-> {}, maxConcurrent |-> 0]

\* The bundle a configuration has for an identity.  Kind: a pod with its namespace
\* before a service.
BundleOf(content, id) ==
    IF id.pod # "" /\ id.namespace # "" THEN content.podBundle
    ELSE IF id.service # "" THEN content.serviceBundle ELSE {}

bundleFor(id) == BundleOf(engine, id)

\* CacheKey leaves container, workload and node out.
CacheKey(id) == <<id.namespace, id.pod, id.service>>

\* What a query rendered for an identity finds.
ValueFor(id) == <<id>>

EnrichmentInit ==
    /\ epc = "idle"
    /\ identity = Nobody
    /\ running = {}
    /\ bundle = NoResults
    /\ cache = [k \in {CacheKey(id) : id \in Identities} |-> NoResults]
    /\ engine = NoEngine

\* finalize asks for the context of an alert.
Enrich(id) ==
    /\ epc = "idle"
    /\ identity' = id
    /\ epc' = IF bundleFor(id) = {} THEN "done" ELSE "lookup"
    /\ bundle' = NoResults
    /\ UNCHANGED <<running, cache>>

\* loadCache finds a bundle, whatever configuration and whichever identity of the key
\* it was collected for.
CacheHit ==
    /\ epc = "lookup"
    /\ cache[CacheKey(identity)] # NoResults
    /\ bundle' = cache[CacheKey(identity)]
    /\ epc' = "done"
    /\ UNCHANGED <<identity, running, cache>>

\* There is none, or Redis does not say.
CacheMiss ==
    /\ epc = "lookup"
    /\ epc' = "fanout"
    /\ UNCHANGED <<identity, running, bundle, cache>>

\* Faulty variant: a query does not wait for the semaphore.
LaunchAll(q) ==
    /\ epc = "fanout"
    /\ q \in bundleFor(identity) \ (running \cup DOMAIN bundle)
    /\ running' = running \cup {q}
    /\ UNCHANGED <<epc, identity, bundle, cache>>

\* The loop of runQueries takes a place in the semaphore and starts a goroutine.
Launch(q) ==
    /\ epc = "fanout"
    /\ q \in bundleFor(identity) \ (running \cup DOMAIN bundle)
    /\ Cardinality(running) < engine.maxConcurrent
    /\ running' = running \cup {q}
    /\ UNCHANGED <<epc, identity, bundle, cache>>

Answered(q, result) ==
    /\ bundle' = [p \in DOMAIN bundle \cup {q} |-> IF p = q THEN result ELSE bundle[p]]
    /\ running' = running \ {q}
    /\ UNCHANGED <<epc, identity, cache>>

\* Faulty variant: a query that fails keeps its place in the semaphore.
QueryFailsHolding(q) ==
    /\ q \in running
    /\ bundle' = [p \in DOMAIN bundle \cup {q} |-> IF p = q THEN Error ELSE bundle[p]]
    /\ UNCHANGED <<epc, identity, running, cache>>

\* An error, no data, or query_timeout has passed: the result holds the error.
QueryFails(q) ==
    /\ q \in running
    /\ Answered(q, Error)

QueryAnswers(q) ==
    /\ q \in running
    /\ Answered(q, ValueFor(identity))

\* Faulty variant: the results are read before all goroutines are done.
CollectEarly ==
    /\ epc = "fanout"
    /\ bundleFor(identity) \subseteq running \cup DOMAIN bundle
    /\ epc' = "store"
    /\ UNCHANGED <<identity, running, bundle, cache>>

\* wg.Wait returns.
Collect ==
    /\ epc = "fanout"
    /\ DOMAIN bundle = bundleFor(identity)
    /\ epc' = "store"
    /\ UNCHANGED <<identity, running, bundle, cache>>

\* storeCache, which may fail; a bundle of errors is stored like any other.
Store ==
    /\ epc = "store"
    /\ cache' \in {cache, [cache EXCEPT ![CacheKey(identity)] = bundle]}
    /\ epc' = "done"
    /\ UNCHANGED <<identity, running, bundle>>

\* cache_ttl has passed since the bundle was stored, or Redis lost it.
CacheExpires ==
    /\ \E k \in DOMAIN cache : cache[k] # NoResults /\ cache' = [cache EXCEPT ![k] = NoResults]
    /\ UNCHANGED <<epc, identity, running, bundle>>

\* What Run does whether or not Prometheus and Loki answer.
RunStep ==
    \/ CacheHit \/ CacheMiss \/ Collect \/ Store
    \/ \E q \in Queries : Launch(q) \/ QueryFails(q)

BackendAnswers == \E q \in running : QueryAnswers(q)

EnrichmentTypeOK ==
    /\ epc \in {"idle", "lookup", "fanout", "store", "done"}
    /\ identity \in Identities \cup {Nobody}
    /\ running \subseteq Queries
    /\ DOMAIN bundle \subseteq Queries
    /\ DOMAIN cache = {CacheKey(id) : id \in Identities}
    /\ engine = NewEngine(engine) /\ engine.maxConcurrent \in Nat
=============================================================================
