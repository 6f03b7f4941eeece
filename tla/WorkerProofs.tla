---------------------------- MODULE WorkerProofs ----------------------------
(***************************************************************************)
(* Proofs about Worker, for every set of handlers, every configuration and *)
(* every setting of the breaker.                                           *)
(***************************************************************************)
EXTENDS Worker, DataInduction, FiniteSetTheorems

-----------------------------------------------------------------------------
(* The batch *)

\* Log patterns that become jobs, as a sequence: the recursion of Rates is defined.
LEMMA RatesType ==
    \E S : Rates[Len(LogPatterns)] \in Seq(S)
<1> DEFINE N == Len(LogPatterns)
           S == {LogPatterns[i] : i \in DOMAIN LogPatterns}
           step == [p \in (1 .. N) \X Seq(S) |->
                      IF LogPatterns[p[1]].type = "pattern_match" THEN p[2]
                      ELSE Append(p[2], LogPatterns[p[1]])]
           Body(r, n) == IF n = 0 THEN <<>>
                         ELSE IF LogPatterns[n].type = "pattern_match" THEN r[n - 1]
                         ELSE Append(r[n - 1], LogPatterns[n])
<1>1. LogPatterns \in Seq(S) /\ N \in Nat /\ DOMAIN LogPatterns = 1 .. N
  BY WorkerAssumption
<1>2. step \in [(1 .. N) \X Seq(S) -> Seq(S)]
  <2>1. ASSUME NEW i \in 1 .. N, NEW s \in Seq(S) PROVE Append(s, LogPatterns[i]) \in Seq(S)
    BY <1>1
  <2> HIDE DEF N, S
  <2>2. QED
    BY <2>1
<1>3. <<>> \in Seq(S)
  OBVIOUS
<1>4. PICK f : Iterates(f, N, Seq(S), <<>>, step)
  <2> DEFINE T == Seq(S)
             e == <<>>
  <2>1. N \in Nat /\ e \in T /\ \A i \in 1 .. N : \A t \in T : step[<<i, t>>] \in T
    BY <1>1, <1>2, <1>3
  <2>2. \E f : Iterates(f, N, T, e, step)
    <3> HIDE DEF N, T, step, e
    <3>1. QED
      BY <2>1, PrefixRecursion
  <2>3. QED
    BY <2>2
<1>5. /\ f \in [0 .. N -> Seq(S)]
      /\ f[0] = <<>>
      /\ \A i \in 1 .. N : f[i] = step[<<i, f[i - 1]>>]
  BY <1>4 DEF Iterates
<1>6. f = [n \in 0 .. N |-> Body(f, n)]
  <2>1. ASSUME NEW n \in 1 .. N
        PROVE  f[n] = IF LogPatterns[n].type = "pattern_match" THEN f[n - 1]
                      ELSE Append(f[n - 1], LogPatterns[n])
    <3>1. n - 1 \in 0 .. N /\ f[n - 1] \in Seq(S)
      BY <1>1, <1>5
    <3>2. f[n] = step[<<n, f[n - 1]>>]
      BY <1>5
    <3> HIDE DEF N, S
    <3>3. QED
      BY <3>1, <3>2
  <2>2. ASSUME NEW n \in 0 .. N PROVE f[n] = Body(f, n)
    <3>1. n = 0 \/ n \in 1 .. N
      BY <1>1
    <3>2. f[0] = <<>> /\ \A i \in 1 .. N : i # 0
      BY <1>5
    <3> HIDE DEF N
    <3>3. QED
      BY <2>1, <3>1, <3>2
  <2> HIDE DEF N, S, Body
  <2>3. QED
    BY <1>5, <2>2
<1>7. Rates = [n \in 0 .. N |-> Body(Rates, n)]
  BY <1>6 DEF Rates
<1> HIDE DEF Body
<1> DEFINE Bad == {n \in 0 .. N : Rates[n] \notin Seq(S)}
<1>8. Bad = {}
  <2>1. SUFFICES ASSUME Bad # {} PROVE FALSE
    OBVIOUS
  <2>2. PICK n \in Bad : \A k \in Bad : n <= k
    <3>1. Bad \subseteq Nat
      BY <1>1
    <3> HIDE DEF Bad
    <3>2. QED
      BY <2>1, <3>1, LeastNatural
  <2>3. n \in 0 .. N /\ Rates[n] \notin Seq(S) /\ Rates[n] = Body(Rates, n)
    BY <1>7
  <2>4. n # 0
    BY <2>3, <1>3 DEF Body
  <2>5. n - 1 \in 0 .. N /\ n - 1 \notin Bad /\ LogPatterns[n] \in S
    <3>1. n \in 1 .. N /\ n - 1 \in 0 .. N /\ ~(n <= n - 1)
      BY <2>3, <2>4, <1>1
    <3>2. LogPatterns[n] \in S
      BY <1>1, <3>1
    <3> HIDE DEF Bad
    <3>3. QED
      BY <2>2, <3>1, <3>2
  <2>6. Rates[n - 1] \in Seq(S)
    BY <2>5
  <2>7. Body(Rates, n) \in Seq(S)
    <3> HIDE DEF S, N, Bad
    <3>1. QED
      BY <2>4, <2>5, <2>6 DEF Body
  <2>8. QED
    BY <2>3, <2>7
<1>9. QED
  <2>1. N \in 0 .. N
    BY <1>1
  <2>2. Rates[N] \in Seq(S)
    BY <1>8, <2>1
  <2>3. QED
    BY <2>2

LEMMA TypedType ==
    ASSUME NEW type, NEW S, NEW rules \in Seq(S)
    PROVE  Typed(type, rules) \in Seq({Typed(type, rules)[i] : i \in 1 .. Len(rules)})
<1> DEFINE t == Typed(type, rules)
           T == {t[i] : i \in 1 .. Len(rules)}
<1>1. DOMAIN t = 1 .. Len(rules) /\ Len(rules) \in Nat
  BY DEF Typed
<1>2. t \in [1 .. Len(rules) -> T]
  <2>1. t = [i \in 1 .. Len(rules) |-> t[i]]
    BY <1>1 DEF Typed
  <2> HIDE DEF t
  <2>2. QED
    BY <2>1
<1>3. t \in Seq(T)
  <2> HIDE DEF t, T
  <2>1. QED
    BY <1>1, <1>2
<1>4. QED
  BY <1>3

\* The jobs of a batch are numbered from 1.
LEMMA BatchType ==
    /\ Len(buildJobBatch) \in Nat
    /\ Jobs = 1 .. Len(buildJobBatch)
<1>1. ASSUME NEW a, NEW b, NEW A, NEW B, a \in Seq(A), b \in Seq(B)
      PROVE  a \o b \in Seq(A \cup B)
  BY <1>1
<1>2. PICK A : Typed("static", StaticRules) \in Seq(A)
  BY WorkerAssumption, TypedType
<1>3. PICK B : Typed("adaptive", AdaptiveMetrics) \in Seq(B)
  BY WorkerAssumption, TypedType
<1>4. PICK C : Typed("logs", Rates[Len(LogPatterns)]) \in Seq(C)
  BY RatesType, TypedType
<1>5. buildJobBatch \in Seq((A \cup B) \cup C)
  <2>1. Typed("static", StaticRules) \o Typed("adaptive", AdaptiveMetrics) \in Seq(A \cup B)
    BY <1>1, <1>2, <1>3
  <2>2. QED
    BY <1>1, <1>4, <2>1 DEF buildJobBatch
<1>6. QED
  BY <1>5 DEF Jobs

-----------------------------------------------------------------------------
(* The breaker *)

Trials == {c \in Callers : flight[c] = "current"}

BreakerInv == BreakerTypeOK /\ TrialsCounted

LEMMA BreakerInitially ==
    BreakerInit => BreakerInv
BY BreakerAssumption DEF BreakerInit, BreakerInv, BreakerTypeOK, TrialsCounted

LEMMA BreakerUnchanged ==
    BreakerInv /\ UNCHANGED breakerVars => BreakerInv'
BY DEF BreakerInv, breakerVars, BreakerTypeOK, TrialsCounted

LEMMA TrialsFinite == IsFiniteSet(Trials) /\ Cardinality(Trials) \in Nat
BY BreakerAssumption, FS_Subset, FS_CardinalityType DEF Trials

LEMMA NewGenerationKeepsInv ==
    ASSUME BreakerInv, NEW state \in {"closed", "open", "halfopen"},
           NEW calls \in [Callers -> {"none", "current", "stale"}],
           NewGeneration(state, calls)
    PROVE  BreakerInv'
<1>1. BreakerTypeOK'
  BY BreakerAssumption DEF NewGeneration, BreakerTypeOK
<1>2. Trials' = {}
  BY DEF NewGeneration, Trials
<1>3. requests' = 0 /\ successes' = 0
  BY DEF NewGeneration
<1>4. TrialsCounted'
  BY <1>2, <1>3, FS_EmptySet, BreakerAssumption DEF TrialsCounted, Trials
<1>5. QED
  BY <1>1, <1>4 DEF BreakerInv

LEMMA SendKeepsInv ==
    ASSUME BreakerInv, NEW c \in Callers, Send(c)
    PROVE  BreakerInv'
<1>1. BreakerTypeOK'
  BY BreakerAssumption DEF Send, Admits, BreakerInv, BreakerTypeOK
<1>2. Trials' = Trials \cup {c} /\ c \notin Trials
  BY DEF Send, Trials, BreakerInv, BreakerTypeOK
<1>3. Cardinality(Trials') = Cardinality(Trials) + 1
  BY <1>2, TrialsFinite, FS_AddElement
<1>4. TrialsCounted'
  BY <1>1, <1>3, TrialsFinite, BreakerAssumption
     DEF Send, Admits, BreakerInv, BreakerTypeOK, TrialsCounted, Trials
<1>5. QED
  BY <1>1, <1>4 DEF BreakerInv

LEMMA LandedType ==
    ASSUME BreakerInv, NEW c \in Callers
    PROVE  Landed(c) \in [Callers -> {"none", "current", "stale"}]
BY DEF Landed, BreakerInv, BreakerTypeOK

LEMMA EndStaleKeepsInv ==
    ASSUME BreakerInv, NEW c \in Callers, EndStale(c)
    PROVE  BreakerInv'
<1>1. BreakerTypeOK'
  BY DEF EndStale, Landed, BreakerInv, BreakerTypeOK
<1>2. Trials' = Trials
  BY DEF EndStale, Landed, Trials, BreakerInv, BreakerTypeOK
<1>3. TrialsCounted'
  BY <1>2 DEF EndStale, BreakerInv, TrialsCounted, Trials
<1>4. QED
  BY <1>1, <1>3 DEF BreakerInv

LEMMA SucceedKeepsInv ==
    ASSUME BreakerInv, NEW c \in Callers, Succeed(c)
    PROVE  BreakerInv'
<1>1. CASE EndStale(c)
  BY <1>1, EndStaleKeepsInv
<1>2. CASE NewGeneration("closed", Landed(c))
  BY <1>2, LandedType, NewGenerationKeepsInv
<1>3. CASE /\ flight[c] = "current"
           /\ breaker = "closed" \/ successes + 1 < MaxRequests
           /\ failures' = 0
           /\ successes' = IF breaker = "halfopen" THEN successes + 1 ELSE successes
           /\ flight' = Landed(c)
           /\ UNCHANGED <<breaker, requests>>
  <2>1. BreakerTypeOK'
    BY <1>3, LandedType, BreakerAssumption DEF BreakerInv, BreakerTypeOK
  <2>2. Trials' = Trials \ {c} /\ c \in Trials
    BY <1>3 DEF Landed, Trials, BreakerInv, BreakerTypeOK
  <2>3. Cardinality(Trials') = Cardinality(Trials) - 1
    BY <2>2, TrialsFinite, FS_RemoveElement
  <2>4. TrialsCounted'
    BY <1>3, <2>3, TrialsFinite DEF BreakerInv, BreakerTypeOK, TrialsCounted, Trials
  <2>5. QED
    BY <2>1, <2>4 DEF BreakerInv
<1>4. QED
  BY <1>1, <1>2, <1>3 DEF Succeed

LEMMA FailKeepsInv ==
    ASSUME BreakerInv, NEW c \in Callers, Fail(c)
    PROVE  BreakerInv'
<1>1. CASE EndStale(c)
  BY <1>1, EndStaleKeepsInv
<1>2. CASE NewGeneration("open", Landed(c))
  BY <1>2, LandedType, NewGenerationKeepsInv
<1>3. CASE /\ breaker = "closed" /\ failures + 1 < TripAfter
           /\ failures' = failures + 1
           /\ flight' = Landed(c)
           /\ UNCHANGED <<breaker, successes, requests>>
  <2>1. BreakerTypeOK'
    BY <1>3, LandedType, BreakerAssumption DEF BreakerInv, BreakerTypeOK
  <2>2. QED
    BY <1>3, <2>1 DEF BreakerInv, TrialsCounted
<1>4. QED
  BY <1>1, <1>2, <1>3 DEF Fail

LEMMA ClockKeepsInv ==
    BreakerInv /\ (IntervalPasses \/ TimeoutPasses) => BreakerInv'
<1>1. SUFFICES ASSUME BreakerInv, IntervalPasses \/ TimeoutPasses PROVE BreakerInv'
  OBVIOUS
<1>2. flight \in [Callers -> {"none", "current", "stale"}]
  BY <1>1 DEF BreakerInv, BreakerTypeOK
<1>3. NewGeneration("closed", flight) \/ NewGeneration("halfopen", flight)
  BY <1>1 DEF IntervalPasses, TimeoutPasses
<1>4. QED
  BY <1>1, <1>2, <1>3, NewGenerationKeepsInv

-----------------------------------------------------------------------------
(* The invariant of one handler *)

Evaluating == {"sample", "load", "store", "save"}
Profiling == {"profile", "profileLoad", "profileStore", "profileSave"}
Between == {"idle", "job"}
Stages == Between \cup Evaluating \cup {"filter"} \cup Profiling

Series == UNION {DOMAIN a : a \in Snapshots}

Types ==
    /\ pc \in [Handlers -> Stages]
    /\ job \in [Handlers -> 1 .. Len(buildJobBatch) + 1]
    /\ DOMAIN cache = Handlers
    /\ DOMAIN answered = Handlers
    /\ todo \in [Handlers -> SUBSET Series]
    /\ found \in [Handlers -> SUBSET Series]
    /\ family \in [Handlers -> Nat]
    /\ reported \in [Handlers -> SUBSET (Jobs \X Series)]
    /\ errors \in [Handlers -> SUBSET Jobs]

EnvTypes ==
    /\ expired \in [Handlers -> BOOLEAN]
    /\ tokens \in [{"prometheus", "loki"} -> 0 .. Burst]
    /\ redisUp \in BOOLEAN

\* A stage is only reached with an answer, and evaluation only by jobs that have one.
Staged(h) ==
    /\ pc[h] \notin Between => job[h] \in DOMAIN answered[h]
    /\ pc[h] \in Evaluating => TypeOf(job[h]) # "static"
    /\ pc[h] \notin Evaluating \cup {"filter"} => found[h] = {}

\* Answers belong to jobs that were reached, and the cache has those of metrics.
Answers(h) ==
    /\ \A q \in DOMAIN cache[h] : cache[h][q] \in Snapshots
    /\ \A j \in DOMAIN answered[h] :
        /\ j \in Jobs
        /\ answered[h][j] \in Snapshots
        /\ j < job[h] \/ (j = job[h] /\ pc[h] \notin Between)
        /\ TypeOf(j) # "logs" =>
            QueryOf(j) \in DOMAIN cache[h] /\ cache[h][QueryOf(j)] = answered[h][j]

Breaches(h, j) == {s \in DOMAIN answered[h][j] : answered[h][j][s] = "high"}

Arrived(h, j) ==
    \A s \in Breaches(h, j) :
        s.namespace \notin ExcludeNamespaces \cup ExcludeStaticOnly => <<j, s>> \in reported[h]

\* Breaches are on their way to the filter, or past it.
Static(h) ==
    /\ pc[h] = "filter" /\ TypeOf(job[h]) = "static" => found[h] = Breaches(h, job[h])
    /\ \A j \in DOMAIN answered[h] :
        TypeOf(j) = "static" /\ (j < job[h] \/ pc[h] \in Profiling) => Arrived(h, j)

AdaptiveReports(h) == {r \in reported[h] : DetectorOf(r[1]) = "adaptive"}
Pending(h) == {s \in found[h] : DetectorOf(job[h]) = "adaptive"}

\* The family counts what is reported and what is still on its way.
Tests(h) ==
    /\ IsFiniteSet(todo[h]) /\ IsFiniteSet(found[h]) /\ IsFiniteSet(reported[h])
    /\ Cardinality(AdaptiveReports(h)) + Cardinality(Pending(h)) <= family[h]

HandlerInv(h) == Staged(h) /\ Answers(h) /\ Static(h) /\ Tests(h)

IInv == BreakerInv /\ Types /\ EnvTypes /\ \A h \in Handlers : HandlerInv(h)

-----------------------------------------------------------------------------
(* Steps of one handler *)

Same(g) ==
    /\ pc'[g] = pc[g] /\ job'[g] = job[g]
    /\ cache'[g] = cache[g] /\ answered'[g] = answered[g]
    /\ todo'[g] = todo[g] /\ found'[g] = found[g]
    /\ family'[g] = family[g] /\ reported'[g] = reported[g]

\* What an action of handler h has to establish.
Advances(h) ==
    /\ Types'
    /\ HandlerInv(h)'
    /\ \A g \in Handlers \ {h} : Same(g)

LEMMA Frame ==
    ASSUME NEW g, HandlerInv(g), Same(g)
    PROVE  HandlerInv(g)'
<1>1. Staged(g)'
  BY DEF HandlerInv, Staged, Same
<1>2. Answers(g)'
  BY DEF HandlerInv, Answers, Same
<1>3. Static(g)'
  BY DEF HandlerInv, Static, Same, Arrived, Breaches
<1>4. AdaptiveReports(g)' = AdaptiveReports(g) /\ Pending(g)' = Pending(g)
  BY DEF Same, AdaptiveReports, Pending
<1>5. Tests(g)'
  BY <1>4 DEF HandlerInv, Tests, Same
<1>6. QED
  BY <1>1, <1>2, <1>3, <1>5 DEF HandlerInv

\* A handler moves within evaluation, or within the profiles: all that changes is
\* what its loop has still to visit.
LEMMA Moves ==
    ASSUME Types, NEW h \in Handlers, HandlerInv(h),
           NEW label,
           \/ pc[h] \in Evaluating /\ label \in Evaluating
           \/ pc[h] \in Profiling /\ label \in Profiling,
           NEW left \in SUBSET todo[h],
           pc' = [pc EXCEPT ![h] = label],
           todo' = [todo EXCEPT ![h] = left],
           UNCHANGED <<job, found, batchVars>>
    PROVE  Advances(h)
<1>1. label \in Stages /\ pc'[h] = label /\ todo'[h] = left
  BY DEF Types, Stages
<1>2. Types'
  BY <1>1 DEF Types, batchVars
<1>3. Staged(h)' /\ Answers(h)'
  BY <1>1 DEF HandlerInv, Staged, Answers, batchVars, Evaluating, Profiling, Between
<1>4. Static(h)'
  BY <1>1 DEF HandlerInv, Static, Arrived, Breaches, batchVars, Evaluating, Profiling
<1>5. AdaptiveReports(h)' = AdaptiveReports(h) /\ Pending(h)' = Pending(h)
  BY DEF AdaptiveReports, Pending, batchVars
<1>6. IsFiniteSet(left)
  BY FS_Subset DEF HandlerInv, Tests
<1>7. Tests(h)'
  BY <1>1, <1>5, <1>6 DEF HandlerInv, Tests, batchVars
<1>8. \A g \in Handlers \ {h} : Same(g)
  BY DEF Same, Types, batchVars
<1>9. QED
  BY <1>2, <1>3, <1>4, <1>7, <1>8 DEF Advances, HandlerInv

LEMMA OneMore ==
    ASSUME NEW S, IsFiniteSet(S), NEW T, NEW x, T = S \/ T = S \cup {x}
    PROVE  Cardinality(T) \in Nat /\ Cardinality(T) <= Cardinality(S) + 1
<1>1. Cardinality(S) \in Nat
  BY FS_CardinalityType
<1>2. CASE T = S
  BY <1>1, <1>2
<1>3. CASE T = S \cup {x}
  BY <1>1, <1>3, FS_AddElement
<1>4. QED
  BY <1>2, <1>3

\* A sample has been tested.
LEMMA TestedAdvances ==
    ASSUME Types, NEW h \in Handlers, HandlerInv(h), pc[h] \in Evaluating,
           NEW s \in todo[h], NEW anomalous \in BOOLEAN, Tested(h, s, anomalous)
    PROVE  Advances(h)
<1>1. /\ pc'[h] = "sample"
      /\ todo'[h] = todo[h] \ {s}
      /\ family'[h] = family[h] + 1
      /\ found'[h] = found[h] \/ found'[h] = found[h] \cup {s}
      /\ UNCHANGED <<job, cache, answered, reported, errors>>
  BY DEF Tested, Visited, Goto, Types
<1>2. s \in Series
  BY DEF Types
<1>3. Types'
  <2>1. "sample" \in Stages
    BY DEF Stages, Evaluating
  <2>2. found' \in [Handlers -> SUBSET Series]
    BY <1>2 DEF Tested, Types
  <2>3. QED
    BY <2>1, <2>2 DEF Tested, Visited, Goto, Types
<1>4. Staged(h)' /\ Answers(h)'
  BY <1>1 DEF HandlerInv, Staged, Answers, Evaluating, Between
<1>5. Static(h)'
  BY <1>1 DEF HandlerInv, Static, Arrived, Breaches, Evaluating, Profiling
<1>6. AdaptiveReports(h)' = AdaptiveReports(h)
  BY <1>1 DEF AdaptiveReports
<1>7. IsFiniteSet(todo'[h]) /\ IsFiniteSet(found'[h])
  BY <1>1, FS_Subset, FS_AddElement DEF HandlerInv, Tests
<1>8. Pending(h)' = Pending(h) \/ Pending(h)' = Pending(h) \cup {s}
  BY <1>1 DEF Pending
<1>9. /\ IsFiniteSet(Pending(h)) /\ IsFiniteSet(AdaptiveReports(h))
      /\ Cardinality(Pending(h)) \in Nat /\ Cardinality(AdaptiveReports(h)) \in Nat
  BY FS_Subset, FS_EmptySet, FS_CardinalityType
     DEF HandlerInv, Tests, Pending, AdaptiveReports
<1>10. Cardinality(Pending(h)') \in Nat /\ Cardinality(Pending(h)') <= Cardinality(Pending(h)) + 1
  BY <1>8, <1>9, OneMore
<1>11. Tests(h)'
  BY <1>1, <1>6, <1>7, <1>9, <1>10 DEF HandlerInv, Tests, Types
<1>12. \A g \in Handlers \ {h} : Same(g)
  BY DEF Tested, Visited, Goto, Same, Types
<1>13. QED
  BY <1>3, <1>4, <1>5, <1>11, <1>12 DEF Advances, HandlerInv

\* Redis commands, for the stages that send them.
LEMMA CommandAdvances ==
    ASSUME BreakerInv, Types, NEW h \in Handlers, HandlerInv(h),
           NEW from, NEW inFlight, NEW skip,
           \/ {from, inFlight, skip} \subseteq Evaluating
           \/ {from, inFlight, skip} \subseteq Profiling,
           Command(h, from, inFlight, skip)
    PROVE  Advances(h) /\ BreakerInv' /\ UNCHANGED envVars
<1>1. h \in Callers
  BY WorkerAssumption
<1>2. /\ pc[h] = from
      /\ UNCHANGED <<job, found, batchVars, envVars>>
  BY DEF Command
<1>3. CASE Send(h) /\ Goto(h, inFlight) /\ UNCHANGED todo
  <2>1. BreakerInv'
    BY <1>1, <1>3, SendKeepsInv
  <2>2. pc' = [pc EXCEPT ![h] = inFlight] /\ todo' = [todo EXCEPT ![h] = todo[h]]
    BY <1>3 DEF Goto, Types
  <2>3. Advances(h)
    BY <1>2, <2>2, Moves
  <2>4. QED
    BY <1>2, <2>1, <2>3 DEF batchVars, envVars
<1>4. CASE Refuse(h) /\ \E s \in todo[h] : Visited(h, s, skip)
  <2>1. BreakerInv'
    BY <1>4, BreakerUnchanged DEF Refuse
  <2>2. PICK s \in todo[h] : Visited(h, s, skip)
    BY <1>4
  <2>3. /\ pc' = [pc EXCEPT ![h] = skip]
        /\ todo' = [todo EXCEPT ![h] = todo[h] \ {s}]
        /\ todo[h] \ {s} \in SUBSET todo[h]
    BY <2>2 DEF Visited, Goto
  <2>4. Advances(h)
    BY <1>2, <2>3, Moves
  <2>5. QED
    BY <1>2, <2>1, <2>4 DEF envVars
<1>5. QED
  BY <1>3, <1>4 DEF Command

LEMMA CommandFailsAdvances ==
    ASSUME BreakerInv, Types, NEW h \in Handlers, HandlerInv(h),
           NEW inFlight, NEW skip,
           {inFlight, skip} \subseteq Evaluating \/ {inFlight, skip} \subseteq Profiling,
           CommandFails(h, inFlight, skip)
    PROVE  Advances(h) /\ BreakerInv' /\ UNCHANGED envVars
<1>1. /\ h \in Callers
      /\ pc[h] = inFlight
      /\ UNCHANGED <<job, found, batchVars, envVars>>
  BY WorkerAssumption DEF CommandFails
<1>2. BreakerInv'
  BY <1>1, FailKeepsInv DEF CommandFails
<1>3. PICK s \in todo[h] : Visited(h, s, skip)
  BY DEF CommandFails
<1>4. /\ pc' = [pc EXCEPT ![h] = skip]
      /\ todo' = [todo EXCEPT ![h] = todo[h] \ {s}]
      /\ todo[h] \ {s} \in SUBSET todo[h]
  BY <1>3 DEF Visited, Goto
<1>5. Advances(h)
  BY <1>1, <1>4, Moves
<1>6. QED
  BY <1>1, <1>2, <1>5 DEF envVars

LEMMA ReadSucceedsAdvances ==
    ASSUME BreakerInv, Types, NEW h \in Handlers, HandlerInv(h),
           NEW inFlight, NEW next,
           {inFlight, next} \subseteq Evaluating \/ {inFlight, next} \subseteq Profiling,
           ReadSucceeds(h, inFlight, next)
    PROVE  Advances(h) /\ BreakerInv' /\ UNCHANGED envVars
<1>1. /\ h \in Callers
      /\ pc[h] = inFlight
      /\ UNCHANGED <<job, found, batchVars, envVars>>
  BY WorkerAssumption DEF ReadSucceeds
<1>2. BreakerInv'
  BY <1>1, SucceedKeepsInv DEF ReadSucceeds
<1>3. pc' = [pc EXCEPT ![h] = next] /\ todo' = [todo EXCEPT ![h] = todo[h]]
  BY DEF ReadSucceeds, Goto, Types
<1>4. Advances(h)
  BY <1>1, <1>3, Moves
<1>5. QED
  BY <1>1, <1>2, <1>4 DEF envVars

\* The last command of a loop's turn succeeds and the series is done.
LEMMA VisitedAdvances ==
    ASSUME Types, NEW h \in Handlers, HandlerInv(h), NEW s \in todo[h], NEW label,
           \/ pc[h] \in Evaluating /\ label \in Evaluating
           \/ pc[h] \in Profiling /\ label \in Profiling,
           Visited(h, s, label),
           UNCHANGED <<job, found, batchVars, envVars>>
    PROVE  Advances(h) /\ UNCHANGED envVars
<1>1. /\ pc' = [pc EXCEPT ![h] = label]
      /\ todo' = [todo EXCEPT ![h] = todo[h] \ {s}]
      /\ todo[h] \ {s} \in SUBSET todo[h]
  BY DEF Visited, Goto
<1>2. Advances(h)
  BY <1>1, Moves
<1>3. QED
  BY <1>2

LEMMA LoadBaselineAdvances ==
    ASSUME BreakerInv, Types, NEW h \in Handlers, HandlerInv(h), LoadBaseline(h)
    PROVE  Advances(h) /\ BreakerInv' /\ UNCHANGED envVars
<1>1. {"sample", "load", "store"} \subseteq Evaluating
  BY DEF Evaluating
<1>2. CASE Command(h, "sample", "load", "sample")
  BY <1>1, <1>2, CommandAdvances
<1>3. CASE ReadSucceeds(h, "load", "store")
  BY <1>1, <1>3, ReadSucceedsAdvances
<1>4. CASE CommandFails(h, "load", "sample")
  BY <1>1, <1>4, CommandFailsAdvances
<1>5. QED
  BY <1>2, <1>3, <1>4 DEF LoadBaseline

LEMMA PoisonedAdvances ==
    ASSUME BreakerInv, Types, NEW h \in Handlers, HandlerInv(h), Poisoned(h)
    PROVE  Advances(h) /\ BreakerInv' /\ UNCHANGED envVars
<1>1. PICK s \in todo[h], anomalous \in BOOLEAN : Tested(h, s, anomalous)
  BY DEF Poisoned
<1>2. pc[h] \in Evaluating
  BY DEF Poisoned, Evaluating
<1>3. Advances(h)
  BY <1>1, <1>2, TestedAdvances
<1>4. BreakerInv'
  BY BreakerUnchanged DEF Poisoned
<1>5. QED
  BY <1>1, <1>3, <1>4 DEF Tested

LEMMA SaveBaselineAdvances ==
    ASSUME BreakerInv, Types, NEW h \in Handlers, HandlerInv(h), SaveBaseline(h)
    PROVE  Advances(h) /\ BreakerInv' /\ UNCHANGED envVars
<1>1. {"sample", "store", "save"} \subseteq Evaluating
  BY DEF Evaluating
<1>2. CASE Command(h, "store", "save", "sample")
  BY <1>1, <1>2, CommandAdvances
<1>3. CASE CommandFails(h, "save", "sample")
  BY <1>1, <1>3, CommandFailsAdvances
<1>4. CASE /\ pc[h] = "save"
           /\ Succeed(h)
           /\ \E s \in todo[h] :
                \/ \E anomalous \in BOOLEAN : Tested(h, s, anomalous)
                \/ /\ Visited(h, s, "sample")
                   /\ UNCHANGED <<job, found, batchVars, envVars>>
  <2>1. BreakerInv'
    BY <1>4, SucceedKeepsInv, WorkerAssumption
  <2>2. PICK s \in todo[h] :
           \/ \E anomalous \in BOOLEAN : Tested(h, s, anomalous)
           \/ /\ Visited(h, s, "sample")
              /\ UNCHANGED <<job, found, batchVars, envVars>>
    BY <1>4
  <2>3. CASE \E anomalous \in BOOLEAN : Tested(h, s, anomalous)
    <3>1. PICK anomalous \in BOOLEAN : Tested(h, s, anomalous)
      BY <2>3
    <3>2. Advances(h)
      BY <1>1, <1>4, <3>1, TestedAdvances
    <3>3. QED
      BY <2>1, <3>1, <3>2 DEF Tested
  <2>4. CASE Visited(h, s, "sample") /\ UNCHANGED <<job, found, batchVars, envVars>>
    <3>1. pc[h] \in Evaluating /\ "sample" \in Evaluating
      BY <1>1, <1>4
    <3>2. Advances(h) /\ UNCHANGED envVars
      BY <2>4, <3>1, VisitedAdvances
    <3>3. QED
      BY <2>1, <3>2
  <2>5. QED
    BY <2>2, <2>3, <2>4
<1>5. QED
  BY <1>2, <1>3, <1>4 DEF SaveBaseline

LEMMA UpdateProfileAdvances ==
    ASSUME BreakerInv, Types, NEW h \in Handlers, HandlerInv(h), UpdateProfile(h)
    PROVE  Advances(h) /\ BreakerInv' /\ UNCHANGED envVars
<1>1. {"profile", "profileLoad", "profileStore", "profileSave"} \subseteq Profiling
  BY DEF Profiling
<1>2. CASE Command(h, "profile", "profileLoad", "profile")
  BY <1>1, <1>2, CommandAdvances
<1>3. CASE ReadSucceeds(h, "profileLoad", "profileStore")
  BY <1>1, <1>3, ReadSucceedsAdvances
<1>4. CASE CommandFails(h, "profileLoad", "profile")
  BY <1>1, <1>4, CommandFailsAdvances
<1>5. CASE Command(h, "profileStore", "profileSave", "profile")
  BY <1>1, <1>5, CommandAdvances
<1>6. CASE CommandFails(h, "profileSave", "profile")
  BY <1>1, <1>6, CommandFailsAdvances
<1>7. CASE /\ pc[h] = "profileSave"
           /\ Succeed(h)
           /\ \E s \in todo[h] : Visited(h, s, "profile")
           /\ UNCHANGED <<job, found, batchVars, envVars>>
  <2>1. BreakerInv'
    BY <1>7, SucceedKeepsInv, WorkerAssumption
  <2>2. PICK s \in todo[h] : Visited(h, s, "profile")
    BY <1>7
  <2>3. pc[h] \in Profiling /\ "profile" \in Profiling
    BY <1>1, <1>7
  <2>4. Advances(h) /\ UNCHANGED envVars
    BY <1>7, <2>2, <2>3, VisitedAdvances
  <2>5. QED
    BY <2>1, <2>4
<1>8. QED
  BY <1>2, <1>3, <1>4, <1>5, <1>6, <1>7 DEF UpdateProfile

LEMMA ProcessJobsAdvances ==
    ASSUME Types, NEW h \in Handlers, HandlerInv(h), ProcessJobs(h)
    PROVE  Advances(h)
<1>1. /\ pc[h] = "idle" /\ pc'[h] = "job"
      /\ UNCHANGED <<job, cache, answered, todo, found, family, reported, errors>>
  BY DEF ProcessJobs, Goto, Types, batchVars
<1>2. Types'
  BY <1>1 DEF ProcessJobs, Goto, Types, Stages, Between
<1>3. Staged(h)' /\ Answers(h)'
  BY <1>1 DEF HandlerInv, Staged, Answers, Evaluating, Between
<1>4. Static(h)'
  BY <1>1 DEF HandlerInv, Static, Arrived, Breaches, Profiling
<1>5. AdaptiveReports(h)' = AdaptiveReports(h) /\ Pending(h)' = Pending(h)
  BY <1>1 DEF AdaptiveReports, Pending
<1>6. Tests(h)'
  BY <1>1, <1>5 DEF HandlerInv, Tests
<1>7. \A g \in Handlers \ {h} : Same(g)
  BY <1>1 DEF ProcessJobs, Goto, Same, Types
<1>8. QED
  BY <1>2, <1>3, <1>4, <1>6, <1>7 DEF Advances, HandlerInv

\* A job gets its samples, from the cache or from the datasource.
LEMMA AnswerAdvances ==
    ASSUME Types, NEW h \in Handlers, HandlerInv(h), AtJob(h),
           NEW snapshot \in Snapshots, Answer(h, snapshot),
           \/ cache' = cache /\ Cached(h) /\ snapshot = cache[h][QueryOf(job[h])]
           \/ cache' = cache /\ TypeOf(job[h]) = "logs"
           \/ /\ ~Cached(h) /\ TypeOf(job[h]) # "logs"
              /\ cache' = [cache EXCEPT ![h] = Put(@, QueryOf(job[h]), snapshot)],
           UNCHANGED <<job, family, reported, errors>>
    PROVE  Advances(h)
<1> DEFINE j == job[h]
           high == {s \in DOMAIN snapshot : snapshot[s] = "high"}
<1>1. /\ pc[h] = "job" /\ j \in Jobs
      /\ job'[h] = j /\ family'[h] = family[h] /\ reported'[h] = reported[h]
      /\ found[h] = {}
  BY DEF AtJob, HandlerInv, Staged, Evaluating
<1>2. IsFiniteSet(DOMAIN snapshot) /\ DOMAIN snapshot \subseteq Series
  BY WorkerAssumption DEF Series
<1>3. answered'[h] = Put(answered[h], j, snapshot)
  BY DEF Answer, Types
<1>4. /\ DOMAIN answered'[h] = DOMAIN answered[h] \cup {j}
      /\ \A i \in DOMAIN answered[h] \cup {j} :
            answered'[h][i] = IF i = j THEN snapshot ELSE answered[h][i]
  BY <1>3 DEF Put
<1>5. \A i \in DOMAIN answered[h] : i # j /\ i < j
  <2>1. j \in Nat /\ \A i \in DOMAIN answered[h] : i < j
    BY <1>1, BatchType DEF HandlerInv, Answers, Between, Types
  <2>2. \A i \in DOMAIN answered[h] : i \in Nat
    BY BatchType DEF HandlerInv, Answers
  <2>3. QED
    BY <2>1, <2>2
<1>6. \/ /\ TypeOf(j) = "static"
         /\ pc'[h] = "filter" /\ found'[h] = high /\ todo'[h] = todo[h]
      \/ /\ TypeOf(j) # "static"
         /\ pc'[h] = "sample" /\ todo'[h] = DOMAIN snapshot /\ found'[h] = {}
  BY <1>1 DEF Answer, Goto, Types
<1>7. Types'
  <2>1. {"filter", "sample"} \subseteq Stages
    BY DEF Stages, Evaluating
  <2>2. pc' \in [Handlers -> Stages]
    BY <2>1 DEF Answer, Goto, Types
  <2>3. todo' \in [Handlers -> SUBSET Series] /\ found' \in [Handlers -> SUBSET Series]
    <3>1. high \in SUBSET Series /\ DOMAIN snapshot \in SUBSET Series
      BY <1>2
    <3>2. /\ todo' = todo \/ todo' = [todo EXCEPT ![h] = DOMAIN snapshot]
          /\ found' = found \/ found' = [found EXCEPT ![h] = high]
      BY DEF Answer
    <3> HIDE DEF high
    <3>3. QED
      BY <3>1, <3>2 DEF Types
  <2>4. DOMAIN cache' = Handlers /\ DOMAIN answered' = Handlers
    BY DEF Answer, Types
  <2>5. QED
    BY <2>2, <2>3, <2>4 DEF Types
<1>8. Staged(h)'
  BY <1>1, <1>4, <1>6 DEF Staged, Evaluating, Between
<1>9. Answers(h)'
  <2>1. pc'[h] \notin Between
    BY <1>6 DEF Between
  <2>2. \/ cache'[h] = cache[h] /\ Cached(h) /\ snapshot = cache[h][QueryOf(j)]
        \/ cache'[h] = cache[h] /\ TypeOf(j) = "logs"
        \/ ~Cached(h) /\ TypeOf(j) # "logs" /\ cache'[h] = Put(cache[h], QueryOf(j), snapshot)
    BY DEF Types
  <2>3. \A q \in DOMAIN cache'[h] : cache'[h][q] \in Snapshots
    BY <2>2 DEF Put, HandlerInv, Answers
  <2>4. ASSUME NEW q \in DOMAIN cache[h]
        PROVE  q \in DOMAIN cache'[h] /\ cache'[h][q] = cache[h][q]
    BY <2>2 DEF Put, Cached
  <2>5. ASSUME TypeOf(j) # "logs"
        PROVE  QueryOf(j) \in DOMAIN cache'[h] /\ cache'[h][QueryOf(j)] = snapshot
    BY <2>2, <2>5 DEF Put, Cached
  <2>6. ASSUME NEW i \in DOMAIN answered'[h]
        PROVE  /\ i \in Jobs
               /\ answered'[h][i] \in Snapshots
               /\ i < job'[h] \/ (i = job'[h] /\ pc'[h] \notin Between)
               /\ TypeOf(i) # "logs" =>
                   QueryOf(i) \in DOMAIN cache'[h] /\ cache'[h][QueryOf(i)] = answered'[h][i]
    <3>1. CASE i = j
      BY <1>1, <1>4, <2>1, <2>5, <3>1
    <3>2. CASE i \in DOMAIN answered[h]
      <4>1. /\ i \in Jobs /\ answered[h][i] \in Snapshots
            /\ TypeOf(i) # "logs" =>
                QueryOf(i) \in DOMAIN cache[h] /\ cache[h][QueryOf(i)] = answered[h][i]
        BY <3>2 DEF HandlerInv, Answers
      <4>2. answered'[h][i] = answered[h][i] /\ i < job'[h]
        BY <1>1, <1>4, <1>5, <3>2
      <4>3. QED
        BY <4>1, <4>2, <2>4
    <3>3. QED
      BY <1>4, <3>1, <3>2
  <2>7. QED
    BY <2>3, <2>6 DEF Answers
<1>10. Static(h)'
  <2>1. pc'[h] = "filter" /\ TypeOf(job'[h]) = "static" => found'[h] = Breaches(h, job[h])'
    BY <1>1, <1>4, <1>6 DEF Breaches
  <2>2. ASSUME NEW i \in DOMAIN answered'[h], TypeOf(i) = "static",
               i < job'[h] \/ pc'[h] \in Profiling
        PROVE  Arrived(h, i)'
    <3>1. i < j
      BY <1>1, <1>6, <2>2 DEF Profiling
    <3>2. i \in DOMAIN answered[h] /\ answered'[h][i] = answered[h][i]
      BY <1>1, <1>4, <3>1, BatchType
    <3>3. Arrived(h, i)
      BY <2>2, <3>1, <3>2 DEF HandlerInv, Static
    <3>4. QED
      BY <1>1, <3>2, <3>3 DEF Arrived, Breaches
  <2>3. QED
    BY <1>1, <2>1, <2>2 DEF Static
<1>11. Tests(h)'
  <2>1. IsFiniteSet(high)
    BY <1>2, FS_Subset
  <2>2. IsFiniteSet(todo'[h]) /\ IsFiniteSet(found'[h]) /\ IsFiniteSet(reported'[h])
    BY <1>1, <1>2, <1>6, <2>1, FS_EmptySet DEF HandlerInv, Tests
  <2>3. AdaptiveReports(h)' = AdaptiveReports(h)
    BY <1>1 DEF AdaptiveReports
  <2>4. Pending(h) = {} /\ Pending(h)' = {}
    BY <1>1, <1>6 DEF Pending, DetectorOf
  <2>5. QED
    BY <1>1, <2>2, <2>3, <2>4 DEF HandlerInv, Tests
<1>12. \A g \in Handlers \ {h} : Same(g)
  BY DEF Answer, Goto, Same, Types
<1>13. QED
  BY <1>7, <1>8, <1>9, <1>10, <1>11, <1>12 DEF Advances, HandlerInv

LEMMA UseCacheAdvances ==
    ASSUME Types, NEW h \in Handlers, HandlerInv(h), UseCache(h)
    PROVE  Advances(h)
<1>1. cache[h][QueryOf(job[h])] \in Snapshots
  BY DEF UseCache, Cached, HandlerInv, Answers
<1>2. QED
  BY <1>1, AnswerAdvances DEF UseCache

LEMMA QueryAnswersAdvances ==
    ASSUME Types, NEW h \in Handlers, HandlerInv(h), QueryAnswers(h)
    PROVE  Advances(h)
<1>1. PICK snapshot \in Snapshots :
        /\ Answer(h, snapshot)
        /\ cache' = IF TypeOf(job[h]) = "logs" THEN cache
                    ELSE [cache EXCEPT ![h] = Put(@, QueryOf(job[h]), snapshot)]
  BY DEF QueryAnswers
<1>2. AtJob(h) /\ ~Cached(h) /\ UNCHANGED <<job, family, reported, errors>>
  BY DEF QueryAnswers
<1>3. QED
  BY <1>1, <1>2, AnswerAdvances

LEMMA JobFailsAdvances ==
    ASSUME Types, NEW h \in Handlers, HandlerInv(h), JobFails(h)
    PROVE  Advances(h)
<1>1. /\ pc[h] = "job" /\ job[h] \in Jobs
      /\ UNCHANGED <<pc, todo, found, cache, answered, family, reported>>
  BY DEF JobFails, AtJob
<1>2. job[h] \in 1 .. Len(buildJobBatch) /\ Len(buildJobBatch) \in Nat
  BY <1>1, BatchType
<1>3. job' = [job EXCEPT ![h] = job[h] + 1] /\ job'[h] = job[h] + 1
  BY DEF JobFails, Types
<1>4. Types'
  <2>1. job' \in [Handlers -> 1 .. Len(buildJobBatch) + 1]
    BY <1>2, <1>3 DEF Types
  <2>2. errors' \in [Handlers -> SUBSET Jobs]
    BY <1>1 DEF JobFails, Types
  <2>3. QED
    BY <1>1, <2>1, <2>2 DEF Types
<1>5. ASSUME NEW j \in DOMAIN answered[h]
      PROVE  j \in Jobs /\ j < job[h] /\ j < job'[h]
  <2>1. j \in Jobs /\ j < job[h]
    BY <1>1 DEF HandlerInv, Answers, Between
  <2>2. j \in Nat
    BY <2>1, BatchType
  <2>3. QED
    BY <1>2, <1>3, <2>1, <2>2
<1>6. Staged(h)' /\ Answers(h)'
  BY <1>1, <1>5 DEF HandlerInv, Staged, Answers, Evaluating, Between
<1>7. Static(h)'
  BY <1>1, <1>5 DEF HandlerInv, Static, Arrived, Breaches
<1>8. AdaptiveReports(h)' = AdaptiveReports(h) /\ Pending(h)' = {} /\ Pending(h) = {}
  BY <1>1 DEF AdaptiveReports, Pending, HandlerInv, Staged, Evaluating
<1>9. Tests(h)'
  BY <1>1, <1>8 DEF HandlerInv, Tests
<1>10. \A g \in Handlers \ {h} : Same(g)
  BY <1>1, <1>3 DEF Same, Types
<1>11. QED
  BY <1>4, <1>6, <1>7, <1>9, <1>10 DEF Advances, HandlerInv

LEMMA EvaluatedAdvances ==
    ASSUME Types, NEW h \in Handlers, HandlerInv(h), Evaluated(h)
    PROVE  Advances(h)
<1>1. /\ pc[h] = "sample" /\ pc'[h] = "filter"
      /\ UNCHANGED <<job, todo, found, cache, answered, family, reported, errors>>
  BY DEF Evaluated, Goto, Types, batchVars
<1>2. TypeOf(job[h]) # "static"
  BY <1>1 DEF HandlerInv, Staged, Evaluating
<1>3. Types'
  BY <1>1 DEF Evaluated, Goto, Types, Stages
<1>4. Staged(h)' /\ Answers(h)'
  BY <1>1 DEF HandlerInv, Staged, Answers, Evaluating, Between
<1>5. Static(h)'
  BY <1>1, <1>2 DEF HandlerInv, Static, Arrived, Breaches, Profiling
<1>6. AdaptiveReports(h)' = AdaptiveReports(h) /\ Pending(h)' = Pending(h)
  BY <1>1 DEF AdaptiveReports, Pending
<1>7. Tests(h)'
  BY <1>1, <1>6 DEF HandlerInv, Tests
<1>8. \A g \in Handlers \ {h} : Same(g)
  BY <1>1 DEF Evaluated, Goto, Same, Types
<1>9. QED
  BY <1>3, <1>4, <1>5, <1>7, <1>8 DEF Advances, HandlerInv

LEMMA FilterAdvances ==
    ASSUME Types, NEW h \in Handlers, HandlerInv(h), Filter(h)
    PROVE  Advances(h)
<1> DEFINE j == job[h]
           kept == {s \in found[h] : ~Suppresses(DetectorOf(j), s)}
           new == {j} \X kept
<1>1. /\ pc[h] = "filter" /\ pc'[h] = "profile"
      /\ reported'[h] = reported[h] \cup new
      /\ todo'[h] = kept /\ found'[h] = {}
      /\ UNCHANGED <<job, cache, answered, family, errors>>
  BY DEF Filter, Goto, Types
<1>2. j \in DOMAIN answered[h] /\ j \in Jobs
  BY <1>1 DEF HandlerInv, Staged, Answers, Between
<1>3. Types'
  <2>1. kept \in SUBSET Series
    BY DEF Types
  <2>2. reported[h] \cup new \in SUBSET (Jobs \X Series)
    BY <1>2, <2>1 DEF Types
  <2>3. /\ reported' = [reported EXCEPT ![h] = reported[h] \cup new]
        /\ todo' = [todo EXCEPT ![h] = kept]
        /\ found' = [found EXCEPT ![h] = {}]
        /\ pc' = [pc EXCEPT ![h] = "profile"]
    BY DEF Filter, Goto
  <2>4. "profile" \in Stages
    BY DEF Stages, Profiling
  <2> HIDE DEF kept, new
  <2>5. QED
    BY <1>1, <2>1, <2>2, <2>3, <2>4 DEF Types
<1>4. Staged(h)' /\ Answers(h)'
  BY <1>1 DEF HandlerInv, Staged, Answers, Evaluating, Between
<1>5. Static(h)'
  <2>1. ASSUME NEW i \in DOMAIN answered[h], TypeOf(i) = "static",
               i < j \/ pc'[h] \in Profiling
        PROVE  Arrived(h, i)'
    <3>1. CASE i < j
      <4>1. Arrived(h, i)
        BY <2>1, <3>1 DEF HandlerInv, Static
      <4>2. QED
        BY <1>1, <4>1 DEF Arrived, Breaches
    <3>2. CASE i = j
      <4>1. found[h] = Breaches(h, j)
        BY <1>1, <2>1, <3>2 DEF HandlerInv, Static
      <4>2. ASSUME NEW s \in Breaches(h, j),
                   s.namespace \notin ExcludeNamespaces \cup ExcludeStaticOnly
            PROVE  s \in kept
        BY <2>1, <3>2, <4>1, <4>2 DEF Suppresses, DetectorOf
      <4>3. QED
        BY <1>1, <3>2, <4>2 DEF Arrived, Breaches
    <3>3. QED
      BY <3>1, <3>2, <1>1 DEF HandlerInv, Answers
  <2>2. QED
    BY <1>1, <2>1 DEF Static
<1>6. Tests(h)'
  <2>1. /\ IsFiniteSet(kept) /\ Cardinality(kept) \in Nat
        /\ Cardinality(kept) <= Cardinality(found[h]) /\ Cardinality(found[h]) \in Nat
    BY FS_Subset, FS_CardinalityType DEF HandlerInv, Tests
  <2>2. IsFiniteSet(new) /\ Cardinality(new) = Cardinality(kept)
    <3>1. IsFiniteSet({j}) /\ Cardinality({j}) = 1
      BY FS_Singleton
    <3>2. IsFiniteSet(new) /\ Cardinality(new) = 1 * Cardinality(kept)
      BY <2>1, <3>1, FS_Product
    <3>3. QED
      BY <2>1, <3>2
  <2>3. IsFiniteSet(reported'[h])
    <3>1. IsFiniteSet(reported[h])
      BY DEF HandlerInv, Tests
    <3>2. IsFiniteSet(reported[h] \cup new)
      <4> HIDE DEF new
      <4>1. QED
        BY <2>2, <3>1, FS_Union
    <3>3. QED
      BY <1>1, <3>2
  <2>4. IsFiniteSet(AdaptiveReports(h)) /\ Cardinality(AdaptiveReports(h)) \in Nat
    BY FS_Subset, FS_CardinalityType DEF AdaptiveReports, HandlerInv, Tests
  <2>5. Pending(h)' = {} /\ Cardinality({}) = 0 /\ IsFiniteSet({})
    BY <1>1, FS_EmptySet DEF Pending
  <2>6. CASE DetectorOf(j) = "adaptive"
    <3>1. AdaptiveReports(h)' = AdaptiveReports(h) \cup new
      BY <1>1, <2>6 DEF AdaptiveReports
    <3>2. /\ IsFiniteSet(AdaptiveReports(h) \cap new)
          /\ Cardinality(AdaptiveReports(h) \cap new) \in Nat
      BY <2>4, FS_Subset, FS_CardinalityType
    <3>3. Cardinality(AdaptiveReports(h) \cup new)
            = Cardinality(AdaptiveReports(h)) + Cardinality(new)
              - Cardinality(AdaptiveReports(h) \cap new)
      BY <2>2, <2>4, FS_Union
    <3>4. Pending(h) = found[h]
      BY <2>6 DEF Pending
    <3>5. Cardinality(AdaptiveReports(h)) + Cardinality(found[h]) <= family[h]
          /\ family[h] \in Nat
      BY <3>4 DEF HandlerInv, Tests, Types
    <3>6. Cardinality(AdaptiveReports(h)') + Cardinality(Pending(h)') <= family'[h]
      <4> HIDE DEF kept, new
      <4>1. QED
        BY <1>1, <2>1, <2>2, <2>4, <2>5, <3>1, <3>2, <3>3, <3>5
    <3>7. QED
      BY <1>1, <2>1, <2>3, <2>5, <3>6 DEF Tests
  <2>7. CASE DetectorOf(j) # "adaptive"
    <3>1. AdaptiveReports(h)' = AdaptiveReports(h) /\ Pending(h) = {}
      BY <1>1, <2>7 DEF AdaptiveReports, Pending
    <3>2. QED
      BY <1>1, <2>1, <2>3, <2>5, <3>1 DEF HandlerInv, Tests
  <2>8. QED
    BY <2>6, <2>7
<1>7. \A g \in Handlers \ {h} : Same(g)
  BY <1>1 DEF Filter, Goto, Same, Types
<1>8. QED
  BY <1>3, <1>4, <1>5, <1>6, <1>7 DEF Advances, HandlerInv

LEMMA NextJobAdvances ==
    ASSUME Types, NEW h \in Handlers, HandlerInv(h), NextJob(h)
    PROVE  Advances(h)
<1>1. /\ pc[h] = "profile" /\ pc'[h] = "job"
      /\ job' = [job EXCEPT ![h] = job[h] + 1] /\ job'[h] = job[h] + 1
      /\ UNCHANGED <<todo, found, cache, answered, family, reported, errors>>
  BY DEF NextJob, Goto, Types, batchVars
<1>2. job[h] \in 1 .. Len(buildJobBatch) /\ Len(buildJobBatch) \in Nat
  BY <1>1, BatchType DEF HandlerInv, Staged, Answers, Between
<1>3. Types'
  <2>1. job' \in [Handlers -> 1 .. Len(buildJobBatch) + 1]
    BY <1>1, <1>2 DEF Types
  <2>2. pc' \in [Handlers -> Stages]
    BY DEF NextJob, Goto, Types, Stages, Between
  <2>3. QED
    BY <1>1, <2>1, <2>2 DEF Types
<1>4. ASSUME NEW j \in DOMAIN answered[h]
      PROVE  j \in Jobs /\ (j < job[h] \/ j = job[h]) /\ j < job'[h]
  <2>1. j \in Jobs /\ (j < job[h] \/ j = job[h])
    BY DEF HandlerInv, Answers
  <2>2. j \in Nat
    BY <2>1, BatchType
  <2>3. QED
    BY <1>1, <1>2, <2>1, <2>2
<1>5. found[h] = {} /\ pc[h] \in Profiling
  BY <1>1 DEF HandlerInv, Staged, Evaluating, Profiling
<1>6. Staged(h)' /\ Answers(h)'
  BY <1>1, <1>4, <1>5 DEF HandlerInv, Staged, Answers, Evaluating, Between
<1>7. Static(h)'
  BY <1>1, <1>4, <1>5 DEF HandlerInv, Static, Arrived, Breaches
<1>8. AdaptiveReports(h)' = AdaptiveReports(h) /\ Pending(h)' = {} /\ Pending(h) = {}
  BY <1>1, <1>5 DEF AdaptiveReports, Pending
<1>9. Tests(h)'
  BY <1>1, <1>8 DEF HandlerInv, Tests
<1>10. \A g \in Handlers \ {h} : Same(g)
  BY <1>1 DEF NextJob, Goto, Same, Types
<1>11. QED
  BY <1>3, <1>6, <1>7, <1>9, <1>10 DEF Advances, HandlerInv

LEMMA ReturnAdvances ==
    ASSUME Types, NEW h \in Handlers, HandlerInv(h), Return(h)
    PROVE  Advances(h)
<1>1. /\ pc'[h] = "idle" /\ job'[h] = 1
      /\ cache'[h] = Empty /\ answered'[h] = Empty
      /\ family'[h] = 0 /\ reported'[h] = {}
      /\ UNCHANGED <<todo, found>>
  BY DEF Return, Goto, Types
<1>2. DOMAIN Empty = {}
  BY DEF Empty
<1>3. Types'
  <2>1. 1 \in 1 .. Len(buildJobBatch) + 1
    BY BatchType
  <2>2. job' \in [Handlers -> 1 .. Len(buildJobBatch) + 1]
    BY <2>1 DEF Return, Types
  <2>3. "idle" \in Stages
    BY DEF Stages, Between
  <2>4. pc' \in [Handlers -> Stages]
    BY <2>3 DEF Return, Goto, Types
  <2>5. QED
    BY <1>1, <2>2, <2>4 DEF Return, Types
<1>4. found[h] = {}
  BY DEF Return, HandlerInv, Staged, Evaluating
<1>5. Staged(h)' /\ Answers(h)' /\ Static(h)'
  BY <1>1, <1>2, <1>4 DEF Staged, Answers, Static, Evaluating, Between
<1>6. Tests(h)'
  <2>1. AdaptiveReports(h)' = {} /\ Pending(h)' = {}
    BY <1>1, <1>4 DEF AdaptiveReports, Pending
  <2>2. QED
    BY <1>1, <2>1, FS_EmptySet DEF HandlerInv, Tests
<1>7. \A g \in Handlers \ {h} : Same(g)
  BY <1>1 DEF Return, Goto, Same, Types
<1>8. QED
  BY <1>3, <1>5, <1>6, <1>7 DEF Advances, HandlerInv

-----------------------------------------------------------------------------
(* Every step keeps the invariant *)

LEMMA Initially == Init => IInv
<1> SUFFICES ASSUME Init PROVE IInv
  OBVIOUS
<1>1. BreakerInv
  BY BreakerInitially DEF Init
<1>2. Types
  BY BatchType DEF Init, Types, Stages, Between
<1>3. EnvTypes
  BY WorkerAssumption DEF Init, EnvTypes
<1>4. ASSUME NEW h \in Handlers PROVE HandlerInv(h)
  <2>1. /\ pc[h] = "idle" /\ job[h] = 1
        /\ cache[h] = Empty /\ answered[h] = Empty /\ DOMAIN Empty = {}
        /\ todo[h] = {} /\ found[h] = {} /\ reported[h] = {} /\ family[h] = 0
    BY DEF Init, Empty
  <2>2. Staged(h) /\ Answers(h) /\ Static(h)
    BY <2>1 DEF Staged, Answers, Static, Evaluating, Between
  <2>3. AdaptiveReports(h) = {} /\ Pending(h) = {}
    BY <2>1 DEF AdaptiveReports, Pending
  <2>4. Tests(h)
    BY <2>1, <2>3, FS_EmptySet DEF Tests
  <2>5. QED
    BY <2>2, <2>4 DEF HandlerInv
<1>5. QED
  BY <1>1, <1>2, <1>3, <1>4 DEF IInv

LEMMA EnvTypesKept ==
    EnvTypes /\ UNCHANGED envVars => EnvTypes'
BY DEF EnvTypes, envVars

LEMMA TokenTaken ==
    ASSUME EnvTypes, NEW d, TakeToken(d) \/ UNCHANGED tokens,
           d \in {"prometheus", "loki"}, UNCHANGED <<expired, redisUp>>
    PROVE  EnvTypes'
BY WorkerAssumption DEF EnvTypes, TakeToken

\* A step of handler h, whichever it is.
LEMMA HandlerStep ==
    ASSUME IInv, NEW h \in Handlers, ProcessJobs(h) \/ Step(h)
    PROVE  BreakerInv' /\ EnvTypes' /\ Advances(h)
<1> USE DEF IInv
<1>1. CASE ProcessJobs(h)
  BY <1>1, ProcessJobsAdvances, BreakerUnchanged, EnvTypesKept DEF ProcessJobs
<1>2. CASE UseCache(h)
  BY <1>2, UseCacheAdvances, BreakerUnchanged, EnvTypesKept DEF UseCache
<1>3. CASE QueryAnswers(h)
  <2>1. EnvTypes'
    BY <1>3, TokenTaken DEF QueryAnswers, DatasourceOf
  <2>2. QED
    BY <1>3, <2>1, QueryAnswersAdvances, BreakerUnchanged DEF QueryAnswers
<1>4. CASE JobFails(h)
  <2>1. EnvTypes'
    BY <1>4, TokenTaken DEF JobFails, DatasourceOf
  <2>2. QED
    BY <1>4, <2>1, JobFailsAdvances, BreakerUnchanged DEF JobFails
<1>5. CASE LoadBaseline(h)
  BY <1>5, LoadBaselineAdvances, EnvTypesKept
<1>6. CASE Poisoned(h)
  BY <1>6, PoisonedAdvances, EnvTypesKept
<1>7. CASE SaveBaseline(h)
  BY <1>7, SaveBaselineAdvances, EnvTypesKept
<1>8. CASE Evaluated(h)
  BY <1>8, EvaluatedAdvances, BreakerUnchanged, EnvTypesKept DEF Evaluated
<1>9. CASE Filter(h)
  BY <1>9, FilterAdvances, BreakerUnchanged, EnvTypesKept DEF Filter
<1>10. CASE UpdateProfile(h)
  BY <1>10, UpdateProfileAdvances, EnvTypesKept
<1>11. CASE NextJob(h)
  BY <1>11, NextJobAdvances, BreakerUnchanged, EnvTypesKept DEF NextJob
<1>12. CASE Return(h)
  <2>1. EnvTypes'
    BY <1>12 DEF Return, EnvTypes
  <2>2. QED
    BY <1>12, <2>1, ReturnAdvances, BreakerUnchanged DEF Return
<1>13. QED
  BY <1>1, <1>2, <1>3, <1>4, <1>5, <1>6, <1>7, <1>8, <1>9, <1>10, <1>11, <1>12 DEF Step

\* Steps that leave every handler where it is.
LEMMA HandlersUntouched ==
    ASSUME IInv, UNCHANGED <<pc, job, todo, found, batchVars>>
    PROVE  Types' /\ \A h \in Handlers : HandlerInv(h)'
<1>1. Types'
  BY DEF IInv, Types, batchVars
<1>2. ASSUME NEW h \in Handlers PROVE HandlerInv(h)'
  <2>1. Same(h)
    BY DEF Same, batchVars
  <2>2. QED
    BY <2>1, Frame DEF IInv
<1>3. QED
  BY <1>1, <1>2

LEMMA Inductive ==
    IInv /\ [Next]_vars => IInv'
<1> SUFFICES ASSUME IInv, [Next]_vars PROVE IInv'
  OBVIOUS
<1>1. ASSUME NEW h \in Handlers, ProcessJobs(h) \/ Step(h) PROVE IInv'
  <2>1. BreakerInv' /\ EnvTypes' /\ Advances(h)
    BY <1>1, HandlerStep
  <2>2. ASSUME NEW g \in Handlers PROVE HandlerInv(g)'
    BY <2>1, Frame DEF Advances, IInv
  <2>3. QED
    BY <2>1, <2>2 DEF IInv, Advances
<1>2. ASSUME NEW h \in Handlers, Expire(h) PROVE IInv'
  <2>1. BreakerInv'
    BY <1>2, BreakerUnchanged DEF Expire, IInv
  <2>2. EnvTypes'
    BY <1>2 DEF Expire, EnvTypes, IInv
  <2>3. QED
    BY <1>2, <2>1, <2>2, HandlersUntouched DEF Expire, IInv
<1>3. CASE Readyz \/ PingEnds
  <2>1. Probe \in Callers
    BY WorkerAssumption
  <2>2. BreakerInv'
    BY <1>3, <2>1, SendKeepsInv, SucceedKeepsInv, FailKeepsInv DEF Readyz, PingEnds, IInv
  <2>3. UNCHANGED rest
    BY <1>3 DEF Readyz, PingEnds
  <2>4. QED
    BY <2>2, <2>3, HandlersUntouched, EnvTypesKept DEF rest, IInv
<1>4. ASSUME NEW d \in DOMAIN tokens, Refill(d) PROVE IInv'
  <2>1. BreakerInv'
    BY <1>4, BreakerUnchanged DEF Refill, IInv
  <2>2. EnvTypes'
    BY <1>4, WorkerAssumption DEF Refill, EnvTypes, IInv
  <2>3. QED
    BY <1>4, <2>1, <2>2, HandlersUntouched DEF Refill, IInv
<1>5. CASE BreakerClock
  <2>1. BreakerInv'
    BY <1>5, ClockKeepsInv DEF BreakerClock, IInv
  <2>2. UNCHANGED rest
    BY <1>5 DEF BreakerClock
  <2>3. QED
    BY <2>1, <2>2, HandlersUntouched, EnvTypesKept DEF rest, IInv
<1>6. CASE RedisChanges
  <2>1. BreakerInv'
    BY <1>6, BreakerUnchanged DEF RedisChanges, IInv
  <2>2. EnvTypes'
    BY <1>6 DEF RedisChanges, EnvTypes, IInv
  <2>3. QED
    BY <1>6, <2>1, <2>2, HandlersUntouched DEF RedisChanges, IInv
<1>7. CASE UNCHANGED vars
  BY <1>7, BreakerUnchanged, HandlersUntouched, EnvTypesKept DEF vars, IInv
<1>8. QED
  BY <1>1, <1>2, <1>3, <1>4, <1>5, <1>6, <1>7 DEF Next

LEMMA Invariance == Spec => []IInv
BY Initially, Inductive, PTL DEF Spec

-----------------------------------------------------------------------------
(* What follows *)

\* Every variable keeps its type: job indices stay in the batch, nothing is reported
\* of a series that no answer held, and no bucket exceeds its burst.
THEOREM TypeCorrect == Spec => []TypeOK
<1>1. IInv => TypeOK
  BY DEF IInv, BreakerInv, Types, EnvTypes, TypeOK, Stages, Between, Evaluating, Profiling,
         Series, HandlerInv, Answers
<1>2. QED
  BY <1>1, Invariance, PTL

\* The family handed to the false discovery correction is never smaller than the
\* number of adaptive anomalies reported with it, whatever Redis does.
THEOREM FamilyCorrect == Spec => []FamilyCoversReports
<1>1. IInv => FamilyCoversReports
  <2>1. SUFFICES ASSUME IInv, NEW h \in Handlers
                 PROVE  Cardinality(AdaptiveReports(h)) <= family[h]
    BY DEF FamilyCoversReports, AdaptiveReports
  <2>2. IsFiniteSet(Pending(h)) /\ IsFiniteSet(AdaptiveReports(h))
    BY <2>1, FS_Subset DEF IInv, HandlerInv, Tests, Pending, AdaptiveReports
  <2>3. Cardinality(Pending(h)) \in Nat /\ Cardinality(AdaptiveReports(h)) \in Nat
    BY <2>2, FS_CardinalityType
  <2>4. QED
    BY <2>1, <2>3 DEF IInv, HandlerInv, Tests, Types
<1>2. QED
  BY <1>1, Invariance, PTL

\* Jobs with one PromQL query evaluate one answer, however the batch is composed.
THEOREM SnapshotsShared == Spec => []OneSnapshotPerQuery
<1>1. IInv => OneSnapshotPerQuery
  BY DEF IInv, HandlerInv, Answers, OneSnapshotPerQuery
<1>2. QED
  BY <1>1, Invariance, PTL

\* Jobs that are behind have an answer or an error.
Settled(h) ==
    \A j \in Jobs : j < job[h] => j \in DOMAIN answered[h] \cup errors[h]

\* Answers and errors stay until the batch ends.
LEMMA StillSettled ==
    ASSUME NEW h, Settled(h),
           \A j \in Jobs : j < job'[h] => j < job[h] \/ j \in DOMAIN answered'[h] \cup errors'[h],
           DOMAIN answered[h] \subseteq DOMAIN answered'[h],
           errors[h] \subseteq errors'[h]
    PROVE  Settled(h)'
BY DEF Settled, Jobs, buildJobBatch, Typed, Rates

LEMMA JobsBehind ==
    ASSUME Types, NEW h \in Handlers, NEW k \in Jobs, k < job[h] + 1
    PROVE  k < job[h] \/ k = job[h]
BY BatchType DEF Types

LEMMA SettledKept ==
    ASSUME IInv, \A h \in Handlers : Settled(h), [Next]_vars, NEW h \in Handlers
    PROVE  Settled(h)'
<1> USE DEF IInv
<1>1. CASE UNCHANGED <<job, answered, errors>>
  BY <1>1, StillSettled
<1>2. ASSUME NEW g \in Handlers, NEW snapshot, Answer(g, snapshot),
             UNCHANGED <<job, errors>>
      PROVE  Settled(h)'
  <2>1. DOMAIN answered[h] \subseteq DOMAIN answered'[h]
    BY <1>2 DEF Answer, Put, Types
  <2>2. QED
    BY <1>2, <2>1, StillSettled
<1>3. ASSUME NEW g \in Handlers, JobFails(g) PROVE Settled(h)'
  <2>1. /\ job' = [job EXCEPT ![g] = job[g] + 1]
        /\ errors' = [errors EXCEPT ![g] = errors[g] \cup {job[g]}]
        /\ answered' = answered
    BY <1>3 DEF JobFails
  <2>2. errors[h] \subseteq errors'[h]
    BY <2>1 DEF Types
  <2>3. ASSUME NEW j \in Jobs, j < job'[h]
        PROVE  j < job[h] \/ j \in DOMAIN answered'[h] \cup errors'[h]
    <3>1. CASE h = g
      BY <2>1, <2>3, <3>1, JobsBehind DEF Types
    <3>2. CASE h # g
      BY <2>1, <2>3, <3>2 DEF Types
    <3>3. QED
      BY <3>1, <3>2
  <2>4. QED
    BY <2>1, <2>2, <2>3, StillSettled
<1>4. ASSUME NEW g \in Handlers, NextJob(g) PROVE Settled(h)'
  <2>1. /\ job' = [job EXCEPT ![g] = job[g] + 1]
        /\ UNCHANGED <<answered, errors>>
        /\ pc[g] = "profile"
    BY <1>4 DEF NextJob, batchVars
  <2>2. job[g] \in DOMAIN answered[g]
    BY <2>1 DEF HandlerInv, Staged, Between
  <2>3. ASSUME NEW j \in Jobs, j < job'[h]
        PROVE  j < job[h] \/ j \in DOMAIN answered'[h] \cup errors'[h]
    <3>1. CASE h = g
      BY <2>1, <2>2, <2>3, <3>1, JobsBehind DEF Types
    <3>2. CASE h # g
      BY <2>1, <2>3, <3>2 DEF Types
    <3>3. QED
      BY <3>1, <3>2
  <2>4. QED
    BY <2>1, <2>3, StillSettled
<1>5. ASSUME NEW g \in Handlers, Return(g) PROVE Settled(h)'
  <2>1. /\ job' = [job EXCEPT ![g] = 1]
        /\ answered' = [answered EXCEPT ![g] = Empty]
        /\ errors' = [errors EXCEPT ![g] = {}]
    BY <1>5 DEF Return
  <2>2. CASE h = g
    <3>1. job'[h] = 1
      BY <2>1, <2>2 DEF Types
    <3>2. \A j \in Jobs : ~(j < 1)
      BY BatchType
    <3>3. QED
      BY <3>1, <3>2 DEF Settled, Jobs, buildJobBatch, Typed, Rates
  <2>3. CASE h # g
    BY <2>1, <2>3, StillSettled DEF Types
  <2>4. QED
    BY <2>2, <2>3
<1>6. ASSUME NEW g \in Handlers, ProcessJobs(g) \/ Step(g) \/ Expire(g) PROVE Settled(h)'
  <2>1. CASE UseCache(g) \/ QueryAnswers(g)
    BY <1>2, <2>1 DEF UseCache, QueryAnswers
  <2>2. CASE LoadBaseline(g) \/ SaveBaseline(g) \/ UpdateProfile(g)
    BY <1>1, <2>2 DEF LoadBaseline, SaveBaseline, UpdateProfile, Command, CommandFails,
                      ReadSucceeds, Tested, batchVars
  <2>3. CASE ProcessJobs(g) \/ Expire(g) \/ Poisoned(g) \/ Evaluated(g) \/ Filter(g)
    BY <1>1, <2>3 DEF ProcessJobs, Expire, Poisoned, Tested, Evaluated, Filter, batchVars
  <2>4. QED
    BY <1>3, <1>4, <1>5, <1>6, <2>1, <2>2, <2>3 DEF Step
<1>7. CASE \/ Readyz \/ PingEnds \/ BreakerClock \/ RedisChanges
           \/ \E d \in DOMAIN tokens : Refill(d)
  BY <1>1, <1>7 DEF Readyz, PingEnds, BreakerClock, RedisChanges, Refill, rest, batchVars
<1>8. CASE UNCHANGED vars
  BY <1>1, <1>8 DEF vars, batchVars
<1>9. QED
  BY <1>6, <1>7, <1>8 DEF Next

\* A handler ends its batch only by returning.
LEMMA OnlyReturn ==
    ASSUME IInv, [Next]_vars, NEW h \in Handlers, pc[h] # "idle", pc'[h] = "idle"
    PROVE  Return(h)
<1> USE DEF IInv
<1>1. ASSUME NEW g, NEW label, label # "idle", Goto(g, label) PROVE FALSE
  BY <1>1 DEF Goto, Types
<1>2. CASE UNCHANGED pc
  BY <1>2
<1>3. ASSUME NEW g \in Handlers, ProcessJobs(g) \/ Step(g) \/ Expire(g) PROVE Return(h)
  <2>1. CASE UseCache(g) \/ QueryAnswers(g)
    BY <1>1, <2>1 DEF UseCache, QueryAnswers, Answer
  <2>2. CASE LoadBaseline(g) \/ Poisoned(g) \/ SaveBaseline(g) \/ UpdateProfile(g)
    BY <1>1, <2>2 DEF LoadBaseline, SaveBaseline, UpdateProfile, Poisoned, Command,
                      CommandFails, ReadSucceeds, Tested, Visited
  <2>3. CASE ProcessJobs(g) \/ Evaluated(g) \/ Filter(g) \/ NextJob(g)
    BY <1>1, <2>3 DEF ProcessJobs, Evaluated, Filter, NextJob
  <2>4. CASE Expire(g) \/ JobFails(g)
    BY <1>2, <2>4 DEF Expire, JobFails
  <2>5. CASE Return(g)
    BY <2>5 DEF Return, Goto, Types
  <2>6. QED
    BY <1>3, <2>1, <2>2, <2>3, <2>4, <2>5 DEF Step
<1>4. CASE \/ Readyz \/ PingEnds \/ BreakerClock \/ RedisChanges
           \/ \E d \in DOMAIN tokens : Refill(d)
  BY <1>2, <1>4 DEF Readyz, PingEnds, BreakerClock, RedisChanges, Refill, rest
<1>5. CASE UNCHANGED vars
  BY <1>2, <1>5 DEF vars
<1>6. QED
  BY <1>3, <1>4, <1>5 DEF Next

Complete == \A h \in Handlers : Settled(h)

\* What the controller reads of a batch has, for each static rule, its error or all its
\* breaches: no failure of Redis or of another job loses one in between.
THEOREM StaticBreachesArrive == Spec => BreachesArrive
<1> DEFINE Told ==
      \A h \in Handlers :
        pc[h] # "idle" /\ pc'[h] = "idle" /\ ~expired[h] =>
            \A j \in Jobs : TypeOf(j) = "static" /\ j \notin errors[h] =>
                /\ j \in DOMAIN answered[h]
                /\ \A s \in DOMAIN answered[h][j] :
                    /\ answered[h][j][s] = "high"
                    /\ s.namespace \notin ExcludeNamespaces \cup ExcludeStaticOnly
                    => <<j, s>> \in reported[h]
<1>1. Init => Complete
  <2>1. \A j \in Jobs : ~(j < 1)
    BY BatchType
  <2>2. QED
    BY <2>1 DEF Init, Complete, Settled
<1>2. IInv /\ Complete /\ [Next]_vars => Complete'
  BY SettledKept DEF Complete
<1>3. IInv /\ Complete /\ [Next]_vars => [Told]_vars
  <2>1. SUFFICES ASSUME IInv, Complete, [Next]_vars, NEW h \in Handlers,
                        pc[h] # "idle", pc'[h] = "idle",
                        NEW j \in Jobs, TypeOf(j) = "static", j \notin errors[h]
                 PROVE  j \in DOMAIN answered[h] /\ Arrived(h, j)
    BY DEF Arrived, Breaches
  <2>2. job[h] \notin Jobs
    BY <2>1, OnlyReturn DEF Return
  <2>3. j < job[h]
    BY <2>1, <2>2, BatchType DEF IInv, Types
  <2>4. j \in DOMAIN answered[h]
    BY <2>1, <2>3 DEF Complete, Settled
  <2>5. Arrived(h, j)
    BY <2>1, <2>3, <2>4 DEF IInv, HandlerInv, Static
  <2>6. QED
    BY <2>4, <2>5
<1>4. QED
  BY <1>1, <1>2, <1>3, Invariance, PTL DEF Spec, BreachesArrive

\* The half-open breaker counts exactly its own trial commands, for every number of
\* callers, trials and failures.
THEOREM TrialsAccounted == Spec => []TrialsCounted
<1>1. IInv => TrialsCounted
  BY DEF IInv, BreakerInv
<1>2. QED
  BY <1>1, Invariance, PTL

=============================================================================
