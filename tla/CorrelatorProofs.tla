-------------------------- MODULE CorrelatorProofs --------------------------
(***************************************************************************)
(* Proofs about Correlator, for every set of labels, threshold, window and *)
(* cooldown, and for every combination of faults.                          *)
(***************************************************************************)
EXTENDS Correlator, FiniteSetTheorems, TLAPS

-----------------------------------------------------------------------------
(* Grouping: what correlate makes of the ready groups. *)

\* The alerts of a flush stand for exactly the anomalies of the flushed groups.
LEMMA CorrelateCovers ==
    ASSUME NEW gs, NEW rep
    PROVE  UNION {a.members : a \in correlate(gs, rep)} = UNION {gs[k].members : k \in DOMAIN gs}
<1>1. ASSUME NEW x, NEW a \in correlate(gs, rep), x \in a.members
      PROVE  \E k \in DOMAIN gs : x \in gs[k].members
  <2>1. CASE \E w \in Patterns(gs) : a = workloadAlert(gs, w, rep[w])
    <3>1. PICK w \in Patterns(gs) : a = workloadAlert(gs, w, rep[w])
      BY <2>1
    <3>2. a.members = UNION {gs[k].members : k \in Siblings(gs, w)}
      BY <3>1 DEF workloadAlert
    <3>3. PICK k \in Siblings(gs, w) : x \in gs[k].members
      BY <3>2, <1>1
    <3>4. QED
      BY <3>3 DEF Siblings
  <2>2. CASE \E k \in DOMAIN gs \ Suppressed(gs) : a = buildPodAlert(gs[k])
    BY <2>2, <1>1 DEF buildPodAlert
  <2>3. QED
    BY <2>1, <2>2 DEF correlate
<1>2. ASSUME NEW x, NEW k \in DOMAIN gs, x \in gs[k].members
      PROVE  \E a \in correlate(gs, rep) : x \in a.members
  <2>1. CASE k \in Suppressed(gs)
    <3>1. PICK w \in Patterns(gs) : k \in Siblings(gs, w)
      BY <2>1 DEF Suppressed
    <3>2. x \in workloadAlert(gs, w, rep[w]).members
      BY <3>1, <1>2 DEF workloadAlert
    <3>3. QED
      BY <3>2 DEF correlate
  <2>2. CASE k \notin Suppressed(gs)
    <3>1. x \in buildPodAlert(gs[k]).members
      BY <1>2 DEF buildPodAlert
    <3>2. QED
      BY <3>1, <2>2 DEF correlate
  <2>3. QED
    BY <2>1, <2>2
<1>3. QED
  BY <1>1, <1>2

\* Alerts of a flush share no anomaly when the groups share none.
LEMMA CorrelateDisjoint ==
    ASSUME NEW gs, NEW rep,
           \A j, k \in DOMAIN gs : j # k => gs[j].members \cap gs[k].members = {},
           NEW a \in correlate(gs, rep), NEW b \in correlate(gs, rep), a # b
    PROVE  a.members \cap b.members = {}
<1>1. ASSUME NEW x, NEW c \in correlate(gs, rep), x \in c.members
      PROVE  \E k \in DOMAIN gs :
                /\ x \in gs[k].members
                /\ \/ k \in Suppressed(gs) /\ c = workloadAlert(gs, wlKey(gs[k]), rep[wlKey(gs[k])])
                   \/ k \notin Suppressed(gs) /\ c = buildPodAlert(gs[k])
  <2>1. CASE \E w \in Patterns(gs) : c = workloadAlert(gs, w, rep[w])
    <3>1. PICK w \in Patterns(gs) : c = workloadAlert(gs, w, rep[w])
      BY <2>1
    <3>2. c.members = UNION {gs[k].members : k \in Siblings(gs, w)}
      BY <3>1 DEF workloadAlert
    <3>3. PICK k \in Siblings(gs, w) : x \in gs[k].members
      BY <3>2, <1>1
    <3>4. k \in DOMAIN gs /\ wlKey(gs[k]) = w
      BY <3>3 DEF Siblings
    <3>5. k \in Suppressed(gs)
      BY <3>1, <3>3 DEF Suppressed
    <3>6. QED
      BY <3>1, <3>3, <3>4, <3>5
  <2>2. CASE \E k \in DOMAIN gs \ Suppressed(gs) : c = buildPodAlert(gs[k])
    BY <2>2, <1>1 DEF buildPodAlert
  <2>3. QED
    BY <2>1, <2>2 DEF correlate
<1>2. SUFFICES ASSUME NEW x, x \in a.members, x \in b.members
               PROVE  a = b
  OBVIOUS
<1>3. PICK j \in DOMAIN gs :
        /\ x \in gs[j].members
        /\ \/ j \in Suppressed(gs) /\ a = workloadAlert(gs, wlKey(gs[j]), rep[wlKey(gs[j])])
           \/ j \notin Suppressed(gs) /\ a = buildPodAlert(gs[j])
  BY <1>1, <1>2
<1>4. PICK k \in DOMAIN gs :
        /\ x \in gs[k].members
        /\ \/ k \in Suppressed(gs) /\ b = workloadAlert(gs, wlKey(gs[k]), rep[wlKey(gs[k])])
           \/ k \notin Suppressed(gs) /\ b = buildPodAlert(gs[k])
  BY <1>1, <1>2
<1>5. j = k
  BY <1>3, <1>4
<1>6. QED
  BY <1>3, <1>4, <1>5

-----------------------------------------------------------------------------
(* Type correctness *)

LEMMA StartedCounts ==
    ASSUME NEW f, NEW S, NEW x \in S, Countdown(f, S)
    PROVE  Countdown(Started(f, x), S)
BY TimeAssumption DEF Countdown, Started

LEMMA ElapsedCounts ==
    ASSUME NEW f, NEW S, Countdown(f, S)
    PROVE  Countdown(Elapsed(f), S)
BY TimeAssumption DEF Countdown, Elapsed

LEMMA NothingCounts ==
    ASSUME NEW S PROVE Countdown(Nothing, S)
BY DEF Countdown, Nothing

\* Labels are made of strings, and so are the keys built from them.
LEMMA LabelStrings ==
    ASSUME NEW l \in Labels
    PROVE  /\ l \in LabelSet
           /\ clusterOrUnknown(l) \in Names
           /\ ExtractWorkload[l.pod] \in Names
<1>1. l \in LabelSet
  BY LabelsAssumption
<1>2. clusterOrUnknown(l) \in Names
  BY <1>1 DEF LabelSet, Names, clusterOrUnknown
<1>3. l.pod \in {m.pod : m \in Labels}
  OBVIOUS
<1>4. ExtractWorkload[l.pod] \in Names
  BY <1>3, WorkloadAssumption
<1>5. QED
  BY <1>1, <1>2, <1>4

LEMMA MaxSeverityType ==
    ASSUME NEW as PROVE MaxSeverity(as) \in Severities
BY DEF MaxSeverity, Severities

\* Ready groups become well-formed alerts.
LEMMA CorrelateType ==
    ASSUME NEW gs, gs \in [DOMAIN gs -> Group], NEW rep \in Representatives(gs)
    PROVE  correlate(gs, rep) \subseteq Alert
<1>1. ASSUME NEW w \in Patterns(gs)
      PROVE  workloadAlert(gs, w, rep[w]) \in Alert
  <2>1. PICK k \in DOMAIN gs : Eligible(gs[k]) /\ w = wlKey(gs[k])
    BY DEF Patterns
  <2>2. gs[k].first \in Labels
    BY DEF Group
  <2>3. w[1] \in Names /\ w[2] \in Names /\ w[3] \in Names
    BY <2>1, <2>2, LabelStrings DEF wlKey, LabelSet
  <2>4. UNION {gs[j].members : j \in Siblings(gs, w)} \subseteq Anomaly
    BY DEF Siblings, Group
  <2>5. rep[w] \in DOMAIN gs
    BY DEF Representatives
  <2>6. gs[rep[w]].first \in LabelSet /\ gs[rep[w]].origin \in Origins
    BY <2>5, LabelsAssumption DEF Group
  <2>7. ASSUME NEW l \in LabelSet
        PROVE  [cluster |-> l.cluster, namespace |-> l.namespace,
                pod |-> "", service_name |-> l.service_name] \in LabelSet
    BY DEF LabelSet, Names
  <2> DEFINE as == UNION {gs[j].members : j \in Siblings(gs, w)}
  <2>8. MaxSeverity(as) \in Severities
    BY MaxSeverityType
  <2>9. QED
    BY <2>3, <2>4, <2>6, <2>7, <2>8 DEF workloadAlert, Alert
<1>2. ASSUME NEW k \in DOMAIN gs
      PROVE  buildPodAlert(gs[k]) \in Alert
  <2>1. gs[k].first \in Labels /\ gs[k].origin \in Origins /\ gs[k].members \subseteq Anomaly
    BY DEF Group
  <2>2. gs[k].first \in LabelSet /\ clusterOrUnknown(gs[k].first) \in Names
    BY <2>1, LabelStrings
  <2>3. MaxSeverity(gs[k].members) \in Severities /\ "critical" \in Severities
    BY MaxSeverityType DEF Severities
  <2>4. QED
    BY <2>1, <2>2, <2>3 DEF buildPodAlert, Alert, LabelSet
<1>3. QED
  BY <1>1, <1>2 DEF correlate

LEMMA FingerprintType ==
    ASSUME NEW a \in Alert PROVE fingerprint(a) \in Fingerprint
BY DEF Alert, fingerprint, Fingerprint

LEMMA TargetType ==
    ASSUME NEW a \in Alert PROVE target(a) \in Target
<1>1. a.labels \in LabelSet /\ a.workload \in Names /\ a.origin \in Origins
  BY DEF Alert
<1>2. /\ a.labels.pod \in Names /\ a.labels.service_name \in Names
      /\ a.labels.namespace \in Names /\ a.labels.cluster \in Names
  BY <1>1 DEF LabelSet
<1>3. identityOf(a) \in Names
  BY <1>1, <1>2 DEF identityOf
<1>4. amWorkloadLabel(a) \in Names
  <2>1. a.kind = "workload" \/ ExtractWorkload[a.labels.pod] \in Names
    BY LabelStrings DEF Alert
  <2>2. QED
    BY <1>1, <1>2, <2>1 DEF amWorkloadLabel
<1>5. clusterFor(a.labels) \in Names
  BY <1>2, ClusterAssumption DEF clusterFor
<1>6. a.origin.signal \in Names /\ a.origin.detector \in Names
  BY <1>1, OriginsAssumption
<1>7. QED
  BY <1>2, <1>3, <1>4, <1>5, <1>6 DEF Alert, target, Target

\* The anomaly AddSome invents is a new one.
LEMMA AddSomeIsFresh ==
    ASSUME AddSome, accepted \subseteq Anomaly
    PROVE  \E a \in Anomaly : a \notin accepted /\ Add(a)
<1> DEFINE i == CHOOSE j \in Ids : Fresh(j)
<1>1. i \in Ids /\ Fresh(i)
  BY DEF AddSome
<1>2. PICK l \in Labels, o \in Origins, v \in Severities :
         Add([id |-> i, labels |-> l, origin |-> o, severity |-> v])
  BY DEF AddSome
<1> DEFINE a == [id |-> i, labels |-> l, origin |-> o, severity |-> v]
<1>3. a \in Anomaly
  BY <1>1 DEF Anomaly
<1>4. a.id = i
  OBVIOUS
<1>5. a \notin accepted
  BY <1>1, <1>4 DEF Fresh
<1>6. QED
  BY <1>2, <1>3, <1>5

LEMMA AddType ==
    ASSUME TypeOK, NEW a \in Anomaly, Add(a)
    PROVE  TypeOK'
<1> DEFINE key == workloadKey(a.labels)
           grown == IF key \in DOMAIN pending
                    THEN [pending[key] EXCEPT !.members = @ \cup {a}]
                    ELSE [first |-> a.labels, origin |-> a.origin, members |-> {a}, age |-> 0]
<1>1. key \in Keys
  BY DEF Keys, Anomaly
<1>2. grown \in Group
  <2>1. CASE key \in DOMAIN pending
    <3>1. pending[key] \in Group
      BY <2>1 DEF TypeOK
    <3>2. QED
      BY <2>1, <3>1 DEF Group
  <2>2. CASE key \notin DOMAIN pending
    BY <2>2, TimeAssumption DEF Group, Anomaly
  <2>3. QED
    BY <2>1, <2>2
<1>3. pending' = [k \in DOMAIN pending \cup {key} |-> IF k = key THEN grown ELSE pending[k]]
  BY DEF Add
<1>4. DOMAIN pending' \subseteq Keys /\ pending' \in [DOMAIN pending' -> Group]
  BY <1>1, <1>2, <1>3 DEF TypeOK
<1>5. QED
  BY <1>4 DEF Add, TypeOK

\* The state keeps its type in every step.
LEMMA TypeStep == TypeOK /\ [Next]_vars => TypeOK'
<1> SUFFICES ASSUME TypeOK, [Next]_vars
             PROVE  TypeOK'
  OBVIOUS
<1>1. CASE StartCycle \/ CycleAborted \/ JobsProcessed \/ Finalized \/ EndCycle
  BY <1>1 DEF TypeOK, Phases, history,
     StartCycle, CycleAborted, JobsProcessed, Finalized, EndCycle
<1>2. CASE AddSome
  <2>1. PICK a \in Anomaly : Add(a)
    BY <1>2, AddSomeIsFresh DEF TypeOK
  <2>2. QED
    BY <2>1, AddType
<1>3. CASE Flush
  <2> DEFINE gs == [k \in Ready |-> pending[k]]
  <2>1. Ready \subseteq DOMAIN pending
    BY DEF Ready
  <2>2. gs \in [DOMAIN gs -> Group]
    BY <2>1 DEF TypeOK
  <2> HIDE DEF gs
  <2>3. \A rep \in Representatives(gs) : correlate(gs, rep) \subseteq Alert
    BY <2>2, CorrelateType
  <2>4. batch' \subseteq Alert
    BY <1>3, <2>3 DEF Flush, Correlated, gs
  <2>5. /\ pending' \in [DOMAIN pending' -> Group]
        /\ DOMAIN pending' \subseteq Keys
    BY <1>3 DEF Flush, TypeOK
  <2>6. QED
    BY <1>3, <2>4, <2>5 DEF Flush, TypeOK, Phases, history
<1>4. ASSUME NEW a \in batch, DedupHit(a)
      PROVE  TypeOK'
  <2>1. a.members \subseteq Anomaly
    BY DEF TypeOK, Alert
  <2>2. settled' \in [Outcomes -> SUBSET Anomaly]
    BY <1>4, <2>1 DEF DedupHit, Settle, TypeOK
  <2>3. QED
    BY <1>4, <2>2 DEF DedupHit, Takes, TypeOK
<1>5. ASSUME NEW a \in batch, DedupMiss(a)
      PROVE  TypeOK'
  BY <1>5 DEF DedupMiss, Takes, TypeOK, history
<1>6. ASSUME NEW a \in checking, DedupSet(a)
      PROVE  TypeOK'
  <2>1. a \in Alert /\ fingerprint(a) \in Fingerprint
    BY FingerprintType DEF TypeOK
  <2>2. Countdown(passed, Fingerprint)' /\ Countdown(ttl, Fingerprint)'
    <3>1. /\ Countdown(Started(passed, fingerprint(a)), Fingerprint)
          /\ Countdown(Started(ttl, fingerprint(a)), Fingerprint)
      BY <2>1, StartedCounts DEF TypeOK
    <3>2. QED
      BY <1>6, <3>1 DEF DedupSet, Countdown, TypeOK
  <2>3. QED
    BY <1>6, <2>1, <2>2 DEF DedupSet, TypeOK, Countdown
<1>7. ASSUME NEW a \in out, Dispatch(a)
      PROVE  TypeOK'
  <2>1. PICK confirmed \in {FALSE, MLEnabled} :
           /\ \E o \in Outcomes : settled' = [settled EXCEPT ![o] = @ \cup a.members]
           /\ delivered' \in {delivered, Started(delivered, target(escalate(a, confirmed)))}
    BY <1>7 DEF Dispatch, Settle, Outcomes
  <2>2. a \in Alert /\ a.members \subseteq Anomaly
    BY DEF TypeOK, Alert
  <2>3. escalate(a, confirmed) \in Alert
    BY <2>2 DEF escalate, Alert, Severities
  <2>4. Countdown(Started(delivered, target(escalate(a, confirmed))), Target)
    BY <2>3, TargetType, StartedCounts DEF TypeOK
  <2>5. Countdown(delivered, Target)'
    BY <2>1, <2>4 DEF TypeOK, Countdown
  <2>6. settled' \in [Outcomes -> SUBSET Anomaly]
    BY <2>1, <2>2 DEF TypeOK
  <2>7. QED
    BY <1>7, <2>5, <2>6 DEF Dispatch, TypeOK, Countdown
<1>8. CASE Restart
  <2>1. PendingAnomalies \cup FlightAnomalies \subseteq Anomaly
    <3>1. \A k \in DOMAIN pending : pending[k].members \subseteq Anomaly
      BY DEF TypeOK, Group
    <3>2. \A a \in batch \cup checking \cup out : a.members \subseteq Anomaly
      BY DEF TypeOK, Alert
    <3>3. QED
      BY <3>1, <3>2 DEF PendingAnomalies, FlightAnomalies, InFlight
  <2>2. settled' = [settled EXCEPT !["lost"] = @ \cup (PendingAnomalies \cup FlightAnomalies)]
    BY <1>8 DEF Restart, Settle
  <2>3. settled' \in [Outcomes -> SUBSET Anomaly]
    BY <2>1, <2>2 DEF TypeOK
  <2>4. /\ DOMAIN pending' \subseteq Keys
        /\ pending' \in [DOMAIN pending' -> Group]
    BY <1>8 DEF Restart, Nothing
  <2>5. QED
    BY <1>8, <2>3, <2>4 DEF Restart, TypeOK, Phases, Countdown
<1>9. CASE Tick
  <2>1. ASSUME NEW k \in DOMAIN pending
        PROVE  [pending[k] EXCEPT !.age = IF @ < Window THEN @ + 1 ELSE @] \in Group
    BY TimeAssumption DEF TypeOK, Group
  <2>2. /\ DOMAIN pending' \subseteq Keys
        /\ pending' \in [DOMAIN pending' -> Group]
    BY <1>9, <2>1 DEF Tick, TypeOK
  <2>3. /\ Countdown(ttl, Fingerprint)'
        /\ Countdown(passed, Fingerprint)'
        /\ Countdown(delivered, Target)'
    <3>1. /\ Countdown(Elapsed(ttl), Fingerprint)
          /\ Countdown(Elapsed(passed), Fingerprint)
          /\ Countdown(Elapsed(delivered), Target)
      BY ElapsedCounts DEF TypeOK
    <3>2. QED
      BY <1>9, <3>1 DEF Tick, Countdown
  <2>4. QED
    BY <1>9, <2>2, <2>3 DEF Tick, TypeOK
<1>10. CASE UNCHANGED vars
  BY <1>10 DEF vars, TypeOK, Countdown
<1>11. QED
  BY <1>1, <1>2, <1>3, <1>4, <1>5, <1>6, <1>7, <1>8, <1>9, <1>10 DEF Next

\* Type correctness of Spec.
THEOREM TypeCorrect == Spec => []TypeOK
<1>1. Init => TypeOK
  <2>1. Init => /\ Countdown(ttl, Fingerprint)
                /\ Countdown(passed, Fingerprint)
                /\ Countdown(delivered, Target)
    BY NothingCounts DEF Init
  <2>2. QED
    BY <2>1 DEF Init, TypeOK, Phases, Nothing
<1>2. QED
  BY <1>1, TypeStep, PTL DEF Spec

-----------------------------------------------------------------------------
(* Every accepted anomaly is accounted for exactly once. *)

AccountInv == TypeOK /\ OneBatch /\ AccountedOnce

\* An alert leaves the flight for an outcome, with all its anomalies.
LEMMA SettleAlert ==
    ASSUME TypeOK, AccountedOnce, NEW a \in InFlight, NEW o \in Outcomes,
           InFlight' = InFlight \ {a},
           Settle(o, a.members),
           UNCHANGED <<pending, accepted>>
    PROVE  AccountedOnce'
<1>1. settled' = [settled EXCEPT ![o] = @ \cup a.members]
  BY DEF Settle
<1>2. settled'[o] = settled[o] \cup a.members
  BY <1>1 DEF TypeOK
<1>3. \A p \in Outcomes : p # o => settled'[p] = settled[p]
  BY <1>1 DEF TypeOK
<1>4. PendingAnomalies' = PendingAnomalies
  BY DEF PendingAnomalies
<1>5. SettledAnomalies' = SettledAnomalies \cup a.members
  BY <1>2, <1>3 DEF SettledAnomalies
<1>6. FlightAnomalies = FlightAnomalies' \cup a.members
  BY DEF FlightAnomalies
<1>7. FlightAnomalies' \cap a.members = {}
  <2>1. \A b \in InFlight : b # a => b.members \cap a.members = {}
    BY DEF AccountedOnce, NothingTwice
  <2>2. QED
    BY <2>1 DEF FlightAnomalies
<1>8. NothingVanishes'
  BY <1>4, <1>5, <1>6 DEF NothingVanishes, AccountedOnce
<1>9. a.members \cap SettledAnomalies = {} /\ a.members \cap PendingAnomalies = {}
  BY <1>6 DEF AccountedOnce, NothingTwice
<1>10. \A p \in Outcomes : a.members \cap settled[p] = {}
  BY <1>9 DEF SettledAnomalies
<1>11. \A p, q \in Outcomes : p # q => settled'[p] \cap settled'[q] = {}
  BY <1>2, <1>3, <1>10 DEF AccountedOnce, NothingTwice
<1>12. /\ PendingAnomalies' \cap FlightAnomalies' = {}
       /\ PendingAnomalies' \cap SettledAnomalies' = {}
       /\ FlightAnomalies' \cap SettledAnomalies' = {}
  BY <1>4, <1>5, <1>6, <1>7, <1>9 DEF AccountedOnce, NothingTwice
<1>13. /\ \A j, k \in DOMAIN pending' : j # k => pending'[j].members \cap pending'[k].members = {}
       /\ \A b, c \in InFlight' : b # c => b.members \cap c.members = {}
  BY DEF AccountedOnce, NothingTwice
<1>14. NothingTwice'
  BY <1>11, <1>12, <1>13 DEF NothingTwice
<1>15. QED
  BY <1>8, <1>14 DEF AccountedOnce

\* A step that moves no anomaly.
LEMMA NothingMoves ==
    ASSUME AccountedOnce, InFlight' = InFlight, UNCHANGED <<accepted, settled>>,
           DOMAIN pending' = DOMAIN pending,
           \A k \in DOMAIN pending : pending'[k].members = pending[k].members
    PROVE  AccountedOnce'
<1>1. /\ PendingAnomalies' = PendingAnomalies
      /\ FlightAnomalies' = FlightAnomalies
      /\ SettledAnomalies' = SettledAnomalies
  BY DEF PendingAnomalies, FlightAnomalies, SettledAnomalies
<1>2. NothingVanishes'
  BY <1>1 DEF AccountedOnce, NothingVanishes
<1>3. NothingTwice'
  BY <1>1 DEF AccountedOnce, NothingTwice
<1>4. QED
  BY <1>2, <1>3 DEF AccountedOnce

LEMMA AddAccounts ==
    ASSUME TypeOK, AccountedOnce, NEW a \in Anomaly, a \notin accepted, Add(a)
    PROVE  AccountedOnce'
<1> DEFINE key == workloadKey(a.labels)
<1>1. /\ DOMAIN pending' = DOMAIN pending \cup {key}
      /\ \A k \in DOMAIN pending : k # key => pending'[k] = pending[k]
      /\ InFlight' = InFlight
      /\ settled' = settled
      /\ accepted' = accepted \cup {a}
  BY DEF Add, InFlight
<1>2. pending'[key].members = (IF key \in DOMAIN pending THEN pending[key].members ELSE {}) \cup {a}
  <2>1. CASE key \in DOMAIN pending
    <3>1. pending'[key] = [pending[key] EXCEPT !.members = @ \cup {a}]
      BY <2>1 DEF Add
    <3>2. pending[key] \in Group
      BY <2>1 DEF TypeOK
    <3>3. QED
      BY <2>1, <3>1, <3>2 DEF Group
  <2>2. CASE key \notin DOMAIN pending
    BY <2>2 DEF Add
  <2>3. QED
    BY <2>1, <2>2
<1> HIDE DEF key
<1>3. PendingAnomalies' = PendingAnomalies \cup {a}
  BY <1>1, <1>2 DEF PendingAnomalies
<1>4. FlightAnomalies' = FlightAnomalies /\ SettledAnomalies' = SettledAnomalies
  BY <1>1 DEF FlightAnomalies, SettledAnomalies
<1>5. a \notin PendingAnomalies /\ a \notin FlightAnomalies /\ a \notin SettledAnomalies
  BY DEF AccountedOnce, NothingVanishes
<1>6. \A k \in DOMAIN pending : a \notin pending[k].members
  BY <1>5 DEF PendingAnomalies
<1>7. \A j, k \in DOMAIN pending' : j # k => pending'[j].members \cap pending'[k].members = {}
  BY <1>1, <1>2, <1>6 DEF AccountedOnce, NothingTwice
<1>8. NothingVanishes'
  BY <1>1, <1>3, <1>4 DEF AccountedOnce, NothingVanishes
<1>9. NothingTwice'
  <2>1. \A b, c \in InFlight' : b # c => b.members \cap c.members = {}
    BY <1>1 DEF AccountedOnce, NothingTwice
  <2>2. \A p, q \in Outcomes : p # q => settled'[p] \cap settled'[q] = {}
    BY <1>1 DEF AccountedOnce, NothingTwice
  <2>3. /\ PendingAnomalies' \cap FlightAnomalies' = {}
        /\ PendingAnomalies' \cap SettledAnomalies' = {}
        /\ FlightAnomalies' \cap SettledAnomalies' = {}
    BY <1>3, <1>4, <1>5 DEF AccountedOnce, NothingTwice
  <2>4. QED
    BY <1>7, <2>1, <2>2, <2>3 DEF NothingTwice
<1>10. QED
  BY <1>8, <1>9 DEF AccountedOnce

\* Flush moves the anomalies of the ready groups, and only those, into alerts.
LEMMA FlushAccounts ==
    ASSUME TypeOK, AccountedOnce, OneBatch, Flush
    PROVE  AccountedOnce'
<1> DEFINE gs == [k \in Ready |-> pending[k]]
<1>1. Ready \subseteq DOMAIN pending /\ DOMAIN gs = Ready
  BY DEF Ready
<1>2. PICK rep : InFlight = {} /\ InFlight' = correlate(gs, rep)
  BY DEF Flush, Correlated, OneBatch, InFlight
<1>3. /\ DOMAIN pending' = DOMAIN pending \ Ready
      /\ \A k \in DOMAIN pending \ Ready : pending'[k] = pending[k]
      /\ settled' = settled
      /\ accepted' = accepted
  BY DEF Flush, history
<1>4. FlightAnomalies' = UNION {pending[k].members : k \in Ready}
  <2>1. UNION {a.members : a \in correlate(gs, rep)} = UNION {gs[k].members : k \in DOMAIN gs}
    BY CorrelateCovers
  <2>2. UNION {gs[k].members : k \in DOMAIN gs} = UNION {pending[k].members : k \in Ready}
    BY <1>1
  <2>3. QED
    BY <1>2, <2>1, <2>2 DEF FlightAnomalies
<1>5. PendingAnomalies' = UNION {pending[k].members : k \in DOMAIN pending \ Ready}
  BY <1>3 DEF PendingAnomalies
<1>6. SettledAnomalies' = SettledAnomalies /\ FlightAnomalies = {}
  BY <1>2, <1>3 DEF SettledAnomalies, FlightAnomalies
<1>7. \A j, k \in DOMAIN pending : j # k => pending[j].members \cap pending[k].members = {}
  BY DEF AccountedOnce, NothingTwice
<1>8. PendingAnomalies = PendingAnomalies' \cup FlightAnomalies'
  BY <1>1, <1>4, <1>5 DEF PendingAnomalies
<1>9. PendingAnomalies' \cap FlightAnomalies' = {}
  BY <1>1, <1>4, <1>5, <1>7
<1>10. \A a, b \in InFlight' : a # b => a.members \cap b.members = {}
  <2>1. \A j, k \in DOMAIN gs : j # k => gs[j].members \cap gs[k].members = {}
    BY <1>1, <1>7
  <2>2. ASSUME NEW a \in correlate(gs, rep), NEW b \in correlate(gs, rep), a # b
        PROVE  a.members \cap b.members = {}
    BY <2>1, <2>2, CorrelateDisjoint
  <2>3. QED
    BY <1>2, <2>2
<1>11. NothingVanishes'
  BY <1>3, <1>6, <1>8 DEF AccountedOnce, NothingVanishes
<1>12. NothingTwice'
  <2>1. \A j, k \in DOMAIN pending' : j # k => pending'[j].members \cap pending'[k].members = {}
    BY <1>3, <1>7
  <2>2. \A p, q \in Outcomes : p # q => settled'[p] \cap settled'[q] = {}
    BY <1>3 DEF AccountedOnce, NothingTwice
  <2>3. /\ PendingAnomalies' \cap SettledAnomalies' = {}
        /\ FlightAnomalies' \cap SettledAnomalies' = {}
    BY <1>6, <1>8 DEF AccountedOnce, NothingTwice
  <2>4. QED
    BY <1>9, <1>10, <2>1, <2>2, <2>3 DEF NothingTwice
<1>13. QED
  BY <1>11, <1>12 DEF AccountedOnce

\* A restart loses what is in memory, and says so.
LEMMA RestartAccounts ==
    ASSUME TypeOK, AccountedOnce, Restart
    PROVE  AccountedOnce'
<1> DEFINE memory == PendingAnomalies \cup FlightAnomalies
<1>1. settled' = [settled EXCEPT !["lost"] = @ \cup memory]
  BY DEF Restart, Settle
<1>2. /\ DOMAIN pending' = {}
      /\ InFlight' = {}
      /\ accepted' = accepted
  BY DEF Restart, Nothing, InFlight
<1>3. memory \cap SettledAnomalies = {} /\ accepted = memory \cup SettledAnomalies
  BY DEF AccountedOnce, NothingTwice, NothingVanishes
<1> HIDE DEF memory
<1>4. PendingAnomalies' = {} /\ FlightAnomalies' = {}
  BY <1>2 DEF PendingAnomalies, FlightAnomalies
<1>5. /\ settled'["lost"] = settled["lost"] \cup memory
      /\ \A p \in Outcomes : p # "lost" => settled'[p] = settled[p]
  BY <1>1 DEF TypeOK, Outcomes
<1>6. SettledAnomalies' = SettledAnomalies \cup memory
  BY <1>5 DEF SettledAnomalies, Outcomes
<1>7. \A p, q \in Outcomes : p # q => settled'[p] \cap settled'[q] = {}
  <2>1. \A p \in Outcomes : memory \cap settled[p] = {}
    BY <1>3 DEF SettledAnomalies
  <2>2. \A p, q \in Outcomes : p # q => settled[p] \cap settled[q] = {}
    BY DEF AccountedOnce, NothingTwice
  <2>3. QED
    BY <1>5, <2>1, <2>2
<1>8. NothingVanishes'
  BY <1>2, <1>3, <1>4, <1>6 DEF NothingVanishes
<1>9. NothingTwice'
  BY <1>2, <1>4, <1>7 DEF NothingTwice
<1>10. QED
  BY <1>8, <1>9 DEF AccountedOnce

LEMMA OneBatchStep ==
    ASSUME OneBatch, [Next]_vars
    PROVE  OneBatch'
<1> USE DEF OneBatch, InFlight
<1>1. CASE StartCycle \/ CycleAborted \/ JobsProcessed \/ Finalized \/ EndCycle
  BY <1>1 DEF StartCycle, CycleAborted, JobsProcessed, Finalized, EndCycle
<1>2. CASE AddSome
  BY <1>2 DEF AddSome, Add
<1>3. CASE Flush
  BY <1>3 DEF Flush
<1>4. ASSUME NEW a \in batch, DedupHit(a)
      PROVE  OneBatch'
  BY <1>4 DEF DedupHit, Takes
<1>5. ASSUME NEW a \in batch, DedupMiss(a)
      PROVE  OneBatch'
  BY <1>5 DEF DedupMiss, Takes
<1>6. ASSUME NEW a \in checking, DedupSet(a)
      PROVE  OneBatch'
  BY <1>6 DEF DedupSet
<1>7. ASSUME NEW a \in out, Dispatch(a)
      PROVE  OneBatch'
  BY <1>7 DEF Dispatch
<1>8. CASE Restart
  BY <1>8 DEF Restart
<1>9. CASE Tick
  BY <1>9 DEF Tick
<1>10. CASE UNCHANGED vars
  BY <1>10 DEF vars
<1>11. QED
  BY <1>1, <1>2, <1>3, <1>4, <1>5, <1>6, <1>7, <1>8, <1>9, <1>10 DEF Next

LEMMA AccountStep ==
    ASSUME AccountInv, [Next]_vars
    PROVE  AccountedOnce'
<1> USE DEF AccountInv
<1>1. CASE StartCycle \/ CycleAborted \/ JobsProcessed \/ Finalized \/ EndCycle
  <2>1. UNCHANGED <<pending, batch, checking, out, accepted, settled>>
    BY <1>1 DEF StartCycle, CycleAborted, JobsProcessed, Finalized, EndCycle, history
  <2>2. QED
    BY <2>1, NothingMoves DEF InFlight
<1>2. CASE AddSome
  BY <1>2, AddSomeIsFresh, AddAccounts DEF TypeOK
<1>3. CASE Flush
  BY <1>3, FlushAccounts
<1>4. ASSUME NEW a \in batch, DedupHit(a)
      PROVE  AccountedOnce'
  <2>1. a \in InFlight /\ InFlight' = InFlight \ {a}
    BY <1>4 DEF DedupHit, Takes, InFlight, OneBatch
  <2>2. Settle("duplicate", a.members) /\ UNCHANGED <<pending, accepted>>
    BY <1>4 DEF DedupHit
  <2>3. QED
    BY <2>1, <2>2, SettleAlert DEF Outcomes
<1>5. ASSUME NEW a \in batch, DedupMiss(a)
      PROVE  AccountedOnce'
  <2>1. InFlight' = InFlight
    BY <1>5 DEF DedupMiss, Takes, InFlight
  <2>2. UNCHANGED <<pending, accepted, settled>>
    BY <1>5 DEF DedupMiss, history
  <2>3. QED
    BY <2>1, <2>2, NothingMoves
<1>6. ASSUME NEW a \in checking, DedupSet(a)
      PROVE  AccountedOnce'
  <2>1. InFlight' = InFlight
    BY <1>6 DEF DedupSet, InFlight, OneBatch
  <2>2. UNCHANGED <<pending, accepted, settled>>
    BY <1>6 DEF DedupSet
  <2>3. QED
    BY <2>1, <2>2, NothingMoves
<1>7. ASSUME NEW a \in out, Dispatch(a)
      PROVE  AccountedOnce'
  <2>1. a \in InFlight /\ InFlight' = InFlight \ {a}
    BY <1>7 DEF Dispatch, InFlight, OneBatch
  <2>2. PICK o \in {"sent", "failed", "unsent"} : Settle(o, a.members)
    BY <1>7 DEF Dispatch
  <2>3. UNCHANGED <<pending, accepted>>
    BY <1>7 DEF Dispatch
  <2>4. QED
    BY <2>1, <2>2, <2>3, SettleAlert DEF Outcomes
<1>8. CASE Restart
  BY <1>8, RestartAccounts
<1>9. CASE Tick
  <2>1. DOMAIN pending' = DOMAIN pending
    BY <1>9 DEF Tick
  <2>2. ASSUME NEW k \in DOMAIN pending
        PROVE  pending'[k].members = pending[k].members
    BY <1>9 DEF Tick, TypeOK, Group
  <2>3. InFlight' = InFlight /\ UNCHANGED <<accepted, settled>>
    BY <1>9 DEF Tick, InFlight
  <2>4. QED
    BY <2>1, <2>2, <2>3, NothingMoves
<1>10. CASE UNCHANGED vars
  BY <1>10, NothingMoves DEF vars, InFlight
<1>11. QED
  BY <1>1, <1>2, <1>3, <1>4, <1>5, <1>6, <1>7, <1>8, <1>9, <1>10 DEF Next

\* Whatever fails and whenever the controller restarts, each anomaly that was
\* accepted waits in one group, travels in one alert, or met one outcome.
THEOREM EveryAnomalyAccounted == Spec => []AccountedOnce
<1>1. Init => AccountedOnce /\ OneBatch
  BY DEF Init, AccountedOnce, NothingVanishes, NothingTwice, OneBatch, InFlight,
         PendingAnomalies, FlightAnomalies, SettledAnomalies, Nothing, Outcomes
<1>2. TypeOK /\ AccountedOnce /\ OneBatch /\ [Next]_vars => AccountedOnce' /\ OneBatch'
  BY AccountStep, OneBatchStep DEF AccountInv
<1>3. QED
  BY <1>1, <1>2, TypeCorrect, PTL DEF Spec

-----------------------------------------------------------------------------
(* The cooldown, when Redis answers. *)

\* The entries in Redis are exactly the cooldowns still running, and the alert
\* between its check and its entry has none: nobody else writes its key.
CooldownInv ==
    /\ passed = ttl
    /\ \A a \in checking : fingerprint(a) \notin DOMAIN ttl

LEMMA CooldownStep ==
    ASSUME RedisFaults = FALSE, CooldownInv, [Next]_vars
    PROVE  CooldownInv'
<1>1. CASE StartCycle \/ CycleAborted \/ JobsProcessed \/ Finalized \/ EndCycle \/ Flush
  BY <1>1 DEF StartCycle, CycleAborted, JobsProcessed, Finalized, EndCycle, Flush,
              CooldownInv, history
<1>2. CASE AddSome
  BY <1>2 DEF AddSome, Add, CooldownInv
<1>3. ASSUME NEW a \in batch, DedupHit(a)
      PROVE  CooldownInv'
  BY <1>3 DEF DedupHit, CooldownInv
<1>4. ASSUME NEW a \in batch, DedupMiss(a)
      PROVE  CooldownInv'
  <2>1. fingerprint(a) \notin DOMAIN ttl
    BY <1>4 DEF DedupMiss
  <2>2. checking' = {a} /\ UNCHANGED <<ttl, passed>>
    BY <1>4 DEF DedupMiss, history
  <2>3. QED
    BY <2>1, <2>2 DEF CooldownInv
<1>5. ASSUME NEW a \in checking, DedupSet(a)
      PROVE  CooldownInv'
  <2>1. /\ checking' = {}
        /\ ttl' = Started(ttl, fingerprint(a))
        /\ passed' = Started(passed, fingerprint(a))
    BY <1>5 DEF DedupSet
  <2>2. QED
    BY <2>1 DEF CooldownInv
<1>6. ASSUME NEW a \in out, Dispatch(a)
      PROVE  CooldownInv'
  BY <1>6 DEF Dispatch, CooldownInv
<1>7. CASE Restart
  BY <1>7 DEF Restart, CooldownInv
<1>8. CASE Tick
  <2>1. DOMAIN Elapsed(ttl) \subseteq DOMAIN ttl
    BY DEF Elapsed
  <2>2. QED
    BY <1>8, <2>1 DEF Tick, CooldownInv
<1>9. CASE UNCHANGED vars
  BY <1>9 DEF vars, CooldownInv
<1>10. QED
  BY <1>1, <1>2, <1>3, <1>4, <1>5, <1>6, <1>7, <1>8, <1>9 DEF Next

\* As long as Redis answers, no alert passes finalize within Cooldown of its twin,
\* however often the controller is restarted in between.
THEOREM NoRepeatWithinCooldown ==
    ASSUME RedisFaults = FALSE
    PROVE  Spec => CooldownRespected
<1>1. Init => CooldownInv
  BY DEF Init, CooldownInv
<1>2. CooldownInv /\ [Next]_vars => CooldownInv'
  BY CooldownStep
<1>3. CooldownInv /\ [Next]_vars =>
         [\A a \in checking : DedupSet(a) => fingerprint(a) \notin DOMAIN passed]_vars
  BY DEF CooldownInv
<1>4. QED
  BY <1>1, <1>2, <1>3, PTL DEF Spec, CooldownRespected

-----------------------------------------------------------------------------
(* A pattern is collapsed completely or not at all. *)

\* The part of PodAlerts that is in F.
PodAlertsOf(F, w) == {a \in F : /\ a.kind = "pod"
                                /\ Eligible([first |-> a.labels])
                                /\ wlKey([first |-> a.labels]) = w}

\* The alerts of this cycle are left of what one flush raised.
OneFlush == \E gs, rep : IsFiniteSet(DOMAIN gs) /\ InFlight \subseteq correlate(gs, rep)

CollapseInv == IsFiniteSet(DOMAIN pending) /\ OneFlush

LEMMA CorrelateCases ==
    ASSUME NEW gs, NEW rep, NEW a \in correlate(gs, rep)
    PROVE  \/ \E w \in Patterns(gs) : a = workloadAlert(gs, w, rep[w])
           \/ \E k \in DOMAIN gs \ Suppressed(gs) : a = buildPodAlert(gs[k])
BY DEF correlate

\* A group and its first label set are eligible together, for the same workload.
LEMMA FirstDecides ==
    ASSUME NEW g
    PROVE  /\ Eligible([first |-> g.first]) <=> Eligible(g)
           /\ wlKey([first |-> g.first]) = wlKey(g)
<1>1. [first |-> g.first].first = g.first
  OBVIOUS
<1>2. QED
  BY <1>1 DEF Eligible, wlKey

\* An eligible pod alert comes from a group whose workload shows no pattern.
LEMMA PodAlertsSource ==
    ASSUME NEW gs, NEW rep, NEW w, NEW a \in PodAlertsOf(correlate(gs, rep), w)
    PROVE  \E k \in DOMAIN gs :
              /\ a.labels = gs[k].first
              /\ k \in Siblings(gs, w)
              /\ w \notin Patterns(gs)
<1>1. /\ a \in correlate(gs, rep) /\ a.kind = "pod"
      /\ Eligible([first |-> a.labels]) /\ wlKey([first |-> a.labels]) = w
  BY DEF PodAlertsOf
<1>2. ASSUME NEW v \in Patterns(gs) PROVE a # workloadAlert(gs, v, rep[v])
  <2>1. workloadAlert(gs, v, rep[v]).kind = "workload"
    BY DEF workloadAlert
  <2>2. QED
    BY <1>1, <2>1
<1>3. PICK k \in DOMAIN gs \ Suppressed(gs) : a = buildPodAlert(gs[k])
  BY <1>1, <1>2, CorrelateCases
<1>4. a.labels = gs[k].first
  BY <1>3 DEF buildPodAlert
<1>5. Eligible(gs[k]) /\ wlKey(gs[k]) = w
  BY <1>1, <1>4, FirstDecides
<1>6. k \in Siblings(gs, w)
  BY <1>5 DEF Siblings
<1>7. w \notin Patterns(gs)
  BY <1>3, <1>6 DEF Suppressed
<1>8. QED
  BY <1>4, <1>6, <1>7

\* The alert of a pattern has no pod label.
LEMMA WorkloadNotEligible ==
    ASSUME NEW gs, NEW w, NEW r
    PROVE  ~Eligible([first |-> workloadAlert(gs, w, r).labels])
<1>1. workloadAlert(gs, w, r).labels.pod = ""
  BY DEF workloadAlert
<1> DEFINE l == workloadAlert(gs, w, r).labels
<1>2. l.pod = ""
  BY <1>1
<1> HIDE DEF l
<1>3. ~Eligible([first |-> l])
  BY <1>2 DEF Eligible
<1>4. QED
  BY <1>3 DEF l

LEMMA SiblingPods ==
    ASSUME NEW gs, NEW w, IsFiniteSet(DOMAIN gs)
    PROVE  IsFiniteSet(Pods(gs, w))
<1> DEFINE S == Siblings(gs, w)
           f == [k \in S |-> gs[k].first.pod]
<1>1. IsFiniteSet(S)
  BY FS_Subset DEF Siblings
<1>2. f \in Surjection(S, Pods(gs, w))
  BY DEF Surjection, Pods
<1>3. QED
  BY <1>1, <1>2, FS_Surjection

\* Fewer eligible pod alerts of a workload than make a pattern.
LEMMA FewPodAlerts ==
    ASSUME NEW gs, IsFiniteSet(DOMAIN gs), NEW rep, NEW F, F \subseteq correlate(gs, rep), NEW w,
           NEW b \in PodAlertsOf(F, w)
    PROVE  Cardinality({a.labels.pod : a \in PodAlertsOf(F, w)}) < workloadMinPods
<1> DEFINE P == {a.labels.pod : a \in PodAlertsOf(F, w)}
<1>1. PodAlertsOf(F, w) \subseteq PodAlertsOf(correlate(gs, rep), w)
  BY DEF PodAlertsOf
<1>2. ASSUME NEW a \in PodAlertsOf(F, w)
      PROVE  a.labels.pod \in Pods(gs, w)
  BY <1>1, PodAlertsSource DEF Pods
<1>3. P \in SUBSET Pods(gs, w)
  BY <1>2
<1>4. PICK k \in DOMAIN gs : k \in Siblings(gs, w) /\ w \notin Patterns(gs)
  BY <1>1, PodAlertsSource
<1>5. ~(Cardinality(Pods(gs, w)) >= workloadMinPods)
  BY <1>4 DEF Siblings, Patterns
<1>6. IsFiniteSet(Pods(gs, w)) /\ IsFiniteSet(P)
  BY <1>3, SiblingPods, FS_Subset
<1>7. Cardinality(P) <= Cardinality(Pods(gs, w))
  BY <1>3, <1>6, FS_Subset
<1>8. /\ Cardinality(P) \in Nat /\ Cardinality(Pods(gs, w)) \in Nat
      /\ workloadMinPods \in Nat
  BY <1>6, FS_CardinalityType, MinPodsAssumption DEF workloadMinPods
<1>9. QED
  BY <1>5, <1>7, <1>8

LEMMA CollapseFollows == OneFlush => CollapseComplete
<1>1. SUFFICES ASSUME OneFlush, NEW a \in InFlight
               PROVE  /\ a.kind = "workload" =>
                           PodAlerts(<<a.cluster, a.namespace, a.workload>>) = {}
                      /\ Eligible([first |-> a.labels]) =>
                           Cardinality({b.labels.pod :
                               b \in PodAlerts(wlKey([first |-> a.labels]))}) < workloadMinPods
  BY DEF CollapseComplete
<1>2. PICK gs, rep : IsFiniteSet(DOMAIN gs) /\ InFlight \subseteq correlate(gs, rep)
  BY <1>1 DEF OneFlush
<1>3. \A w : PodAlerts(w) = PodAlertsOf(InFlight, w)
  BY DEF PodAlerts, PodAlertsOf
<1>4. a \in correlate(gs, rep)
  BY <1>2
<1>5. ASSUME NEW v \in Patterns(gs), a = workloadAlert(gs, v, rep[v])
      PROVE  PodAlerts(<<a.cluster, a.namespace, a.workload>>) = {}
  <2>1. PICK k \in DOMAIN gs : v = wlKey(gs[k])
    BY DEF Patterns
  <2>2. <<a.cluster, a.namespace, a.workload>> = v
    <3>1. a.cluster = v[1] /\ a.namespace = v[2] /\ a.workload = v[3]
      BY <1>5 DEF workloadAlert
    <3>2. v = <<v[1], v[2], v[3]>>
      BY <2>1 DEF wlKey
    <3>3. QED
      BY <3>1, <3>2
  <2>3. ASSUME NEW b \in PodAlertsOf(InFlight, v) PROVE FALSE
    <3>1. b \in PodAlertsOf(correlate(gs, rep), v)
      BY <1>2 DEF PodAlertsOf
    <3>2. QED
      BY <3>1, PodAlertsSource
  <2>4. QED
    BY <1>3, <2>2, <2>3
<1>6. ASSUME a.kind = "workload"
      PROVE  \E v \in Patterns(gs) : a = workloadAlert(gs, v, rep[v])
  <2>1. ASSUME NEW k \in DOMAIN gs PROVE a # buildPodAlert(gs[k])
    BY <1>6 DEF buildPodAlert
  <2>2. QED
    BY <1>4, <2>1, CorrelateCases
<1>7. ASSUME Eligible([first |-> a.labels])
      PROVE  Cardinality({b.labels.pod : b \in PodAlerts(wlKey([first |-> a.labels]))})
                < workloadMinPods
  <2> DEFINE w == wlKey([first |-> a.labels])
  <2>1. PICK k \in DOMAIN gs : a = buildPodAlert(gs[k])
    BY <1>4, <1>7, CorrelateCases, WorkloadNotEligible
  <2>2. a.kind = "pod"
    BY <2>1 DEF buildPodAlert
  <2>3. a \in PodAlertsOf(InFlight, w)
    BY <1>7, <2>2 DEF PodAlertsOf
  <2> HIDE DEF w
  <2>4. Cardinality({b.labels.pod : b \in PodAlertsOf(InFlight, w)}) < workloadMinPods
    BY <1>2, <2>3, FewPodAlerts
  <2>5. Cardinality({b.labels.pod : b \in PodAlerts(w)}) < workloadMinPods
    BY <1>3, <2>4
  <2>6. QED
    BY <2>5 DEF w
<1>8. QED
  BY <1>5, <1>6, <1>7

\* Alerts are only raised by Flush; groups are only made by Add.
LEMMA CollapseStep ==
    ASSUME OneBatch, CollapseInv, [Next]_vars
    PROVE  CollapseInv'
<1>1. ASSUME InFlight' \subseteq InFlight PROVE OneFlush'
  BY <1>1 DEF OneFlush, CollapseInv
<1>2. CASE StartCycle \/ CycleAborted \/ JobsProcessed \/ Finalized \/ EndCycle
  <2>1. UNCHANGED <<pending, batch, checking, out>>
    BY <1>2 DEF StartCycle, CycleAborted, JobsProcessed, Finalized, EndCycle
  <2>2. QED
    BY <1>1, <2>1 DEF InFlight, CollapseInv
<1>3. CASE AddSome
  <2>1. UNCHANGED <<batch, checking, out>>
    BY <1>3 DEF AddSome, Add
  <2>2. PICK a : Add(a)
    BY <1>3 DEF AddSome
  <2>3. DOMAIN pending' = DOMAIN pending \cup {workloadKey(a.labels)}
    BY <2>2 DEF Add
  <2>4. IsFiniteSet(DOMAIN pending')
    BY <2>3, FS_AddElement DEF CollapseInv
  <2>5. QED
    BY <1>1, <2>1, <2>4 DEF InFlight, CollapseInv
<1>4. CASE Flush
  <2> DEFINE gs == [k \in Ready |-> pending[k]]
  <2>1. Ready \subseteq DOMAIN pending /\ DOMAIN gs = Ready
    BY DEF Ready
  <2>2. PICK rep : InFlight' = correlate(gs, rep)
    BY <1>4 DEF Flush, Correlated, OneBatch, InFlight
  <2>3. IsFiniteSet(DOMAIN gs)
    BY <2>1, FS_Subset DEF CollapseInv
  <2> HIDE DEF gs
  <2>4. OneFlush'
    BY <2>2, <2>3 DEF OneFlush
  <2>5. DOMAIN pending' \in SUBSET DOMAIN pending
    BY <1>4 DEF Flush
  <2>6. QED
    BY <2>4, <2>5, FS_Subset DEF CollapseInv
<1>5. ASSUME NEW a \in batch, DedupHit(a)
      PROVE  CollapseInv'
  BY <1>1, <1>5 DEF DedupHit, Takes, InFlight, CollapseInv
<1>6. ASSUME NEW a \in batch, DedupMiss(a)
      PROVE  CollapseInv'
  BY <1>1, <1>6 DEF DedupMiss, Takes, InFlight, CollapseInv
<1>7. ASSUME NEW a \in checking, DedupSet(a)
      PROVE  CollapseInv'
  BY <1>1, <1>7 DEF DedupSet, InFlight, CollapseInv
<1>8. ASSUME NEW a \in out, Dispatch(a)
      PROVE  CollapseInv'
  <2>1. out' \subseteq out /\ UNCHANGED <<pending, batch, checking>>
    BY <1>8 DEF Dispatch
  <2>2. QED
    BY <1>1, <2>1 DEF InFlight, CollapseInv
<1>9. CASE Restart
  <2>1. InFlight' = {} /\ DOMAIN pending' = {}
    BY <1>9 DEF Restart, InFlight, Nothing
  <2>2. QED
    BY <1>1, <2>1, FS_EmptySet DEF CollapseInv
<1>10. CASE Tick
  <2>1. DOMAIN pending' = DOMAIN pending /\ UNCHANGED <<batch, checking, out>>
    BY <1>10 DEF Tick
  <2>2. QED
    BY <1>1, <2>1 DEF InFlight, CollapseInv
<1>11. CASE UNCHANGED vars
  BY <1>1, <1>11 DEF vars, InFlight, CollapseInv
<1>12. QED
  BY <1>2, <1>3, <1>4, <1>5, <1>6, <1>7, <1>8, <1>9, <1>10, <1>11 DEF Next

\* For any labels, extraction of workload names and threshold, a flush raises one
\* alert for a pattern and none for its pods, or fewer pod alerts than the threshold.
THEOREM PatternsCollapse == Spec => []CollapseComplete
<1>1. Init => OneBatch /\ CollapseInv
  <2>1. Init => InFlight = {} /\ DOMAIN pending = {}
    BY DEF Init, InFlight, Nothing
  <2>2. ASSUME Init PROVE OneFlush
    <3>1. InFlight \subseteq correlate(Nothing, Nothing) /\ DOMAIN Nothing = {}
      BY <2>1, <2>2 DEF Nothing
    <3>2. QED
      BY <3>1, FS_EmptySet DEF OneFlush
  <2>3. Init => OneBatch
    BY DEF Init, OneBatch, InFlight
  <2>4. QED
    BY <2>1, <2>2, <2>3, FS_EmptySet DEF CollapseInv
<1>2. OneBatch /\ CollapseInv /\ [Next]_vars => OneBatch' /\ CollapseInv'
  BY OneBatchStep, CollapseStep
<1>3. CollapseInv => CollapseComplete
  BY CollapseFollows DEF CollapseInv
<1>4. QED
  BY <1>1, <1>2, <1>3, PTL DEF Spec

-----------------------------------------------------------------------------
(* What is dropped as a duplicate was told. *)

\* The name in every group's key is a pod's, so that a fingerprint, which knows no
\* service, tells groups apart; and no cluster has the name the code gives to none.
PodsNameGroups ==
    \A l \in Labels : (l.pod # "" \/ l.service_name = "") /\ l.cluster # "unknown"

KeyFor(c, n, p) == IF n = "" /\ p = "" THEN <<"_unknown_">> ELSE <<c, n, p>>

\* What the receiver is told of an alert's cluster and workload, as functions of the
\* fields its fingerprint is made of.
ClusterTold(c) == IF c = "unknown" THEN ClusterName ELSE c

WorkloadTold(kind, w) ==
    IF kind = "workload" \/ w = "" \/ ExtractWorkload[w] = "" THEN w ELSE ExtractWorkload[w]

\* x, a target, is about what the fingerprint f stands for, as severe or critical.
About(x, f) ==
    /\ x.kind = f.kind /\ x.cluster = ClusterTold(f.cluster) /\ x.ns = f.ns
    /\ x.identity = f.workload /\ x.workload = WorkloadTold(f.kind, f.workload)
    /\ x.severity \in {f.severity, "critical"}

\* d holds a delivery about f that outlasts time t.
Told(f, t, d) == \E x \in DOMAIN d : About(x, f) /\ d[x] >= t

\* The fields of the fingerprint are what the receiver is told.
Named(a) ==
    /\ a.labels.namespace = a.namespace
    /\ clusterFor(a.labels) = ClusterTold(a.cluster)
    /\ identityOf(a) = a.workload
    /\ amWorkloadLabel(a) = WorkloadTold(a.kind, a.workload)

GroupsKeyed == \A k \in DOMAIN pending : workloadKey(pending[k].first) = k

AlertsApart ==
    /\ \A a, b \in InFlight : fingerprint(a) = fingerprint(b) => a = b
    /\ \A a \in InFlight : Named(a)

\* The alert behind an entry is about to be sent, or was sent since.
EntriesTold ==
    \A f \in DOMAIN ttl :
        (\E a \in out : fingerprint(a) = f) \/ Told(f, ttl[f], delivered)

DropInv == GroupsKeyed /\ AlertsApart /\ EntriesTold

LEMMA KeyFields ==
    ASSUME PodsNameGroups, NEW l \in Labels
    PROVE  workloadKey(l) = KeyFor(clusterOrUnknown(l), l.namespace, l.pod)
<1>1. (IF l.pod # "" THEN l.pod ELSE l.service_name) = l.pod
  BY DEF PodsNameGroups
<1>2. QED
  BY <1>1 DEF workloadKey, KeyFor

LEMMA FingerprintFields ==
    ASSUME NEW a, NEW b, fingerprint(a) = fingerprint(b)
    PROVE  /\ a.kind = b.kind /\ a.cluster = b.cluster /\ a.namespace = b.namespace
           /\ a.workload = b.workload /\ a.severity = b.severity
<1>1. /\ fingerprint(a).kind = fingerprint(b).kind
      /\ fingerprint(a).cluster = fingerprint(b).cluster
      /\ fingerprint(a).ns = fingerprint(b).ns
      /\ fingerprint(a).workload = fingerprint(b).workload
      /\ fingerprint(a).severity = fingerprint(b).severity
  OBVIOUS
<1>2. QED
  BY <1>1 DEF fingerprint

LEMMA WorkloadFields ==
    ASSUME NEW gs, NEW w \in Patterns(gs), NEW r
    PROVE  /\ workloadAlert(gs, w, r).kind = "workload"
           /\ w = <<workloadAlert(gs, w, r).cluster, workloadAlert(gs, w, r).namespace,
                    workloadAlert(gs, w, r).workload>>
<1>1. PICK k \in DOMAIN gs : w = wlKey(gs[k])
  BY DEF Patterns
<1>2. w = <<w[1], w[2], w[3]>>
  BY <1>1 DEF wlKey
<1>3. /\ workloadAlert(gs, w, r).kind = "workload"
      /\ workloadAlert(gs, w, r).cluster = w[1]
      /\ workloadAlert(gs, w, r).namespace = w[2]
      /\ workloadAlert(gs, w, r).workload = w[3]
  BY DEF workloadAlert
<1>4. QED
  BY <1>2, <1>3

LEMMA PodFields ==
    ASSUME NEW g
    PROVE  /\ buildPodAlert(g).kind = "pod"
           /\ buildPodAlert(g).cluster = clusterOrUnknown(g.first)
           /\ buildPodAlert(g).namespace = g.first.namespace
           /\ buildPodAlert(g).workload = g.first.pod
           /\ buildPodAlert(g).labels = g.first
BY DEF buildPodAlert

\* The fingerprint tells the alerts of one flush apart,
LEMMA CorrelateApart ==
    ASSUME PodsNameGroups, NEW gs, NEW rep, gs \in [DOMAIN gs -> Group],
           \A k \in DOMAIN gs : workloadKey(gs[k].first) = k,
           NEW a \in correlate(gs, rep), NEW b \in correlate(gs, rep), fingerprint(a) = fingerprint(b)
    PROVE  a = b
<1>1. /\ a.kind = b.kind /\ a.cluster = b.cluster /\ a.namespace = b.namespace
      /\ a.workload = b.workload
  BY FingerprintFields
<1>2. CASE \E w \in Patterns(gs) : a = workloadAlert(gs, w, rep[w])
  <2>1. PICK w \in Patterns(gs) : a = workloadAlert(gs, w, rep[w])
    BY <1>2
  <2>2. b.kind = "workload"
    BY <1>1, <2>1, WorkloadFields
  <2>3. ASSUME NEW k \in DOMAIN gs PROVE b # buildPodAlert(gs[k])
    BY <2>2, PodFields
  <2>4. PICK v \in Patterns(gs) : b = workloadAlert(gs, v, rep[v])
    BY <2>3, CorrelateCases
  <2>5. v = w
    BY <1>1, <2>1, <2>4, WorkloadFields
  <2>6. QED
    BY <2>1, <2>4, <2>5
<1>3. CASE \E k \in DOMAIN gs \ Suppressed(gs) : a = buildPodAlert(gs[k])
  <2>1. PICK k \in DOMAIN gs : a = buildPodAlert(gs[k])
    BY <1>3
  <2>2. b.kind = "pod"
    BY <1>1, <2>1, PodFields
  <2>3. ASSUME NEW v \in Patterns(gs) PROVE b # workloadAlert(gs, v, rep[v])
    BY <2>2, WorkloadFields
  <2>4. PICK j \in DOMAIN gs : b = buildPodAlert(gs[j])
    BY <2>3, CorrelateCases
  <2>5. gs[k].first \in Labels /\ gs[j].first \in Labels
    BY DEF Group
  <2>6. /\ k = KeyFor(a.cluster, a.namespace, a.workload)
        /\ j = KeyFor(b.cluster, b.namespace, b.workload)
    BY <2>1, <2>4, <2>5, KeyFields, PodFields
  <2>7. j = k
    BY <1>1, <2>6
  <2>8. QED
    BY <2>1, <2>4, <2>7
<1>4. QED
  BY <1>2, <1>3, CorrelateCases

\* A cluster label, or none, becomes the same name in the correlator and in the
\* dispatcher.
LEMMA ClusterAgrees ==
    ASSUME NEW l, l.cluster # "unknown"
    PROVE  clusterFor(l) = ClusterTold(clusterOrUnknown(l))
BY DEF clusterFor, ClusterTold, clusterOrUnknown

LEMMA LabelsTold ==
    ASSUME NEW a, a.kind = "pod", a.workload = a.labels.pod,
           a.labels.pod # "" \/ a.labels.service_name = ""
    PROVE  /\ identityOf(a) = a.workload
           /\ amWorkloadLabel(a) = WorkloadTold(a.kind, a.workload)
<1>1. a.kind # "workload"
  OBVIOUS
<1>2. identityOf(a) = a.workload
  BY <1>1 DEF identityOf
<1>3. amWorkloadLabel(a) = WorkloadTold(a.kind, a.workload)
  BY <1>1 DEF amWorkloadLabel, WorkloadTold
<1>4. QED
  BY <1>2, <1>3

\* and its fields are what the receiver is told of each of them.
LEMMA CorrelateNames ==
    ASSUME PodsNameGroups, NEW gs, gs \in [DOMAIN gs -> Group],
           NEW rep \in Representatives(gs), NEW a \in correlate(gs, rep)
    PROVE  Named(a)
<1>1. CASE \E w \in Patterns(gs) : a = workloadAlert(gs, w, rep[w])
  <2>1. PICK w \in Patterns(gs) : a = workloadAlert(gs, w, rep[w])
    BY <1>1
  <2>2. a.kind = "workload"
    BY <2>1, WorkloadFields
  <2>3. rep[w] \in Siblings(gs, w)
    BY DEF Representatives
  <2> DEFINE l == gs[rep[w]].first
  <2>4. l \in Labels /\ w = <<clusterOrUnknown(l), l.namespace, ExtractWorkload[l.pod]>>
    BY <2>3 DEF Siblings, wlKey, Group
  <2>5. /\ a.labels.namespace = l.namespace /\ a.labels.cluster = l.cluster
        /\ a.cluster = w[1] /\ a.namespace = w[2]
    BY <2>1 DEF workloadAlert
  <2> HIDE DEF l
  <2>6. a.cluster = clusterOrUnknown(l) /\ a.namespace = l.namespace
    BY <2>4, <2>5
  <2>7. clusterFor(a.labels) = clusterFor(l)
    BY <2>5 DEF clusterFor
  <2>8. clusterFor(l) = ClusterTold(clusterOrUnknown(l))
    BY <2>4, ClusterAgrees DEF PodsNameGroups
  <2>9. QED
    BY <2>2, <2>5, <2>6, <2>7, <2>8 DEF Named, identityOf, amWorkloadLabel, WorkloadTold
<1>2. CASE \E k \in DOMAIN gs \ Suppressed(gs) : a = buildPodAlert(gs[k])
  <2>1. PICK k \in DOMAIN gs : a = buildPodAlert(gs[k])
    BY <1>2
  <2>2. /\ a.kind = "pod" /\ a.workload = a.labels.pod /\ a.labels \in Labels
        /\ a.cluster = clusterOrUnknown(a.labels) /\ a.namespace = a.labels.namespace
    BY <2>1, PodFields DEF Group
  <2>3. a.labels.pod # "" \/ a.labels.service_name = ""
    BY <2>2 DEF PodsNameGroups
  <2>4. identityOf(a) = a.workload /\ amWorkloadLabel(a) = WorkloadTold(a.kind, a.workload)
    BY <2>2, <2>3, LabelsTold
  <2>5. clusterFor(a.labels) = ClusterTold(clusterOrUnknown(a.labels))
    BY <2>2, ClusterAgrees DEF PodsNameGroups
  <2>6. QED
    BY <2>2, <2>4, <2>5 DEF Named
<1>3. QED
  BY <1>1, <1>2, CorrelateCases

\* What is sent of an alert, escalated or not, is about its fingerprint.
LEMMA SentIsAbout ==
    ASSUME NEW a \in Alert, Named(a), NEW confirmed \in BOOLEAN
    PROVE  About(target(escalate(a, confirmed)), fingerprint(a))
<1> DEFINE b == escalate(a, confirmed)
<1>1. /\ b.kind = a.kind /\ b.cluster = a.cluster /\ b.namespace = a.namespace
      /\ b.workload = a.workload /\ b.labels = a.labels
      /\ b.severity \in {a.severity, "critical"}
  BY DEF Alert, escalate
<1> HIDE DEF b
<1>2. identityOf(b) = identityOf(a) /\ amWorkloadLabel(b) = amWorkloadLabel(a)
  BY <1>1 DEF identityOf, amWorkloadLabel
<1>3. /\ target(b).kind = a.kind /\ target(b).cluster = clusterFor(a.labels)
      /\ target(b).ns = a.labels.namespace /\ target(b).identity = identityOf(a)
      /\ target(b).workload = amWorkloadLabel(a)
      /\ target(b).severity \in {a.severity, "critical"}
  BY <1>1, <1>2 DEF target
<1>4. /\ fingerprint(a).kind = a.kind /\ fingerprint(a).cluster = a.cluster
      /\ fingerprint(a).ns = a.namespace /\ fingerprint(a).workload = a.workload
      /\ fingerprint(a).severity = a.severity
  BY DEF fingerprint
<1>5. About(target(b), fingerprint(a))
  BY <1>3, <1>4 DEF About, Named
<1>6. QED
  BY <1>5 DEF b

\* A delivery about an alert's fingerprint covers the alert.
LEMMA AboutCovers ==
    ASSUME NEW a, Named(a), NEW x, About(x, fingerprint(a))
    PROVE  Covers(x, target(a))
<1>1. /\ target(a).kind = a.kind /\ target(a).cluster = clusterFor(a.labels)
      /\ target(a).ns = a.labels.namespace /\ target(a).identity = identityOf(a)
      /\ target(a).workload = amWorkloadLabel(a) /\ target(a).severity = a.severity
  BY DEF target
<1>2. /\ fingerprint(a).kind = a.kind /\ fingerprint(a).cluster = a.cluster
      /\ fingerprint(a).ns = a.namespace /\ fingerprint(a).workload = a.workload
      /\ fingerprint(a).severity = a.severity
  BY DEF fingerprint
<1>3. QED
  BY <1>1, <1>2 DEF About, Named, Covers

LEMMA ElapsedTold ==
    ASSUME NEW f, NEW t \in Nat, t > 1, NEW d, Countdown(d, Target), Told(f, t, d)
    PROVE  Told(f, t - 1, Elapsed(d))
<1>1. PICK x \in DOMAIN d : About(x, f) /\ d[x] >= t
  BY DEF Told
<1>2. d[x] \in Nat
  BY TimeAssumption DEF Countdown
<1>3. x \in DOMAIN Elapsed(d) /\ Elapsed(d)[x] = d[x] - 1
  BY <1>1, <1>2 DEF Elapsed
<1>4. Elapsed(d)[x] >= t - 1
  BY <1>1, <1>2, <1>3
<1>5. QED
  BY <1>1, <1>3, <1>4 DEF Told

LEMMA StartedTold ==
    ASSUME NEW f, NEW t \in Nat, t <= Cooldown, NEW d, Told(f, t, d), NEW y
    PROVE  Told(f, t, Started(d, y))
<1>1. PICK x \in DOMAIN d : About(x, f) /\ d[x] >= t
  BY DEF Told
<1>2. x \in DOMAIN Started(d, y) /\ Started(d, y)[x] >= t
  BY <1>1, TimeAssumption DEF Started
<1>3. QED
  BY <1>1, <1>2 DEF Told

LEMMA JustTold ==
    ASSUME NEW f, NEW t \in Nat, t <= Cooldown, NEW d, NEW x, About(x, f)
    PROVE  Told(f, t, Started(d, x))
<1>1. x \in DOMAIN Started(d, x) /\ Started(d, x)[x] >= t
  BY TimeAssumption DEF Started
<1>2. QED
  BY <1>1 DEF Told

\* Groups are made under their first label set's key and keep both.
LEMMA KeyedStep ==
    ASSUME TypeOK, GroupsKeyed, [Next]_vars
    PROVE  GroupsKeyed'
<1>1. ASSUME \A k \in DOMAIN pending' :
                k \in DOMAIN pending /\ pending'[k].first = pending[k].first
      PROVE  GroupsKeyed'
  BY <1>1 DEF GroupsKeyed
<1>2. CASE AddSome
  <2>1. PICK a \in Anomaly : Add(a)
    BY <1>2, AddSomeIsFresh DEF TypeOK
  <2> DEFINE key == workloadKey(a.labels)
  <2>2. /\ DOMAIN pending' = DOMAIN pending \cup {key}
        /\ \A k \in DOMAIN pending : k # key => pending'[k] = pending[k]
    BY <2>1 DEF Add
  <2>3. workloadKey(pending'[key].first) = key
    <3>1. CASE key \in DOMAIN pending
      <4>1. pending'[key] = [pending[key] EXCEPT !.members = @ \cup {a}]
        BY <2>1, <3>1 DEF Add
      <4>2. pending[key] \in Group
        BY <3>1 DEF TypeOK
      <4>3. pending'[key].first = pending[key].first
        BY <4>1, <4>2 DEF Group
      <4>4. QED
        BY <3>1, <4>3 DEF GroupsKeyed
    <3>2. CASE key \notin DOMAIN pending
      <4>1. pending'[key].first = a.labels
        BY <2>1, <3>2 DEF Add
      <4>2. QED
        BY <4>1
    <3>3. QED
      BY <3>1, <3>2
  <2> HIDE DEF key
  <2>4. QED
    BY <2>2, <2>3 DEF GroupsKeyed
<1>3. CASE Flush
  BY <1>1, <1>3 DEF Flush
<1>4. CASE Tick
  <2>1. ASSUME NEW k \in DOMAIN pending
        PROVE  pending'[k].first = pending[k].first
    BY <1>4 DEF Tick, TypeOK, Group
  <2>2. DOMAIN pending' = DOMAIN pending
    BY <1>4 DEF Tick
  <2>3. QED
    BY <1>1, <2>1, <2>2
<1>5. CASE Restart
  BY <1>1, <1>5 DEF Restart, Nothing
<1>6. CASE \/ StartCycle \/ CycleAborted \/ JobsProcessed \/ Finalized \/ EndCycle
           \/ \E a \in batch : DedupHit(a) \/ DedupMiss(a)
           \/ \E a \in checking : DedupSet(a)
           \/ \E a \in out : Dispatch(a)
           \/ UNCHANGED vars
  <2>1. pending' = pending
    BY <1>6 DEF StartCycle, CycleAborted, JobsProcessed, Finalized, EndCycle,
                DedupHit, DedupMiss, DedupSet, Dispatch, vars
  <2>2. QED
    BY <1>1, <2>1
<1>7. QED
  BY <1>2, <1>3, <1>4, <1>5, <1>6 DEF Next

\* Only Flush brings alerts, and then no other is in flight.
LEMMA ApartStep ==
    ASSUME PodsNameGroups, TypeOK, OneBatch, GroupsKeyed, AlertsApart, [Next]_vars
    PROVE  AlertsApart'
<1>1. ASSUME InFlight' \subseteq InFlight PROVE AlertsApart'
  BY <1>1 DEF AlertsApart
<1>2. CASE Flush
  <2> DEFINE gs == [k \in Ready |-> pending[k]]
  <2>1. Ready \subseteq DOMAIN pending /\ DOMAIN gs = Ready
    BY DEF Ready
  <2>2. PICK rep \in Representatives(gs) : InFlight' = correlate(gs, rep)
    BY <1>2 DEF Flush, Correlated, OneBatch, InFlight
  <2>3. gs \in [DOMAIN gs -> Group]
    BY <2>1 DEF TypeOK
  <2>4. \A k \in DOMAIN gs : workloadKey(gs[k].first) = k
    BY <2>1 DEF GroupsKeyed
  <2> HIDE DEF gs
  <2>5. \A a, b \in correlate(gs, rep) : fingerprint(a) = fingerprint(b) => a = b
    BY <2>3, <2>4, CorrelateApart
  <2>6. \A a \in correlate(gs, rep) : Named(a)
    BY <2>3, CorrelateNames
  <2>7. QED
    BY <2>2, <2>5, <2>6 DEF AlertsApart
<1>3. CASE StartCycle \/ CycleAborted \/ JobsProcessed \/ Finalized \/ EndCycle \/ Tick
  BY <1>1, <1>3 DEF StartCycle, CycleAborted, JobsProcessed, Finalized, EndCycle, Tick, InFlight
<1>4. CASE AddSome
  BY <1>1, <1>4 DEF AddSome, Add, InFlight
<1>5. ASSUME NEW a \in batch, DedupHit(a) \/ DedupMiss(a)
      PROVE  AlertsApart'
  BY <1>1, <1>5 DEF DedupHit, DedupMiss, Takes, InFlight
<1>6. ASSUME NEW a \in checking, DedupSet(a)
      PROVE  AlertsApart'
  BY <1>1, <1>6 DEF DedupSet, InFlight
<1>7. ASSUME NEW a \in out, Dispatch(a)
      PROVE  AlertsApart'
  <2>1. out' \subseteq out /\ UNCHANGED <<batch, checking>>
    BY <1>7 DEF Dispatch
  <2>2. QED
    BY <1>1, <2>1 DEF InFlight
<1>8. CASE Restart \/ UNCHANGED vars
  BY <1>1, <1>8 DEF Restart, vars, InFlight
<1>9. QED
  BY <1>2, <1>3, <1>4, <1>5, <1>6, <1>7, <1>8 DEF Next

\* Entries and deliveries run out together, and an alert leaves out by being sent.
LEMMA ToldStep ==
    ASSUME SendFaults = FALSE, DryRun = FALSE, Restarts = FALSE,
           TypeOK, AlertsApart, EntriesTold, [Next]_vars
    PROVE  EntriesTold'
<1>1. ASSUME UNCHANGED <<out, ttl, delivered>> PROVE EntriesTold'
  BY <1>1 DEF EntriesTold
<1>2. \A f \in DOMAIN ttl : ttl[f] \in Nat /\ ttl[f] <= Cooldown
  BY TimeAssumption DEF TypeOK, Countdown
<1>3. CASE \/ StartCycle \/ CycleAborted \/ JobsProcessed \/ AddSome \/ Flush
           \/ Finalized \/ EndCycle
           \/ \E a \in batch : DedupHit(a) \/ DedupMiss(a)
           \/ UNCHANGED vars
  <2>1. UNCHANGED <<out, ttl, delivered>>
    BY <1>3 DEF StartCycle, CycleAborted, JobsProcessed, AddSome, Add, Flush,
                Finalized, EndCycle, DedupHit, DedupMiss, history, vars
  <2>2. QED
    BY <1>1, <2>1
<1>4. ASSUME NEW a \in checking, DedupSet(a)
      PROVE  EntriesTold'
  <2>1. /\ out' = out \cup {a} /\ delivered' = delivered
        /\ ttl' = Started(ttl, fingerprint(a)) \/ ttl' = ttl
    BY <1>4 DEF DedupSet
  <2>2. ASSUME NEW f \in DOMAIN ttl', f # fingerprint(a)
        PROVE  f \in DOMAIN ttl /\ ttl'[f] = ttl[f]
    BY <2>1, <2>2 DEF Started
  <2>3. QED
    BY <2>1, <2>2 DEF EntriesTold
<1>5. ASSUME NEW a \in out, Dispatch(a)
      PROVE  EntriesTold'
  <2>1. PICK confirmed \in {FALSE, MLEnabled} :
           delivered' = Started(delivered, target(escalate(a, confirmed)))
    BY <1>5 DEF Dispatch
  <2>2. out' = out \ {a} /\ ttl' = ttl
    BY <1>5 DEF Dispatch
  <2>3. a \in Alert /\ Named(a)
    BY DEF TypeOK, AlertsApart, InFlight
  <2>4. About(target(escalate(a, confirmed)), fingerprint(a))
    BY <2>3, SentIsAbout, FlagAssumption
  <2>5. ASSUME NEW f \in DOMAIN ttl
        PROVE  (\E b \in out' : fingerprint(b) = f) \/ Told(f, ttl[f], delivered')
    <3>1. CASE f = fingerprint(a)
      BY <1>2, <2>1, <2>4, <3>1, JustTold
    <3>2. CASE f # fingerprint(a)
      <4>1. CASE \E b \in out : fingerprint(b) = f
        BY <2>2, <3>2, <4>1
      <4>2. CASE Told(f, ttl[f], delivered)
        BY <1>2, <2>1, <4>2, StartedTold
      <4>3. QED
        BY <4>1, <4>2 DEF EntriesTold
    <3>3. QED
      BY <3>1, <3>2
  <2>6. QED
    BY <2>2, <2>5 DEF EntriesTold
<1>6. CASE Restart
  BY <1>6 DEF Restart
<1>7. CASE Tick
  <2>1. out' = out /\ ttl' = Elapsed(ttl) /\ delivered' = Elapsed(delivered)
    BY <1>7 DEF Tick
  <2>2. ASSUME NEW f \in DOMAIN Elapsed(ttl), Told(f, ttl[f], delivered)
        PROVE  Told(f, Elapsed(ttl)[f], Elapsed(delivered))
    <3>1. f \in DOMAIN ttl /\ ttl[f] > 1 /\ Elapsed(ttl)[f] = ttl[f] - 1
      BY DEF Elapsed
    <3>2. QED
      BY <1>2, <2>2, <3>1, ElapsedTold DEF TypeOK
  <2>3. DOMAIN Elapsed(ttl) \subseteq DOMAIN ttl
    BY DEF Elapsed
  <2>4. QED
    BY <2>1, <2>2, <2>3 DEF EntriesTold
<1>8. QED
  BY <1>3, <1>4, <1>5, <1>6, <1>7 DEF Next

LEMMA DropFollows ==
    ASSUME TypeOK, OneBatch, DropInv, NEW a \in batch, DedupHit(a)
    PROVE  \E d \in DOMAIN delivered : Covers(d, target(a))
<1> DEFINE f == fingerprint(a)
<1>1. f \in DOMAIN ttl
  BY DEF DedupHit
<1>2. \A b \in out : fingerprint(b) # f
  BY DEF DropInv, AlertsApart, InFlight, OneBatch
<1>3. PICK d \in DOMAIN delivered : About(d, f)
  BY <1>1, <1>2 DEF DropInv, EntriesTold, Told
<1>4. Named(a)
  BY DEF DropInv, AlertsApart, InFlight
<1>5. QED
  BY <1>3, <1>4, AboutCovers

\* When every POST arrives, the process lives, no series names a service without a
\* pod and no cluster is called "unknown", an alert is dropped as a duplicate only
\* after its receiver was told, within the cooldown, of the same pod or workload of
\* the same cluster and namespace, as severe or worse, whatever Redis does.
THEOREM DropsAreJustified ==
    ASSUME SendFaults = FALSE, DryRun = FALSE, Restarts = FALSE, PodsNameGroups
    PROVE  Spec => DropJustified
<1>1. Init => OneBatch /\ DropInv
  BY DEF Init, OneBatch, DropInv, GroupsKeyed, AlertsApart, EntriesTold, InFlight, Nothing
<1>2. TypeOK /\ OneBatch /\ DropInv /\ [Next]_vars => OneBatch' /\ DropInv'
  BY OneBatchStep, KeyedStep, ApartStep, ToldStep DEF DropInv
<1>3. TypeOK /\ OneBatch /\ DropInv /\ [Next]_vars =>
         [\A a \in batch : DedupHit(a) =>
             \E d \in DOMAIN delivered : Covers(d, target(a))]_vars
  BY DropFollows
<1>4. QED
  BY <1>1, <1>2, <1>3, TypeCorrect, PTL DEF Spec, DropJustified
=============================================================================
