------------------------------ MODULE Grouping ------------------------------
(***************************************************************************)
(* The pure part of the correlator                                         *)
(* (controller/internal/correlation/correlator.go): how anomalies are      *)
(* grouped, how ready groups become alerts, and what identifies an alert   *)
(* to the deduplication store and to the people who receive it.            *)
(*                                                                         *)
(* A label set is a record of the four labels the correlator reads; a      *)
(* label the series does not carry is the empty string, as in the code.    *)
(* Keys that the code builds by joining label values with "/" are tuples.  *)
(***************************************************************************)
EXTENDS Naturals, FiniteSets

CONSTANTS
    Labels,          \* label sets: [cluster, namespace, pod, service_name]
    Origins,         \* [signal, detector]: where an anomaly was seen, and by what
    Ids,             \* occurrences; their number bounds the anomalies of a run
    ExtractWorkload, \* pod name -> workload name; a bare pod maps to itself
    WorkloadMinPods, \* configured threshold for a workload pattern
    ClusterName      \* the controller's own cluster, told of alerts without one

\* The strings that occur as names, the two that the code itself writes included.
Names == STRING \cup {"", "unknown"}

LabelSet == [cluster : Names, namespace : Names, pod : Names, service_name : Names]

ASSUME LabelsAssumption == Labels \subseteq LabelSet
ASSUME OriginsAssumption == Origins \subseteq [signal : Names, detector : Names]
ASSUME ClusterAssumption == ClusterName \in Names
ASSUME WorkloadAssumption == ExtractWorkload \in [{l.pod : l \in Labels} -> Names]
ASSUME MinPodsAssumption == WorkloadMinPods \in Nat

Severities == {"warning", "critical"}

\* One detected anomaly, reduced to what the correlator looks at.
Anomaly == [id : Ids, labels : Labels, origin : Origins, severity : Severities]

\* NewCorrelator replaces a threshold below two by its default of three.
workloadMinPods == IF WorkloadMinPods < 2 THEN 3 ELSE WorkloadMinPods

clusterOrUnknown(l) == IF l.cluster # "" THEN l.cluster ELSE "unknown"

\* The pending group an anomaly with labels l joins.
workloadKey(l) ==
    LET id == IF l.pod # "" THEN l.pod ELSE l.service_name
    IN  IF l.namespace = "" /\ id = ""
        THEN <<"_unknown_">>
        ELSE <<clusterOrUnknown(l), l.namespace, id>>

Keys == {workloadKey(l) : l \in Labels}

-----------------------------------------------------------------------------
(* Workload patterns. gs maps the keys of the ready groups to the groups.  *)

\* Only groups of a pod whose name reveals its workload can be collapsed.
Eligible(g) ==
    /\ g.first.namespace # ""
    /\ g.first.pod # ""
    /\ ExtractWorkload[g.first.pod] # g.first.pod

wlKey(g) == <<clusterOrUnknown(g.first), g.first.namespace, ExtractWorkload[g.first.pod]>>

Siblings(gs, w) == {k \in DOMAIN gs : Eligible(gs[k]) /\ wlKey(gs[k]) = w}

Pods(gs, w) == {gs[k].first.pod : k \in Siblings(gs, w)}

\* Faulty variant: the threshold must be exceeded.
PatternsAbove(gs) ==
    {w \in {wlKey(gs[k]) : k \in {j \in DOMAIN gs : Eligible(gs[j])}} :
        Cardinality(Pods(gs, w)) > workloadMinPods}

\* The workloads with enough distinct anomalous pods among the ready groups.
Patterns(gs) ==
    {w \in {wlKey(gs[k]) : k \in {j \in DOMAIN gs : Eligible(gs[j])}} :
        Cardinality(Pods(gs, w)) >= workloadMinPods}

\* Keys of the pod groups absorbed by some workload alert.
Suppressed(gs) == UNION {Siblings(gs, w) : w \in Patterns(gs)}

\* Faulty variant: no default severity.
MaxSeverityNoDefault(as) == IF \E a \in as : a.severity = "critical" THEN "critical" ELSE ""

MaxSeverity(as) ==
    IF \E a \in as : a.severity = "critical" THEN "critical" ELSE "warning"

SeveralSignals(as) == \E a, b \in as : a.origin.signal # b.origin.signal

\* The siblings are gathered by iterating over a map, in any order: the first
\* anomaly of whichever group comes first represents its workload.
Representatives(gs) ==
    {rep \in [Patterns(gs) -> DOMAIN gs] : \A w \in Patterns(gs) : rep[w] \in Siblings(gs, w)}

\* The single alert of a workload pattern, represented by the group with key r.
\* Several signals do not escalate it. members is bookkeeping of the model: the
\* anomalies the alert stands for.
workloadAlert(gs, w, r) ==
    LET as == UNION {gs[k].members : k \in Siblings(gs, w)}
        first == gs[r].first
    IN  [kind      |-> "workload",
         cluster   |-> w[1],
         namespace |-> w[2],
         workload  |-> w[3],
         severity  |-> MaxSeverity(as),
         labels    |-> [cluster |-> first.cluster, namespace |-> first.namespace,
                        pod |-> "", service_name |-> first.service_name],
         origin    |-> gs[r].origin,
         members   |-> as]

\* The alert of a group that no pattern absorbed: two signals make it critical.
\* Its workload field is the pod label, empty for a service-level group.
buildPodAlert(g) ==
    [kind      |-> "pod",
     cluster   |-> clusterOrUnknown(g.first),
     namespace |-> g.first.namespace,
     workload  |-> g.first.pod,
     severity  |-> IF SeveralSignals(g.members) THEN "critical" ELSE MaxSeverity(g.members),
     labels    |-> g.first,
     origin    |-> g.origin,
     members   |-> g.members]

\* What Flush hands to finalize for the ready groups gs.
correlate(gs, rep) ==
    {workloadAlert(gs, w, rep[w]) : w \in Patterns(gs)}
        \cup {buildPodAlert(gs[k]) : k \in DOMAIN gs \ Suppressed(gs)}

\* Faulty variant: alerts of different clusters share a deduplication key.
fingerprintNoCluster(a) ==
    [kind |-> a.kind, cluster |-> "unknown", ns |-> a.namespace,
     workload |-> a.workload, severity |-> a.severity]

\* The key of the deduplication entry: a hash of these five fields (its 64
\* bits are taken to be collision free).
fingerprint(a) ==
    [kind |-> a.kind, cluster |-> a.cluster, ns |-> a.namespace,
     workload |-> a.workload, severity |-> a.severity]

\* What the dispatcher's summary calls the alert's subject.
identityOf(a) ==
    IF a.kind = "workload" THEN a.workload
    ELSE IF a.labels.pod # "" THEN a.labels.pod
    ELSE IF a.labels.service_name # "" THEN a.labels.service_name
    ELSE a.workload

\* The label "workload": bounded, where the identity may be a pod's name.
amWorkloadLabel(a) ==
    IF a.kind = "workload" THEN a.workload
    ELSE IF a.labels.pod # ""
         THEN IF ExtractWorkload[a.labels.pod] # "" THEN ExtractWorkload[a.labels.pod]
              ELSE a.labels.pod
    ELSE IF a.labels.service_name # "" THEN a.labels.service_name
    ELSE a.workload

clusterFor(l) == IF l.cluster # "" THEN l.cluster ELSE ClusterName

\* The alert as its receiver is told it: the labels by which Alertmanager tells
\* alerts apart, and the identity, an annotation. The labels that record how the
\* alert was judged (enriched, ml_confirmed, workload_pattern) are left out.
target(a) ==
    [kind |-> a.kind, cluster |-> clusterFor(a.labels), ns |-> a.labels.namespace,
     identity |-> identityOf(a), workload |-> amWorkloadLabel(a), severity |-> a.severity,
     signal |-> a.origin.signal, detector |-> a.origin.detector]

\* An alert told as d says of t's subject what t would, at least as urgently;
\* another signal may have shown it, and another detector.
Covers(d, t) ==
    /\ d.kind = t.kind /\ d.cluster = t.cluster /\ d.ns = t.ns
    /\ d.identity = t.identity /\ d.workload = t.workload
    /\ d.severity \in {t.severity, "critical"}
=============================================================================
