---------------------------- MODULE MCCorrelator ----------------------------
(* Small instances of Correlator. *)
EXTENDS Correlator

Pod(c, n, p) == [cluster |-> c, namespace |-> n, pod |-> p, service_name |-> ""]
Service(c, n, s) == [cluster |-> c, namespace |-> n, pod |-> "", service_name |-> s]

\* Two replicas of one workload, and a service that is named like the first: its
\* anomalies join the same group as that pod's.
MCMixed == {Pod("c1", "prod", "api-0"), Pod("c1", "prod", "api-1"),
            Service("c1", "prod", "api-0")}

\* One pod name in two clusters and in series that name none, and a sibling.
MCNamesakes == {Pod("c1", "prod", "api-0"), Pod("c2", "prod", "api-0"),
                Pod("", "prod", "api-0"), Pod("c1", "prod", "api-1")}

\* Two replicas of one workload.
MCReplicas == {Pod("c1", "prod", "api-0"), Pod("c1", "prod", "api-1")}

\* Two services of one namespace, whose series carry no pod.
MCServices == {Service("c1", "prod", "pay"), Service("c1", "prod", "cart")}

Origin(s, d) == [signal |-> s, detector |-> d]

MCStatic == {Origin("metrics", "static")}

\* A metric rule and a log-rate rule: their signals differ, and their detectors.
MCOrigins == MCStatic \cup {Origin("logs", "adaptive")}

\* A threshold and a baseline on metrics.
MCDetectors == MCStatic \cup {Origin("metrics", "adaptive")}

MCExtractWorkload ==
    [p \in {l.pod : l \in Labels} |-> IF p \in {"api-0", "api-1"} THEN "api" ELSE p]
=============================================================================
