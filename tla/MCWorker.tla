------------------------------ MODULE MCWorker ------------------------------
(***************************************************************************)
(* Instances of Worker: a static and an adaptive rule with one query, a    *)
(* rate and a match pattern, a noisy workload and a namespace without      *)
(* static rules.                                                           *)
(***************************************************************************)
EXTENDS Worker, TLC

MCKafka == [namespace |-> "prod", workload |-> "kafka"]
MCBuild == [namespace |-> "tools", workload |-> "build"]

MCStaticRules == <<[query |-> "cpu"]>>
MCAdaptiveMetrics == <<[query |-> "cpu"]>>
MCLogPatterns == <<[query |-> "panics", type |-> "pattern_match"],
                   [query |-> "errors", type |-> "rate"]>>
MCSnapshots == {MCKafka :> "high" @@ MCBuild :> "high", MCKafka :> "low"}
=============================================================================
