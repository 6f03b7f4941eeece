------------------------------ MODULE MCReplay ------------------------------
(***************************************************************************)
(* Instances of Replay: three adaptive metrics, one static rule and one    *)
(* log pattern over five ticks, with overlapping faults on the first       *)
(* metric, a silence on the second and a gap in the first one's points.    *)
(***************************************************************************)
EXTENDS Replay, TLC

MCCpu == <<"cpu", "a">>
MCLatency == <<"latency", "b">>
MCLimit == <<"limit", "c">>
MCPanics == <<"panics", "d">>

MCHistory == (MCCpu :> {2, 3, 4, 5}) @@ (MCLatency :> 2 .. 6)
             @@ (MCLimit :> {4}) @@ (MCPanics :> 2 .. 6)

MCInjections == <<
    [rule |-> "cpu", labels |-> {"a"}, type |-> "spike", start |-> 4, end |-> 5],
    [rule |-> "cpu", labels |-> {}, type |-> "ramp", start |-> 3, end |-> 4],
    [rule |-> "latency", labels |-> {}, type |-> "silence", start |-> 5, end |-> 5]>>

MCFromFlags == {[form |-> "ago", n |-> 5], [form |-> "at", n |-> 5], [form |-> "at", n |-> -1],
                [form |-> "ago", n |-> -1], [form |-> "empty", n |-> 0]}
MCToFlags == {[form |-> "empty", n |-> 0], [form |-> "at", n |-> 9], [form |-> "bad", n |-> 0]}

MCAdaptiveMetrics == <<"cpu", "latency", "errors">>
MCStaticRules == <<"limit">>
MCLogPatterns == <<"panics">>
MCNoisy == {MCPanics, MCLimit}
=============================================================================
