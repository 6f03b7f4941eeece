------------------------- MODULE MCControllerCycle --------------------------
(***************************************************************************)
(* Instances of ControllerCycle: one metric whose rule an operator turns   *)
(* from "bad when it falls" into "bad when it rises, with a floor", adding *)
(* a query to the bundle of pods, and an edit that combines the two rules  *)
(* in a way that must not load.  Two containers of one pod share a cached  *)
(* bundle, and one series has neither pod nor service.                     *)
(***************************************************************************)
EXTENDS ControllerCycle

Rule(direction, floor) == [name |-> "ready", direction |-> direction, min_value |-> floor]

Content(rules, concurrent, variables, queries) ==
    [parses |-> TRUE, variables |-> variables, rules |-> rules, podBundle |-> queries,
     serviceBundle |-> {"errors"}, maxConcurrent |-> concurrent]

MCContents ==
    {Content(<<Rule("down_bad", 0)>>, 0, {}, {"cpu"}),
     Content(<<Rule("up_bad", 2)>>, 1, {}, {"cpu", "logs"}),
     Content(<<Rule("down_bad", 2)>>, 1, {"URL"}, {"cpu"})}

Identity(pod, service, container) ==
    [namespace |-> "shop", pod |-> pod, service |-> service, container |-> container]

MCIdentities ==
    {Identity("web-0", "", "app"), Identity("web-0", "", "proxy"), Identity("", "cart", ""),
     Identity("", "", "")}
=============================================================================
