---------------------------- MODULE CooldownGate ----------------------------
(***************************************************************************)
(* What the deployment promises the people on call, whichever replica does *)
(* the work: two alerts with the same fingerprint are let through at least *)
(* Cooldown apart, unless leadership is being handed over.  turn changes   *)
(* with every alert let through, so that two in a row are two steps and    *)
(* not one and a stutter.                                                  *)
(***************************************************************************)
EXTENDS Naturals

CONSTANT Cooldown  \* the deduplication TTL

VARIABLES
    left,     \* time left before the next alert may pass
    turn,     \* parity of the number of alerts let through
    handover  \* is an alert on its way that was checked before another passed,
              \* by replicas of which one had given up? An input of the gate.

Init == left = 0 /\ turn = 0

LetThrough == (left = 0 \/ handover) /\ left' = Cooldown /\ turn' = 1 - turn

Wait == left > 0 /\ left' = left - 1 /\ UNCHANGED turn

Spec == Init /\ [][LetThrough \/ Wait]_<<left, turn>>
=============================================================================
