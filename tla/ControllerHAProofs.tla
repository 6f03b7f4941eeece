------------------------- MODULE ControllerHAProofs -------------------------
(***************************************************************************)
(* What holds of ControllerHA for any number of replicas and any timings   *)
(* that leave a leader no more time than the lease has: one leader that    *)
(* has not given up, and through it the cooldown outside handovers.  The   *)
(* timings are an assumption of the theorems and not of the module:        *)
(* leader.Run accepts configurations without it.                           *)
(***************************************************************************)
EXTENDS ControllerHA, TLAPS

\* A leader gives up before its lease runs out: the last renewal, answered late,
\* the pause after it and the failing retries.
SafeLease == RetryPeriod + RenewDeadline + Latency < LeaseDuration

\* While a replica leads the lease is its own, and the lease's age and the time
\* the replica has left do not exceed what SafeLease allows.
ReignInv ==
    \A r \in Replicas : st[r] = "leading" =>
        /\ lease.holder = r
        /\ lease.age + patience[r] <= Reign + Latency

\* Work is under way only under a live context, and an alert found not to be a
\* duplicate still is none, unless another passed during a handover.
StepInv ==
    \A r \in Replicas :
        /\ step[r] # "idle" => Live(r)
        /\ step[r] = "checked" => ttl = 0 \/ r \in overtaken

HAInv == TypeOK /\ ReignInv /\ StepInv

LEMMA ReignNat == Reign \in Nat /\ Latency \in Nat /\ LeaseDuration \in Nat
BY TimesAssumption DEF Reign

\* The invariant leaves room for one leader only.
LEMMA OneLeads == ReignInv => SoleLeader
BY DEF ReignInv, SoleLeader

\* A lease that a candidate may take has no leader behind it.
LEMMA NobodyLeads ==
    ASSUME SafeLease, TypeOK, ReignInv, NEW r \in Replicas, MayAcquire(r),
           st[r] = "candidate", NEW q \in Replicas
    PROVE  st[q] # "leading"
<1> SUFFICES ASSUME st[q] = "leading" PROVE FALSE
  OBVIOUS
<1>1. lease.holder = q /\ lease.age + patience[q] <= Reign + Latency
  BY DEF ReignInv
<1>2. lease.age \in Nat /\ patience[q] \in Nat
  BY ReignNat DEF TypeOK, Lease
<1>3. lease.age < LeaseDuration
  BY <1>1, <1>2, ReignNat, TimesAssumption DEF SafeLease, Reign
<1>4. q # r
  OBVIOUS
<1>5. QED
  BY <1>1, <1>2, <1>3, <1>4, NoneAssumption, ReignNat DEF MayAcquire

\* Every step keeps the values in their types.
LEMMA TypeStep == TypeOK /\ [Next]_vars => TypeOK'
<1> SUFFICES ASSUME TypeOK, [Next]_vars
             PROVE  TypeOK'
  OBVIOUS
<1>0. Reign \in Nat /\ LeaseDuration \in Nat /\ \A d \in 0 .. Latency : Reign + d \in Nat /\ d \in Nat
  BY ReignNat
<1>f. Free \in Lease /\ \A r \in Replicas : Held(r) \in Lease
  BY ReignNat DEF Free, Held, Lease
<1> USE DEF TypeOK
<1>1. ASSUME NEW r \in Replicas, Acquire(r) \/ Renew(r)
      PROVE  TypeOK'
  BY <1>0, <1>f, <1>1 DEF Acquire, Renew, history, States
<1>2. ASSUME NEW r \in Replicas, GiveUp(r) \/ Release(r)
      PROVE  TypeOK'
  BY <1>0, <1>f, <1>2 DEF GiveUp, Release, history, States
<1>3. ASSUME NEW r \in Replicas, Shutdown(r) \/ Exit(r) \/ Crash(r) \/ Start(r)
      PROVE  TypeOK'
  BY <1>3 DEF Shutdown, Exit, Crash, Start, history, States, Steps
<1>4. ASSUME NEW r \in Replicas, Check(r) \/ Mark(r) \/ Send(r)
      PROVE  TypeOK'
  BY <1>4, CooldownAssumption DEF Check, Mark, Send, history, Steps
<1>5. CASE Tick
  <2>1. lease' \in Lease
    BY <1>0, <1>5 DEF Tick, Lease
  <2>2. patience' \in [Replicas -> Nat] /\ ttl' \in 0 .. Cooldown
    BY <1>5, CooldownAssumption DEF Tick
  <2>3. QED
    BY <1>5, <2>1, <2>2 DEF Tick, history
<1>6. CASE Calm
  BY <1>6 DEF Calm, history
<1>7. CASE UNCHANGED vars
  BY <1>7 DEF vars
<1>8. QED
  BY <1>1, <1>2, <1>3, <1>4, <1>5, <1>6, <1>7 DEF Next

\* Every step keeps a leader within its reign.
LEMMA ReignStep ==
    ASSUME SafeLease, TypeOK, ReignInv, [Next]_vars
    PROVE  ReignInv'
<1>0. /\ Reign \in Nat /\ Latency \in Nat /\ LeaseDuration \in Nat
      /\ lease.age \in Nat /\ \A q \in Replicas : patience[q] \in Nat
  BY ReignNat DEF TypeOK, Lease
<1>1. ASSUME NEW r \in Replicas, Acquire(r) PROVE ReignInv'
  <2>1. \A q \in Replicas : st[q] # "leading"
    BY <1>1, NobodyLeads DEF Acquire
  <2>2. CASE UNCHANGED <<st, patience>>
    BY <2>1, <2>2 DEF ReignInv
  <2>3. CASE /\ st' = [st EXCEPT ![r] = "leading"]
             /\ \E d \in 0 .. Latency : patience' = [patience EXCEPT ![r] = Reign + d]
    <3>1. PICK d \in 0 .. Latency : patience' = [patience EXCEPT ![r] = Reign + d]
      BY <2>3
    <3>2. \A q \in Replicas : st'[q] = "leading" => q = r
      BY <2>1, <2>3 DEF TypeOK
    <3>3. patience'[r] = Reign + d /\ lease' = Held(r)
      BY <1>1, <3>1 DEF TypeOK, Acquire
    <3>4. QED
      BY <1>0, <3>2, <3>3 DEF ReignInv, Held
  <2>4. QED
    BY <1>1, <2>2, <2>3 DEF Acquire
<1>2. ASSUME NEW r \in Replicas, Renew(r) PROVE ReignInv'
  <2>1. \A q \in Replicas : st'[q] = "leading" => q = r
    BY <1>2 DEF Renew, ReignInv
  <2>2. lease' = Held(r) /\ UNCHANGED st
    BY <1>2 DEF Renew
  <2>3. patience'[r] \in Nat /\ patience'[r] <= Reign + Latency
    <3>1. CASE UNCHANGED patience
      BY <1>0, <1>2, <3>1 DEF Renew, ReignInv
    <3>2. CASE \E d \in 0 .. Latency : patience' = [patience EXCEPT ![r] = Reign + d]
      BY <1>0, <3>2 DEF TypeOK
    <3>3. QED
      BY <1>2, <3>1, <3>2 DEF Renew
  <2>4. QED
    BY <1>0, <2>1, <2>2, <2>3 DEF ReignInv, Held
<1>3. ASSUME NEW r \in Replicas, Release(r) PROVE ReignInv'
  <2>1. st[r] # "leading" /\ lease.holder = r
    BY <1>3 DEF Release
  <2>2. \A q \in Replicas : st[q] # "leading"
    BY <2>1 DEF ReignInv
  <2>3. QED
    BY <1>3, <2>2 DEF Release, ReignInv
<1>4. ASSUME NEW r \in Replicas,
             GiveUp(r) \/ Shutdown(r) \/ Exit(r) \/ Crash(r) \/ Start(r)
      PROVE  ReignInv'
  <2>1. \A q \in Replicas : st'[q] = "leading" => st[q] = "leading"
    BY <1>4 DEF GiveUp, Shutdown, Exit, Crash, Start, TypeOK
  <2>2. UNCHANGED <<lease, patience>>
    BY <1>4 DEF GiveUp, Shutdown, Exit, Crash, Start
  <2>3. QED
    BY <2>1, <2>2 DEF ReignInv
<1>5. ASSUME NEW r \in Replicas, Check(r) \/ Mark(r) \/ Send(r) PROVE ReignInv'
  BY <1>5 DEF Check, Mark, Send, ReignInv
<1>6. CASE Tick
  <2>1. lease'.holder = lease.holder /\ lease'.age \in Nat /\ lease'.age <= lease.age + 1
    BY <1>0, <1>6 DEF Tick, TypeOK, Lease
  <2>2. ASSUME NEW r \in Replicas, st[r] = "leading"
        PROVE  patience'[r] = patience[r] - 1 /\ patience[r] > 0
    BY <1>6, <2>2 DEF Tick
  <2>3. UNCHANGED st
    BY <1>6 DEF Tick
  <2>4. QED
    BY <1>0, <2>1, <2>2, <2>3 DEF ReignInv
<1>7. CASE Calm \/ UNCHANGED vars
  BY <1>7 DEF Calm, vars, ReignInv
<1>8. QED
  BY <1>1, <1>2, <1>3, <1>4, <1>5, <1>6, <1>7 DEF Next

\* Every step keeps what has been checked true, or notes who was overtaken.
LEMMA StepStep ==
    ASSUME TypeOK, ReignInv, StepInv, [Next]_vars
    PROVE  StepInv'
<1>1. ASSUME NEW r \in Replicas, Acquire(r) \/ Renew(r) \/ GiveUp(r) \/ Release(r)
      PROVE  StepInv'
  BY <1>1 DEF Acquire, Renew, GiveUp, Release, history, StepInv, Live, TypeOK
<1>2. ASSUME NEW r \in Replicas, Shutdown(r) \/ Exit(r) \/ Crash(r)
      PROVE  StepInv'
  <2>1. UNCHANGED ttl /\ overtaken' = overtaken \ {r}
    BY <1>2 DEF Shutdown, Exit, Crash
  <2>2. \A q \in Replicas : q # r => st'[q] = st[q] /\ step'[q] = step[q]
    BY <1>2 DEF Shutdown, Exit, Crash, TypeOK
  <2>3. step'[r] = "idle"
    BY <1>2 DEF Shutdown, Exit, Crash, TypeOK
  <2>4. QED
    BY <2>1, <2>2, <2>3 DEF StepInv, Live
<1>3. ASSUME NEW r \in Replicas, Start(r) \/ Check(r) \/ Send(r)
      PROVE  StepInv'
  BY <1>3 DEF Start, Check, Send, history, StepInv, Live, TypeOK
<1>4. ASSUME NEW r \in Replicas, Mark(r)
      PROVE  StepInv'
  <2>1. \A q \in Replicas : q # r => step'[q] = step[q]
    BY <1>4 DEF Mark, TypeOK
  <2>2. step'[r] = "marked" /\ UNCHANGED st
    BY <1>4 DEF Mark, TypeOK
  <2>3. ASSUME NEW q \in Replicas, q # r, step[q] = "checked" PROVE q \in overtaken'
    <3>1. Live(q) /\ Live(r)
      BY <1>4, <2>3 DEF Mark, StepInv
    <3>2. "releasing" \in {st[r], st[q]}
      BY <2>3, <3>1, OneLeads DEF SoleLeader, Live
    <3>3. QED
      BY <1>4, <2>3, <3>2 DEF Mark, Overtakes
  <2>4. QED
    BY <1>4, <2>1, <2>2, <2>3 DEF Mark, StepInv, Live
<1>5. CASE Tick
  BY <1>5 DEF Tick, history, StepInv, Live
<1>6. CASE Calm \/ UNCHANGED vars
  BY <1>6 DEF Calm, history, vars, StepInv, Live
<1>7. QED
  BY <1>1, <1>2, <1>3, <1>4, <1>5, <1>6 DEF Next

\* The invariant holds from the start.
LEMMA InitInv == Init => HAInv
<1> SUFFICES ASSUME Init PROVE HAInv
  OBVIOUS
<1>1. lease \in Lease
  <2>1. 0 \in 0 .. LeaseDuration
    BY ReignNat
  <2>2. QED
    BY <2>1 DEF Init, Lease, Free
<1>2. TypeOK
  <2>1. 0 \in 0 .. Cooldown /\ 0 \in Nat
    BY CooldownAssumption
  <2>2. QED
    BY <1>1, <2>1 DEF Init, TypeOK, States, Steps
<1>3. ReignInv /\ StepInv
  BY DEF Init, ReignInv, StepInv
<1>4. QED
  BY <1>2, <1>3 DEF HAInv

\* The variables keep their types whatever the timings.
THEOREM TypeCorrect == Spec => []TypeOK
<1>1. Init => TypeOK
  BY InitInv DEF HAInv
<1>2. QED
  BY <1>1, TypeStep, PTL DEF Spec

\* Everything the other theorems rest on, under the timings of SafeLease.
THEOREM Invariance ==
    ASSUME SafeLease
    PROVE  Spec => []HAInv
<1>1. HAInv /\ [Next]_vars => HAInv'
  BY TypeStep, ReignStep, StepStep DEF HAInv
<1>2. QED
  BY <1>1, InitInv, PTL DEF Spec

\* No two replicas renew the lease and take themselves for the leader, however long
\* the release of one that gave up hangs, and whether or not it lands.
THEOREM OneLeader ==
    ASSUME SafeLease
    PROVE  Spec => []SoleLeader
<1>1. HAInv => SoleLeader
  BY OneLeads DEF HAInv
<1>2. QED
  BY <1>1, Invariance, PTL

\* Alerts for one incident are Cooldown apart across replicas, failovers and
\* crashes, unless one of them was checked before the other passed and one of their
\* replicas had given up: ControllerHA implements CooldownGate.
THEOREM GateImplemented ==
    ASSUME SafeLease
    PROVE  Spec => GateKept
<1>1. Init => Gate!Init
  BY DEF Init, Gate!Init
<1>2. HAInv /\ [Next]_vars => [Gate!LetThrough \/ Gate!Wait]_<<ttl, turn>>
  <2> SUFFICES ASSUME HAInv, [Next]_vars
               PROVE  Gate!LetThrough \/ Gate!Wait \/ UNCHANGED <<ttl, turn>>
    OBVIOUS
  <2>1. ASSUME NEW r \in Replicas, Mark(r) PROVE Gate!LetThrough
    BY <2>1 DEF HAInv, StepInv, Mark, Gate!LetThrough
  <2>2. CASE Tick
    BY <2>2, CooldownAssumption DEF HAInv, TypeOK, Tick, history, Gate!Wait
  <2>3. ASSUME NEW r \in Replicas,
               \/ Acquire(r) \/ Renew(r) \/ GiveUp(r) \/ Release(r)
               \/ Shutdown(r) \/ Exit(r) \/ Crash(r) \/ Start(r)
               \/ Check(r) \/ Send(r)
        PROVE  UNCHANGED <<ttl, turn>>
    BY <2>3 DEF Acquire, Renew, GiveUp, Release, Shutdown, Exit, Crash, Start, Check, Send,
                history
  <2>4. CASE Calm \/ UNCHANGED vars
    BY <2>4 DEF Calm, history, vars
  <2>5. QED
    BY <2>1, <2>2, <2>3, <2>4 DEF Next
<1>3. QED
  BY <1>1, <1>2, Invariance, PTL DEF Spec, GateKept, Gate!Spec
=============================================================================
