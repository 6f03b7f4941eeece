---------------------------- MODULE ControllerHA ----------------------------
(***************************************************************************)
(* Several controller replicas behind one Kubernetes Lease                 *)
(* (controller/internal/leader/leader.go, cmd/controller/main.go), and one *)
(* incident that every cycle of every leader finds again: who may run      *)
(* detection cycles, and how often the incident is alerted through the     *)
(* deduplication entry that the replicas share in Redis.                   *)
(*                                                                         *)
(* The election itself is client-go's leaderelection, configured by Run    *)
(* with ReleaseOnCancel: it is external and modelled from that use.  Time  *)
(* is discrete; the lease's age saturates at LeaseDuration.                *)
(***************************************************************************)
EXTENDS Naturals, FiniteSets

CONSTANTS
    Replicas,       \* identities of the controller replicas
    None,           \* nobody holds the lease
    LeaseDuration,  \* a candidate takes over a lease this old
    RenewDeadline,  \* a leader retries a renewal this long
    RetryPeriod,    \* a leader waits this long between renewals
    Latency,        \* longest time from a call's effect to its answer
    Cooldown        \* time to live of the deduplication entry

ASSUME NoneAssumption == None \notin Replicas
ASSUME TimesAssumption ==
    {LeaseDuration, RenewDeadline, RetryPeriod, Latency} \subseteq Nat
ASSUME CooldownAssumption == Cooldown \in Nat \ {0}

\* leader.Run refuses a configuration that does not meet this.
ASSUME DeadlineAssumption == LeaseDuration > RenewDeadline

VARIABLES
    st,        \* replica -> what its process is doing
    patience,  \* replica -> time until a leader gives up by itself
    step,      \* replica -> where its cycle is with the incident's alert
    lease,     \* the Lease object: its holder and the time since its renewal
    ttl,       \* time left of the deduplication entry, 0 when there is none
    calm,      \* from here on no process dies and the API server answers
    \* history, read by the properties only:
    turn,      \* parity of the alerts let through
    overtaken  \* replicas past their check when another one marked, one of the
               \* two having given up

history == <<turn, overtaken>>
vars == <<st, patience, step, lease, ttl, calm, turn, overtaken>>

\* "releasing": renewing failed and client-go gives the lease back, with a call
\* that has no deadline and the callback's context still uncancelled.
\* "stopping": SIGTERM cancelled that context first.
States == {"down", "candidate", "leading", "releasing", "stopping"}
Steps == {"idle", "checked", "marked"}

\* Time from a renewal's answer to giving up: the pause and the failing retries.
Reign == RetryPeriod + RenewDeadline

\* Faulty variant: the cycle runs under a context that SIGTERM does not cancel.
LiveThroughout(r) == st[r] \in {"leading", "releasing", "stopping"}

\* The replicas whose OnStartedLeading callback runs under a live context: their
\* cycles reach Redis and Alertmanager.
Live(r) == st[r] \in {"leading", "releasing"}

Lease == [holder : Replicas \cup {None}, age : 0 .. LeaseDuration]
Held(r) == [holder |-> r, age |-> 0]

\* Faulty variant: a released lease has no holder field.
FreeBare == [age |-> 0]

Free == [holder |-> None, age |-> 0]

Init ==
    /\ st = [r \in Replicas |-> "candidate"]
    /\ patience = [r \in Replicas |-> 0]
    /\ step = [r \in Replicas |-> "idle"]
    /\ lease = Free
    /\ ttl = 0
    /\ calm = FALSE
    /\ turn = 0
    /\ overtaken = {}

\* Faulty variant: a lease is only taken from a holder that released it.
MayAcquireFree(r) == lease.holder \in {None, r}

\* Faulty variant: a candidate takes over after RenewDeadline.
MayAcquireEarly(r) == lease.holder \in {None, r} \/ lease.age >= RenewDeadline

\* The lease is free, or r's own from before a restart, or has run out.
MayAcquire(r) == lease.holder \in {None, r} \/ lease.age >= LeaseDuration

\* r takes the lease; the answer, up to Latency later, starts OnStartedLeading,
\* or is lost and r remains a candidate.
Acquire(r) ==
    /\ st[r] = "candidate"
    /\ MayAcquire(r)
    /\ lease' = Held(r)
    /\ \/ /\ st' = [st EXCEPT ![r] = "leading"]
          /\ \E d \in 0 .. Latency : patience' = [patience EXCEPT ![r] = Reign + d]
       \/ /\ ~calm
          /\ UNCHANGED <<st, patience>>
    /\ UNCHANGED <<step, ttl, calm, history>>

\* A renewal lands; its answer may be lost, and then the retries go on.
Renew(r) ==
    /\ st[r] = "leading"
    /\ lease.holder = r
    /\ lease' = Held(r)
    /\ \/ \E d \in 0 .. Latency : patience' = [patience EXCEPT ![r] = Reign + d]
       \/ ~calm /\ UNCHANGED patience
    /\ UNCHANGED <<st, step, ttl, calm, history>>

\* No renewal was answered in time: the renew loop ends, and the lease is
\* released before the context of OnStartedLeading is cancelled. However long
\* the API server is silent, the release waits for it.
GiveUp(r) ==
    /\ ~calm
    /\ st[r] = "leading"
    /\ patience[r] = 0
    /\ st' = [st EXCEPT ![r] = "releasing"]
    /\ UNCHANGED <<patience, step, lease, ttl, calm, history>>

\* The release lands, unless somebody else has the lease by now.
Release(r) ==
    /\ st[r] \in {"stopping", "releasing"}
    /\ lease.holder = r
    /\ lease' = Free
    /\ UNCHANGED <<st, patience, step, ttl, calm, history>>

\* SIGTERM: the context of a leader is cancelled, what its cycle was doing fails.
Shutdown(r) ==
    /\ ~calm
    /\ st[r] = "candidate" \/ Live(r)
    /\ st' = [st EXCEPT ![r] = IF Live(r) THEN "stopping" ELSE "down"]
    /\ step' = [step EXCEPT ![r] = "idle"]
    /\ overtaken' = overtaken \ {r}
    /\ UNCHANGED <<patience, lease, ttl, calm, turn>>

\* The release ends, whatever became of it; leader.Run returns, the context
\* cancelled, and with it main.
Exit(r) ==
    /\ st[r] \in {"releasing", "stopping"}
    /\ st' = [st EXCEPT ![r] = "down"]
    /\ step' = [step EXCEPT ![r] = "idle"]
    /\ overtaken' = overtaken \ {r}
    /\ UNCHANGED <<patience, lease, ttl, calm, turn>>

\* The process is killed.
Crash(r) ==
    /\ ~calm
    /\ st[r] # "down"
    /\ st' = [st EXCEPT ![r] = "down"]
    /\ step' = [step EXCEPT ![r] = "idle"]
    /\ overtaken' = overtaken \ {r}
    /\ UNCHANGED <<patience, lease, ttl, calm, turn>>

\* The container is started again, under the same identity.
Start(r) ==
    /\ st[r] = "down"
    /\ st' = [st EXCEPT ![r] = "candidate"]
    /\ UNCHANGED <<patience, step, lease, ttl, calm, history>>

-----------------------------------------------------------------------------
(* The cycle, for the alert of the incident. *)

\* finalize asks Redis and finds no entry. (With one it drops the alert.)
Check(r) ==
    /\ Live(r)
    /\ step[r] = "idle"
    /\ ttl = 0
    /\ step' = [step EXCEPT ![r] = "checked"]
    /\ UNCHANGED <<st, patience, lease, ttl, calm, history>>

\* r's mark makes q's check void, and one of the two is releasing.
Overtakes(r, q) == step[q] = "checked" /\ "releasing" \in {st[r], st[q]}

\* finalize sets the entry: the alert is let through.
Mark(r) ==
    /\ Live(r)
    /\ step[r] = "checked"
    /\ step' = [step EXCEPT ![r] = "marked"]
    /\ ttl' = Cooldown
    /\ turn' = 1 - turn
    /\ overtaken' = (overtaken \cup {q \in Replicas : Overtakes(r, q)}) \ {r}
    /\ UNCHANGED <<st, patience, lease, calm>>

\* runCycle dispatches it.
Send(r) ==
    /\ Live(r)
    /\ step[r] = "marked"
    /\ step' = [step EXCEPT ![r] = "idle"]
    /\ UNCHANGED <<st, patience, lease, ttl, calm, history>>

-----------------------------------------------------------------------------
\* Timers fire on time: a leader is not kept past its patience.
Tick ==
    /\ \A r \in Replicas : st[r] = "leading" => patience[r] > 0
    /\ patience' = [r \in Replicas |-> IF patience[r] > 0 THEN patience[r] - 1 ELSE 0]
    /\ lease' = [lease EXCEPT !.age = IF @ < LeaseDuration THEN @ + 1 ELSE @]
    /\ ttl' = IF ttl > 0 THEN ttl - 1 ELSE 0
    /\ UNCHANGED <<st, step, calm, history>>

Calm == ~calm /\ calm' = TRUE /\ UNCHANGED <<st, patience, step, lease, ttl, history>>

Next ==
    \/ \E r \in Replicas :
          \/ Acquire(r) \/ Renew(r) \/ GiveUp(r) \/ Release(r)
          \/ Shutdown(r) \/ Exit(r) \/ Crash(r) \/ Start(r)
          \/ Check(r) \/ Mark(r) \/ Send(r)
    \/ Tick \/ Calm

Spec == Init /\ [][Next]_vars

\* Fairness: time passes, a candidate keeps trying, a leader keeps renewing, the
\* cycle of a live leader goes on, and leader.Run returns once the API server
\* answers. Nothing is assumed of Start: a pod may be gone for good.
FairSpec ==
    /\ Spec
    /\ WF_vars(Tick)
    /\ \A r \in Replicas :
          /\ WF_vars(Acquire(r)) /\ WF_vars(Renew(r)) /\ WF_vars(calm /\ Exit(r))
          /\ WF_vars(Check(r)) /\ WF_vars(Mark(r)) /\ WF_vars(Send(r))

-----------------------------------------------------------------------------
(* Properties *)

TypeOK ==
    /\ st \in [Replicas -> States]
    /\ patience \in [Replicas -> Nat]
    /\ step \in [Replicas -> Steps]
    /\ lease \in Lease
    /\ ttl \in 0 .. Cooldown
    /\ calm \in BOOLEAN
    /\ turn \in {0, 1}
    /\ overtaken \subseteq Replicas

\* A follower takes over only when the former leader has given up, was stopped or
\* died: never while it still renews and takes itself for the leader.
SoleLeader == \A p, q \in Replicas : st[p] = "leading" /\ st[q] = "leading" => p = q

\* At most one replica runs detection cycles at any time: a follower takes over
\* only when the former leader's context is cancelled.
SingleWorker == \A p, q \in Replicas : Live(p) /\ Live(q) => p = q

\* Whoever leads, however leadership moves and whoever crashes, alerts for the
\* incident are let through at least Cooldown apart: the check of one replica and
\* the mark of another interleave only while one of them has given up and its
\* release is not answered.
Gate == INSTANCE CooldownGate WITH left <- ttl, handover <- overtaken # {}
GateKept == Gate!Spec

\* Once no process dies any more and the API server answers, the incident is
\* alerted again and again, as long as one replica is up: another takes over from
\* a leader that is gone for good, and no entry outlives its time.
AlertsGoOn ==
    <>[](calm /\ \E r \in Replicas : st[r] # "down")
        => []<><<\E r \in Replicas : Send(r)>>_vars
=============================================================================
