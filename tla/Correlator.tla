----------------------------- MODULE Correlator -----------------------------
(***************************************************************************)
(* One controller replica turning accepted anomalies into alerts: runCycle *)
(* (controller/cmd/controller/main.go), Correlator.Add, Flush and finalize *)
(* (internal/correlation/correlator.go) and Dispatcher.FireCorrelated      *)
(* (internal/alert/dispatcher.go), with the deduplication entries in Redis *)
(* and the restarts that lose what is only in memory.                      *)
(*                                                                         *)
(* Time is discrete. A group's age saturates at Window (the code only asks *)
(* whether it has reached it) and a Redis entry is kept with the time it   *)
(* has left, so that time needs no bound.                                  *)
(***************************************************************************)
EXTENDS Grouping

CONSTANTS
    Window,       \* age at which a pending group is flushed
    Cooldown,     \* time to live of a deduplication entry
    RedisFaults,  \* may Redis calls fail?
    SendFaults,   \* may a POST to Alertmanager fail?
    Restarts,     \* may the process die and be restarted?
    DryRun,       \* the dispatcher's dry-run flag
    MLEnabled     \* is the ML server consulted before an alert is fired?

ASSUME TimeAssumption == Window \in Nat /\ Cooldown \in Nat \ {0}
ASSUME FlagAssumption ==
    {RedisFaults, SendFaults, Restarts, DryRun, MLEnabled} \subseteq BOOLEAN

VARIABLES
    phase,     \* where runCycle is
    pending,   \* group key -> group, the correlator's map
    batch,     \* alerts of this cycle that finalize has not looked at yet
    checking,  \* the alert found not to be a duplicate, its entry not yet set
    out,       \* alerts finalize let through, not dispatched yet
    ttl,       \* deduplication key -> time left, the entries in Redis
    \* history, read by the properties only:
    accepted,  \* anomalies handed to Add since the beginning
    settled,   \* outcome -> anomalies whose alert met it
    passed,    \* deduplication key -> what is left of Cooldown since it passed
    delivered  \* target -> what is left of Cooldown since its delivery

local == <<phase, pending, batch, checking, out>>
history == <<accepted, settled, passed, delivered>>
vars == <<phase, pending, batch, checking, out, ttl,
          accepted, settled, passed, delivered>>

Phases == {"idle", "rpc", "add", "finalize", "dispatch"}
Outcomes == {"sent", "unsent", "failed", "duplicate", "lost"}

Group == [first : Labels, origin : Origins, members : SUBSET Anomaly, age : 0 .. Window]

\* The empty function: no groups, no entries.
Nothing == [x \in {} |-> 0]

Init ==
    /\ phase = "idle"
    /\ pending = Nothing
    /\ batch = {}
    /\ checking = {}
    /\ out = {}
    /\ ttl = Nothing
    /\ accepted = {}
    /\ settled = [o \in Outcomes |-> {}]
    /\ passed = Nothing
    /\ delivered = Nothing

\* The alerts of the current cycle, and where the accepted anomalies are.
InFlight == batch \cup checking \cup out

PendingAnomalies == UNION {pending[k].members : k \in DOMAIN pending}
FlightAnomalies == UNION {a.members : a \in InFlight}
SettledAnomalies == UNION {settled[o] : o \in Outcomes}

Settle(o, as) == settled' = [settled EXCEPT ![o] = @ \cup as]

\* f with x mapped to Cooldown.
Started(f, x) == [y \in DOMAIN f \cup {x} |-> IF y = x THEN Cooldown ELSE f[y]]

\* f after one unit of time: what has run out is gone.
Elapsed(f) == [y \in {z \in DOMAIN f : f[z] > 1} |-> f[y] - 1]

-----------------------------------------------------------------------------
\* The ticker fires; the batch of jobs goes to a worker.
StartCycle ==
    /\ phase = "idle"
    /\ phase' = "rpc"
    /\ UNCHANGED <<pending, batch, checking, out, ttl, history>>

\* ProcessJobs fails or times out, or there are no jobs: runCycle returns early
\* and this cycle flushes nothing.
CycleAborted ==
    /\ phase = "rpc"
    /\ phase' = "idle"
    /\ UNCHANGED <<pending, batch, checking, out, ttl, history>>

JobsProcessed ==
    /\ phase = "rpc"
    /\ phase' = "add"
    /\ UNCHANGED <<pending, batch, checking, out, ttl, history>>

\* Correlator.Add for one anomaly that the filters accepted.
Add(a) ==
    LET key == workloadKey(a.labels)
        grown == IF key \in DOMAIN pending
                 THEN [pending[key] EXCEPT !.members = @ \cup {a}]
                 ELSE [first |-> a.labels, origin |-> a.origin, members |-> {a}, age |-> 0]
    IN  /\ phase = "add"
        /\ pending' = [k \in DOMAIN pending \cup {key} |->
                          IF k = key THEN grown ELSE pending[k]]
        /\ accepted' = accepted \cup {a}
        /\ UNCHANGED <<phase, batch, checking, out, ttl, settled, passed, delivered>>

Fresh(i) == \A b \in accepted : b.id # i

\* The workers report some anomaly not seen before.
AddSome ==
    /\ \E i \in Ids : Fresh(i)
    /\ \E l \in Labels, o \in Origins, v \in Severities :
          Add([id |-> CHOOSE i \in Ids : Fresh(i), labels |-> l, origin |-> o, severity |-> v])

\* Faulty variant: a pod that is ripe waits for siblings before it is flushed.
ReadyTogether ==
    LET ripe == {k \in DOMAIN pending : pending[k].age >= Window}
    IN  IF Cardinality(ripe) < workloadMinPods THEN {} ELSE ripe

Ready == {k \in DOMAIN pending : pending[k].age >= Window}

\* What correlate may make of the groups gs.
Correlated(gs) == {correlate(gs, rep) : rep \in Representatives(gs)}

\* Faulty variant: the flushed groups stay in the map.
FlushKeeps ==
    /\ phase = "add"
    /\ phase' = "finalize"
    /\ batch' \in Correlated([k \in Ready |-> pending[k]])
    /\ UNCHANGED <<pending, checking, out, ttl, history>>

\* Correlator.Flush up to finalize: the ready groups leave the map together.
Flush ==
    /\ phase = "add"
    /\ phase' = "finalize"
    /\ batch' \in Correlated([k \in Ready |-> pending[k]])
    /\ pending' = [k \in DOMAIN pending \ Ready |-> pending[k]]
    /\ UNCHANGED <<checking, out, ttl, history>>

\* finalize takes the alerts one by one, the workload alerts first.
Takes(a) ==
    /\ phase = "finalize"
    /\ checking = {}
    /\ a \in batch
    /\ a.kind = "pod" => \A b \in batch : b.kind = "pod"
    /\ batch' = batch \ {a}

\* Exists finds the entry: the alert is dropped as a duplicate.
DedupHit(a) ==
    /\ Takes(a)
    /\ fingerprint(a) \in DOMAIN ttl
    /\ Settle("duplicate", a.members)
    /\ UNCHANGED <<phase, pending, checking, out, ttl, accepted, passed, delivered>>

\* Exists finds nothing, or fails: a failed check lets the alert through.
DedupMiss(a) ==
    /\ Takes(a)
    /\ fingerprint(a) \notin DOMAIN ttl \/ RedisFaults
    /\ checking' = {a}
    /\ UNCHANGED <<phase, pending, out, ttl, history>>

\* SetWithTTL starts the cooldown, or fails and is ignored; then enrichment
\* (which fails softly) and the alert joins the result of Flush.
DedupSet(a) ==
    /\ a \in checking
    /\ checking' = {}
    /\ out' = out \cup {a}
    /\ passed' = Started(passed, fingerprint(a))
    /\ \/ ttl' = Started(ttl, fingerprint(a))
       \/ RedisFaults /\ UNCHANGED ttl
    /\ UNCHANGED <<phase, pending, batch, accepted, settled, delivered>>

Finalized ==
    /\ phase = "finalize"
    /\ batch = {}
    /\ checking = {}
    /\ phase' = "dispatch"
    /\ UNCHANGED <<pending, batch, checking, out, ttl, history>>

\* The ML verdict on an alert: confirmed makes it critical; an error or a
\* refutation leaves it as it is.
escalate(a, confirmed) == IF confirmed THEN [a EXCEPT !.severity = "critical"] ELSE a

\* One turn of runCycle's last loop, the workload alerts first: the ML verdict,
\* then FireCorrelated, once, without a retry. A POST that fails may have reached its receiver all the same.
Dispatch(a) ==
    \E confirmed \in {FALSE, MLEnabled} :
        LET received == Started(delivered, target(escalate(a, confirmed)))
        IN  /\ phase = "dispatch"
            /\ a \in out
            /\ a.kind = "pod" => \A b \in out : b.kind = "pod"
            /\ out' = out \ {a}
            /\ \/ /\ Settle(IF DryRun THEN "unsent" ELSE "sent", a.members)
                  /\ delivered' = IF DryRun THEN delivered ELSE received
               \/ /\ ~DryRun /\ SendFaults
                  /\ Settle("failed", a.members)
                  /\ delivered' \in {delivered, received}
            /\ UNCHANGED <<phase, pending, batch, checking, ttl, accepted, passed>>

EndCycle ==
    /\ phase = "dispatch"
    /\ out = {}
    /\ phase' = "idle"
    /\ UNCHANGED <<pending, batch, checking, out, ttl, history>>

\* Faulty variant: cooldowns kept in the controller's memory.
RestartForgets ==
    /\ Restarts
    /\ phase' = "idle"
    /\ Settle("lost", PendingAnomalies \cup FlightAnomalies)
    /\ pending' = Nothing
    /\ batch' = {}
    /\ checking' = {}
    /\ out' = {}
    /\ ttl' = Nothing
    /\ UNCHANGED <<accepted, passed, delivered>>

\* The process dies, at any point, and starts again with an empty correlator.
Restart ==
    /\ Restarts
    /\ phase' = "idle"
    /\ Settle("lost", PendingAnomalies \cup FlightAnomalies)
    /\ pending' = Nothing
    /\ batch' = {}
    /\ checking' = {}
    /\ out' = {}
    /\ UNCHANGED <<ttl, accepted, passed, delivered>>

\* Time passes between any two steps: calls and waits take time.
Tick ==
    /\ pending' = [k \in DOMAIN pending |->
                     [pending[k] EXCEPT !.age = IF @ < Window THEN @ + 1 ELSE @]]
    /\ ttl' = Elapsed(ttl)
    /\ passed' = Elapsed(passed)
    /\ delivered' = Elapsed(delivered)
    /\ UNCHANGED <<phase, batch, checking, out, accepted, settled>>

Next ==
    \/ StartCycle \/ CycleAborted \/ JobsProcessed \/ AddSome \/ Flush
    \/ \E a \in batch : DedupHit(a) \/ DedupMiss(a)
    \/ \E a \in checking : DedupSet(a)
    \/ Finalized
    \/ \E a \in out : Dispatch(a)
    \/ EndCycle \/ Restart \/ Tick

Spec == Init /\ [][Next]_vars

\* Fairness. Every step of runCycle is bounded by a timeout and the ticker keeps
\* firing, so each step that stays enabled is taken; workers answer again and
\* again, though any one call may fail, so a processed batch recurs.
FairSpec ==
    /\ Spec
    /\ WF_vars(Tick)
    /\ WF_vars(StartCycle)
    /\ SF_vars(JobsProcessed)
    /\ WF_vars(Flush)
    /\ WF_vars(\E a \in batch : DedupHit(a) \/ DedupMiss(a))
    /\ WF_vars(\E a \in checking : DedupSet(a))
    /\ WF_vars(Finalized)
    /\ WF_vars(\E a \in out : Dispatch(a))
    /\ WF_vars(EndCycle)

-----------------------------------------------------------------------------
(* Properties *)

\* Only the alert of a whole workload has labels that no series carries.
Alert == {a \in [kind : {"pod", "workload"},
                 cluster : Names, namespace : Names, workload : Names,
                 severity : Severities, labels : LabelSet, origin : Origins,
                 members : SUBSET Anomaly] :
             a.kind = "pod" => a.labels \in Labels}

Fingerprint == [kind : {"pod", "workload"}, cluster : Names, ns : Names,
                workload : Names, severity : Severities]

Target == [kind : {"pod", "workload"}, cluster : Names, ns : Names,
           identity : Names, workload : Names, severity : Severities,
           signal : Names, detector : Names]

\* f maps some elements of S to times that have not run out.
Countdown(f, S) == DOMAIN f \subseteq S /\ f \in [DOMAIN f -> 1 .. Cooldown]

\* The values the controller's and Redis's state can take.
TypeOK ==
    /\ phase \in Phases
    /\ DOMAIN pending \subseteq Keys
    /\ pending \in [DOMAIN pending -> Group]
    /\ batch \subseteq Alert
    /\ checking \subseteq Alert
    /\ out \subseteq Alert
    /\ Countdown(ttl, Fingerprint)
    /\ accepted \subseteq Anomaly
    /\ settled \in [Outcomes -> SUBSET Anomaly]
    /\ Countdown(passed, Fingerprint)
    /\ Countdown(delivered, Target)

\* No anomaly that runCycle handed to Add disappears without an outcome: it
\* waits in a group, travels in an alert, or has met its outcome.
NothingVanishes ==
    accepted = PendingAnomalies \cup FlightAnomalies \cup SettledAnomalies

\* No anomaly is in two places: not in two groups, not in two alerts (so a pod
\* absorbed by a workload alert raises none of its own), not both waiting and
\* on its way, and it meets one outcome only.
NothingTwice ==
    /\ \A j, k \in DOMAIN pending :
          j # k => pending[j].members \cap pending[k].members = {}
    /\ \A a, b \in InFlight : a # b => a.members \cap b.members = {}
    /\ \A o, p \in Outcomes : o # p => settled[o] \cap settled[p] = {}
    /\ PendingAnomalies \cap FlightAnomalies = {}
    /\ PendingAnomalies \cap SettledAnomalies = {}
    /\ FlightAnomalies \cap SettledAnomalies = {}

\* Every accepted anomaly is accounted for exactly once, across cycles that
\* abort, Redis and Alertmanager failures and restarts.
AccountedOnce == NothingVanishes /\ NothingTwice

\* What runCycle's phases mean for the alerts: before Flush there are none, an
\* alert is in one place, and finalize works on at most one at a time.
OneBatch ==
    /\ phase \in {"idle", "rpc", "add"} => InFlight = {}
    /\ phase = "dispatch" => batch = {} /\ checking = {}
    /\ batch \cap checking = {}
    /\ batch \cap out = {}
    /\ checking \cap out = {}
    /\ \A a, b \in checking : a = b

\* Of the alerts one Flush raises, fewer than the threshold are for single pods
\* of the same workload, and none is for a pod of a workload that also has its
\* own alert: a pattern is collapsed completely or not at all.
PodAlerts(w) == {a \in InFlight : /\ a.kind = "pod"
                                  /\ Eligible([first |-> a.labels])
                                  /\ wlKey([first |-> a.labels]) = w}

CollapseComplete ==
    \A a \in InFlight : LET w == <<a.cluster, a.namespace, a.workload>> IN
        /\ a.kind = "workload" => PodAlerts(w) = {}
        /\ Eligible([first |-> a.labels]) =>
              Cardinality({b.labels.pod : b \in PodAlerts(wlKey([first |-> a.labels]))})
                  < workloadMinPods

\* finalize lets no alert through whose twin it let through less than Cooldown
\* ago, restarts in between included. (Redis must answer: a failing check is
\* meant to let alerts pass.)
CooldownRespected ==
    [][\A a \in checking : DedupSet(a) => fingerprint(a) \notin DOMAIN passed]_vars

\* An alert is dropped as a duplicate only when its receiver was sent, less than
\* Cooldown ago, an alert about the same pod, service or workload of the same
\* cluster and namespace that was at least as severe. (It may have named another
\* signal or detector, which the fingerprint leaves out.)
DropJustified ==
    [][\A a \in batch : DedupHit(a) =>
          \E d \in DOMAIN delivered : Covers(d, target(a))]_vars

\* What one detector found is not dropped for what another one found.
CooldownPerDetector ==
    [][\A a \in batch : DedupHit(a) =>
          \E d \in DOMAIN delivered :
              Covers(d, target(a)) /\ d.detector = a.origin.detector]_vars

\* Every anomaly handed to Add eventually meets an outcome: no group waits for
\* ever in the map, no alert gets stuck in finalize or in the dispatch loop.
EventuallySettled ==
    \A i \in Ids : (\E a \in accepted : a.id = i)
                      ~> (\E a \in SettledAnomalies : a.id = i)
=============================================================================
