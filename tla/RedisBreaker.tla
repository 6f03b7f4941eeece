---------------------------- MODULE RedisBreaker ----------------------------
(***************************************************************************)
(* The circuit breaker that every Redis command of a worker passes:        *)
(* NewClient and the commands of controller/internal/redis/client.go.  The *)
(* breaker itself is gobreaker's, modelled from how the client uses it.    *)
(*                                                                         *)
(* gobreaker numbers the generations of its counters and ignores the end   *)
(* of a call of another generation.  Here a new generation marks the calls *)
(* in flight as stale, which tells the same calls apart.  Of its counters  *)
(* only those that NewClient's settings read are kept.                     *)
(***************************************************************************)
EXTENDS Integers, FiniteSets

CONSTANTS
    Callers,      \* goroutines that may have a command in flight
    MaxRequests,  \* calls admitted while half-open; 3 in NewClient
    TripAfter     \* consecutive failures that open the breaker; 5 in NewClient

ASSUME BreakerAssumption ==
    /\ IsFiniteSet(Callers)
    /\ MaxRequests \in Nat \ {0}
    /\ TripAfter \in Nat \ {0}

VARIABLES
    breaker,    \* "closed", "open" or "halfopen"
    failures,   \* ConsecutiveFailures
    successes,  \* ConsecutiveSuccesses
    requests,   \* Requests, counted where the breaker compares it: half-open
    flight      \* caller -> its command: none, of this generation, or of an older

breakerVars == <<breaker, failures, successes, requests, flight>>

BreakerTypeOK ==
    /\ breaker \in {"closed", "open", "halfopen"}
    /\ failures \in 0 .. TripAfter - 1
    /\ successes \in 0 .. MaxRequests - 1
    /\ requests \in 0 .. MaxRequests
    /\ flight \in [Callers -> {"none", "current", "stale"}]

BreakerInit ==
    /\ breaker = "closed"
    /\ failures = 0 /\ successes = 0 /\ requests = 0
    /\ flight = [c \in Callers |-> "none"]

\* Faulty variant: a new generation that keeps the calls in flight.
NewGenerationKeeps(state, calls) ==
    /\ breaker' = state
    /\ failures' = 0 /\ successes' = 0 /\ requests' = 0
    /\ flight' = calls

\* toNewGeneration: the counters start afresh and late answers no longer count.
NewGeneration(state, calls) ==
    /\ breaker' = state
    /\ failures' = 0 /\ successes' = 0 /\ requests' = 0
    /\ flight' = [c \in Callers |-> IF calls[c] = "none" THEN "none" ELSE "stale"]

\* Faulty variant: half-open admits whoever comes.
AdmitsUnlessOpen == breaker # "open"

\* beforeRequest lets a command through to Redis.
Admits == breaker = "closed" \/ (breaker = "halfopen" /\ requests < MaxRequests)

\* A command starts.
Send(c) ==
    /\ flight[c] = "none"
    /\ Admits
    /\ flight' = [flight EXCEPT ![c] = "current"]
    /\ requests' = IF breaker = "halfopen" THEN requests + 1 ELSE requests
    /\ UNCHANGED <<breaker, failures, successes>>

\* ErrOpenState or ErrTooManyRequests: the command never reaches Redis.
Refuse(c) ==
    /\ flight[c] = "none"
    /\ ~Admits
    /\ UNCHANGED breakerVars

\* The end of call c, with the counters as they are.
Landed(c) == [flight EXCEPT ![c] = "none"]

\* afterRequest of a call of an older generation.
EndStale(c) ==
    /\ flight[c] = "stale"
    /\ flight' = Landed(c)
    /\ UNCHANGED <<breaker, failures, successes, requests>>

\* onSuccess
Succeed(c) ==
    \/ EndStale(c)
    \/ /\ flight[c] = "current"
       /\ breaker = "halfopen" /\ successes + 1 = MaxRequests
       /\ NewGeneration("closed", Landed(c))
    \/ /\ flight[c] = "current"
       /\ breaker = "closed" \/ successes + 1 < MaxRequests
       /\ failures' = 0
       /\ successes' = IF breaker = "halfopen" THEN successes + 1 ELSE successes
       /\ flight' = Landed(c)
       /\ UNCHANGED <<breaker, requests>>

\* onFailure; the end of the caller's context is a failure like any other.
Fail(c) ==
    \/ EndStale(c)
    \/ /\ flight[c] = "current"
       /\ breaker = "halfopen" \/ failures + 1 = TripAfter
       /\ NewGeneration("open", Landed(c))
    \/ /\ flight[c] = "current"
       /\ breaker = "closed" /\ failures + 1 < TripAfter
       /\ failures' = failures + 1
       /\ flight' = Landed(c)
       /\ UNCHANGED <<breaker, successes, requests>>

\* Interval has passed in the closed state: the failures are forgotten.
IntervalPasses ==
    /\ breaker = "closed"
    /\ failures > 0 \/ \E c \in Callers : flight[c] = "current"
    /\ NewGeneration("closed", flight)

\* Timeout has passed since the breaker opened.  gobreaker looks at the clock when it
\* is used next, and before anything else: nobody can tell the difference.
TimeoutPasses ==
    /\ breaker = "open"
    /\ NewGeneration("halfopen", flight)
=============================================================================
