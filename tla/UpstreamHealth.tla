---------------------------- MODULE UpstreamHealth ----------------------------
(***************************************************************************)
(* The health of one upstream: record_success and record_failure           *)
(* (src/upstream/mod.rs), called by requests that end, by the health        *)
(* checker and by the admin test endpoint (src/admin/mod.rs), and the       *)
(* admin actions that change its flags.                                    *)
(*                                                                         *)
(* consecutive_failures, health and breaker_open_until are three separate  *)
(* cells.  A report writes them one after the other, without a lock around *)
(* the three, so reports of concurrent tasks interleave.  A step of this   *)
(* model is one access to one cell.                                        *)
(***************************************************************************)
EXTENDS Integers, FiniteSets

CONSTANTS
  Callers,      \* tasks that send requests or admin tests to the upstream
  Checker,      \* the health-check task
  Threshold,    \* circuit_breaker.failure_threshold (3 by default)
  FailureCap,   \* bound on the counter: it saturates here
  HealthCheck   \* healthcheck_interval_ms > 0

ASSUME HealthAssumption ==
  /\ Checker \notin Callers
  /\ Threshold \in Nat
  /\ FailureCap \in Nat /\ FailureCap > Threshold
  /\ HealthCheck \in BOOLEAN

Tasks == Callers \cup {Checker}

VARIABLES
  at,        \* where each task is
  count,     \* the count a failure report got from its fetch_add
  failures,  \* consecutive_failures
  health,    \* "healthy", "degraded" or "unhealthy"
  breaker,   \* breaker_open_until: "none", "open" (in the future), "elapsed"
  enabled,   \* cfg.enabled
  paused,
  resetting, \* the admin action reset is between its two writes
  up         \* the provider answers

report == <<failures, health, breaker>>
flags == <<enabled, paused>>
healthVars == <<at, count, report, flags, resetting, up>>

\*   idle     between calls                 sent     awaits the provider
\*   zero, close, heal    the writes of record_success
\*   add, mark, trip      those of record_failure
InSuccess == {"zero", "close", "heal"}
InFailure == {"add", "mark", "trip"}
Quiet == \A t \in Tasks : at[t] \in {"idle", "sent"}

HealthInit ==
  /\ at = [t \in Tasks |-> "idle"]
  /\ count = [t \in Tasks |-> 0]
  /\ failures = 0
  /\ health = "healthy"
  /\ breaker = "none"
  /\ enabled = TRUE /\ paused = FALSE
  /\ resetting = FALSE
  /\ up = TRUE

Reaches(t, p) == at' = [at EXCEPT ![t] = p]

\* Upstream::is_usable, but for max_concurrency.
Usable == enabled /\ ~paused /\ health # "unhealthy" /\ breaker # "open"

-----------------------------------------------------------------------------
\* A request was admitted by try_acquire, or an administrator tests the
\* upstream, which asks for no admission.
Send(t) ==
  /\ t \in Callers /\ at[t] = "idle"
  /\ Reaches(t, "sent")
  /\ UNCHANGED <<count, report, flags, resetting, up>>

\* spawn_health_checker: a tick, for an enabled upstream.
Probe ==
  /\ HealthCheck /\ enabled /\ at[Checker] = "idle"
  /\ Reaches(Checker, "sent")
  /\ UNCHANGED <<count, report, flags, resetting, up>>

\* The provider's answer arrives, or the call fails or times out.  A provider
\* that is up may still refuse a client's request with an error status, which
\* counts as a failure; its answer to a probe is a success.
Answer(t) ==
  /\ at[t] = "sent"
  /\ \/ up /\ Reaches(t, "zero")
     \/ (~up \/ t # Checker) /\ Reaches(t, "add")
  /\ UNCHANGED <<count, report, flags, resetting, up>>

-----------------------------------------------------------------------------
\* Slip: a success takes one failure back.
ZeroFailuresDecrement(t) ==
  /\ at[t] = "zero"
  /\ failures' = failures - 1
  /\ Reaches(t, "close")
  /\ UNCHANGED <<count, health, breaker, flags, resetting, up>>

\* record_success: consecutive_failures.store(0),
ZeroFailures(t) ==
  /\ at[t] = "zero"
  /\ failures' = 0
  /\ Reaches(t, "close")
  /\ UNCHANGED <<count, health, breaker, flags, resetting, up>>

\* breaker_open_until = None,
CloseBreaker(t) ==
  /\ at[t] = "close"
  /\ breaker' = "none"
  /\ Reaches(t, "heal")
  /\ UNCHANGED <<count, failures, health, flags, resetting, up>>

\* Slip: only a degraded upstream is healed.
HealDegraded(t) ==
  /\ at[t] = "heal"
  /\ health' = IF health = "degraded" THEN "healthy" ELSE health
  /\ Reaches(t, "idle")
  /\ UNCHANGED <<count, failures, breaker, flags, resetting, up>>

\* and health = Healthy.
Heal(t) ==
  /\ at[t] = "heal"
  /\ health' = "healthy"
  /\ Reaches(t, "idle")
  /\ UNCHANGED <<count, failures, breaker, flags, resetting, up>>

\* Slip: the count starts over when the threshold is reached.
AddFailureStartsOver(t) ==
  LET f == IF failures < FailureCap THEN failures + 1 ELSE failures IN
  /\ at[t] = "add"
  /\ failures' = IF f >= Threshold THEN 0 ELSE f
  /\ count' = [count EXCEPT ![t] = f]
  /\ Reaches(t, IF f >= Threshold \/ f >= Threshold \div 2 + 1 THEN "mark" ELSE "idle")
  /\ UNCHANGED <<health, breaker, flags, resetting, up>>

\* record_failure: fetch_add, whose result decides the rest of the report.
AddFailure(t) ==
  LET f == IF failures < FailureCap THEN failures + 1 ELSE failures IN
  /\ at[t] = "add"
  /\ failures' = f
  /\ count' = [count EXCEPT ![t] = f]
  /\ Reaches(t, IF f >= Threshold \/ f >= Threshold \div 2 + 1 THEN "mark" ELSE "idle")
  /\ UNCHANGED <<health, breaker, flags, resetting, up>>

\* health = Unhealthy at the threshold, Degraded from half of it.
MarkHealth(t) ==
  /\ at[t] = "mark"
  /\ \/ count[t] >= Threshold /\ health' = "unhealthy" /\ Reaches(t, "trip")
     \/ count[t] < Threshold /\ health' = "degraded" /\ Reaches(t, "idle")
  /\ count' = [count EXCEPT ![t] = 0]
  /\ UNCHANGED <<failures, breaker, flags, resetting, up>>

\* breaker_open_until = now + open_duration_s.
TripBreaker(t) ==
  /\ at[t] = "trip"
  /\ breaker' = "open"
  /\ Reaches(t, "idle")
  /\ UNCHANGED <<count, failures, health, flags, resetting, up>>

Report(t) ==
  \/ ZeroFailures(t) \/ CloseBreaker(t) \/ Heal(t)
  \/ AddFailure(t) \/ MarkHealth(t) \/ TripBreaker(t)

-----------------------------------------------------------------------------
\* The open window passes.  Nothing else happens then: no cell is written.
WindowPasses ==
  /\ breaker = "open"
  /\ breaker' = "elapsed"
  /\ UNCHANGED <<at, count, failures, health, flags, resetting, up>>

\* control_upstream, "enable" and "disable".
SetEnabled(b) ==
  /\ enabled # b
  /\ enabled' = b
  /\ UNCHANGED <<at, count, report, paused, resetting, up>>

\* pause_upstream and resume_upstream.
SetPaused(b) ==
  /\ paused # b
  /\ paused' = b
  /\ UNCHANGED <<at, count, report, enabled, resetting, up>>

\* control_upstream, "reset": consecutive_failures = 0, then health = Healthy.
\* breaker_open_until is left as it is.
ResetCount ==
  /\ ~resetting
  /\ failures' = 0
  /\ resetting' = TRUE
  /\ UNCHANGED <<at, count, health, breaker, flags, up>>

ResetHealth ==
  /\ resetting
  /\ health' = "healthy"
  /\ resetting' = FALSE
  /\ UNCHANGED <<at, count, failures, breaker, flags, up>>

\* The provider goes down or comes back.
Weather ==
  /\ up' = ~up
  /\ UNCHANGED <<at, count, report, flags, resetting>>

HealthNext ==
  \/ \E t \in Tasks : Send(t) \/ Answer(t) \/ Report(t)
  \/ Probe \/ WindowPasses
  \/ \E b \in BOOLEAN : SetEnabled(b) \/ SetPaused(b)
  \/ ResetCount \/ ResetHealth
  \/ Weather

HealthSpec == HealthInit /\ [][HealthNext]_healthVars

\* Calls to the provider end (they have a timeout), tasks that can run do, the
\* checker's interval ticks and windows pass.  Clients, administrators and the
\* provider may do anything at any time.
HealthFairSpec ==
  /\ HealthSpec
  /\ \A t \in Tasks : WF_healthVars(Answer(t)) /\ WF_healthVars(Report(t))
  /\ WF_healthVars(Probe) /\ WF_healthVars(WindowPasses) /\ WF_healthVars(ResetHealth)

-----------------------------------------------------------------------------
HealthTypeOK ==
  /\ at \in [Tasks -> {"idle", "sent"} \cup InSuccess \cup InFailure]
  /\ count \in [Tasks -> 0 .. FailureCap]
  /\ failures \in 0 .. FailureCap
  /\ health \in {"healthy", "degraded", "unhealthy"}
  /\ breaker \in {"none", "open", "elapsed"}
  /\ enabled \in BOOLEAN /\ paused \in BOOLEAN
  /\ resetting \in BOOLEAN /\ up \in BOOLEAN

\* However reports interleave, an upstream is unhealthy without a breaker
\* window only while a report is about to write one of the two: a failure that
\* will trip the breaker, or a success that will heal it.  So no interleaving
\* leaves an upstream unhealthy with no trace of when it was tripped.
UnhealthyHasWindow ==
  health = "unhealthy" /\ breaker = "none" =>
    \E t \in Tasks : at[t] \in {"trip", "heal"}

\* If the provider is up for good and the upstream stays enabled, the health
\* checker heals it again and again, whatever clients and reports of the past
\* do to it.
CheckerHeals == <>[](up /\ enabled) => []<>(health = "healthy")

\* If the provider is down for good, the upstream stays enabled and nobody
\* resets it any more, traffic to it stops for good: late successes and late
\* "degraded" marks of other reports cannot keep it open.
OutageStopsTraffic == <>[](~up /\ enabled /\ ~resetting) => <>[](~Usable)

=============================================================================
