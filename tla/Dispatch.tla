------------------------------- MODULE Dispatch -------------------------------
(***************************************************************************)
(* How a request gets an upstream (src/queue/mod.rs, src/upstream/mod.rs)  *)
(* and gives it back (dispatch_openai and dispatch_anthropic in            *)
(* src/proxy/mod.rs).                                                      *)
(*                                                                         *)
(* Requests run concurrently on a multi-threaded runtime.  Each walks its  *)
(* candidates in priority order with try_acquire, which is not atomic: it  *)
(* reads the flags of the upstream, then claims a slot with fetch_update,  *)
(* then takes a rate token under the bucket's lock and gives the slot back *)
(* if there is none.  When every candidate refuses, the request reserves a *)
(* waiting place and retries on a notification or a back-off timer until   *)
(* its deadline.  A step of this model is one atomic operation on shared   *)
(* state, or one critical section; counters that nobody reads to decide    *)
(* (QueueStats, the gauges) move in the step of the operation they count.  *)
(*                                                                         *)
(* Every element of Requests is one HTTP request, so the finite set bounds *)
(* the number of arrivals and with it the counters of QueueStats.          *)
(***************************************************************************)
EXTENDS Integers, Sequences, FiniteSets

CONSTANTS
  Requests,         \* the requests that may arrive
  Upstreams,        \* the upstreams in the registry
  Kinds,            \* the provider kinds (openai, anthropic)
  Kind,             \* [Requests -> Kinds]: the endpoint the request came in by
  Candidates,       \* [Requests -> Seq(Upstreams)]: what by_provider and the
                    \* model filter leave for it, in priority order
  MaxConcurrency,   \* [Upstreams -> Nat]: max_concurrency, 0 = unlimited
  RateRpm,          \* [Upstreams -> Nat]: rate_limit_rpm, 0 = unlimited
  MaxQueue,         \* max_queue_per_provider, 0 = unbounded
  RefillStep,       \* rate credit (tenths of a token) added by one Refill
  NoUpstream        \* the lease of a request that has none

ASSUME DispatchAssumption ==
  /\ IsFiniteSet(Requests)
  /\ Kind \in [Requests -> Kinds]
  /\ Candidates \in [Requests -> Seq(Upstreams)]
  /\ MaxConcurrency \in [Upstreams -> Nat]
  /\ RateRpm \in [Upstreams -> Nat]
  /\ MaxQueue \in Nat
  /\ RefillStep \in Nat \ {0}
  /\ NoUpstream \notin Upstreams \cup Kinds

VARIABLES
  pc,          \* where each request is
  idx,         \* the candidate it is trying
  slot,        \* the upstream it has claimed and not released
  seat,        \* its waiting place: "none", "held" or "returned"
  expired,     \* its queue deadline has passed
  inFlight,    \* Upstream::in_flight
  tokens,      \* RateBucket::tokens, in tenths
  open,        \* enabled, not paused, healthy and no breaker window
  pending,     \* QueueManager::pending_waits
  dispatched,  \* QueueStats::total_dispatched
  rejected,    \* QueueStats::total_rejected
  waited,      \* QueueStats::total_waited
  active       \* the gauge active_requests, by the method label of the kind

local == <<pc, idx, slot, seat, expired>>
stats == <<dispatched, rejected, waited, active>>
vars == <<local, inFlight, tokens, open, pending, stats>>

-----------------------------------------------------------------------------
(* Positions of a request.                                                 *)
(*   arrived   before dispatch_*                                           *)
(*   check     in try_acquire, about to evaluate is_usable of a candidate  *)
(*   claim     is_usable said yes; about to fetch_update in_flight         *)
(*   bucket    slot claimed; about to take a rate token                    *)
(*   reserve   the first pass failed; about to lock pending_waits          *)
(*   deadline  a pass of wait_loop failed; about to compare with deadline  *)
(*   asleep    in wait_loop's select!                                      *)
(*   settle    wait_loop returned; about to decrement pending_waits        *)
(*   forward   has an upstream; awaits its answer                          *)
(*   answered, rejected, unrouted   over                                   *)
(*   gone      the client hung up and the handler's future was dropped     *)
Queueing == {"check", "claim", "bucket", "reserve", "deadline", "asleep", "settle"}
Over == {"answered", "rejected", "unrouted", "gone"}
Positions == {"arrived", "forward"} \cup Queueing \cup Over

Candidate(r) == Candidates[r][idx[r]]
Limited(u) == MaxConcurrency[u] > 0

\* The requests whose claim on u is outstanding, and those whose waiting
\* place of kind k is.
Holders(u) == {r \in Requests : slot[r] = u}
Seated(k) == {r \in Requests : Kind[r] = k /\ seat[r] = "held"}

\* capacity = rate_limit_rpm / 60 * 6 tokens: rate_limit_rpm tenths of one.
BucketCapacity(u) == RateRpm[u]
OneToken == 10

Init ==
  /\ pc = [r \in Requests |-> "arrived"]
  /\ idx = [r \in Requests |-> 1]
  /\ slot = [r \in Requests |-> NoUpstream]
  /\ seat = [r \in Requests |-> "none"]
  /\ expired = [r \in Requests |-> FALSE]
  /\ inFlight = [u \in Upstreams |-> 0]
  /\ tokens = [u \in Upstreams |-> BucketCapacity(u)]
  /\ open = [u \in Upstreams |-> TRUE]
  /\ pending = [k \in Kinds |-> 0]
  /\ dispatched = 0 /\ rejected = 0 /\ waited = 0
  /\ active = [k \in Kinds |-> 0]

Go(r, p) == pc' = [pc EXCEPT ![r] = p]

-----------------------------------------------------------------------------
\* dispatch_*: with no candidate the handler answers 503 before it touches the
\* queue, so the total_no_upstream branch of QueueManager::acquire is not taken.
\* Otherwise it raises active_requests (and active_streams for a stream, which
\* moves at the same lines) and calls acquire.
Route(r) ==
  /\ pc[r] = "arrived"
  /\ \/ Candidates[r] = <<>> /\ Go(r, "unrouted") /\ UNCHANGED active
     \/ /\ Candidates[r] # <<>>
        /\ Go(r, "check")
        /\ active' = [active EXCEPT ![Kind[r]] = @ + 1]
  /\ UNCHANGED <<idx, slot, seat, expired, inFlight, tokens, open, pending,
                 dispatched, rejected, waited>>

\* Slip: the loop runs one candidate too far.
RefusedOnePast(r) ==
  IF idx[r] <= Len(Candidates[r])
  THEN Go(r, "check") /\ idx' = [idx EXCEPT ![r] = @ + 1]
  ELSE /\ Go(r, IF seat[r] = "held" THEN "deadline" ELSE "reserve")
       /\ idx' = [idx EXCEPT ![r] = 1]

\* The loops of QueueManager::try_acquire and its two callers: the candidate
\* refused, so try the next one; after the last, acquire asks for a waiting
\* place and wait_loop looks at its deadline.
Refused(r) ==
  IF idx[r] < Len(Candidates[r])
  THEN Go(r, "check") /\ idx' = [idx EXCEPT ![r] = @ + 1]
  ELSE /\ Go(r, IF seat[r] = "held" THEN "deadline" ELSE "reserve")
       /\ idx' = [idx EXCEPT ![r] = 1]

\* try_acquire returned an upstream: its callers count the dispatch.
Granted(r) ==
  /\ Go(r, IF seat[r] = "held" THEN "settle" ELSE "forward")
  /\ dispatched' = dispatched + 1
  /\ UNCHANGED <<idx, rejected, waited, active>>

\* Upstream::is_usable.  Its reads are not simultaneous; since `open` may
\* flip at any moment, reading it together with in_flight loses no outcome.
IsUsable(u) == open[u] /\ (Limited(u) => inFlight[u] < MaxConcurrency[u])

CheckUsable(r) ==
  /\ pc[r] = "check"
  /\ \/ IsUsable(Candidate(r)) /\ Go(r, "claim") /\ UNCHANGED idx
     \/ ~IsUsable(Candidate(r)) /\ Refused(r)
  /\ UNCHANGED <<slot, seat, expired, inFlight, tokens, open, pending, stats>>

\* Slip: a plain fetch_add that trusts the earlier is_usable.
CanClaimUnchecked(u) == TRUE

\* The fetch_update on in_flight: the count may have changed since is_usable.
CanClaim(u) == Limited(u) => inFlight[u] < MaxConcurrency[u]

Claim(r) ==
  LET u == Candidate(r) IN
  /\ pc[r] = "claim"
  /\ \/ /\ CanClaim(u)
        /\ slot' = [slot EXCEPT ![r] = u]
        /\ inFlight' = IF Limited(u) THEN [inFlight EXCEPT ![u] = @ + 1] ELSE inFlight
        /\ \/ RateRpm[u] = 0 /\ Granted(r)
           \/ RateRpm[u] > 0 /\ Go(r, "bucket") /\ UNCHANGED <<idx, stats>>
     \/ /\ ~CanClaim(u)
        /\ Refused(r)
        /\ UNCHANGED <<slot, inFlight, stats>>
  /\ UNCHANGED <<seat, expired, tokens, open, pending>>

\* Slip: the decrement is forgotten.
GiveBackForgotten(r) ==
  /\ slot' = [slot EXCEPT ![r] = NoUpstream]
  /\ UNCHANGED inFlight

\* The decrement of release() and of the roll-back.  InFlightExact shows that
\* the u32 never wraps below zero.
GiveBack(r) ==
  LET u == slot[r] IN
  /\ slot' = [slot EXCEPT ![r] = NoUpstream]
  /\ inFlight' = IF Limited(u) THEN [inFlight EXCEPT ![u] = @ - 1] ELSE inFlight

\* The rate bucket, under its lock; the claim is rolled back inside it.
TakeToken(r) ==
  LET u == slot[r] IN
  /\ pc[r] = "bucket"
  /\ \/ /\ tokens[u] >= OneToken
        /\ tokens' = [tokens EXCEPT ![u] = @ - OneToken]
        /\ Granted(r)
        /\ UNCHANGED <<slot, inFlight>>
     \/ /\ tokens[u] < OneToken
        /\ GiveBack(r)
        /\ Refused(r)
        /\ UNCHANGED <<tokens, stats>>
  /\ UNCHANGED <<seat, expired, open, pending>>

\* Slip: one waiter too many.
QueueFullOffByOne(k) == MaxQueue > 0 /\ pending[k] > MaxQueue

\* QueueManager::acquire, the critical section that reserves a waiting place.
QueueFull(k) == MaxQueue > 0 /\ pending[k] >= MaxQueue

Reserve(r) ==
  /\ pc[r] = "reserve"
  /\ \/ /\ QueueFull(Kind[r])
        /\ rejected' = rejected + 1
        /\ Go(r, "rejected")
        /\ UNCHANGED <<seat, pending, waited>>
     \/ /\ ~QueueFull(Kind[r])
        /\ pending' = [pending EXCEPT ![Kind[r]] = @ + 1]
        /\ waited' = waited + 1
        /\ seat' = [seat EXCEPT ![r] = "held"]
        /\ Go(r, "check")
        /\ UNCHANGED rejected
  /\ UNCHANGED <<idx, slot, expired, inFlight, tokens, open, dispatched, active>>

\* Slip: a timeout is not counted as a rejection.
DeadlineUncounted(r) ==
  /\ pc[r] = "deadline"
  /\ Go(r, IF expired[r] THEN "settle" ELSE "asleep")
  /\ UNCHANGED <<idx, slot, seat, expired, inFlight, tokens, open, pending, stats>>

\* wait_loop after a failed pass.  The Notified future is created here, after
\* the pass: a notification sent during the pass does not wake this request.
Deadline(r) ==
  /\ pc[r] = "deadline"
  /\ \/ expired[r] /\ rejected' = rejected + 1 /\ Go(r, "settle")
     \/ ~expired[r] /\ Go(r, "asleep") /\ UNCHANGED rejected
  /\ UNCHANGED <<idx, slot, seat, expired, inFlight, tokens, open, pending,
                 dispatched, waited, active>>

\* Slip: the waiter relies on notifications alone.
BackOffMissing(r) == FALSE

\* The back-off timer of select! fires (5 ms, doubling up to 200 ms).
BackOff(r) ==
  /\ pc[r] = "asleep"
  /\ Go(r, "check")
  /\ UNCHANGED <<idx, slot, seat, expired, inFlight, tokens, open, pending, stats>>

\* acquire after wait_loop: "Always decrement pending count" (saturating_sub).
Settle(r) ==
  /\ pc[r] = "settle"
  /\ pending' = [pending EXCEPT ![Kind[r]] = IF @ > 0 THEN @ - 1 ELSE 0]
  /\ seat' = [seat EXCEPT ![r] = "returned"]
  /\ Go(r, IF slot[r] = NoUpstream THEN "rejected" ELSE "forward")
  /\ UNCHANGED <<idx, slot, expired, inFlight, tokens, open, stats>>

\* Slip: an early return between the answer and upstream.release().
RespondUnreleased(r) ==
  /\ pc[r] = "forward"
  /\ Go(r, "answered")
  /\ UNCHANGED <<idx, slot, seat, expired, inFlight, tokens, open, pending, stats>>

\* forward_* returned, with a response or an error: upstream.release(), then
\* the gauge falls.  It does not fall on the error path of acquire (`.await?`).
Respond(r) ==
  /\ pc[r] = "forward"
  /\ GiveBack(r)
  /\ Go(r, "answered")
  /\ active' = [active EXCEPT ![Kind[r]] = @ - 1]
  /\ UNCHANGED <<idx, seat, expired, tokens, open, pending,
                 dispatched, rejected, waited>>

\* The client hangs up and the server drops the handler's future.  That is
\* possible only where the handler awaits; no line after the await runs.
Disconnect(r) ==
  /\ pc[r] \in {"asleep", "forward"}
  /\ Go(r, "gone")
  /\ UNCHANGED <<idx, slot, seat, expired, inFlight, tokens, open, pending, stats>>

-----------------------------------------------------------------------------
\* Time passes: a deadline is reached, a rate bucket gains credit.
Expire(r) ==
  /\ seat[r] = "held" /\ ~expired[r]
  /\ expired' = [expired EXCEPT ![r] = TRUE]
  /\ UNCHANGED <<pc, idx, slot, seat, inFlight, tokens, open, pending, stats>>

\* try_acquire adds the credit earned since the last refill, up to capacity;
\* here the credit arrives by itself, before the try that would collect it.
Refill(u) ==
  /\ tokens[u] < BucketCapacity(u)
  /\ tokens' = [tokens EXCEPT ![u] = IF @ + RefillStep < BucketCapacity(u)
                                     THEN @ + RefillStep ELSE BucketCapacity(u)]
  /\ UNCHANGED <<local, inFlight, open, pending, stats>>

\* An administrator, the health checker or another request's outcome changes
\* the flags of an upstream (module UpstreamHealth says when).
Flip(u) ==
  /\ open' = [open EXCEPT ![u] = ~@]
  /\ UNCHANGED <<local, inFlight, tokens, pending, stats>>

\* QueueManager::notify_change: wakes every request that is in select!, and
\* stores nothing for the others.
NotifyChange ==
  /\ \E r \in Requests : pc[r] = "asleep"
  /\ pc' = [r \in Requests |-> IF pc[r] = "asleep" THEN "check" ELSE pc[r]]
  /\ UNCHANGED <<idx, slot, seat, expired, inFlight, tokens, open, pending, stats>>

\* The statements of a request's own task.
Step(r) ==
  \/ Route(r) \/ CheckUsable(r) \/ Claim(r) \/ TakeToken(r) \/ Reserve(r)
  \/ Deadline(r) \/ BackOff(r) \/ Settle(r) \/ Respond(r)

Next ==
  \/ \E r \in Requests : Step(r) \/ Disconnect(r) \/ Expire(r)
  \/ \E u \in Upstreams : Refill(u) \/ Flip(u)
  \/ NotifyChange

Spec == Init /\ [][Next]_vars

\* The runtime polls every task that can run, timers fire and an upstream call
\* ends (reqwest's timeout bounds it).  Nothing is assumed of clients,
\* administrators, health, buckets or notifications.
FairSpec == Spec /\ \A r \in Requests : WF_vars(Step(r)) /\ WF_vars(Expire(r))

-----------------------------------------------------------------------------
TypeOK ==
  /\ pc \in [Requests -> Positions]
  /\ idx \in [Requests -> Nat]
  /\ \A r \in Requests : Candidates[r] # <<>> => idx[r] \in DOMAIN Candidates[r]
  /\ \A r \in Requests : Candidates[r] = <<>> => pc[r] \in {"arrived", "unrouted"}
  /\ slot \in [Requests -> Upstreams \cup {NoUpstream}]
  /\ seat \in [Requests -> {"none", "held", "returned"}]
  /\ expired \in [Requests -> BOOLEAN]
  /\ inFlight \in [Upstreams -> Nat]
  /\ tokens \in [Upstreams -> Nat]
  /\ open \in [Upstreams -> BOOLEAN]
  /\ pending \in [Kinds -> Nat]
  /\ dispatched \in Nat /\ rejected \in Nat /\ waited \in Nat
  /\ active \in [Kinds -> Nat]

\* in_flight of a limited upstream is exactly the number of requests that have
\* claimed it and not released it, whatever the interleaving of claims,
\* roll-backs and releases; so no decrement wraps below zero.
InFlightExact ==
  \A u \in Upstreams :
    inFlight[u] = IF Limited(u) THEN Cardinality(Holders(u)) ELSE 0

\* The two-step test-then-claim of try_acquire never lets more requests hold
\* an upstream than its max_concurrency.
WithinConcurrency ==
  \A u \in Upstreams : Limited(u) => Cardinality(Holders(u)) <= MaxConcurrency[u]

\* pending_waits of a kind is exactly the number of its requests that took a
\* waiting place and did not return it, and max_queue_per_provider bounds it.
PendingExact ==
  \A k \in Kinds :
    /\ pending[k] = Cardinality(Seated(k))
    /\ MaxQueue > 0 => pending[k] <= MaxQueue

LeasesFit(r) ==
  /\ slot[r] # NoUpstream => pc[r] \in {"bucket", "settle", "forward", "gone"}
  /\ pc[r] \in {"bucket", "forward"} => slot[r] # NoUpstream
  /\ seat[r] = "held" => pc[r] \in Queueing \cup {"gone"}
  /\ pc[r] \in {"deadline", "asleep", "settle"} => seat[r] = "held"
  /\ pc[r] \in {"arrived", "reserve"} => seat[r] = "none"
  /\ pc[r] \in Queueing => seat[r] # "returned"

\* A claim is outstanding only for a request that is being served, is about to
\* be, or hung up, and such a request has one; a waiting place only for one
\* that queues or hung up, and a request waits only if it has one.  A path of
\* try_acquire, wait_loop or dispatch_* that forgot to give one back, or that
\* gave one back twice, would break it.
NoIdleLease == \A r \in Requests : LeasesFit(r)

WasDispatched(r) ==
  \/ pc[r] \in {"forward", "answered"}
  \/ pc[r] \in {"settle", "gone"} /\ slot[r] # NoUpstream
WasRejected(r) ==
  \/ pc[r] = "rejected"
  \/ pc[r] = "settle" /\ slot[r] = NoUpstream

\* The gauge rose for every request that entered the queue and fell only for
\* those that were answered: the queue's rejections stay in it.
GaugeCounts(r) == pc[r] \notin {"arrived", "unrouted", "answered"}

\* QueueStats accounts for every request exactly once: dispatched when it got
\* a slot, rejected when it was turned away, waited when it took a place; and
\* active_requests is exactly what the handlers raised and did not lower.
StatsBalance ==
  /\ dispatched = Cardinality({r \in Requests : WasDispatched(r)})
  /\ rejected = Cardinality({r \in Requests : WasRejected(r)})
  /\ waited = Cardinality({r \in Requests : seat[r] # "none"})
  /\ \A k \in Kinds :
       active[k] = Cardinality({r \in Requests : Kind[r] = k /\ GaugeCounts(r)})

\* Slots of an upstream and waiting places of a kind are leases in the sense
\* of SlotLease: try_acquire, acquire and dispatch_* implement it.
Gone == {r \in Requests : pc[r] = "gone"}
Slots == INSTANCE SlotLease
           WITH Clients <- Requests, Pools <- Upstreams, Capacity <- MaxConcurrency,
                NoPool <- NoUpstream, lease <- slot, lost <- Gone
Seats == INSTANCE SlotLease
           WITH Clients <- Requests, Pools <- Kinds,
                Capacity <- [k \in Kinds |-> MaxQueue], NoPool <- NoUpstream,
                lease <- [r \in Requests |->
                            IF seat[r] = "held" THEN Kind[r] ELSE NoUpstream],
                lost <- Gone

\* An upstream slot whose request did not hang up is eventually released.
SlotsAreLeases == Slots!FairSpec

\* A waiting place whose request did not hang up is eventually given up, and
\* no provider ever has more waiters than max_queue_per_provider.
SeatsAreLeases == Seats!FairSpec

\* A queued request is not stuck: it is dispatched, rejected or hangs up, even
\* if every notification is lost and no upstream ever opens
\* (queue_wait_timeout_ms is a hard cap on the wait).
QueueingEnds ==
  \A r \in Requests : pc[r] \in Queueing ~> pc[r] \in {"forward"} \cup Over

=============================================================================
