------------------------------- MODULE KeyGate -------------------------------
(***************************************************************************)
(* The life of a request against its API key: authorize and record_usage   *)
(* (src/auth/mod.rs), their wrappers in src/state.rs, and the handlers     *)
(* that own the response (src/proxy/mod.rs, src/admin/mod.rs).             *)
(*                                                                         *)
(* authorize is a sequence of checks, each atomic on its own: the rate     *)
(* window (here a refusal that may or may not happen), the parallel slot   *)
(* (a fetch_update) and the budget (a load).  A completion handler then    *)
(* serves the request, records its cost and calls release_key, which       *)
(* decrements the count, loads it and writes it to SQLite in three steps.  *)
(* A streamed answer releases the key when its headers arrive; its cost is *)
(* recorded later by a watcher task.                                       *)
(*                                                                         *)
(* Every element of Requests is one HTTP request.  Money in memory is in   *)
(* thousandths of a dollar; the cost of a request arrives in millionths.   *)
(***************************************************************************)
EXTENDS Integers, FiniteSets

CONSTANTS
  Requests,     \* the requests that may arrive
  Keys,         \* the API keys
  KeyOf,        \* [Requests -> Keys]
  Calls,        \* [Requests -> SUBSET AllCalls]: what each may be
  MaxParallel,  \* [Keys -> Nat]: max_parallel_requests, 0 = unlimited
  Budgeted,     \* the keys with a max_budget
  Budget,       \* [Keys -> Nat]: max_budget in thousandths of a dollar
  Costs,        \* costs a request may have, in millionths of a dollar
  MaxCost,      \* a bound on them, in thousandths of a dollar
  NoKey

\* plain and stream: a completion.  refused: a completion whose body cannot
\* be read or whose key may not use the provider.  listing: the models
\* endpoints, and every admin endpoint.
AllCalls == {"plain", "stream", "refused", "listing"}

\* (cost_usd * 1000.0) as u64 truncates.
Millis(c) == c \div 1000

ASSUME KeyGateAssumption ==
  /\ IsFiniteSet(Requests)
  /\ KeyOf \in [Requests -> Keys]
  /\ Calls \in [Requests -> SUBSET AllCalls]
  /\ MaxParallel \in [Keys -> Nat]
  /\ Budgeted \subseteq Keys
  /\ Budget \in [Keys -> Nat]
  /\ Costs \subseteq Nat
  /\ MaxCost \in Nat
  /\ \A c \in Costs : c \div 1000 <= MaxCost
  /\ NoKey \notin Keys

VARIABLES
  at,         \* where each request is
  call,       \* what it calls
  slot,       \* it has taken a slot of its key and not returned it
  watcher,    \* its stream watcher: "none", "running" or "ended"
  seen,       \* the count release_key loaded, about to be stored
  inFlight,   \* KeyUsage::in_flight
  stored,     \* key_usage.in_flight in SQLite
  spend,      \* KeyUsage::total_spend_usd
  lapsed,     \* budget_duration has passed since budget_window_start
  wiping      \* the budget task restarted the window, has not zeroed the spend

task == <<at, call, slot, watcher, seen>>
window == <<lapsed, wiping>>
vars == <<task, inFlight, stored, spend, window>>

\*   new       before authorize          slot      about to take a key slot
\*   budget    about to look at its budget window
\*   compare   about to compare the spend  handler   authorized
\*   serving   in dispatch_*              record    about to record its cost
\*   release   about to release its slot  load, store   persisting the count
\*   done      answered after release_key
\*   denied    refused by authorize       refused   refused by the handler
\*   listed    answered by a handler that does not call release_key
\*   gone      the client hung up and the handler's future was dropped
Running == {"new", "slot", "budget", "compare", "handler", "serving", "record",
            "release", "load", "store"}
Over == {"done", "denied", "refused", "listed", "gone"}

Capped(k) == MaxParallel[k] > 0
Holders(k) == {r \in Requests : KeyOf[r] = k /\ slot[r]}

Init ==
  /\ at = [r \in Requests |-> "new"]
  /\ call \in {c \in [Requests -> AllCalls] : \A r \in Requests : c[r] \in Calls[r]}
  /\ slot = [r \in Requests |-> FALSE]
  /\ watcher = [r \in Requests |-> "none"]
  /\ seen = [r \in Requests |-> 0]
  /\ inFlight = [k \in Keys |-> 0]
  /\ stored = [k \in Keys |-> 0]
  /\ spend = [k \in Keys |-> 0]
  /\ lapsed = [k \in Keys |-> FALSE]
  /\ wiping = [k \in Keys |-> FALSE]

Go(r, p) == at' = [at EXCEPT ![r] = p]

-----------------------------------------------------------------------------
\* authorize, up to the rpm window: unknown, blocked or expired key, address
\* outside allowed_cidrs, or rpm_limit hit.  Nothing is taken yet.
CheckKey(r) ==
  /\ at[r] = "new"
  /\ Go(r, "denied") \/ Go(r, "slot")
  /\ UNCHANGED <<call, slot, watcher, seen, inFlight, stored, spend, window>>

\* Slip: one holder too many.
HasRoomOffByOne(k) == Capped(k) => inFlight[k] <= MaxParallel[k]

HasRoom(k) == Capped(k) => inFlight[k] < MaxParallel[k]

\* authorize, "Parallel cap".
TakeSlot(r) ==
  LET k == KeyOf[r] IN
  /\ at[r] = "slot"
  /\ \/ ~HasRoom(k) /\ Go(r, "denied") /\ UNCHANGED <<slot, inFlight>>
     \/ /\ HasRoom(k)
        /\ Go(r, "budget")
        /\ \/ ~Capped(k) /\ UNCHANGED <<slot, inFlight>>
           \/ /\ Capped(k)
              /\ slot' = [slot EXCEPT ![r] = TRUE]
              /\ inFlight' = [inFlight EXCEPT ![k] = @ + 1]
  /\ UNCHANGED <<call, watcher, seen, stored, spend, window>>

\* Slip: the budget is compared before the cost that reached it.
ExhaustedLate(k, s) == k \in Budgeted /\ s > Budget[k]

Exhausted(k, s) == k \in Budgeted /\ s >= Budget[k]

\* authorize, "Budget check": a lapsed window is restarted, and the spend zeroed,
\* under the lock of the window.
RestartWindow(r) ==
  LET k == KeyOf[r] IN
  /\ at[r] = "budget"
  /\ Go(r, "compare")
  /\ \/ /\ k \in Budgeted /\ lapsed[k]
        /\ spend' = [spend EXCEPT ![k] = 0]
        /\ lapsed' = [lapsed EXCEPT ![k] = FALSE]
     \/ /\ ~(k \in Budgeted /\ lapsed[k])
        /\ UNCHANGED <<spend, lapsed>>
  /\ UNCHANGED <<call, slot, watcher, seen, inFlight, stored, wiping>>

\* Then the spend is compared.  A refusal returns here, after the slot was taken.
CheckBudget(r) ==
  LET k == KeyOf[r] IN
  /\ at[r] = "compare"
  /\ \/ Exhausted(k, spend[k]) /\ Go(r, "denied")
     \/ ~Exhausted(k, spend[k]) /\ Go(r, "handler")
  /\ UNCHANGED <<call, slot, watcher, seen, inFlight, stored, spend, window>>

\* A completion handler has read the body and checked the key's providers; a
\* models or admin handler has answered.
Handle(r) ==
  /\ at[r] = "handler"
  /\ \/ call[r] \in {"plain", "stream"} /\ Go(r, "serving")
     \/ call[r] = "refused" /\ Go(r, "refused")
     \/ call[r] = "listing" /\ Go(r, "listed")
  /\ UNCHANGED <<call, slot, watcher, seen, inFlight, stored, spend, window>>

\* dispatch_* returned Ok: for a stream the watcher was spawned in it.
Succeed(r) ==
  /\ at[r] = "serving"
  /\ Go(r, "record")
  /\ watcher' = [watcher EXCEPT ![r] = IF call[r] = "stream" THEN "running" ELSE @]
  /\ UNCHANGED <<call, slot, seen, inFlight, stored, spend, window>>

\* dispatch_* returned Err: nothing is recorded, the slot is released.
Fail(r) ==
  /\ at[r] = "serving"
  /\ Go(r, "release")
  /\ UNCHANGED <<call, slot, watcher, seen, inFlight, stored, spend, window>>

Charge(k, c) == spend' = [spend EXCEPT ![k] = @ + Millis(c)]

\* record_key_usage in the handler.  A stream's usage is (0, 0, 0.0) here.
Record(r) ==
  /\ at[r] = "record"
  /\ \/ call[r] = "plain" /\ \E c \in Costs : Charge(KeyOf[r], c)
     \/ call[r] = "stream" /\ Charge(KeyOf[r], 0)
  /\ Go(r, "release")
  /\ UNCHANGED <<call, slot, watcher, seen, inFlight, stored, window>>

\* Slip: the slot of a key is released only after a success.
ReleaseForgotten(r) ==
  /\ at[r] = "release"
  /\ Go(r, "load")
  /\ UNCHANGED <<call, slot, watcher, seen, inFlight, stored, spend, window>>

\* Slip: the decrement is not guarded by max_parallel_requests > 0.
ReleaseUnguarded(r) ==
  /\ at[r] = "release"
  /\ Go(r, "load")
  /\ slot' = [slot EXCEPT ![r] = FALSE]
  /\ inFlight' = [inFlight EXCEPT ![KeyOf[r]] = @ - 1]
  /\ UNCHANGED <<call, watcher, seen, stored, spend, window>>

\* auth::release.  KeySlotsExact shows that the u32 never wraps below zero.
Release(r) ==
  LET k == KeyOf[r] IN
  /\ at[r] = "release"
  /\ Go(r, "load")
  /\ slot' = [slot EXCEPT ![r] = FALSE]
  /\ inFlight' = IF Capped(k) THEN [inFlight EXCEPT ![k] = @ - 1] ELSE inFlight
  /\ UNCHANGED <<call, watcher, seen, stored, spend, window>>

\* release_key loads the new count ...
LoadCount(r) ==
  /\ at[r] = "load"
  /\ Go(r, "store")
  /\ seen' = [seen EXCEPT ![r] = inFlight[KeyOf[r]]]
  /\ UNCHANGED <<call, slot, watcher, inFlight, stored, spend, window>>

\* ... and Storage::set_in_flight writes it.
StoreCount(r) ==
  /\ at[r] = "store"
  /\ Go(r, "done")
  /\ stored' = [stored EXCEPT ![KeyOf[r]] = seen[r]]
  /\ seen' = [seen EXCEPT ![r] = 0]
  /\ UNCHANGED <<call, slot, watcher, inFlight, spend, window>>

\* The watcher task found usage in the stream and records it, or gave up.
Watch(r) ==
  /\ watcher[r] = "running"
  /\ watcher' = [watcher EXCEPT ![r] = "ended"]
  /\ \/ \E c \in Costs : Charge(KeyOf[r], c)
     \/ UNCHANGED spend
  /\ UNCHANGED <<at, call, slot, seen, inFlight, stored, window>>

\* The client hangs up while the handler awaits: the body, a queue place or
\* the upstream.  The handler's future is dropped with the rest of its code.
Disconnect(r) ==
  /\ \/ at[r] = "handler" /\ call[r] # "listing"
     \/ at[r] = "serving"
  /\ Go(r, "gone")
  /\ UNCHANGED <<call, slot, watcher, seen, inFlight, stored, spend, window>>

\* The budget_duration of a key passes.
Lapse(k) ==
  /\ k \in Budgeted /\ ~lapsed[k] /\ spend[k] > 0
  /\ lapsed' = [lapsed EXCEPT ![k] = TRUE]
  /\ UNCHANGED <<task, inFlight, stored, spend, wiping>>

\* spawn_budget_reset_task finds the window lapsed and restarts it under the
\* lock; it zeroes the spend after the lock is released, so a cost recorded in
\* between is lost.
ExpireWindow(k) ==
  /\ lapsed[k] /\ ~wiping[k]
  /\ lapsed' = [lapsed EXCEPT ![k] = FALSE]
  /\ wiping' = [wiping EXCEPT ![k] = TRUE]
  /\ UNCHANGED <<task, inFlight, stored, spend>>

WipeSpend(k) ==
  /\ wiping[k]
  /\ spend' = [spend EXCEPT ![k] = 0]
  /\ wiping' = [wiping EXCEPT ![k] = FALSE]
  /\ UNCHANGED <<task, inFlight, stored, lapsed>>

Step(r) ==
  \/ CheckKey(r) \/ TakeSlot(r) \/ RestartWindow(r) \/ CheckBudget(r) \/ Handle(r)
  \/ Succeed(r) \/ Fail(r) \/ Record(r)
  \/ Release(r) \/ LoadCount(r) \/ StoreCount(r)

Next ==
  \/ \E r \in Requests : Step(r) \/ Watch(r) \/ Disconnect(r)
  \/ \E k \in Keys : Lapse(k) \/ ExpireWindow(k) \/ WipeSpend(k)

Spec == Init /\ [][Next]_vars

\* The runtime polls every task that can run, and dispatch_* returns: its
\* queue wait and its upstream call are both bounded by a timeout.
FairSpec == Spec /\ \A r \in Requests : WF_vars(Step(r))

-----------------------------------------------------------------------------
TypeOK ==
  /\ at \in [Requests -> Running \cup Over]
  /\ call \in [Requests -> AllCalls]
  /\ slot \in [Requests -> BOOLEAN]
  /\ watcher \in [Requests -> {"none", "running", "ended"}]
  /\ seen \in [Requests -> Nat]
  /\ inFlight \in [Keys -> Nat]
  /\ stored \in [Keys -> Nat]
  /\ spend \in [Keys -> Nat]
  /\ lapsed \in [Keys -> BOOLEAN] /\ wiping \in [Keys -> BOOLEAN]

\* in_flight of a capped key is exactly the number of requests that took a
\* slot and did not return it, and never more than max_parallel_requests; that
\* of another key stays 0.
KeySlotsExact ==
  \A k \in Keys :
    /\ inFlight[k] = IF Capped(k) THEN Cardinality(Holders(k)) ELSE 0
    /\ Capped(k) => inFlight[k] <= MaxParallel[k]

\* Where a slot can be lost, and nowhere else: the budget refusal inside
\* authorize, a refusal in the handler, an endpoint that never calls
\* release_key, a client that hung up.  A completion that ran to its end, with
\* or without success, has returned its slot, and every request past the parallel
\* check on a capped key has one until then.
LeaksAreEarlyExits ==
  \A r \in Requests :
    /\ slot[r] => at[r] \in {"budget", "compare", "handler", "serving", "record", "release",
                             "denied", "refused", "listed", "gone"}
    /\ at[r] \in {"budget", "compare", "handler", "serving", "record", "release"}
         => (slot[r] <=> Capped(KeyOf[r]))

\* How far a key can overspend.  Costs are known only after the answer, so a
\* request admitted under the budget may carry the key past it; the parallel
\* slots bound how many do that at once.  A stream frees its slot at its first
\* byte, so each stream adds to the bound.
Streams(k) == {r \in Requests : KeyOf[r] = k /\ call[r] = "stream"}
OvershootBounded ==
  \A k \in Budgeted :
    Capped(k) /\ Budget[k] > 0 =>
      spend[k] < Budget[k] + MaxCost * (MaxParallel[k] + Cardinality(Streams(k)))

\* The slots of a key are leases in the sense of SlotLease: a request that
\* neither was refused late nor hung up gives its slot back.
LostSlot(r) ==
  \/ at[r] \in {"denied", "refused", "listed", "gone"}
Leases == INSTANCE SlotLease
            WITH Clients <- Requests, Pools <- Keys, Capacity <- MaxParallel,
                 NoPool <- NoKey,
                 lease <- [r \in Requests |-> IF slot[r] THEN KeyOf[r] ELSE NoKey],
                 lost <- {r \in Requests : LostSlot(r)}
SlotsAreLeases == Leases!FairSpec

=============================================================================
