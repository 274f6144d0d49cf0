------------------------------- MODULE KeyStore -------------------------------
(***************************************************************************)
(* What becomes of the counters of one API key when its record in memory   *)
(* is replaced: by a reload (AppState::reload_from_path), by a rotation    *)
(* (admin rotate_key) or by a restart (AppState::from_config).  The row of *)
(* the key in SQLite outlives all three.                                   *)
(*                                                                         *)
(* A request keeps the Arc of the record it looked up, so it pays and      *)
(* returns its slot to that record, however often the AuthStore has been   *)
(* replaced since.  A reload puts a zeroed record into the store first and *)
(* fills it from the row later, one cell at a time, while requests use it. *)
(* Keys do not share counters, so one key is enough.  It has no            *)
(* budget_duration, so nothing zeroes its spend.  Costs are millionths of  *)
(* a dollar; the rounding of the row's total through an f64 is left out.   *)
(***************************************************************************)
EXTENDS Integers, FiniteSets, Functions

CONSTANTS
  Requests,     \* the requests that may arrive
  Reloaders,    \* tasks that reload: the admin endpoints, the file watcher
  MaxParallel,  \* max_parallel_requests of the key
  Costs,        \* costs a request may have, in millionths of a dollar
  MaxRecords,   \* bound: records of the key ever made
  Width         \* in_flight is a u32: 2^32 in the code

ASSUME KeyStoreAssumption ==
  /\ IsFiniteSet(Requests) /\ IsFiniteSet(Reloaders)
  /\ MaxParallel \in Nat \ {0}
  /\ Costs \subseteq Nat
  /\ MaxRecords \in Nat \ {0}
  /\ Width \in Nat /\ Width > MaxParallel

VARIABLES
  at,          \* where each request is
  rec,         \* the record it looked up
  cost,        \* what it cost
  bill,        \* whether the cost has been recorded
  streamed,    \* its answer is a stream
  seen,        \* the count release_key loaded, about to be stored
  cur,         \* the record in the AuthStore; records are numbered as made
  count,       \* KeyUsage::in_flight of each record
  spend,       \* KeyUsage::total_spend_usd of each record
  registered,  \* api_keys has a row for the key
  rowCount,    \* key_usage.in_flight
  rowSpend,    \* key_usage.total_spend_micros
  step,        \* where each reloader is
  target,      \* the record it is filling
  read         \* the row it read

request == <<at, rec, cost, streamed, bill, seen>>
memory == <<count, spend>>
row == <<registered, rowCount, rowSpend>>
reload == <<step, target, read>>
vars == <<request, cur, memory, row, reload>>

Records == 1 .. MaxRecords

\*   new      before the lookup        slot      about to take a parallel slot
\*   serving  in its handler           billing   its handler records the cost
\*   release, load, store   in release_key
\*   done, denied   over               left      over, its slot never returned
\*   lost     it was running when the process ended
Live == {"slot", "serving", "billing", "release", "load", "store"}
Positions == {"new", "done", "denied", "left", "lost"} \cup Live

\*   none, due   not recorded yet      taken     added to the record, not the row
\*   booked      added to both         unbooked  the row was not written
Bills == {"none", "due", "taken", "booked", "unbooked"}

\* The requests whose increment of a record's count is outstanding.
Holders(c) == {r \in Requests : rec[r] = c /\ at[r] \in {"serving", "billing", "release", "left"}}

\* A key of the configuration file gets its row in api_keys at the start; a key
\* made by admin create_key has none until the next start.
Init ==
  /\ at = [r \in Requests |-> "new"]
  /\ rec = [r \in Requests |-> 0]
  /\ cost = [r \in Requests |-> 0]
  /\ streamed = [r \in Requests |-> FALSE]
  /\ bill = [r \in Requests |-> "none"]
  /\ seen = [r \in Requests |-> 0]
  /\ cur = 1
  /\ count = [c \in Records |-> 0]
  /\ spend = [c \in Records |-> 0]
  /\ registered \in BOOLEAN
  /\ rowCount = 0 /\ rowSpend = 0
  /\ step = [w \in Reloaders |-> "idle"]
  /\ target = [w \in Reloaders |-> 0]
  /\ read = [w \in Reloaders |-> [count |-> 0, spend |-> 0]]

Go(r, p) == at' = [at EXCEPT ![r] = p]

-----------------------------------------------------------------------------
\* authorize finds the record of the key.
Lookup(r) ==
  /\ at[r] = "new"
  /\ rec' = [rec EXCEPT ![r] = cur]
  /\ Go(r, "slot")
  /\ UNCHANGED <<cost, streamed, bill, seen, cur, memory, row, reload>>

\* Slip: one holder too many.
HasRoomOffByOne(c) == count[c] <= MaxParallel

HasRoom(c) == count[c] < MaxParallel

\* authorize, "Parallel cap", on the record that was found.
TakeSlot(r) ==
  LET c == rec[r] IN
  /\ at[r] = "slot"
  /\ \/ ~HasRoom(c) /\ Go(r, "denied") /\ UNCHANGED count
     \/ /\ HasRoom(c)
        /\ count' = [count EXCEPT ![c] = @ + 1]
        /\ Go(r, "serving")
  /\ UNCHANGED <<rec, cost, streamed, bill, seen, cur, spend, row, reload>>

\* The answer arrives with a cost.  A plain completion is recorded by its
\* handler before release_key, a stream by a watcher task at any later time.
Answer(r) ==
  /\ at[r] = "serving"
  /\ \E c \in Costs : cost' = [cost EXCEPT ![r] = c]
  /\ bill' = [bill EXCEPT ![r] = "due"]
  /\ \E stream \in BOOLEAN :
       /\ streamed' = [streamed EXCEPT ![r] = stream]
       /\ Go(r, IF stream THEN "release" ELSE "billing")
  /\ UNCHANGED <<rec, seen, cur, memory, row, reload>>

\* The upstream failed, or the request leaves without release_key (KeyGate).
Fail(r) ==
  /\ at[r] = "serving"
  /\ Go(r, "release") \/ Go(r, "left")
  /\ UNCHANGED <<rec, cost, streamed, bill, seen, cur, memory, row, reload>>

Millis(c) == c \div 1000

\* Slip: the handler leaves the row to a task of its own and goes on.
ChargeDetached(r) ==
  /\ bill[r] = "due"
  /\ spend' = [spend EXCEPT ![rec[r]] = @ + Millis(cost[r])]
  /\ bill' = [bill EXCEPT ![r] = "taken"]
  /\ IF at[r] = "billing" THEN Go(r, "release") ELSE UNCHANGED at
  /\ UNCHANGED <<rec, cost, streamed, seen, cur, count, row, reload>>

\* record_key_usage, first auth::record_usage ...
Charge(r) ==
  /\ bill[r] = "due"
  /\ spend' = [spend EXCEPT ![rec[r]] = @ + Millis(cost[r])]
  /\ bill' = [bill EXCEPT ![r] = "taken"]
  /\ UNCHANGED <<at, rec, cost, streamed, seen, cur, count, row, reload>>

\* ... then Storage::apply_counter_delta, one transaction.  It may fail, and without
\* a row of the key in api_keys it must, for its insert into key_usage violates the
\* foreign key: it is rolled back and the error is only logged.
Persist(r) ==
  /\ bill[r] = "taken"
  /\ \/ registered /\ rowSpend' = rowSpend + cost[r] /\ bill' = [bill EXCEPT ![r] = "booked"]
     \/ bill' = [bill EXCEPT ![r] = "unbooked"] /\ UNCHANGED rowSpend
  /\ IF at[r] = "billing" THEN Go(r, "release") ELSE UNCHANGED at
  /\ UNCHANGED <<rec, cost, streamed, seen, cur, memory, registered, rowCount, reload>>

\* Slip: the decrement is one of a signed number.
ReleasePlain(r) ==
  /\ at[r] = "release"
  /\ count' = [count EXCEPT ![rec[r]] = @ - 1]
  /\ Go(r, "load")
  /\ UNCHANGED <<rec, cost, streamed, bill, seen, cur, spend, row, reload>>

\* auth::release: fetch_sub on a u32 wraps.
Release(r) ==
  /\ at[r] = "release"
  /\ count' = [count EXCEPT ![rec[r]] = (@ - 1) % Width]
  /\ Go(r, "load")
  /\ UNCHANGED <<rec, cost, streamed, bill, seen, cur, spend, row, reload>>

LoadCount(r) ==
  /\ at[r] = "load"
  /\ seen' = [seen EXCEPT ![r] = count[rec[r]]]
  /\ Go(r, "store")
  /\ UNCHANGED <<rec, cost, streamed, bill, cur, memory, row, reload>>

\* Storage::set_in_flight, with the same foreign key, and an error only logged.
StoreCount(r) ==
  /\ at[r] = "store"
  /\ (registered /\ rowCount' = seen[r]) \/ UNCHANGED rowCount
  /\ seen' = [seen EXCEPT ![r] = 0]
  /\ Go(r, "done")
  /\ UNCHANGED <<rec, cost, streamed, bill, cur, memory, registered, rowSpend, reload>>

-----------------------------------------------------------------------------
\* reload_from_path: AuthStore::replace_all installs a record with no usage,
ReplaceAll(w) ==
  /\ step[w] = "idle" /\ cur < MaxRecords
  /\ cur' = cur + 1
  /\ step' = [step EXCEPT ![w] = "keys"]
  /\ UNCHANGED <<request, memory, row, target, read>>

\* all_keys takes the records that are in the store now,
AllKeys(w) ==
  /\ step[w] = "keys"
  /\ target' = [target EXCEPT ![w] = cur]
  /\ step' = [step EXCEPT ![w] = "row"]
  /\ UNCHANGED <<request, cur, memory, row, read>>

\* get_key_usage reads the row,
ReadRow(w) ==
  /\ step[w] = "row"
  /\ read' = [read EXCEPT ![w] = [count |-> rowCount, spend |-> rowSpend]]
  /\ step' = [step EXCEPT ![w] = "spend"]
  /\ UNCHANGED <<request, cur, memory, row, target>>

\* Slip: the spend of the row is added to that of the record.
RestoreSpendAdds(w) ==
  /\ step[w] = "spend"
  /\ spend' = [spend EXCEPT ![target[w]] = @ + read[w].spend]
  /\ step' = [step EXCEPT ![w] = "count"]
  /\ UNCHANGED <<request, cur, count, row, target, read>>

\* restore_usage stores the spend, in millionths where the field is in
\* thousandths,
RestoreSpend(w) ==
  /\ step[w] = "spend"
  /\ spend' = [spend EXCEPT ![target[w]] = read[w].spend]
  /\ step' = [step EXCEPT ![w] = "count"]
  /\ UNCHANGED <<request, cur, count, row, target, read>>

\* and the count.
RestoreCount(w) ==
  /\ step[w] = "count"
  /\ count' = [count EXCEPT ![target[w]] = read[w].count]
  /\ step' = [step EXCEPT ![w] = "idle"]
  /\ read' = [read EXCEPT ![w] = [count |-> 0, spend |-> 0]]
  /\ target' = [target EXCEPT ![w] = 0]
  /\ UNCHANGED <<request, cur, spend, row>>

\* rotate_key: a record with a new token, the alias of the old one and no usage.
Rotate ==
  /\ cur < MaxRecords
  /\ cur' = cur + 1
  /\ UNCHANGED <<request, memory, row, reload>>

\* The process ends, by a crash or after the drain, and starts again:
\* from_config registers the key and restores its record before it serves.
Restart ==
  /\ cur < MaxRecords
  /\ cur' = cur + 1
  /\ registered' = TRUE
  /\ count' = [count EXCEPT ![cur + 1] = rowCount]
  /\ spend' = [spend EXCEPT ![cur + 1] = rowSpend]
  /\ at' = [r \in Requests |-> IF at[r] \in Live THEN "lost" ELSE at[r]]
  /\ bill' = [r \in Requests |-> CASE bill[r] = "due" -> "none"
                                   [] bill[r] = "taken" -> "unbooked"
                                   [] OTHER -> bill[r]]
  /\ seen' = [r \in Requests |-> 0]
  /\ step' = [w \in Reloaders |-> "idle"]
  /\ target' = [w \in Reloaders |-> 0]
  /\ read' = [w \in Reloaders |-> [count |-> 0, spend |-> 0]]
  /\ UNCHANGED <<rec, cost, streamed, rowCount, rowSpend>>

Next ==
  \/ \E r \in Requests :
       \/ Lookup(r) \/ TakeSlot(r) \/ Answer(r) \/ Fail(r) \/ Charge(r) \/ Persist(r)
       \/ Release(r) \/ LoadCount(r) \/ StoreCount(r)
  \/ \E w \in Reloaders :
       ReplaceAll(w) \/ AllKeys(w) \/ ReadRow(w) \/ RestoreSpend(w) \/ RestoreCount(w)
  \/ Rotate \/ Restart

Spec == Init /\ [][Next]_vars

-----------------------------------------------------------------------------
TypeOK ==
  /\ at \in [Requests -> Positions]
  /\ rec \in [Requests -> Records \cup {0}]
  /\ cost \in [Requests -> Costs \cup {0}]
  /\ streamed \in [Requests -> BOOLEAN]
  /\ bill \in [Requests -> Bills]
  /\ seen \in [Requests -> 0 .. Width - 1]
  /\ cur \in Records
  /\ count \in [Records -> 0 .. Width - 1]
  /\ spend \in [Records -> Nat]
  /\ registered \in BOOLEAN
  /\ rowCount \in 0 .. Width - 1 /\ rowSpend \in Nat
  /\ step \in [Reloaders -> {"idle", "keys", "row", "spend", "count"}]
  /\ target \in [Reloaders -> Records \cup {0}]
  /\ read \in [Reloaders -> [count : 0 .. Width - 1, spend : Nat]]

TotalCost(S) == SumFunctionOnSet(cost, S)

\* What record_key_usage has been called for, and what the row owes: a plain answer
\* leaves its handler after it was recorded.  A refused write is logged.
Paid == {r \in Requests : bill[r] \notin {"none", "due"}}
Settled ==
  {r \in Requests : /\ ~streamed[r]
                    /\ at[r] \in {"release", "load", "store", "done"}
                    /\ bill[r] # "unbooked"}

\* "Per-key counters survive process restarts" (docs/FEATURES.md:382-383): before a
\* client has a plain answer its cost is in the row, and stays there whatever
\* becomes of the record it was paid to, through reloads, rotations and restarts;
\* it is missing only if the write of that very request failed.  And the row has no
\* cost twice, or of a request that nobody recorded.
AnsweredIsDurable ==
  TotalCost(Settled) <= rowSpend /\ rowSpend <= TotalCost(Paid)

\* "Reload ... never double-charges counters" (docs/ARCHITECTURE.md:416-417), and
\* neither does a restart: no cost is in the total of a record both as a charge
\* and through the row it was restored from.  Stated as the most a total can be
\* if every cost is in it once, in the larger of the two units.
NeverDoubleCharged ==
  \A c \in Records : spend[c] <= TotalCost(Paid)

\* A reload may forget slots that are taken, so a record can have more holders
\* than max_parallel_requests; but each reloader fills a record at most once, so
\* it lets in at most that many again.
OvershootPerRecord ==
  \A c \in Records :
    Cardinality(Holders(c)) <= MaxParallel * (1 + Cardinality(Reloaders))

=============================================================================
