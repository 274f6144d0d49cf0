------------------------------ MODULE RpmWindow ------------------------------
(***************************************************************************)
(* The requests-per-minute limit of one key: the window in the KeyRecord   *)
(* that auth::authorize reads and counts, the row of key_usage that        *)
(* AppState::authorize keeps beside it, and the reloads and restarts that  *)
(* copy the row over the window.                                           *)
(*                                                                         *)
(* Only ages matter, so a window's start is kept as the time since then,   *)
(* up to the first value past the window.  Memory has instants (ticks),    *)
(* SQLite whole seconds.  A count is kept up to Limit, the only number it  *)
(* is compared with.                                                       *)
(***************************************************************************)
EXTENDS Integers, FiniteSets, Functions

CONSTANTS
  Requests,     \* calls under way with the key; a client repeats them
  Limit,        \* rpm_limit
  Seconds,      \* the length of the window, 60 in the code
  Ticks,        \* instants in a second
  MaxReloads,   \* bound: reloads
  MaxRestarts,  \* bound: restarts of the process
  MaxLost       \* bound: saves that fail or are cut off by a crash

ASSUME RpmAssumption ==
  /\ Limit \in Nat \ {0} /\ Seconds \in Nat \ {0} /\ Ticks \in Nat \ {0}
  /\ IsFiniteSet(Requests)
  /\ MaxReloads \in Nat /\ MaxRestarts \in Nat /\ MaxLost \in Nat

Minute == Seconds * Ticks
Records == 1 .. MaxReloads + MaxRestarts + 1
None == 0

VARIABLES
  usage,    \* KeyUsage of each record: rpm_window_start and _count
  live,     \* the record the AuthStore holds
  row,      \* rpm_window_start and _count of the key's row
  phase,    \* the instant within the second
  at,       \* where each request is
  rec,      \* the record it was given by lookup and has still to count in
  loader,   \* where the reload is
  copy,     \* the row it has read
  recent,   \* history: requests let through by a record that a start made, by how long ago
  anew,     \* history: and by the record that the n-th reload published
  first,    \* history: the record the process started with
  reloads,  \* history: reloads so far
  lost      \* history: requests let through that are not in the row

clients == <<at, rec>>
reload == <<loader, copy>>
counted == <<recent, anew>>
history == <<counted, first, reloads, lost>>
rpmVars == <<usage, live, row, phase, clients, reload, history>>

AtMost(n, bound) == IF n > bound THEN bound ELSE n
Window(age, count) == [age |-> age, count |-> count]

\* A row that has never been written: its window started in 1970.
NoRow == Window(Seconds + 1, 0)
Unused == Window(Minute + 1, 0)

\* Slip: the start is subtracted from the clock the wrong way round.
RestoredBackwards(w) == Window(0 - AtMost(w.age * Ticks + phase, Minute + 1), w.count)

\* restore_usage: the second in the row becomes an instant.
Restored(w) == Window(AtMost(w.age * Ticks + phase, Minute + 1), w.count)

RpmInit ==
  /\ usage = [k \in Records |-> Unused]
  /\ live = 1
  /\ row = NoRow
  /\ phase = 0
  /\ at = [r \in Requests |-> "new"]
  /\ rec = [r \in Requests |-> None]
  /\ loader = "idle" /\ copy = NoRow
  /\ recent = [a \in 0 .. Minute - 1 |-> 0]
  /\ anew = [n \in 1 .. MaxReloads |-> [a \in 0 .. Minute - 1 |-> 0]]
  /\ first = 1 /\ reloads = 0 /\ lost = 0

Go(r, p) == at' = [at EXCEPT ![r] = p]

-----------------------------------------------------------------------------
\* Time passes for memory, for the row and for a row that is being restored.  A
\* record that nobody holds any more is freed.
Held(k) == k = live \/ \E r \in Requests : rec[r] = k

Aged(w, second) == [w EXCEPT !.age = AtMost(@ + second, Seconds + 1)]

Later(h) == [a \in DOMAIN h |-> IF a = 0 THEN 0 ELSE h[a - 1]]

Tick ==
  LET second == IF phase + 1 = Ticks THEN 1 ELSE 0 IN
  /\ phase' = (phase + 1) % Ticks
  /\ usage' = [k \in Records |->
       IF Held(k) THEN [usage[k] EXCEPT !.age = AtMost(@ + 1, Minute + 1)] ELSE Unused]
  /\ row' = Aged(row, second)
  /\ copy' = Aged(copy, second)
  /\ recent' = Later(recent)
  /\ anew' = [n \in 1 .. MaxReloads |-> Later(anew[n])]
  /\ UNCHANGED <<live, clients, loader, first, reloads, lost>>

-----------------------------------------------------------------------------
\* lookup finds the key's record; a reload may replace it afterwards.
Lookup(r) ==
  /\ at[r] = "new"
  /\ rec' = [rec EXCEPT ![r] = live]
  /\ Go(r, "check")
  /\ UNCHANGED <<usage, live, row, phase, reload, history>>

\* Under the lock of rpm_window_start: a window older than a minute starts
\* again, and the call is counted whether it passes or not.
Expired(w) == w.age > Minute

Current(w) == IF Expired(w) THEN Window(0, 0) ELSE w

\* Slip: every call starts the window again.
CountedAnew(w) == Window(0, AtMost(Current(w).count + 1, Limit))

Counted(w) == [Current(w) EXCEPT !.count = AtMost(@ + 1, Limit)]

Check(r) ==
  /\ at[r] = "check"
  /\ usage' = [usage EXCEPT ![rec[r]] = Counted(@)]
  /\ rec' = [rec EXCEPT ![r] = None]
  /\ UNCHANGED <<live, row, phase, reload>>

\* Slip: the count is compared after it was raised past the limit.
HasQuotaOffByOne(r) == Current(usage[rec[r]]).count <= Limit

HasQuota(r) == Current(usage[rec[r]]).count < Limit

RefuseRpm(r) ==
  /\ Check(r) /\ ~HasQuota(r)
  /\ Go(r, "new")
  /\ UNCHANGED history

\* The parallel cap or the budget refuses a call that the window let through.
RefuseOtherwise(r) ==
  /\ Check(r) /\ HasQuota(r)
  /\ Go(r, "new")
  /\ UNCHANGED history

\* The call goes into the history of its record: which reload published that one?
Reloaded(k) == reloads - (live - k)
OneMore(h) == [h EXCEPT ![0] = @ + 1]

Count(r) ==
  \/ rec[r] = first /\ recent' = OneMore(recent) /\ UNCHANGED anew
  \/ rec[r] # first /\ anew' = [anew EXCEPT ![Reloaded(rec[r])] = OneMore(@)] /\ UNCHANGED recent

Admit(r) ==
  /\ Check(r) /\ HasQuota(r)
  /\ Go(r, "save")
  /\ Count(r)
  /\ UNCHANGED <<first, reloads, lost>>

\* update_rpm_window has a window of its own, that starts at 60 whole seconds.
Saved(w) ==
  IF w.age >= Seconds THEN Window(0, 1) ELSE [w EXCEPT !.count = AtMost(@ + 1, Limit)]

Save(r) ==
  /\ at[r] = "save"
  /\ row' = Saved(row)
  /\ Go(r, "new")
  /\ UNCHANGED <<usage, live, phase, rec, reload, history>>

\* An error of SQLite is logged and the request goes on.
SaveFails(r) ==
  /\ at[r] = "save" /\ lost < MaxLost
  /\ lost' = lost + 1
  /\ Go(r, "new")
  /\ UNCHANGED <<usage, live, row, phase, rec, reload, counted, first, reloads>>

-----------------------------------------------------------------------------
\* reload_from_path publishes new records first
ReplaceRecords ==
  /\ loader = "idle" /\ reloads < MaxReloads
  /\ live' = live + 1
  /\ usage' = [usage EXCEPT ![live + 1] = Window(0, 0)]
  /\ loader' = "row"
  /\ reloads' = reloads + 1
  /\ UNCHANGED <<row, phase, clients, copy, counted, first, lost>>

\* and then restores them from the rows, the count before the start.
ReadRow ==
  /\ loader = "row"
  /\ copy' = row
  /\ loader' = "count"
  /\ UNCHANGED <<usage, live, row, phase, clients, history>>

RestoreCount ==
  /\ loader = "count"
  /\ usage' = [usage EXCEPT ![live].count = copy.count]
  /\ loader' = "start"
  /\ UNCHANGED <<live, row, phase, clients, copy, history>>

RestoreStart ==
  /\ loader = "start"
  /\ usage' = [usage EXCEPT ![live].age = Restored(copy).age]
  /\ loader' = "idle" /\ copy' = NoRow
  /\ UNCHANGED <<live, row, phase, clients, history>>

\* Slip: the start restores the counters but not the window.
Forgotten == Window(0, 0)

\* The process is killed and starts again: from_config restores before it serves.
AtStart == Restored(row)

Unsaved == {r \in Requests : at[r] = "save"}

Restart ==
  /\ live - reloads <= MaxRestarts
  /\ lost + Cardinality(Unsaved) <= MaxLost
  /\ live' = live + 1 /\ first' = live + 1
  /\ usage' = [usage EXCEPT ![live + 1] = AtStart]
  /\ at' = [r \in Requests |-> "new"] /\ rec' = [r \in Requests |-> None]
  /\ loader' = "idle" /\ copy' = NoRow
  /\ lost' = lost + Cardinality(Unsaved)
  /\ UNCHANGED <<row, phase, counted, reloads>>

-----------------------------------------------------------------------------
Request(r) == Lookup(r) \/ RefuseRpm(r) \/ RefuseOtherwise(r) \/ Admit(r) \/ Save(r) \/ SaveFails(r)
Reload == ReplaceRecords \/ ReadRow \/ RestoreCount \/ RestoreStart

RpmNext ==
  \/ Tick
  \/ \E r \in Requests : Request(r)
  \/ Reload
  \/ Restart

RpmSpec == RpmInit /\ [][RpmNext]_rpmVars

\* The clock runs and a call that has its record goes on; clients owe nothing.
Checked(r) == RefuseRpm(r) \/ RefuseOtherwise(r) \/ Admit(r)
RpmLiveSpec == RpmSpec /\ WF_rpmVars(Tick) /\ \A r \in Requests : WF_rpmVars(Checked(r))

-----------------------------------------------------------------------------
Windows(ages) == [age : ages, count : 0 .. Limit]

RpmTypeOK ==
  /\ usage \in [Records -> Windows(0 .. Minute + 1)]
  /\ live \in Records
  /\ row \in Windows(0 .. Seconds + 1) /\ copy \in Windows(0 .. Seconds + 1)
  /\ phase \in 0 .. Ticks - 1
  /\ at \in [Requests -> {"new", "check", "save"}]
  /\ rec \in [Requests -> Records \cup {None}]
  /\ loader \in {"idle", "row", "count", "start"}
  /\ recent \in [0 .. Minute - 1 -> Nat]
  /\ anew \in [1 .. MaxReloads -> [0 .. Minute - 1 -> Nat]]
  /\ first \in Records
  /\ reloads \in 0 .. MaxReloads /\ lost \in 0 .. MaxLost

Passed == SumFunction(recent) + SumFunction([n \in 1 .. MaxReloads |-> SumFunction(anew[n])])

\* As long as the process runs and the configuration is not reloaded, fewer than
\* two quotas pass in any minute, wherever it begins.
SteadyBound == live = 1 => Passed < 2 * Limit

\* Restarts, however many, raise that to three quotas, because the window in the row
\* ends at another instant than the one in memory, and every call missing from the
\* row to one more.  A reload publishes an empty record, restores its count and then
\* its start, and requests go on with the record they have: each adds four quotas.
MinuteBound == Passed < (3 + 4 * reloads) * Limit + lost

\* A refused call is counted and yet does not move the window: clients that keep
\* retrying are let through again and again.
RetriesSucceed ==
  []<>(\E r \in Requests : at[r] = "check")
    => []<><<\E r \in Requests : Admit(r) \/ RefuseOtherwise(r)>>_rpmVars

=============================================================================
