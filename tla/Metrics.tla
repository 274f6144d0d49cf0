-------------------------------- MODULE Metrics --------------------------------
(***************************************************************************)
(* The counters and histograms of metrics.rs, which requests raise one     *)
(* cell at a time, while the persister copies them to metric_samples, an   *)
(* admin resets them, and the process stops and starts again.              *)
(*                                                                         *)
(* One series of each kind stands for all: the counter requests_total, the *)
(* histogram request_duration, the gauge active_requests.  The histogram's *)
(* sum_us moves at the lines of its count and is not repeated.             *)
(***************************************************************************)
EXTENDS Integers, Sequences

CONSTANTS
  Requests,     \* requests that a dispatch_* handler serves
  Buckets,      \* number of buckets of the histogram
  Width,        \* the gauge is a number modulo Width
  MaxResets,    \* bound on the resets
  MaxStops      \* bound on the restarts

ASSUME MetricsAssumption ==
  /\ Buckets \in Nat \ {0}
  /\ Width \in Nat \ {0}
  /\ MaxResets \in Nat /\ MaxStops \in Nat

RequestsTotal == <<"requests_total", 0>>
Count == <<"count", 0>>
Bucket(i) == <<"bucket", i>>

Kept == {RequestsTotal, Count}
Cells == Kept \cup {Bucket(i) : i \in 1..Buckets}

\* snapshot_for_persist, and reset, go over the cells in this order; none is left
\* out for being 0.
AllCells == <<RequestsTotal>> \o [i \in 1..Buckets |-> Bucket(i)] \o <<Count>>

\* snapshot_for_persist_counters_only leaves the buckets out.
NoBuckets == <<RequestsTotal, Count>>

VARIABLES
  cell,       \* the values in memory
  gauge,      \* active_requests
  row,        \* the values in metric_samples; those of buckets are cumulative
  pc,         \* where each request is
  first,      \* the persister has not saved yet
  next,       \* the cell of its snapshot that it reads next; 0: it sleeps
  sample,     \* what it has read
  zeroing,    \* the cell that a reset zeroes next; 0: none is running
  resets, stops,
  since,      \* history: events since the last reset was asked for
  stage       \* history: how far the last reset has come

process == <<first, next, sample, zeroing>>
bounds == <<resets, stops>>
history == <<since, stage>>
vars == <<cell, gauge, row, pc, process, bounds, history>>

Zeros == [c \in Cells |-> 0]
Snapshot == IF first THEN NoBuckets ELSE AllCells
Positions == {"new", "active", "bucket", "count", "total", "over"}

\* An empty database is as good as one that was reset.
Init ==
  /\ cell = Zeros /\ gauge = 0 /\ row = Zeros
  /\ pc = [r \in Requests |-> "new"]
  /\ first = TRUE /\ next = 0 /\ sample = Zeros /\ zeroing = 0
  /\ resets = 0 /\ stops = 0
  /\ since = Zeros /\ stage = "kept"

Go(r, from, to) == pc[r] = from /\ pc' = [pc EXCEPT ![r] = to]

-----------------------------------------------------------------------------
\* dispatch_* raises the gauge before and lowers it after the upstream call.
Begin(r) ==
  /\ Go(r, "new", "active")
  /\ gauge' = (gauge + 1) % Width
  /\ UNCHANGED <<cell, row, process, bounds, history>>

\* Slip: the gauge is a signed number.
AnswerSigned(r) ==
  /\ Go(r, "active", "bucket")
  /\ gauge' = gauge - 1
  /\ UNCHANGED <<cell, row, process, bounds, history>>

Answer(r) ==
  /\ Go(r, "active", "bucket")
  /\ gauge' = (gauge - 1) % Width
  /\ UNCHANGED <<cell, row, process, bounds, history>>

\* When acquire returns an error the handler returns with it: nothing is lowered
\* or counted.
Refused(r) ==
  /\ Go(r, "active", "over")
  /\ UNCHANGED <<cell, gauge, row, process, bounds, history>>

\* finalize: observe_us adds to a bucket, then to the count,
ObserveBucket(r) ==
  /\ Go(r, "bucket", "count")
  /\ \E i \in 1..Buckets :
       /\ cell' = [cell EXCEPT ![Bucket(i)] = @ + 1]
       /\ since' = [c \in Cells |->
            IF \E j \in i..Buckets : c = Bucket(j) THEN since[c] + 1 ELSE since[c]]
  /\ UNCHANGED <<gauge, row, process, bounds, stage>>

Raise(c) ==
  /\ cell' = [cell EXCEPT ![c] = @ + 1]
  /\ since' = [since EXCEPT ![c] = @ + 1]
  /\ UNCHANGED <<gauge, row, process, bounds, stage>>

ObserveCount(r) == Go(r, "count", "total") /\ Raise(Count)

\* and requests_total is raised later.
IncTotal(r) == Go(r, "total", "over") /\ Raise(RequestsTotal)

-----------------------------------------------------------------------------
\* The persister's timer fires.
Tick ==
  /\ next = 0
  /\ next' = 1
  /\ sample' = Zeros
  /\ stage' = IF stage = "done" /\ ~first THEN "reading" ELSE stage
  /\ UNCHANGED <<cell, gauge, row, pc, first, zeroing, bounds, since>>

\* The value of a cell, for a bucket together with the buckets before it.
Running(c) ==
  IF \E i \in 2..Buckets : c = Bucket(i)
  THEN sample[Bucket(c[2] - 1)] + cell[c]
  ELSE cell[c]

Read ==
  /\ next \in 1..Len(Snapshot)
  /\ sample' = [sample EXCEPT ![Snapshot[next]] = Running(Snapshot[next])]
  /\ next' = next + 1
  /\ UNCHANGED <<cell, gauge, row, pc, first, zeroing, bounds, history>>

\* save_metric_samples replaces the rows of the snapshot in one transaction,
\* which may fail: the rows stay as they were.
Save ==
  /\ next = Len(Snapshot) + 1
  /\ \/ /\ row' = [c \in Cells |->
              IF \E i \in 1..Len(Snapshot) : Snapshot[i] = c THEN sample[c] ELSE row[c]]
        /\ stage' = IF stage = "reading" THEN "kept" ELSE stage
     \/ /\ UNCHANGED row
        /\ stage' = IF stage = "reading" THEN "done" ELSE stage
  /\ first' = FALSE /\ next' = 0
  /\ UNCHANGED <<cell, gauge, pc, sample, zeroing, bounds, since>>

-----------------------------------------------------------------------------
\* admin_metrics_reset is called,
Reset ==
  /\ zeroing = 0 /\ resets < MaxResets
  /\ zeroing' = 1 /\ resets' = resets + 1
  /\ since' = Zeros /\ stage' = "zeroing"
  /\ UNCHANGED <<cell, gauge, row, pc, first, next, sample, stops>>

\* Slip: the count of a histogram is left alone.
ZeroForgetsCount ==
  /\ zeroing \in 1..Len(AllCells)
  /\ cell' = IF AllCells[zeroing] = Count THEN cell ELSE [cell EXCEPT ![AllCells[zeroing]] = 0]
  /\ zeroing' = zeroing + 1
  /\ UNCHANGED <<gauge, row, pc, first, next, sample, bounds, history>>

\* zeroes cell after cell,
Zero ==
  /\ zeroing \in 1..Len(AllCells)
  /\ cell' = [cell EXCEPT ![AllCells[zeroing]] = 0]
  /\ zeroing' = zeroing + 1
  /\ UNCHANGED <<gauge, row, pc, first, next, sample, bounds, history>>

\* and the gauge last, whatever is active.
ZeroGauge ==
  /\ zeroing = Len(AllCells) + 1
  /\ gauge' = 0
  /\ zeroing' = 0
  /\ stage' = "done"
  /\ UNCHANGED <<cell, row, pc, first, next, sample, bounds, since>>

-----------------------------------------------------------------------------
\* The process stops, by a crash or a shutdown, which saves no samples either.
Stopped ==
  /\ stops < MaxStops
  /\ stops' = stops + 1
  /\ pc' = [r \in Requests |-> IF pc[r] = "new" THEN "new" ELSE "over"]
  /\ gauge' = 0
  /\ first' = TRUE /\ next' = 0 /\ sample' = Zeros /\ zeroing' = 0
  /\ stage' = IF stage = "kept" THEN "kept" ELSE "undone"
  /\ UNCHANGED <<row, resets, since>>

\* Slip: the rows _hist_count:: are not restored.
RestartNoCount ==
  /\ Stopped
  /\ cell' = [c \in Cells |-> IF c = RequestsTotal THEN row[c] ELSE 0]

\* metrics_restore stores the counters and counts of rows that could be read.
\* restore_histogram takes the bound of a bucket for its index, finds none and
\* stores nothing.
Restart ==
  /\ Stopped
  /\ cell' = [c \in Cells |-> IF c \in Kept THEN row[c] ELSE 0]

-----------------------------------------------------------------------------
Step(r) == Begin(r) \/ Answer(r) \/ Refused(r) \/ ObserveBucket(r) \/
           ObserveCount(r) \/ IncTotal(r)

Next ==
  \/ \E r \in Requests : Step(r)
  \/ Tick \/ Read \/ Save
  \/ Reset \/ Zero \/ ZeroGauge
  \/ Restart

Spec == Init /\ [][Next]_vars

-----------------------------------------------------------------------------
TypeOK ==
  /\ cell \in [Cells -> Nat] /\ row \in [Cells -> Nat]
  /\ gauge \in 0..Width - 1
  /\ pc \in [Requests -> Positions]
  /\ first \in BOOLEAN
  /\ next \in 0..Buckets + 3
  /\ sample \in [Cells -> Nat]
  /\ zeroing \in 0..Buckets + 3
  /\ resets \in Nat /\ stops \in Nat
  /\ since \in [Cells -> Nat]
  /\ stage \in {"kept", "zeroing", "done", "reading", "undone"}

\* src/storage.rs:847: "Counters are monotonic".  Unless a reset is asked for, no
\* save lowers the row of a counter or of a histogram's count, however saves
\* interleave with requests and restarts.
RowsGrow ==
  [][resets' = 0 => \A c \in Kept : row'[c] >= row[c]]_vars

\* Once a full save that began after a reset has succeeded, neither memory nor
\* database holds more than what happened since the reset was asked for, whatever
\* restarts follow: the values from before do not return.  And nothing is counted
\* twice.  (The first save after a start is not full: it leaves the old values of
\* the buckets in their rows.)  src/metrics.rs:483-485 means it so.  It rests on
\* snapshot_for_persist, which writes zeros too: src/storage.rs:849-852 says that
\* they are filtered out, and src/metrics.rs:76-77 that the totals outlive a reset.
ResetSticks ==
  stage = "kept" =>
    /\ \A c \in Cells : row[c] <= since[c]
    /\ \A c \in Kept : cell[c] <= since[c]

=============================================================================
