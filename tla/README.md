# A TLA+ model of polyglotmesh

polyglotmesh is an HTTP router in front of LLM providers. It authenticates a
client by an API key, picks an upstream, forwards the request and keeps account
of what it cost. Almost all of its hard parts are shared counters: they are
raised by one task, lowered by another line of the same task much later, copied
to SQLite, and replaced when the configuration is reloaded. This project models
those counters and the tasks that use them, checks the models with TLC and
proves every invariant that the runs check with TLAPS, for all values of the constants.

Source references are `src/<path>` at the commit this project was written for.

## The system

| Part | State | Operations | Talks to |
| --- | --- | --- | --- |
| Handlers (`proxy/mod.rs`) | one task per request | `auth_middleware`, `openai_chat_completions`, `anthropic_messages`, `dispatch_*`, `forward_*`, models endpoints | auth, queue, upstreams, metrics |
| Queue (`queue/mod.rs`) | `pending_waits`, `Notify`, `QueueStats` | `acquire`, `wait_loop`, `try_acquire`, `notify_change` | upstreams |
| Upstream (`upstream/mod.rs`) | `in_flight`, rate bucket, health, breaker, flags | `is_usable`, `try_acquire`, `release`, `record_success`, `record_failure` | – |
| Registry (`upstream/mod.rs`) | map of upstreams, sorted list | `upsert`, `remove`, `by_provider` | admin, reload |
| Keys (`auth/mod.rs`) | `KeyRecord` with atomic `KeyUsage` | `authorize`, `record_usage`, `release`, `replace_all` | handlers, reload |
| State (`state.rs`) | the rest, behind `Arc`s | `from_config`, `reload_from_path`, `record_key_usage`, `release_key` | auth, storage, registry |
| Storage (`storage.rs`) | SQLite: `api_keys`, `key_usage`, events, samples | `apply_counter_delta`, `set_in_flight`, `reset_spend`, ... | state, background tasks |
| Admin (`admin/mod.rs`) | configuration behind a `RwLock` and in a file | upstream and key administration, reload | all |
| Background tasks (`admin/mod.rs`) | – | health checker, file watcher, budget reset, persister, rollup, retention | all |
| Metrics (`metrics.rs`) | counters, gauges, histograms | `inc`, `dec`, `observe`, reset, restore | handlers, persister |

What makes it hard: tasks run in parallel on a multi-threaded runtime and share
atomics and short locks; decisions are test-then-act; a client that hangs up
drops the handler's future at an `.await`, so no later line runs; a reload
replaces records that running requests still hold; SQLite keeps copies that are
read back after a crash.

What makes each part correct: caps are never exceeded and counts are exact
(queue, upstream, keys); a taken slot or waiting place comes back; nobody waits
for ever; concurrent health reports leave a consistent state that heals;
overspending is bounded; what a plain answer cost is in SQLite once; a reload or
restart neither loses nor invents usage. `PROJECT.json` lists the hazards behind
these at their lines.

## Modules

| Module | Models | Kind |
| --- | --- | --- |
| `SlotLease` | what a counted pool promises: never overdrawn, leases come back | abstract |
| `Dispatch` | queue, admission and release of upstreams, `dispatch_*` | core |
| `KeyGate` | a request against its key: parallel slot, budget, cost, `release_key` | core |
| `KeyStore` | a key's records and its SQLite row over reload, rotation, restart | core |
| `UpstreamHealth` | health reports, breaker, health checker, admin flags | core |
| `Registry` | the configuration in file, memory, registry and key store under admin calls and reloads | core |
| `Metrics` | counters, histograms and a gauge under requests, the persister, a reset and restarts | core |
| `Routing` | requests that keep what they listed and claimed while upstreams are replaced; aliases | core |
| `RpmWindow` | the window of `rpm_limit` in memory and in SQLite, over reloads and restarts | core |
| `StreamUsage` | how the tokens of a stream reach the key: body, accumulator, watcher | core |
| `MCDispatch`, `MCKeyGate`, `MCKeyStore`, `MCRegistry`, `MCMetrics`, `MCRouting`, `MCRpmWindow`, `MCStreamUsage` | instances for TLC (`UpstreamHealth` needs none) | instance |
| `Counting` | how the size of a filtered set, or a sum over a set, changes when one member does | lemma |
| `Dispatch_proofs` (with `UpstreamHealth`), `KeyGate_proofs`, `KeyStore_proofs`, `Registry_proofs`, `Metrics_proofs`, `Routing_proofs`, `Usage_proofs` (`StreamUsage` and `RpmWindow`) | theorems | proof |

The names of `UpstreamHealth` and `RpmWindow` begin with `Health` and `Rpm` where another
model has the same (`HealthSpec`, `RpmTypeOK`), so that one module of proofs can extend two
models.

Definitions introduced by a comment `Slip:` are deliberately wrong variants of
the definition that follows them. No specification uses them; each property is
checked to fail when one of them takes that definition's place.

### Dispatch

A request is a process with a position `pc`. A step is one atomic operation or
one critical section of the code:

| Action | Code |
| --- | --- |
| `Route` | `dispatch_*` up to `acquire`: no candidate → 503, else gauge up |
| `CheckUsable` | `is_usable`, first statement of `Upstream::try_acquire` |
| `Claim` | the `fetch_update` on `in_flight` |
| `TakeToken` | the rate bucket under its lock, with the roll-back |
| `Reserve` | the critical section on `pending_waits` |
| `Deadline`, `BackOff`, `NotifyChange` | `wait_loop`: deadline test, timer, wake-up |
| `Settle` | the decrement of `pending_waits` after `wait_loop` |
| `Respond` | `forward_*` returned: `upstream.release()`, gauge down |
| `Disconnect` | the future is dropped at the `.await` in `select!` or `forward_*` |
| `Expire`, `Refill`, `Flip` | the clock, the bucket's credit, the flags |

`Refused` is the loop over the candidates and what its two callers do when it
ends without one; `Granted` what they do with an upstream. `is_usable` reads
several cells; since `open` may flip at any moment, one read of it together with
`in_flight` has every outcome that separate reads have. The bucket counts tenths
of a token because its capacity is `rate_limit_rpm / 60 * 6`. The notification
is an action that wakes exactly those in `select!`: one sent while a request is
trying its candidates is lost, as in the code, which creates the `Notified`
future after the try. The gauge `active_streams` moves at the lines of
`active_requests` and is not repeated. An upstream is taken to keep its identity
and limits: the bounds hold for one incarnation of it, between two reloads or
updates; `Routing` has what happens across them.

### KeyGate

`authorize` is three separate tests: the checks that take nothing and the rpm
window (`CheckKey`, which may refuse), the parallel slot (`TakeSlot`), the budget
window and the comparison (`RestartWindow`, `CheckBudget`). Then `Handle` is the
handler up to `dispatch_*`, `Succeed`/`Fail` its result, `Record` the charge,
`Release`, `LoadCount`, `StoreCount` the three steps of `release_key`. `Watch` is
the task that charges a stream later, `ExpireWindow`/`WipeSpend` the budget task,
whose two writes are not under one lock. Money in memory is thousandths of a
dollar, truncated from millionths (`Millis`).

### KeyStore

Records of one key are numbered as they are made and `cur` is the one in the
`AuthStore`. A request keeps the number it looked up. A reload is `ReplaceAll`
(a zeroed record), `AllKeys`, `ReadRow`, `RestoreSpend`, `RestoreCount`, with
requests running in between; `Rotate` installs a zeroed record; `Restart` ends
every request and task and restores a record before serving. `Charge` and
`Persist` are the two halves of `record_key_usage`, by the handler or by the
stream's watcher. `registered` says whether `api_keys` has a row for the key:
without it the foreign key of `key_usage` makes every write fail, and with it any
write may fail: the error is logged and the call goes on. `streamed` says whose cost
a watcher records later. `in_flight` is a number modulo `Width`.

### UpstreamHealth

A report of success writes `consecutive_failures`, `breaker_open_until`, `health`
in that order; a failure adds to the count, then writes `health`, then the
window. Each write is a step, and reports of the health checker and of callers
interleave. The admin actions are `SetEnabled`, `SetPaused`, and `ResetCount`
then `ResetHealth`.

### Registry

A configuration is a set of `<<item, value>>` pairs; items are upstream ids, key
aliases and other settings, and the value a call gives an item is the call
itself, so two values differ exactly if different calls wrote them. It is kept in
`file`, `bak`, `config`, `map` and `list` (the two indexes of the registry) and
`keys`. Admin calls and the watcher are processes; a step is one lock, one
operation of a `DashMap` or one access to a file:

| Action | Code |
| --- | --- |
| `CallUpstream`, `CallKey`, `CallSetting`, `CallReload` | a call of the handlers of upstreams, of keys, of aliases, model_list and retention, of reload and rollback |
| `FindKey`, `RemoveKey`, `AddKey` | the `AuthStore` part of `create_key`, `rotate_key`, `revoke_key_by_alias` |
| `Edit` | the block under `state.config.write()` of every handler |
| `Remove`, `Upsert`, `Collect`, `Publish` | `UpstreamRegistry::remove`, `upsert`, and the two halves of `rebuild_by_provider` |
| `Clone`, `Truncate`, `Write` | `save_to_disk`: the clone, and `fs::write` as truncation and writing |
| `SaveFails`, `WriteFails` | a save that fails before the file is touched, or once it is truncated: the handlers only warn, or drop the error, and answer success |
| `BackUp`, `Stage` | `reload?from=`: copy to `config.toml.bak`, rename of the snapshot |
| `BackUpFails`, `StageFails` | the copy fails, which is ignored, or the rename does, which is answered as an error |
| `Load`, `List`, `ReplaceAll`, `Install` | `reload_from_path` |
| `LoadFails` | the file is unreadable: a call says so, the watcher only logs it |
| `Wake` | the watcher has slept and drained its channel |
| `Audit`, `AuditFails` | `append_audit`, a write of `state.db` whose error is ignored |
| `DatabaseWrite` | other writes of `state.db`, which is beside `config.toml` and wakes the watcher too |

An empty file parses as the default configuration, so `Load` reads it as the
empty set. Writing over what another saver has written gives the text or `Torn`,
which does not parse. A write that fails leaves `Partial` of its text: the entries
of some items (`Parts`, any family of sets of items), which is a configuration again,
or `Torn`. A file lists no upstream id twice. A copy that succeeds is atomic apart from
the truncation of `config.toml`. `failed` is history: since the watcher last woke, a
save or an audit has failed without leaving an event, or the watcher's read has.

### Metrics

One series of each kind stands for all: the counter `requests_total`, the
histogram `request_duration` (its buckets and its count; the sum moves with the
count), the gauge `active_requests`. `cell` is memory, `row` the table
`metric_samples`. Reading or writing one cell is a step:

| Action | Code |
| --- | --- |
| `Begin`, `Answer`, `Refused` | `dispatch_*`: the gauge goes up, down, or stays up when `acquire` fails |
| `ObserveBucket`, `ObserveCount`, `IncTotal` | `RequestTimer::finalize`: `observe_us` and the counter |
| `Tick`, `Read`, `Save` | `spawn_metrics_persister`: one snapshot, cell by cell, and its transaction, which may fail |
| `Reset`, `Zero`, `ZeroGauge` | `admin_metrics_reset`, cell by cell |
| `Restart` | the process ends at any point; `from_config` restores what the rows hold |

The first snapshot after a start leaves the buckets out (`Snapshot`), and a row of
a bucket is cumulative (`Running`). A restart restores counters and counts but no
bucket, because `restore_histogram` takes a bound in microseconds for an index.
Rows are taken to be readable at a start. A shutdown saves no metrics, so it is a
crash here. `since` and `stage` are history: what happened since the last reset
was asked for, and whether a full save, buckets included, that began after it has
succeeded. A snapshot holds the zeros of a cell that was reset and the UPSERT writes
them, as `snapshot_for_persist` does and a comment of `storage.rs` denies (a finding).

### Routing

An instance is one `Arc<Upstream>`; `upsert` makes a new one for the id, and
requests keep the instances they have listed or claimed.

| Action | Code |
| --- | --- |
| `Resolve` | `resolve_alias`: an entry of `model_list` or `model_aliases` with a usable upstream gives the model to send |
| `List` | `by_provider`, then `filter_upstreams_for_model` with the name the client asked for; nothing left → 503 |
| `Claim`, `GiveUp` | `acquire`: the first usable candidate, now or on a later pass; or none |
| `Finish` | `upstream.release()` on the instance that was claimed |
| `Upsert`, `Unregister` | `UpstreamRegistry::upsert` and `remove`, by an admin call or a reload (`Admins`) |
| `Collect`, `Publish` | the two halves of `rebuild_by_provider`: the map entry by entry, then the list |
| `Flip` | enable, disable, pause, health: on a registered instance, or one that a request reports about |

Requests are repeated: `new` is a client between two calls. One provider kind is
modelled; `resolve_alias` compares the kind and `by_provider` filters by it. An
id keeps its priority (`Rank`). `rebuild` says of a task that rebuilds the list whether
another one has done so meanwhile (`raced`); the list may be `stale` once a raced task
has written it. The steps inside `acquire`, the rate bucket and hang-ups are in
`Dispatch`.

### RpmWindow

Memory has instants (`Ticks` of them in a second), SQLite whole seconds; a
window's start is kept as its age. `Lookup` finds the record; `RefuseRpm`,
`RefuseOtherwise` and `Admit` are `auth::authorize` after it, which counts the
call whether it passes or not; `Save` and `SaveFails` are `update_rpm_window`.
`ReplaceRecords`, `ReadRow`, `RestoreCount`, `RestoreStart` are the reload,
`Restart` the start of a process. The memory restarts a window after more than
60 seconds, the row after at least 60 whole ones. Counts stop at `Limit`, the only
number they are compared with.

The histories count, by age, the requests that were let through within the last
minute: `recent` those counted in a record that a start made (`first` is the one of this
process), `anew[n]` those counted in the record that the n-th reload published, since
records of both kinds let requests through side by side. `lost` are those that no save
put into the row. `Passed` is the sum of all.

### StreamUsage

A stream is a sequence of events, and an event is what its usage object says of
the two kinds of tokens. `Chunk`, `End`, `Cut` are `upstream_stream_body`; an
event is `legible` when the chunk holds it whole and is valid UTF-8. A chunk that ends
inside a character is illegible and its bytes are still good in the buffer; bytes that
are no character leave the body `garbled`, and then the read of the whole buffer at the
end gives nothing (`ReadBuffer`). A chunk with several events is
several `Chunk` steps. `Look`, `Expire`, `GiveUp`, `Take`, `Charge`, `Mirror` are
`spawn_stream_usage_watcher`: it looks at the accumulator and takes the value
under two separate locks. A cut body, by an error or by a client that went away,
leaves the buffer unread.

## Runs

| Run | Specification | Asks | Result |
| --- | --- | --- | --- |
| `dispatch` | `Dispatch!Spec`, 3 competing requests and one without candidates, 2 upstreams, 1 waiting place | are the counts exact and the caps kept | holds |
| `dispatch_live` | `Dispatch!FairSpec`, 2 requests on one rate-limited upstream, 1 on an unlimited one, two kinds | do slots and seats come back; does queueing end | holds |
| `key_gate` | `KeyGate!FairSpec`, 2 requests on a capped and budgeted key, 1 on a free one | are the slots exact, where can they leak, how far can spend overshoot | holds |
| `key_store` | `KeyStore!Spec`, 3 requests, 1 reloader, 2 records, writes that may fail | is what a client has an answer for in the row, and nothing twice; what does a reload let in | holds |
| `upstream_health` | 1 caller and the checker, threshold 3 | do reports agree, does it heal, does an outage stop traffic | holds |
| `registry` | `Registry!Spec`, 2 calls, 1 upstream, 1 key, 1 setting, failing saves, copies, reads, audits | does memory agree with the file once all is quiet | holds |
| `metrics` | `Metrics!Spec`, 2 requests, 2 buckets, 1 reset, 2 restarts | do saved counts only grow; does a reset stay after a full save | holds |
| `routing` | `Routing!LiveSpec`, 2 requests, 1 upstream, 2 tasks that change it, 3 instances | are counts exact and are old instances let go while upstreams are replaced | holds |
| `routing_alias` | 1 request, no replacement needed | does an alias reach the upstream it names | violated |
| `rpm_window` | `RpmWindow!RpmLiveSpec`, 2 clients, limit 2, 2 restarts, 1 lost save | how many requests pass in a minute over restarts; do clients that retry get through | holds |
| `rpm_window_reload` | limit 1, 1 reload, 1 restart, 1 lost save | how many requests pass in a minute over a reload | holds |
| `stream_usage` | `StreamUsage!LiveSpec`, 2 streams, 4 shapes of streams, text that may not be UTF-8 | is never more charged than reported; is a drained body read whole; is what was seen charged | holds |

The question answered "violated" is a sentence of the repository's own documents;
`findings` in `PROJECT.json` quotes it and says what the trace shows, with the other
disagreements between code and documents that were met while modelling.

### Bounds and why they are enough

- `dispatch`: three requests is the least with which one holds, one waits and one
  is turned away; two upstreams in sequence is the least for a fall-through, and
  one of them has a bucket of exactly one token so that the roll-back happens.
  One waiting place makes the queue full with one waiter. The competing requests
  are symmetric. Requests are not reused, so the set bounds the run; no counter
  is cut off. `CHECK_DEADLOCK FALSE`: when all requests are over nothing more
  need happen.
- `dispatch_live`: without symmetry (liveness), two competitors suffice for
  waiting; the third shows that kinds do not share a queue.
- `key_gate`: one slot and a budget of 2 with costs 1.4 and 2 thousandths: a
  request can end below, at or above the budget, and truncation matters.
- `key_store`: one slot and three requests exceed the bound of
  `OvershootPerRecord` as soon as one more is let in. Two records allow one
  replacement, of any kind, at any point of the requests. What needs three, such
  as a rotation inside a reload, was checked once with `MaxRecords = 3` (5.2
  million states, no error); the configuration kept here is the quick one.
  `Width` 4 leaves a wrapped count above the cap, as 2^32 does.
  `MaxRecords` is the only cut-off: replacements stop there.
- `upstream_health`: threshold 3 is the default; the counter saturates at
  `FailureCap` = 4, one above the last value that changes a decision. One caller
  and the checker are two interleaved reporters.
- `registry`: two calls and the watcher are three writers of the same places, on the
  same item or not, and everything that can fail may fail at every call; 2.2 million
  states. `MCKinds` makes one call a creation, a staged reload or a rollback and the
  other a deletion, a rotation or a setting, so a save meets another save, and a reload
  a save, a deletion of what it restores and the watcher's reload; the other kinds have
  the steps of these. With every kind but `reload` and `update` for both calls the run
  held as well (5.8 million states, too slow to keep). `Parts` has only the empty one.
  Calls are not reused. `CHECK_DEADLOCK FALSE`: with the calls over and no event nothing
  need happen. The theorem covers all kinds, any parts and any number of items and calls.
- `metrics`: two requests are two writers of each cell beside the persister and
  the reset; two buckets are the least for a cumulative row; two restarts let a
  restored value be saved and restored again. `MaxResets` and `MaxStops` are the
  only cut-offs; a gauge modulo `Width` = 8 wraps as one of 64 bits does.
- `routing`: two requests can hold the old and the new instance of one id at the
  same time, and two tasks are the least whose rebuilds overlap. The second instance
  replaces the first and the third the second, at any point; with `MaxInstances = 4` the
  run held too (311 thousand states). One id is enough, since its instances share nothing
  with those of others but the list. The theorem has no bound on ids, tasks or instances.
- `routing_alias`: the second upstream is the one an alias names, and the first is one
  that declares no model; no replacement is needed.
- `rpm_window`: a minute of 2 seconds of 2 instants has every relation of the two
  windows' ends; a limit of 2 tells a window that is counted from one that is not.
  Two restarts let more than two quotas pass and never three. The reload
  needs a run of its own, with limit 1, for its size: there one reload lets six
  requests pass within a minute, one less than `MinuteBound` excludes. `MaxRestarts`,
  `MaxReloads` and `MaxLost` are the only cut-offs, and the theorem has none.
- `stream_usage`: two streams share the key's totals; the four shapes are what the
  two providers send: usage in the last chunk, in every chunk with zeros first,
  split over the first and the last, and none. `CHECK_DEADLOCK FALSE`: streams are
  not reused.

### Fairness

`Dispatch!FairSpec` and `KeyGate!FairSpec` assume weak fairness of each request's
own statements: the runtime polls tasks that can run, and an upstream call ends
because `reqwest` has `timeout_ms`. `Expire` and `WindowPasses` are the
clock; that tokens come back is not assumed, since a bucket below one token never has one. `Probe` is the health checker's interval (`UpstreamHealth!HealthFairSpec`). `Routing!LiveSpec` assumes that a request which has
begun goes on and that a rebuild of the list, code without a wait, ends, `RpmWindow!RpmLiveSpec` that the clock runs and a call that has its
record is decided, `StreamUsage!LiveSpec` that the watcher, a task of the
runtime, runs. Nothing is assumed of clients, administrators, notifications, providers or the flags of an upstream.
`CheckerHeals` and `OutageStopsTraffic` have their conditions on the environment
in the formula (`<>[]`), not in the fairness.

## Properties worth a word

- `InFlightExact`, `PendingExact`, `KeySlotsExact` relate a counter to the set of
  requests that owe a decrement, so a double release, a forgotten one and a wrap
  below zero are all excluded, as long as the record is not replaced.
- `LeaksAreEarlyExits` says where a key slot is lost and that it is lost nowhere
  else: the budget refusal, the handler's early returns, endpoints that never
  call `release_key`, a hang-up.
- `OvershootBounded`: a key overspends by at most the cost of the requests its
  parallel slots admit at once, plus one for each stream, since a stream frees its
  slot before its cost is known.
- `UnhealthyHasWindow` and `OutageStopsTraffic` are about interleaved reports: a
  late success or a late "degraded" cannot leave a dead upstream open for good.
- `AnsweredIsDurable`: the handler of a plain answer awaits the write of the row before
  it goes on, so a crash, a reload or a rotation after the answer cannot lose its cost.
  It excludes what the code loses: a write that failed is only logged (a key made by
  `create_key` has no row until the next start, so there every write fails), and a
  stream is recorded by its watcher after the client has it. Both are findings or hazards.
- `NeverDoubleCharged` depends on the order memory-then-row in
  `record_key_usage` and on the restore storing, not adding.
- `QuietAgrees` says that what overlapping calls and reloads leave behind is put
  right by the watcher's last reload. It depends on an event following every
  change, on the drain coming before the read, and, for reloads that overlap
  changes, on the audit row being written into the watched directory. It excludes a
  file that does not parse and what the code does not put right: a save, a read by the
  watcher or an audit that failed without an event (`failed`). Then memory and file
  disagree until the next event, although the call was answered as a success (a finding).
  A write that failed half-way is not excluded, since its truncation is an event. It does not
  say that the last answered change survives: of two overlapping saves the older
  clone may be the file that all agree on (a finding).
- `RowsGrow` depends on the restore coming before the first save and on every cell
  being read after the process has started; `ResetSticks` says that an old
  snapshot that is saved after a reset, or a restart from rows of before it,
  cannot undo it once a later full save has succeeded. Before that it can: a restart
  within ten seconds of a reset undoes the reset, and the first save after a start, which
  has no buckets, leaves their old rows. Zeros must be written for it, and the
  comments that say they are not, or that totals outlive a reset, are findings.
- `HeldExact` is the counterpart of `InFlightExact` while upstreams are replaced: it
  depends on the release going to the instance that was claimed, and it is a cap
  for each instance: after a reload the deployment may serve its
  `max_concurrency` again beside the requests of the old instance.
  `RetiredDrains` depends on the candidates being listed once and for one request, and
  on the rebuild coming after the change of the map. Where rebuilds overlap (`Raced`) it
  claims nothing: the list may then keep a removed instance, which goes on to get
  requests until a later rebuild that no other overlaps (a finding).
- `SteadyBound` says what a fixed window gives: fewer than two quotas within any
  minute. `MinuteBound` is about restarts and reloads. It makes three of the two over
  restarts, however many, since the row's window ends at another instant, and one call
  more for each that is missing from the row; it fails as soon as a restart begins with a
  fresh window. For each reload it adds four: the new record is empty and may fill, may
  fill again when its count is set back to the row's, again when its start is, and once
  more in the window that begins next; requests that hold the old record count there
  meanwhile. The bound is tight: with a limit of 1 and one reload, six requests pass.
  `RetriesSucceed` depends on a refused call not moving the window's start.
- `NeverOvercharged` depends on the parser keeping the largest value of each field,
  as every event is read twice, and on the watcher ending after one charge;
  `DrainedIsComplete` on the buffer being read at the end, of a body that is valid UTF-8
  as a whole (one bad byte loses what the chunks had split, a finding); `UsageCharged` on the
  accumulator being looked at before the deadline. That the watcher charges what a
  drained stream reported is not among them: it takes the first value it sees.
- `SlotsAreLeases` and `SeatsAreLeases` are refinements: `SlotLease` is
  instantiated with the slots of upstreams, the waiting places of kinds and the
  slots of keys.

## Proofs

All are about every value of the constants under the named assumptions
(`DispatchAssumption`, `KeyGateAssumption`, `KeyStoreAssumption`, `HealthAssumption`,
`RegistryAssumption`, `MetricsAssumption`, `RoutingAssumption`, `RpmAssumption`,
`StreamAssumption`), which say only what types the constants have, that the sets of
requests and of streams are finite, and that items of different kinds are different.

Sums (costs, tokens, calls within a minute) are folds, recursive functions over the
subsets of a set. `Counting` proves what they do without an induction theorem that takes
an operator: `SmallestSubset` gives a non-empty family of subsets of a finite set a
minimal member, which is the induction, done once, and `SumCountsUnits` shows with it that
a sum of natural numbers is the cardinality of a set with `f[x]` members for every `x`.
What sums then do (`SumMonotone`, `SumBounded`, `SumChanged`, `SumSplit`, `SumMapped`) follows from the
library's theorems about cardinalities.

- `Dispatch_proofs`: `Invariance` proves `Spec => []IInv`. `IInv` is the
  conjunction of `TypeOK`, `NoIdleLease`, `InFlightExact`, `WithinConcurrency`,
  `PendingExact` and `StatsBalance`; it is inductive because `NoIdleLease` ties
  the ghost-like `slot` and `seat` to positions, without which a decrement could
  not be shown to have a matching increment. The counting arguments rest on
  `Counting!Recount`: when one member of a finite set changes its membership of a
  filtered subset, the cardinality changes by one. Each action has a lemma, each
  lemma a step per conjunct it can disturb.
  `SlotsImplementLeases` and `SeatsImplementLeases`: every
  step of `Dispatch` is a step or stutter of `SlotLease` under the two mappings.
- `KeyGate_proofs`: `IInv` is `TypeOK /\ KeySlotsExact /\ LeaksAreEarlyExits`. The
  last is needed for the first: `Release` lowers a `Nat` only because a request at
  `release` on a capped key holds a slot. `OvershootIsBounded` proves
  `OvershootBounded` from it: the bound alone does not say what is still to be
  charged. `Committed` counts the requests that passed the budget check and were not
  charged (`Uncharged`) at the highest cost. A charge moves its request out of them;
  an admission happens below the budget, and then all of them are streams or hold a
  slot. `SlotsImplementLeases` is the refinement of `SlotLease`; `LeaksAreEarlyExits`
  gives it that `TakeSlot` finds no slot held.
- `KeyStore_proofs`: `TypeCorrect` and `OvershootBounded`, which is
  `OvershootPerRecord`. That bound is not inductive: it does not say why a reloader
  cannot forget the slots of one record twice. `RoomKept` gives a record room for
  `MaxParallel` holders beyond its count for every reloader that is no longer to fill
  it (`Filling`), and a filling turns the reloader's share into room. The bound holds
  although `in_flight` wraps at zero: a count that wrapped is larger, and refuses.
  `AnswersAreDurable` and `DoubleChargeFree` are about money. `RowIsBooked` says that the
  row is the sum of the bills that were written (`Booked`), which moves with one of them at
  a time; `Handled`, that a plain answer past `billing` owes nothing that was not tried.
  So whoever is `Settled` is booked, or had no cost, and the sums are compared. That no record
  has more than what was paid (`NeverDoubleCharged`) needs to know of the reloaders that
  what they have read was not more either (`ReadBounded`), and of the requests that
  nothing is charged before the answer (`Unbilled`); `MoneyInv` is the conjunction.
- `Dispatch_proofs` ends with `UpstreamHealth`: `HealthTypeCorrect`, and
  `UnhealthyKeepsWindow` (`UnhealthyHasWindow`) with the help of it.
- `Registry_proofs`: `TypeCorrect` and `QuietAgreement`. `QuietAgrees` is not
  inductive: it says nothing while the watcher works. `WatcherKeepsUp` says, for
  each position of the watcher, how far memory agrees with the file, as long as
  no change is under way and no event waits (`Calm`): the registry holds only
  upstreams that are wanted or still to be dropped, and those that are missing
  are still to be put. A failure that is not announced ends the calm (`failed`), one that
  cut the file short is announced by its truncation. `AdminAnnounces` shows that an admin
  step leaves a change under way, an event or `failed` behind it, so only the watcher's own steps need an
  argument, a lemma each. Refilling needs `UpstreamsUnique`: with an id listed
  twice the second `upsert` would replace the first.
- `Metrics_proofs`: `TypeCorrect`, and `Growth`, which is `RowsGrow`. A save writes
  values read long before, so the invariant `Following` puts each row below what
  the persister has read of the cell, and that below the cell, until a reset.
  `ResetHolds` proves `ResetSticks`: `Sticking` says how far the reset has come, first
  in the cells that are zeroed, then in what the persister has read since, then in
  the rows. A row of a bucket is a running sum; `Within` avoids the sum by comparing
  each bucket with what happened in it alone.
- `Routing_proofs`: `TypeCorrect` and `HeldExactness`, for any number of instances.
  `HeldExact` is not inductive: that a request holds an instance exactly while it
  is served (`HoldsWhileServing`) gives each release its claim, and that an
  instance nobody has made has count 0 (`UnmadeIsFresh`) makes it hold for a new
  one. `RegisteredIsMade` is there because a rebuild collects what the map holds. The
  registry and its list, stale or not, appear in no count, which is the point.

- `Usage_proofs`, tokens: the parser folds the events of a stream into the accumulator.
  `FoldIsPeak` says what the fold is: at least every count of the events, and one of
  them. A peak does not mind order or repetition, which is why reading an event twice
  charges nothing twice. The invariant has, for each stream, that the accumulator is
  within what was reported and, once drained and not garbled, all of it (`Bounded`), that only a drained
  stream is charged late (`TakenLate`), and that the key's totals are the sums of what its
  streams have charged (`TotalsExact`). `NothingOvercharged` and `CompleteWhenDrained`
  follow.
- `Usage_proofs`, calls per minute: `SteadyRate` is `SteadyBound`. `Steady` says of the
  first record that its count covers what the window has let through, the call that opened
  it included, so that less than a quota is left of a window when the next one opens.
  `MinuteRate` is `MinuteBound`, for any number of restarts and reloads. Neither the window
  in memory nor the one in the row bounds a minute by itself: a restart forgets what memory
  has counted beyond the row, and the row counts up to `Limit` only and starts again at
  another instant. `QuotasKept` looks at the calls since each window began, for the record
  that the process started with. `MemoryBound` and `RowBound` say that a window's count
  covers them, but for those that are missing from the row, and that with what the window
  may still let through the minute stays below three quotas. `JointBound` compares the two:
  since the row's window began, an older window of memory has let through less than it
  counts, and a younger one has one predecessor. It needs the row's window to begin with
  its whole second: what passed since the last one ended is either saved in this one, still
  to be saved, or lost. After a reload that record goes on only as long as a request has it;
  then `Quotas` keeps the window it would have had, which the saves of other records do not
  disturb (`OtherKeeps`). A record that a reload published has the history `anew[n]` to
  itself. `Stage` says, for each position of the loader, how many quotas its window may
  have let through beyond what it counts (`Filled`), and `StageCap` that this is never more
  than four; `Capped` keeps that for records that are gone and whose calls are still within
  the minute, and `SumBounded` adds the reloads up. `Renewed` says that every record a
  request can hold is one or the other.

Only model-checked: everything temporal with fairness, which is beyond the prover:
`QueueingEnds`, `CheckerHeals`, `OutageStopsTraffic`, `RetiredDrains`,
`RetriesSucceed`, `UsageCharged`, and of the refinements `SlotsAreLeases` and
`SeatsAreLeases` the fairness, while their safety part is proved. Every invariant of every
run is a theorem.

## Not modelled, and the plan

In the order of importance:

1. Liveness of `Registry`: that the watcher's last reload comes.
2. `RateRing`: the ring of per-second buckets against the exact window.
3. `Router`: `KeyGate`, `Dispatch` and `UpstreamHealth` composed, for properties
   that need all three (a leaked upstream slot also holds a key slot).

Left out for good: parsing and validation of the configuration, rendering of
errors, snapshots and dashboards, the command line, HTTP header handling, and the
splitting of SSE text into lines. Prices (`cost_for`) are a lookup in tables whose
results are constants here (`Costs`).
