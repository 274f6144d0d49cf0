------------------------------- MODULE Registry -------------------------------
(***************************************************************************)
(* The configuration in its four places - config.toml, AppState::config,   *)
(* the UpstreamRegistry with its two indexes, the AuthStore - while admin  *)
(* handlers change it and reloads copy the file over the rest.             *)
(*                                                                         *)
(* A configuration is a set of <<item, value>> pairs.  An item is an       *)
(* upstream id, a key alias or another setting (aliases, model_list,       *)
(* retention); the value an admin call gives an item is the call itself.   *)
(* Upstreams: the flags of an Arc<Upstream> are in UpstreamHealth.  Keys:  *)
(* the value is the token, the usage of a record is in KeyStore.           *)
(***************************************************************************)
CONSTANTS
  Upstreams,    \* ids of upstreams
  Keys,         \* aliases of keys
  Settings,     \* other entries of the configuration
  Admins,       \* calls of the admin API
  Watcher,      \* the task of spawn_config_watcher
  Old,          \* the value of every item at the start
  Staged,       \* its value in the snapshot of reload?from=
  Kinds,        \* the kinds that each of them may be of
  Parts,        \* the items that a part of a file may hold, {} for none of them
  Garbage       \* text that does not parse

Items == Upstreams \cup Keys \cup Settings
Actors == Admins \cup {Watcher}
Values == Admins \cup {Old, Staged}
Pairs == Items \X Values

UpstreamKinds == {"create", "update", "delete"}
KeyKinds == {"addKey", "rotate", "revoke"}
ReloadKinds == {"reload", "stage", "rollback"}
AllKinds == UpstreamKinds \cup KeyKinds \cup ReloadKinds \cup {"setting"}

\* The content of a file that two savers have torn.
Torn == {Garbage}

ASSUME RegistryAssumption ==
  /\ Upstreams \cap Keys = {} /\ Upstreams \cap Settings = {} /\ Keys \cap Settings = {}
  /\ Watcher \notin Admins
  /\ Kinds \in [Admins -> SUBSET AllKinds]
  /\ Parts \subseteq SUBSET Items
  /\ Garbage \notin Pairs

VARIABLES
  config,     \* AppState::config
  file,       \* config.toml
  bak,        \* config.toml.bak
  map,        \* UpstreamRegistry::upstreams
  list,       \* UpstreamRegistry::by_provider
  keys,       \* AuthStore::keys
  event,      \* a file system event waits in the watcher's channel
  failed,     \* history: a save, a read or an audit has failed and left no event
  at,         \* where each actor is
  op,         \* what each actor does
  held,       \* the configuration an actor has read or cloned
  todo,       \* the registry.remove and registry.upsert calls still to make
  collected   \* what rebuild_by_provider has collected

registry == <<map, list>>
disk == <<file, bak, event, failed>>
local == <<op, held, todo, collected>>
vars == <<config, disk, registry, keys, at, local>>

Nothing == [drop |-> {}, put |-> {}]
Work(kind, i) == [kind |-> kind, item |-> i, old |-> {}]
NoCall == Work("none", {})

Positions ==
  {"new", "idle", "find", "unkey", "key", "edit", "registry", "collect", "publish", "clone",
   "truncate", "write", "backup", "stage", "load", "list", "install", "audit", "over"}

Of(c, S) == {p \in c : p[1] \in S}
Without(c, i) == {p \in c : p[1] # i}
With(c, i, v) == Without(c, i) \cup {<<i, v>>}

\* from_config: everything agrees with the file, which cmd_serve has backed up.
Init ==
  /\ config = Items \X {Old}
  /\ file = config /\ bak = config
  /\ map = Of(config, Upstreams) /\ list = map
  /\ keys = Of(config, Keys)
  /\ event = FALSE /\ failed = FALSE
  /\ at = [p \in Actors |-> IF p = Watcher THEN "idle" ELSE "new"]
  /\ op = [p \in Actors |-> IF p = Watcher THEN Work("watch", {}) ELSE NoCall]
  /\ held = [p \in Actors |-> {}]
  /\ todo = [p \in Actors |-> Nothing]
  /\ collected = [p \in Actors |-> {}]

Go(p, q) == at' = [at EXCEPT ![p] = q]

\* An admin call is answered.
End(a) == Go(a, "over") /\ op' = [op EXCEPT ![a] = NoCall]

-----------------------------------------------------------------------------
\* An admin call arrives.
Call(a, kind, i) ==
  /\ op' = [op EXCEPT ![a] = Work(kind, i)]
  /\ UNCHANGED <<config, disk, registry, keys, held, todo, collected>>

CallUpstream(a) ==
  /\ at[a] = "new"
  /\ \E kind \in Kinds[a] \cap UpstreamKinds, u \in Upstreams : Call(a, kind, {u})
  /\ Go(a, "edit")

CallKey(a) ==
  /\ at[a] = "new"
  /\ \E kind \in Kinds[a] \cap KeyKinds, k \in Keys :
       /\ Call(a, kind, {k})
       /\ Go(a, IF kind = "addKey" THEN "key" ELSE "find")

CallSetting(a) ==
  /\ at[a] = "new"
  /\ "setting" \in Kinds[a]
  /\ \E s \in Settings : Call(a, "setting", {s})
  /\ Go(a, "edit")

CallReload(a) ==
  /\ at[a] = "new"
  /\ \E kind \in Kinds[a] \cap ReloadKinds :
       /\ Call(a, kind, {})
       /\ Go(a, IF kind = "stage" THEN "backup" ELSE "load")

-----------------------------------------------------------------------------
\* rotate_key and revoke_key_by_alias find a record of the alias; without one
\* they answer 404.
FindKey(a) ==
  /\ at[a] = "find"
  /\ \/ \E p \in Of(keys, op[a].item) :
          op' = [op EXCEPT ![a].old = {p}] /\ Go(a, "unkey")
     \/ Of(keys, op[a].item) = {} /\ End(a)
  /\ UNCHANGED <<config, disk, registry, keys, held, todo, collected>>

\* They drop it from the AuthStore, if it is still there.
RemoveKey(a) ==
  /\ at[a] = "unkey"
  /\ keys' = keys \ op[a].old
  /\ Go(a, IF op[a].kind = "rotate" THEN "key" ELSE "edit")
  /\ UNCHANGED <<config, disk, registry, local>>

\* create_key and rotate_key add the new record.
AddKey(a) ==
  /\ at[a] = "key"
  /\ keys' = keys \cup op[a].item \X {a}
  /\ Go(a, "edit")
  /\ UNCHANGED <<config, disk, registry, local>>

\* Every handler changes the configuration under its write lock.
Edited(a) ==
  LET own == op[a].item \X {a} IN
  CASE op[a].kind = "delete" -> config \ Of(config, op[a].item)
    [] op[a].kind = "revoke" -> config \ op[a].old
    [] op[a].kind = "addKey" -> config \cup own
    [] OTHER -> (config \ Of(config, op[a].item)) \cup own

\* Upstream handlers change the registry next: create_upstream by upsert,
\* update_upstream by remove and upsert, delete_upstream by remove.
Edit(a) ==
  /\ at[a] = "edit"
  /\ config' = Edited(a)
  /\ IF op[a].kind \in UpstreamKinds
     THEN /\ Go(a, "registry")
          /\ todo' = [todo EXCEPT ![a] =
               [drop |-> IF op[a].kind = "create" THEN {} ELSE op[a].item,
                put  |-> IF op[a].kind = "delete" THEN {} ELSE op[a].item \X {a}]]
     ELSE Go(a, "clone") /\ UNCHANGED todo
  /\ UNCHANGED <<disk, registry, keys, op, held, collected>>

-----------------------------------------------------------------------------
\* UpstreamRegistry::remove rebuilds the list only if the id was there.
Remove(p) ==
  /\ at[p] = "registry"
  /\ \E u \in todo[p].drop :
       /\ map' = Without(map, u)
       /\ todo' = [todo EXCEPT ![p].drop = @ \ {u}]
       /\ IF Of(map, {u}) # {} THEN Go(p, "collect") ELSE UNCHANGED at
  /\ UNCHANGED <<config, disk, list, keys, op, held, collected>>

Upsert(p) ==
  /\ at[p] = "registry" /\ todo[p].drop = {}
  /\ \E e \in todo[p].put :
       /\ map' = With(map, e[1], e[2])
       /\ todo' = [todo EXCEPT ![p].put = @ \ {e}]
  /\ Go(p, "collect")
  /\ UNCHANGED <<config, disk, list, keys, op, held, collected>>

\* rebuild_by_provider collects the map and then writes the list.
Collect(p) ==
  /\ at[p] = "collect"
  /\ collected' = [collected EXCEPT ![p] = map]
  /\ Go(p, "publish")
  /\ UNCHANGED <<config, disk, registry, keys, op, held, todo>>

Publish(p) ==
  /\ at[p] = "publish"
  /\ list' = collected[p]
  /\ collected' = [collected EXCEPT ![p] = {}]
  /\ Go(p, "registry")
  /\ UNCHANGED <<config, disk, map, keys, op, held, todo>>

Reloads(p) == op[p].kind \in ReloadKinds \cup {"watch"}

RegistryDone(p) == at[p] = "registry" /\ todo[p] = Nothing

-----------------------------------------------------------------------------
\* save_to_disk clones the configuration; fs::write truncates the file,
Clone(a) ==
  /\ at[a] = "clone" \/ (RegistryDone(a) /\ ~Reloads(a))
  /\ held' = [held EXCEPT ![a] = config]
  /\ Go(a, "truncate")
  /\ UNCHANGED <<config, disk, registry, keys, op, todo, collected>>

Truncate(a) ==
  /\ at[a] = "truncate"
  /\ file' = {} /\ event' = TRUE
  /\ Go(a, "write")
  /\ UNCHANGED <<config, bak, failed, registry, keys, local>>

\* and writes it.  A rollback copies the backup and goes on to the audit trail;
\* other calls are answered now.
Text(a) == IF op[a].kind = "rollback" THEN bak ELSE held[a]
Saved(a) ==
  IF op[a].kind = "rollback" THEN Go(a, "audit") /\ UNCHANGED op ELSE End(a)

\* If another call has written since the truncation, the end of the longer text
\* stays behind the shorter one.
Write(a) ==
  /\ at[a] = "write"
  /\ file' \in {Text(a)} \cup (IF file \in {{}, Text(a)} THEN {} ELSE {Torn})
  /\ event' = TRUE
  /\ held' = [held EXCEPT ![a] = {}]
  /\ Saved(a)
  /\ UNCHANGED <<config, bak, failed, registry, keys, todo, collected>>

\* save_to_path fails before it has touched the file, or the copy of a rollback
\* does: the call goes on, and is answered, as if it had succeeded.
SaveFails(a) ==
  /\ at[a] = "truncate"
  /\ failed' = TRUE
  /\ held' = [held EXCEPT ![a] = {}]
  /\ Saved(a)
  /\ UNCHANGED <<config, file, bak, event, registry, keys, todo, collected>>

\* What a failed write leaves of a text: entries of its first items, which is again
\* a configuration, or text that ends in the middle of one.
Partial(text) == {text \cap (I \X Values) : I \in Parts} \cup {Torn}

\* fs::write fails after the truncation, and may have written a part.
WriteFails(a) ==
  /\ at[a] = "write"
  /\ \/ UNCHANGED <<file, event>>
     \/ file' \in Partial(Text(a)) /\ event' = TRUE
  /\ held' = [held EXCEPT ![a] = {}]
  /\ Saved(a)
  /\ UNCHANGED <<config, bak, failed, registry, keys, todo, collected>>

-----------------------------------------------------------------------------
\* reload_config with ?from= backs the file up
BackUp(a) ==
  /\ at[a] = "backup"
  /\ bak' = file /\ event' = TRUE
  /\ Go(a, "stage")
  /\ UNCHANGED <<config, file, failed, registry, keys, local>>

\* and renames the snapshot over it.
Stage(a) ==
  /\ at[a] = "stage"
  /\ file' = Items \X {Staged} /\ event' = TRUE
  /\ Go(a, "load")
  /\ UNCHANGED <<config, bak, failed, registry, keys, local>>

\* The copy may fail, which reload_config ignores;
BackUpFails(a) ==
  /\ at[a] = "backup"
  /\ \/ UNCHANGED <<bak, event>>
     \/ bak' \in Partial(file) /\ event' = TRUE
  /\ Go(a, "stage")
  /\ UNCHANGED <<config, file, failed, registry, keys, local>>

\* if the rename or the copy before it does, the answer is an error.
StageFails(a) ==
  /\ at[a] = "stage"
  /\ End(a)
  /\ UNCHANGED <<config, disk, registry, keys, held, todo, collected>>

\* The watcher takes an event, waits and drains the channel,
Wake ==
  /\ at[Watcher] = "idle" /\ event
  /\ event' = FALSE /\ failed' = FALSE
  /\ Go(Watcher, "load")
  /\ UNCHANGED <<config, file, bak, registry, keys, local>>

Source(p) == IF op[p].kind = "rollback" THEN bak ELSE file

\* Slip: the file is used whether it parsed or not.
LoadUnchecked(p) ==
  /\ at[p] = "load"
  /\ held' = [held EXCEPT ![p] = Source(p)]
  /\ Go(p, "list")
  /\ UNCHANGED <<config, disk, registry, keys, op, todo, collected>>

\* reload_from_path parses the file; a truncated one is the default configuration.
Load(p) ==
  /\ at[p] = "load"
  /\ IF Source(p) = Torn
     THEN Go(p, IF p = Watcher THEN "idle" ELSE "audit") /\ UNCHANGED held
     ELSE held' = [held EXCEPT ![p] = Source(p)] /\ Go(p, "list")
  /\ UNCHANGED <<config, disk, registry, keys, op, todo, collected>>

\* The file may also be unreadable.  A reload by a call says so; the watcher only
\* logs it, and its event is spent.
LoadFails(p) ==
  /\ at[p] = "load"
  /\ failed' = (failed \/ p = Watcher)
  /\ Go(p, IF p = Watcher THEN "idle" ELSE "audit")
  /\ UNCHANGED <<config, file, bak, event, registry, keys, local>>

\* It removes every upstream that is registered now and inserts those of the file,
List(p) ==
  /\ at[p] = "list"
  /\ todo' = [todo EXCEPT ![p] = [drop |-> {e[1] : e \in map}, put |-> Of(held[p], Upstreams)]]
  /\ Go(p, "registry")
  /\ UNCHANGED <<config, disk, registry, keys, op, held, collected>>

\* then replaces the keys at once,
ReplaceAll(p) ==
  /\ RegistryDone(p) /\ Reloads(p)
  /\ keys' = Of(held[p], Keys)
  /\ Go(p, "install")
  /\ UNCHANGED <<config, disk, registry, local>>

\* and the configuration last.  A rollback goes on to promote the backup.
AfterInstall(p) ==
  CASE p = Watcher -> "idle"
    [] op[p].kind = "rollback" -> "truncate"
    [] OTHER -> "audit"

\* Slip: the channel is drained after the reload.
InstallDrains(p) ==
  /\ at[p] = "install"
  /\ config' = held[p]
  /\ event' = (p # Watcher /\ event)
  /\ held' = [held EXCEPT ![p] = {}]
  /\ Go(p, AfterInstall(p))
  /\ UNCHANGED <<file, bak, failed, registry, keys, op, todo, collected>>

Install(p) ==
  /\ at[p] = "install"
  /\ config' = held[p]
  /\ held' = [held EXCEPT ![p] = {}]
  /\ Go(p, AfterInstall(p))
  /\ UNCHANGED <<disk, registry, keys, op, todo, collected>>

\* append_audit writes state.db, which is in the directory that is watched.
Audit(a) ==
  /\ at[a] = "audit"
  /\ event' = TRUE
  /\ End(a)
  /\ UNCHANGED <<config, file, bak, failed, registry, keys, held, todo, collected>>

\* The errors of append_audit are ignored.
AuditFails(a) ==
  /\ at[a] = "audit"
  /\ failed' = TRUE
  /\ End(a)
  /\ UNCHANGED <<config, file, bak, event, registry, keys, held, todo, collected>>

\* So does every completion of a request.
DatabaseWrite ==
  /\ event' = TRUE
  /\ UNCHANGED <<config, file, bak, failed, registry, keys, at, local>>

-----------------------------------------------------------------------------
RegistryStep(p) == Remove(p) \/ Upsert(p) \/ Collect(p) \/ Publish(p)
ReloadStep(p) == Load(p) \/ LoadFails(p) \/ List(p) \/ ReplaceAll(p) \/ Install(p)
Arrive(a) == CallUpstream(a) \/ CallKey(a) \/ CallSetting(a) \/ CallReload(a)
AdminStep(a) ==
  \/ FindKey(a) \/ RemoveKey(a) \/ AddKey(a) \/ Edit(a)
  \/ Clone(a) \/ Truncate(a) \/ Write(a) \/ BackUp(a) \/ Stage(a) \/ Audit(a)
  \/ SaveFails(a) \/ WriteFails(a) \/ BackUpFails(a) \/ StageFails(a) \/ AuditFails(a)
  \/ RegistryStep(a) \/ ReloadStep(a)
WatcherStep == Wake \/ RegistryStep(Watcher) \/ ReloadStep(Watcher)

Next ==
  \/ \E a \in Admins : Arrive(a) \/ AdminStep(a)
  \/ WatcherStep
  \/ DatabaseWrite

Spec == Init /\ [][Next]_vars

-----------------------------------------------------------------------------
TypeOK ==
  /\ config \in SUBSET Pairs
  /\ file \in (SUBSET Pairs) \cup {Torn}
  /\ bak \in (SUBSET Pairs) \cup {Torn}
  /\ map \in SUBSET Pairs /\ list \in SUBSET Pairs /\ keys \in SUBSET Pairs
  /\ event \in BOOLEAN /\ failed \in BOOLEAN
  /\ at \in [Actors -> Positions]
  /\ op \in [Actors -> [kind : AllKinds \cup {"watch", "none"},
                        item : SUBSET Items, old : SUBSET Pairs]]
  /\ held \in [Actors -> SUBSET Pairs]
  /\ todo \in [Actors -> [drop : SUBSET Items, put : SUBSET Pairs]]
  /\ collected \in [Actors -> SUBSET Pairs]

\* No admin call is running, the watcher waits and has nothing to wait for.
Resting(a) == at[a] \in {"new", "over"}
Quiet ==
  /\ \A a \in Admins : Resting(a)
  /\ at[Watcher] = "idle" /\ ~event

\* However admin calls, saves, reloads, stagings and rollbacks interleave, and
\* whichever writes fail half-way, once all is quiet the memory is what a restart
\* would read from the file: unless the file does not parse, or a save, a read by
\* the watcher or an audit has failed without an event since it last woke.  Then
\* the two may differ, although the call was answered as a success, until the next
\* event brings what the file holds.  The list may be stale if no upstream is left.
QuietAgrees ==
  Quiet /\ file # Torn /\ ~failed =>
    /\ config = file
    /\ map = Of(file, Upstreams)
    /\ keys = Of(file, Keys)
    /\ list = map \/ map = {}

=============================================================================
