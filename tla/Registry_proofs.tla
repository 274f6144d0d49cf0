---------------------------- MODULE Registry_proofs ----------------------------
(***************************************************************************)
(* Proofs about Registry, for any upstreams, keys and settings and any     *)
(* number and kinds of admin calls.                                        *)
(*                                                                         *)
(* QuietAgrees follows from WatcherKeepsUp: as long as no event waits,     *)
(* none has been lost to a failure, and no call has changed anything that  *)
(* it will still announce by an event, the watcher's reload works on what  *)
(* the file holds now: a save that fails half-way changes nothing after    *)
(* the event of its truncation, or makes another.  That the                *)
(* registry it refills ends up as the file's upstreams needs, besides,     *)
(* that no configuration lists an upstream twice.                          *)
(***************************************************************************)
EXTENDS Registry, TLAPS

\* The upstreams of a configuration have different ids.
OneEach(c) ==
  \A e, f \in c : e[1] = f[1] /\ e[1] \in Upstreams => e = f

UpstreamsUnique ==
  /\ OneEach(config)
  /\ file # Torn => OneEach(file)
  /\ bak # Torn => OneEach(bak)
  /\ \A p \in Actors : OneEach(held[p])

CallsOK ==
  /\ op[Watcher].kind = "watch"
  /\ \A a \in Admins :
       /\ op[a].item \cap Upstreams = {} \/ \E u \in Upstreams : op[a].item = {u}
       /\ op[a].kind = "addKey" => op[a].item \cap Upstreams = {}

\* No admin call has a change under way that no event has followed, no event waits
\* and none is missing.
Unchanged == {"new", "find", "backup", "stage", "write", "over"}
Calm ==
  /\ \A a \in Admins : at[a] \in Unchanged
  /\ ~event /\ ~failed

Wanted == Of(file, Upstreams)

\* How far the watcher has come with the registry.
Progress ==
  LET drop == todo[Watcher].drop
      put == todo[Watcher].put IN
  /\ put \subseteq Wanted
  /\ \A e \in map : e[1] \in drop \/ e \in Wanted
  /\ Wanted \subseteq map \cup put
  /\ drop # {} => put = Wanted

\* What holds where the watcher is.
KeepsUp ==
  LET w == at[Watcher] IN
  /\ w = "idle" => /\ config = file
                   /\ map = Wanted
                   /\ keys = Of(file, Keys)
                   /\ list = map \/ map = {}
  /\ w \in {"list", "registry", "collect", "publish", "install"} => held[Watcher] = file
  /\ w \in {"registry", "collect", "publish"} => Progress
  /\ w = "registry" => list = map \/ todo[Watcher].put = Wanted
  /\ w = "publish" => collected[Watcher] = map
  /\ w = "install" => /\ map = Wanted
                      /\ keys = Of(file, Keys)
                      /\ list = map \/ map = {}

WatcherKeepsUp == Calm /\ file # Torn => KeepsUp

IInv == TypeOK /\ CallsOK /\ UpstreamsUnique /\ WatcherKeepsUp

-----------------------------------------------------------------------------
LEMMA InitIInv == Init => IInv
<1> SUFFICES ASSUME Init PROVE IInv
  OBVIOUS
<1> USE DEF Init
<1>1. TypeOK
  <2>1. config \in SUBSET Pairs
    BY DEF Pairs, Values
  <2>2. Of(config, Upstreams) \in SUBSET Pairs /\ Of(config, Keys) \in SUBSET Pairs
    BY <2>1 DEF Of
  <2>3. op \in [Actors -> [kind : AllKinds \cup {"watch", "none"},
                          item : SUBSET Items, old : SUBSET Pairs]]
    BY DEF NoCall, Work
  <2>4. at \in [Actors -> Positions]
    BY DEF Positions
  <2>5. todo \in [Actors -> [drop : SUBSET Items, put : SUBSET Pairs]]
    BY DEF Nothing
  <2>6. QED
    BY <2>1, <2>2, <2>3, <2>4, <2>5 DEF TypeOK
<1>2. CallsOK
  BY RegistryAssumption DEF CallsOK, NoCall, Work, Actors, RegistryAssumption
<1>3. UpstreamsUnique
  <2>1. OneEach(config)
    BY DEF OneEach
  <2>2. \A p \in Actors : OneEach(held[p])
    BY DEF OneEach
  <2>3. QED
    BY <2>1, <2>2 DEF UpstreamsUnique
<1>4. WatcherKeepsUp
  BY DEF WatcherKeepsUp, KeepsUp, Wanted, Actors
<1>5. QED
  BY <1>1, <1>2, <1>3, <1>4 DEF IInv

-----------------------------------------------------------------------------
\* Type correctness.
LEMMA TypeOfParts ==
  ASSUME NEW c \in SUBSET Pairs, NEW S
  PROVE  /\ Of(c, S) \in SUBSET Pairs
         /\ {e[1] : e \in c} \in SUBSET Items
BY DEF Of, Pairs

LEMMA TypeOfOwn ==
  ASSUME NEW a \in Admins, NEW I \in SUBSET Items
  PROVE  I \X {a} \in SUBSET Pairs
BY DEF Pairs, Values

LEMMA TypeOfPartial ==
  ASSUME NEW text
  PROVE  Partial(text) \subseteq (SUBSET Pairs) \cup {Torn}
<1>1. \A I \in Parts : I \X Values \subseteq Pairs
  BY RegistryAssumption DEF RegistryAssumption, Pairs
<1>2. QED
  BY <1>1 DEF Partial

LEMMA ArriveType ==
  ASSUME TypeOK, NEW a \in Admins, Arrive(a)
  PROVE  TypeOK'
<1> USE DEF Call, Work, Go, Positions, TypeOK, Actors, disk, registry
<1>1. CASE CallUpstream(a)
  <2>1. PICK kind \in Kinds[a] \cap UpstreamKinds, u \in Upstreams : Call(a, kind, {u})
    BY <1>1 DEF CallUpstream
  <2>2. op'[a] \in [kind : AllKinds \cup {"watch", "none"}, item : SUBSET Items, old : SUBSET Pairs]
    BY <2>1 DEF AllKinds, Items
  <2>3. QED
    BY <1>1, <2>1, <2>2 DEF CallUpstream
<1>2. CASE CallKey(a)
  <2>1. PICK kind \in Kinds[a] \cap KeyKinds, k \in Keys : Call(a, kind, {k})
    BY <1>2 DEF CallKey
  <2>2. op'[a] \in [kind : AllKinds \cup {"watch", "none"}, item : SUBSET Items, old : SUBSET Pairs]
    BY <2>1 DEF AllKinds, Items
  <2>3. at' \in [Actors -> Positions]
    BY <1>2 DEF CallKey
  <2>4. QED
    BY <2>1, <2>2, <2>3
<1>3. CASE CallSetting(a)
  <2>1. PICK s \in Settings : Call(a, "setting", {s})
    BY <1>3 DEF CallSetting
  <2>2. op'[a] \in [kind : AllKinds \cup {"watch", "none"}, item : SUBSET Items, old : SUBSET Pairs]
    BY <2>1 DEF AllKinds, Items
  <2>3. QED
    BY <1>3, <2>1, <2>2 DEF CallSetting
<1>4. CASE CallReload(a)
  <2>1. PICK kind \in Kinds[a] \cap ReloadKinds : Call(a, kind, {})
    BY <1>4 DEF CallReload
  <2>2. op'[a] \in [kind : AllKinds \cup {"watch", "none"}, item : SUBSET Items, old : SUBSET Pairs]
    BY <2>1 DEF AllKinds
  <2>3. at' \in [Actors -> Positions]
    BY <1>4 DEF CallReload
  <2>4. QED
    BY <2>1, <2>2, <2>3
<1>5. QED
  BY <1>1, <1>2, <1>3, <1>4 DEF Arrive

LEMMA EndType ==
  ASSUME TypeOK, NEW a \in Admins, End(a)
  PROVE  /\ at' \in [Actors -> Positions]
         /\ op' \in [Actors -> [kind : AllKinds \cup {"watch", "none"},
                                item : SUBSET Items, old : SUBSET Pairs]]
BY DEF TypeOK, End, Go, Positions, NoCall, Work, Actors

LEMMA SavedType ==
  ASSUME TypeOK, NEW a \in Admins, Saved(a)
  PROVE  /\ at' \in [Actors -> Positions]
         /\ op' \in [Actors -> [kind : AllKinds \cup {"watch", "none"},
                                item : SUBSET Items, old : SUBSET Pairs]]
BY EndType DEF TypeOK, Saved, Go, Positions

LEMMA HandlerType ==
  ASSUME TypeOK, NEW a \in Admins,
         \/ FindKey(a) \/ RemoveKey(a) \/ AddKey(a) \/ Edit(a) \/ Clone(a)
         \/ Truncate(a) \/ Write(a) \/ BackUp(a) \/ Stage(a) \/ Audit(a)
         \/ SaveFails(a) \/ WriteFails(a) \/ BackUpFails(a) \/ StageFails(a) \/ AuditFails(a)
  PROVE  TypeOK'
<1> USE DEF TypeOK, disk, registry, local
<1>0. a \in Actors /\ op[a].item \in SUBSET Items /\ op[a].item \X {a} \in SUBSET Pairs
  <2>1. a \in Actors /\ op[a].item \in SUBSET Items
    BY DEF Actors
  <2>2. QED
    BY <2>1, TypeOfOwn
<1>1. CASE FindKey(a)
  <2>1. CASE End(a)
    BY <1>1, <2>1, EndType DEF FindKey
  <2>2. ASSUME NEW p \in Of(keys, op[a].item), op' = [op EXCEPT ![a].old = {p}], Go(a, "unkey")
        PROVE  TypeOK'
    <3>1. {p} \in SUBSET Pairs
      BY <2>2 DEF Of
    <3>2. op' \in [Actors -> [kind : AllKinds \cup {"watch", "none"},
                             item : SUBSET Items, old : SUBSET Pairs]]
      <4>1. op[a] \in [kind : AllKinds \cup {"watch", "none"}, item : SUBSET Items, old : SUBSET Pairs]
        BY <1>0
      <4>2. [op[a] EXCEPT !.old = {p}] \in
              [kind : AllKinds \cup {"watch", "none"}, item : SUBSET Items, old : SUBSET Pairs]
        BY <3>1, <4>1
      <4>3. op' = [op EXCEPT ![a] = [op[a] EXCEPT !.old = {p}]]
        BY <2>2
      <4>4. QED
        BY <4>2, <4>3
    <3>3. at' \in [Actors -> Positions]
      BY <2>2 DEF Go, Positions
    <3>4. QED
      BY <1>1, <2>2, <3>2, <3>3 DEF FindKey
  <2>3. QED
    BY <1>1, <2>1, <2>2 DEF FindKey
<1>10. CASE RemoveKey(a)
  BY <1>10 DEF RemoveKey, Go, Positions
<1>2. CASE AddKey(a)
  BY <1>0, <1>2 DEF AddKey, Go, Positions
<1>3. CASE Edit(a)
  <2>1. config' \in SUBSET Pairs
    BY <1>0, <1>3 DEF Edit, Edited
  <2>2. at' \in [Actors -> Positions]
    BY <1>3 DEF Edit, Go, Positions
  <2>3. todo' \in [Actors -> [drop : SUBSET Items, put : SUBSET Pairs]]
    BY <1>0, <1>3 DEF Edit
  <2>4. QED
    BY <1>3, <2>1, <2>2, <2>3 DEF Edit
<1>4. CASE Clone(a)
  BY <1>4 DEF Clone, Go, Positions
<1>5. CASE Truncate(a)
  BY <1>5 DEF Truncate, Go, Positions
<1>6. CASE Write(a)
  <2>1. file' \in (SUBSET Pairs) \cup {Torn}
    BY <1>0, <1>6 DEF Write, Text
  <2>2. held' \in [Actors -> SUBSET Pairs]
    BY <1>6 DEF Write
  <2>3. QED
    BY <1>6, <2>1, <2>2, SavedType DEF Write
<1>12. CASE SaveFails(a)
  <2>1. held' \in [Actors -> SUBSET Pairs]
    BY <1>12 DEF SaveFails
  <2>2. QED
    BY <1>12, <2>1, SavedType DEF SaveFails
<1>13. CASE WriteFails(a)
  <2>1. file' \in (SUBSET Pairs) \cup {Torn} /\ event' \in BOOLEAN
    BY <1>13, TypeOfPartial DEF WriteFails
  <2>2. held' \in [Actors -> SUBSET Pairs]
    BY <1>13 DEF WriteFails
  <2>3. QED
    BY <1>13, <2>1, <2>2, SavedType DEF WriteFails
<1>14. CASE BackUpFails(a)
  <2>1. bak' \in (SUBSET Pairs) \cup {Torn} /\ event' \in BOOLEAN
    BY <1>14, TypeOfPartial DEF BackUpFails
  <2>2. QED
    BY <1>14, <2>1 DEF BackUpFails, Go, Positions
<1>15. CASE StageFails(a)
  BY <1>15, EndType DEF StageFails
<1>16. CASE AuditFails(a)
  BY <1>16, EndType DEF AuditFails
<1>7. CASE Stage(a)
  <2>1. Items \X {Staged} \in SUBSET Pairs
    BY DEF Pairs, Values
  <2>2. QED
    BY <1>7, <2>1 DEF Stage, Go, Positions
<1>8. CASE Audit(a)
  BY <1>8, EndType DEF Audit
<1>11. CASE BackUp(a)
  BY <1>11 DEF BackUp, Go, Positions
<1>9. QED
  BY <1>1, <1>2, <1>3, <1>4, <1>5, <1>6, <1>7, <1>8, <1>10, <1>11, <1>12, <1>13, <1>14,
     <1>15, <1>16

LEMMA SharedType ==
  ASSUME TypeOK, NEW p \in Actors, RegistryStep(p) \/ ReloadStep(p)
  PROVE  TypeOK'
<1> USE DEF TypeOK, disk, registry, local
<1>1. CASE Remove(p)
  <2>1. PICK u \in todo[p].drop :
          /\ map' = Without(map, u)
          /\ todo' = [todo EXCEPT ![p].drop = @ \ {u}]
          /\ IF Of(map, {u}) # {} THEN Go(p, "collect") ELSE UNCHANGED at
    BY <1>1 DEF Remove
  <2>2. map' \in SUBSET Pairs
    BY <2>1 DEF Without
  <2>3. todo' \in [Actors -> [drop : SUBSET Items, put : SUBSET Pairs]]
    BY <2>1
  <2>4. at' \in [Actors -> Positions]
    BY <2>1 DEF Go, Positions
  <2>5. QED
    BY <1>1, <2>2, <2>3, <2>4 DEF Remove
<1>2. CASE Upsert(p)
  <2>1. PICK e \in todo[p].put :
          /\ map' = With(map, e[1], e[2])
          /\ todo' = [todo EXCEPT ![p].put = @ \ {e}]
    BY <1>2 DEF Upsert
  <2>2. e \in Pairs
    BY <2>1
  <2>3. <<e[1], e[2]>> = e
    BY <2>2 DEF Pairs
  <2>4. map' \in SUBSET Pairs
    BY <2>1, <2>2, <2>3 DEF With, Without
  <2>5. todo' \in [Actors -> [drop : SUBSET Items, put : SUBSET Pairs]]
    BY <2>1
  <2>6. QED
    BY <1>2, <2>4, <2>5 DEF Upsert, Go, Positions
<1>3. CASE Collect(p)
  BY <1>3 DEF Collect, Go, Positions
<1>4. CASE Publish(p)
  BY <1>4 DEF Publish, Go, Positions
<1>5. CASE Load(p)
  <2>1. at' \in [Actors -> Positions]
    BY <1>5 DEF Load, Go, Positions
  <2>2. held' \in [Actors -> SUBSET Pairs]
    BY <1>5 DEF Load, Source
  <2>3. QED
    BY <1>5, <2>1, <2>2 DEF Load
<1>10. CASE LoadFails(p)
  BY <1>10 DEF LoadFails, Go, Positions
<1>6. CASE List(p)
  <2>1. /\ Of(held[p], Upstreams) \in SUBSET Pairs
        /\ {e[1] : e \in map} \in SUBSET Items
    BY TypeOfParts
  <2>2. todo' \in [Actors -> [drop : SUBSET Items, put : SUBSET Pairs]]
    BY <1>6, <2>1 DEF List
  <2>3. QED
    BY <1>6, <2>2 DEF List, Go, Positions
<1>7. CASE ReplaceAll(p)
  <2>1. Of(held[p], Keys) \in SUBSET Pairs
    BY TypeOfParts
  <2>2. QED
    BY <1>7, <2>1 DEF ReplaceAll, Go, Positions
<1>8. CASE Install(p)
  <2>1. at' \in [Actors -> Positions] /\ held' \in [Actors -> SUBSET Pairs]
    BY <1>8 DEF Install, AfterInstall, Go, Positions
  <2>2. QED
    BY <1>8, <2>1 DEF Install
<1>9. QED
  BY <1>1, <1>2, <1>3, <1>4, <1>5, <1>6, <1>7, <1>8, <1>10 DEF RegistryStep, ReloadStep

LEMMA NextType == TypeOK /\ [Next]_vars => TypeOK'
<1> SUFFICES ASSUME TypeOK, [Next]_vars PROVE TypeOK'
  OBVIOUS
<1>1. CASE \E a \in Admins : Arrive(a)
  BY <1>1, ArriveType
<1>2. CASE \E a \in Admins : AdminStep(a)
  <2>1. PICK a \in Admins : AdminStep(a)
    BY <1>2
  <2>2. a \in Actors
    BY DEF Actors
  <2>3. QED
    BY <2>1, <2>2, HandlerType, SharedType DEF AdminStep
<1>3. CASE Wake
  BY <1>3 DEF Wake, TypeOK, Go, Positions, registry, local
<1>4. CASE RegistryStep(Watcher) \/ ReloadStep(Watcher)
  BY <1>4, SharedType DEF Actors
<1>5. CASE DatabaseWrite
  BY <1>5 DEF DatabaseWrite, TypeOK, registry, local
<1>6. CASE UNCHANGED vars
  BY <1>6 DEF vars, TypeOK, disk, registry, local
<1>7. QED
  BY <1>1, <1>2, <1>3, <1>4, <1>5, <1>6 DEF Next, WatcherStep

\* Every variable of Registry keeps its type, whatever admin calls are made.
THEOREM TypeCorrect == Spec => []TypeOK
<1>1. Init => TypeOK
  BY InitIInv DEF IInv
<1>2. QED
  BY <1>1, NextType, PTL DEF Spec

-----------------------------------------------------------------------------
\* What the calls are.
LEMMA OneCallKeeps ==
  ASSUME TypeOK, CallsOK, NEW a \in Admins, op' = [op EXCEPT ![a] = op'[a]],
         \/ op'[a].item \cap Upstreams = {}
         \/ op'[a].kind # "addKey" /\ \E u \in Upstreams : op'[a].item = {u}
  PROVE  CallsOK'
<1>1. op'[Watcher] = op[Watcher] /\ \A b \in Admins : b # a => op'[b] = op[b]
  BY RegistryAssumption DEF TypeOK, Actors, RegistryAssumption
<1>2. QED
  BY <1>1 DEF CallsOK

LEMMA CallsKeep == TypeOK /\ CallsOK /\ [Next]_vars => CallsOK'
<1> SUFFICES ASSUME TypeOK, CallsOK, [Next]_vars PROVE CallsOK'
  OBVIOUS
<1>1. CASE UNCHANGED op
  BY <1>1 DEF CallsOK
<1>2. ASSUME NEW a \in Admins, Arrive(a) PROVE CallsOK'
  <2>0. op \in [Actors -> [kind : AllKinds \cup {"watch", "none"},
                          item : SUBSET Items, old : SUBSET Pairs]] /\ a \in Actors
    BY DEF TypeOK, Actors
  <2>1. CASE CallUpstream(a)
    <3>1. PICK kind \in Kinds[a] \cap UpstreamKinds, u \in Upstreams : Call(a, kind, {u})
      BY <2>1 DEF CallUpstream
    <3>2. op' = [op EXCEPT ![a] = op'[a]] /\ op'[a].kind = kind /\ op'[a].item = {u}
      BY <2>0, <3>1 DEF Call, Work
    <3>3. kind # "addKey"
      BY DEF UpstreamKinds
    <3>4. QED
      BY <3>2, <3>3, OneCallKeeps
  <2>2. CASE CallKey(a)
    <3>1. PICK kind \in Kinds[a] \cap KeyKinds, k \in Keys : Call(a, kind, {k})
      BY <2>2 DEF CallKey
    <3>2. op' = [op EXCEPT ![a] = op'[a]] /\ op'[a].item = {k}
      BY <2>0, <3>1 DEF Call, Work
    <3>3. {k} \cap Upstreams = {}
      BY RegistryAssumption DEF RegistryAssumption
    <3>4. QED
      BY <3>2, <3>3, OneCallKeeps
  <2>3. CASE CallSetting(a)
    <3>1. PICK s \in Settings : Call(a, "setting", {s})
      BY <2>3 DEF CallSetting
    <3>2. op' = [op EXCEPT ![a] = op'[a]] /\ op'[a].item = {s}
      BY <2>0, <3>1 DEF Call, Work
    <3>3. {s} \cap Upstreams = {}
      BY RegistryAssumption DEF RegistryAssumption
    <3>4. QED
      BY <3>2, <3>3, OneCallKeeps
  <2>4. CASE CallReload(a)
    <3>1. PICK kind \in Kinds[a] \cap ReloadKinds : Call(a, kind, {})
      BY <2>4 DEF CallReload
    <3>2. op' = [op EXCEPT ![a] = op'[a]] /\ op'[a].item = {}
      BY <2>0, <3>1 DEF Call, Work
    <3>3. QED
      BY <3>2, OneCallKeeps
  <2>5. QED
    BY <1>2, <2>1, <2>2, <2>3, <2>4 DEF Arrive
<1>3. ASSUME NEW a \in Admins, End(a) PROVE CallsOK'
  <2>1. op' = [op EXCEPT ![a] = op'[a]] /\ op'[a].item = {}
    BY <1>3 DEF TypeOK, Actors, End, NoCall, Work
  <2>2. QED
    BY <2>1, OneCallKeeps
<1>4. ASSUME NEW a \in Admins, NEW p, op' = [op EXCEPT ![a].old = {p}] PROVE CallsOK'
  <2>1. /\ op' = [op EXCEPT ![a] = op'[a]]
        /\ op'[a].item = op[a].item /\ op'[a].kind = op[a].kind
    BY <1>4 DEF TypeOK, Actors
  <2>2. \/ op[a].item \cap Upstreams = {}
        \/ op[a].kind # "addKey" /\ \E u \in Upstreams : op[a].item = {u}
    BY DEF CallsOK
  <2>3. QED
    BY <2>1, <2>2, OneCallKeeps
<1>5. ASSUME NEW a \in Admins, AdminStep(a) PROVE CallsOK'
  BY <1>1, <1>3, <1>4, <1>5
     DEF AdminStep, RegistryStep, ReloadStep, FindKey, RemoveKey, AddKey, Edit, Clone, Truncate, Write,
         BackUp, Stage, Audit, SaveFails, WriteFails, BackUpFails, StageFails, AuditFails, Saved,
         LoadFails, Remove, Upsert, Collect, Publish, Load, List, ReplaceAll, Install, local
<1>6. CASE WatcherStep
  BY <1>1, <1>6
     DEF WatcherStep, RegistryStep, ReloadStep, Wake, Remove, Upsert, Collect, Publish, Load,
         LoadFails, List, ReplaceAll, Install, local
<1>7. CASE DatabaseWrite \/ UNCHANGED vars
  BY <1>1, <1>7 DEF DatabaseWrite, vars, local
<1>8. QED
  BY <1>2, <1>5, <1>6, <1>7 DEF Next

-----------------------------------------------------------------------------
\* No configuration lists an upstream twice.
LEMMA UniqueParts ==
  ASSUME NEW c, OneEach(c), NEW d \in SUBSET c
  PROVE  OneEach(d)
BY DEF OneEach

LEMMA UniqueEmpty == OneEach({})
BY DEF OneEach

LEMMA PartialUnique ==
  ASSUME NEW text, text # Torn => OneEach(text), NEW c \in Partial(text), c # Torn
  PROVE  OneEach(c)
<1>1. PICK I \in Parts : c = text \cap (I \X Values)
  BY DEF Partial
<1>2. CASE text # Torn
  BY <1>1, <1>2, UniqueParts
<1>3. CASE text = Torn
  <2>1. Garbage \notin I \X Values
    BY RegistryAssumption DEF RegistryAssumption, Pairs
  <2>2. c = {}
    BY <1>1, <1>3, <2>1 DEF Torn
  <2>3. QED
    BY <2>2, UniqueEmpty
<1>4. QED
  BY <1>2, <1>3

LEMMA EditedUnique ==
  ASSUME TypeOK, CallsOK, UpstreamsUnique, NEW a \in Admins
  PROVE  OneEach(Edited(a))
<1> DEFINE own == op[a].item \X {a}
<1>1. OneEach(config)
  BY DEF UpstreamsUnique
<1>2. \A S : OneEach(config \ S)
  BY <1>1, UniqueParts
<1>3. ASSUME op[a].item \cap Upstreams = {}, NEW c, OneEach(c)
      PROVE  OneEach(c \cup own)
  <2>1. \A e \in own : e[1] \notin Upstreams
    BY <1>3
  <2>2. QED
    BY <1>3, <2>1 DEF OneEach
<1>4. ASSUME NEW u \in Upstreams, op[a].item = {u}
      PROVE  OneEach((config \ Of(config, op[a].item)) \cup own)
  <2>1. own = {<<u, a>>}
    BY <1>4
  <2>2. \A e \in config \ Of(config, op[a].item) : e[1] # u
    BY <1>4 DEF Of
  <2>3. <<u, a>>[1] = u
    OBVIOUS
  <2>4. QED
    BY <1>2, <2>1, <2>2, <2>3 DEF OneEach
<1>5. CASE op[a].item \cap Upstreams = {}
  BY <1>1, <1>2, <1>3, <1>5 DEF Edited
<1>6. CASE op[a].kind # "addKey" /\ \E u \in Upstreams : op[a].item = {u}
  BY <1>2, <1>4, <1>6 DEF Edited
<1>7. QED
  BY <1>5, <1>6 DEF CallsOK

LEMMA UniqueKeep ==
  TypeOK /\ CallsOK /\ UpstreamsUnique /\ [Next]_vars => UpstreamsUnique'
<1> SUFFICES ASSUME TypeOK, CallsOK, UpstreamsUnique, [Next]_vars PROVE UpstreamsUnique'
  OBVIOUS
<1> USE DEF disk, registry, local
<1>1. CASE UNCHANGED <<config, file, bak, held>>
  BY <1>1 DEF UpstreamsUnique
<1>2. ASSUME NEW a \in Admins, Edit(a) PROVE UpstreamsUnique'
  BY <1>2, EditedUnique DEF Edit, UpstreamsUnique
<1>3. ASSUME NEW a \in Admins, Clone(a) PROVE UpstreamsUnique'
  BY <1>3 DEF Clone, UpstreamsUnique, TypeOK
<1>4. ASSUME NEW a \in Admins, Truncate(a) PROVE UpstreamsUnique'
  BY <1>4, UniqueEmpty DEF Truncate, UpstreamsUnique
<1>5. ASSUME NEW a \in Admins, Write(a) PROVE UpstreamsUnique'
  BY <1>5, UniqueEmpty DEF Write, Text, UpstreamsUnique, TypeOK, Actors
<1>16. ASSUME NEW a \in Admins, SaveFails(a) PROVE UpstreamsUnique'
  BY <1>16, UniqueEmpty DEF SaveFails, UpstreamsUnique, TypeOK
<1>17. ASSUME NEW a \in Admins, WriteFails(a) PROVE UpstreamsUnique'
  <2>1. file' = file \/ file' \in Partial(Text(a))
    BY <1>17 DEF WriteFails
  <2>2. Text(a) # Torn => OneEach(Text(a))
    BY DEF Text, UpstreamsUnique, Actors
  <2>3. file' # Torn => OneEach(file')
    BY <2>1, <2>2, PartialUnique DEF UpstreamsUnique
  <2>4. QED
    BY <1>17, <2>3, UniqueEmpty DEF WriteFails, UpstreamsUnique, TypeOK
<1>18. ASSUME NEW a \in Admins, BackUpFails(a) PROVE UpstreamsUnique'
  <2>1. bak' = bak \/ bak' \in Partial(file)
    BY <1>18 DEF BackUpFails
  <2>2. bak' # Torn => OneEach(bak')
    BY <2>1, PartialUnique DEF UpstreamsUnique
  <2>3. QED
    BY <1>18, <2>2 DEF BackUpFails, UpstreamsUnique
<1>6. ASSUME NEW a \in Admins, Stage(a) PROVE UpstreamsUnique'
  <2>1. OneEach(Items \X {Staged})
    BY DEF OneEach
  <2>2. QED
    BY <1>6, <2>1 DEF Stage, UpstreamsUnique
<1>15. ASSUME NEW a \in Admins, BackUp(a) PROVE UpstreamsUnique'
  BY <1>15 DEF BackUp, UpstreamsUnique
<1>7. ASSUME NEW p \in Actors, Load(p) PROVE UpstreamsUnique'
  BY <1>7 DEF Load, Source, UpstreamsUnique, TypeOK
<1>8. ASSUME NEW p \in Actors, Install(p) PROVE UpstreamsUnique'
  <2>1. OneEach(config') /\ UNCHANGED <<file, bak>>
    BY <1>8 DEF Install, UpstreamsUnique
  <2>2. held' = [held EXCEPT ![p] = {}]
    BY <1>8 DEF Install, AfterInstall
  <2>3. QED
    BY <2>1, <2>2, UniqueEmpty DEF UpstreamsUnique, TypeOK
<1>9. ASSUME NEW p \in Actors, RegistryStep(p) \/ ReloadStep(p) PROVE UpstreamsUnique'
  BY <1>1, <1>7, <1>8, <1>9
     DEF RegistryStep, ReloadStep, Remove, Upsert, Collect, Publish, LoadFails, List, ReplaceAll
<1>10. ASSUME NEW a \in Admins, AdminStep(a) PROVE UpstreamsUnique'
  BY <1>1, <1>2, <1>3, <1>4, <1>5, <1>6, <1>9, <1>10, <1>15, <1>16, <1>17, <1>18
     DEF AdminStep, FindKey, RemoveKey, AddKey, Audit, StageFails, AuditFails, Actors
<1>11. ASSUME NEW a \in Admins, Arrive(a) PROVE UpstreamsUnique'
  BY <1>1, <1>11 DEF Arrive, CallUpstream, CallKey, CallSetting, CallReload, Call
<1>12. CASE WatcherStep
  BY <1>1, <1>9, <1>12 DEF WatcherStep, Wake, Actors
<1>13. CASE DatabaseWrite \/ UNCHANGED vars
  BY <1>1, <1>13 DEF DatabaseWrite, vars
<1>14. QED
  BY <1>10, <1>11, <1>12, <1>13 DEF Next

-----------------------------------------------------------------------------
\* What is not the watcher's.  A step that changes nothing of what the watcher
\* works on, and ends no change, leaves WatcherKeepsUp as it is.
LEMMA SameView ==
  ASSUME WatcherKeepsUp, Calm' => Calm,
         UNCHANGED <<config, file, map, list, keys, at[Watcher], held[Watcher],
                     todo[Watcher], collected[Watcher]>>
  PROVE  WatcherKeepsUp'
BY DEF WatcherKeepsUp, KeepsUp, Progress, Wanted

\* An admin step leaves a change under way, an event or a failure behind it, or it
\* changes nothing: it is the answer 404 of FindKey, a backup or a staging that
\* fails, or a save that fails after the event of its truncation.
LEMMA AdminAnnounces ==
  ASSUME TypeOK, NEW a \in Admins, AdminStep(a)
  PROVE  \/ ~Calm'
         \/ /\ at[a] \in Unchanged /\ at' = [at EXCEPT ![a] = at'[a]]
            /\ UNCHANGED <<config, file, event, failed, registry, keys, todo, collected>>
            /\ held' = [held EXCEPT ![a] = held'[a]]
<1> USE DEF Unchanged
<1>0. /\ a \in Actors /\ \A q : at' = [at EXCEPT ![a] = q] => at'[a] = q
      /\ held = [held EXCEPT ![a] = held[a]]
  BY DEF TypeOK, Actors
<1>1. ASSUME NEW q, q \notin Unchanged, Go(a, q) PROVE ~Calm'
  BY <1>0, <1>1 DEF Go, Calm
<1>2. CASE FindKey(a) \/ StageFails(a)
  BY <1>0, <1>1, <1>2 DEF FindKey, StageFails, End, Go, disk
<1>3. CASE RemoveKey(a) \/ AddKey(a) \/ Edit(a) \/ Clone(a)
  BY <1>1, <1>3 DEF RemoveKey, AddKey, Edit, Clone
<1>4. CASE Truncate(a) \/ Write(a) \/ BackUp(a) \/ Stage(a) \/ Audit(a)
  BY <1>4 DEF Truncate, Write, BackUp, Stage, Audit, Calm
<1>10. CASE SaveFails(a) \/ AuditFails(a)
  BY <1>10 DEF SaveFails, AuditFails, Calm
<1>11. CASE WriteFails(a)
  <2>1. CASE event'
    BY <2>1 DEF Calm
  <2>2. CASE Go(a, "audit")
    BY <1>1, <2>2
  <2>3. CASE UNCHANGED <<file, event>> /\ End(a)
    <3>1. at' = [at EXCEPT ![a] = at'[a]] /\ held' = [held EXCEPT ![a] = held'[a]]
      BY <1>0, <1>11, <2>3 DEF WriteFails, End, Go, TypeOK
    <3>2. QED
      BY <1>11, <2>3, <3>1 DEF WriteFails
  <2>4. QED
    BY <1>11, <2>1, <2>2, <2>3 DEF WriteFails, Saved
<1>12. CASE BackUpFails(a)
  <2>1. CASE event'
    BY <2>1 DEF Calm
  <2>2. CASE UNCHANGED <<bak, event>>
    <3>1. at' = [at EXCEPT ![a] = at'[a]] /\ held' = [held EXCEPT ![a] = held'[a]]
      BY <1>0, <1>12 DEF BackUpFails, Go, local
    <3>2. QED
      BY <1>12, <2>2, <3>1 DEF BackUpFails, local
  <2>3. QED
    BY <1>12, <2>1, <2>2 DEF BackUpFails
<1>5. CASE Remove(a)
  <2>1. CASE Go(a, "collect")
    BY <1>1, <2>1
  <2>2. CASE UNCHANGED at
    BY <1>5, <2>2 DEF Remove, Calm
  <2>3. QED
    BY <1>5, <2>1, <2>2 DEF Remove
<1>6. CASE Upsert(a) \/ Collect(a) \/ Publish(a) \/ List(a) \/ ReplaceAll(a)
  BY <1>1, <1>6 DEF Upsert, Collect, Publish, List, ReplaceAll
<1>7. CASE Load(a) \/ LoadFails(a)
  BY <1>1, <1>7, RegistryAssumption DEF Load, LoadFails, RegistryAssumption
<1>8. CASE Install(a)
  BY <1>1, <1>8, RegistryAssumption DEF Install, AfterInstall, RegistryAssumption
<1>9. QED
  BY <1>2, <1>3, <1>4, <1>5, <1>6, <1>7, <1>8, <1>10, <1>11, <1>12
     DEF AdminStep, RegistryStep, ReloadStep

LEMMA AdminKeeps ==
  ASSUME TypeOK, WatcherKeepsUp, NEW a \in Admins, Arrive(a) \/ AdminStep(a)
  PROVE  WatcherKeepsUp'
<1> DEFINE same == /\ UNCHANGED <<config, file, event, failed, registry, keys, todo, collected>>
                   /\ held' = [held EXCEPT ![a] = held'[a]]
<1>1. ASSUME at[a] \in Unchanged, at' = [at EXCEPT ![a] = at'[a]], same
      PROVE  WatcherKeepsUp'
  <2>1. /\ at'[Watcher] = at[Watcher] /\ held'[Watcher] = held[Watcher]
        /\ \A b \in Admins : b # a => at'[b] = at[b]
    BY <1>1, RegistryAssumption DEF TypeOK, Actors, RegistryAssumption
  <2>2. Calm' => Calm
    BY <1>1, <2>1 DEF Calm
  <2>3. QED
    BY <1>1, <2>1, <2>2, SameView DEF registry
<1>2. CASE Arrive(a)
  <2>1. at[a] \in Unchanged /\ at' = [at EXCEPT ![a] = at'[a]]
    BY <1>2 DEF Arrive, CallUpstream, CallKey, CallSetting, CallReload, Go, TypeOK, Actors, Unchanged
  <2>2. same
    BY <1>2 DEF Arrive, CallUpstream, CallKey, CallSetting, CallReload, Call, TypeOK, Actors, disk
  <2>3. QED
    BY <1>1, <2>1, <2>2
<1>3. CASE AdminStep(a)
  <2>1. CASE ~Calm'
    BY <2>1 DEF WatcherKeepsUp
  <2>2. CASE at[a] \in Unchanged /\ at' = [at EXCEPT ![a] = at'[a]] /\ same
    BY <1>1, <2>2
  <2>3. QED
    BY <1>3, <2>1, <2>2, AdminAnnounces
<1>4. QED
  BY <1>2, <1>3

-----------------------------------------------------------------------------
\* The watcher's own steps.
LEMMA WatcherIsActor ==
  /\ TypeOK => at \in [Actors -> Positions] /\ held \in [Actors -> SUBSET Pairs]
  /\ TypeOK => todo \in [Actors -> [drop : SUBSET Items, put : SUBSET Pairs]]
  /\ TypeOK => collected \in [Actors -> SUBSET Pairs]
  /\ Watcher \in Actors
BY DEF TypeOK, Actors

\* They leave the admin calls and the file alone.
LEMMA WatcherCalm ==
  ASSUME TypeOK, RegistryStep(Watcher) \/ ReloadStep(Watcher), Calm', file' # Torn, WatcherKeepsUp
  PROVE  KeepsUp /\ file' = file /\ ~LoadFails(Watcher)
<1>1. ASSUME NEW q, Go(Watcher, q) PROVE \A a \in Admins : at'[a] = at[a]
  BY <1>1, WatcherIsActor, RegistryAssumption DEF Go, RegistryAssumption, Actors
<1>6. ~LoadFails(Watcher)
  BY DEF LoadFails, Calm
<1>2. UNCHANGED <<file, event, failed>>
  BY <1>6 DEF RegistryStep, ReloadStep, Remove, Upsert, Collect, Publish, Load, List, ReplaceAll,
         Install, disk
<1>3. UNCHANGED at \/ \E q : Go(Watcher, q)
  BY <1>6 DEF RegistryStep, ReloadStep, Remove, Upsert, Collect, Publish, Load, List, ReplaceAll,
         Install, AfterInstall
<1>4. \A a \in Admins : at'[a] = at[a]
  BY <1>1, <1>3
<1>5. QED
  BY <1>2, <1>4, <1>6 DEF WatcherKeepsUp, Calm

LEMMA LoadKeepsUp ==
  ASSUME TypeOK, CallsOK, Load(Watcher), file # Torn, file' = file
  PROVE  KeepsUp'
<1>1. Source(Watcher) = file
  BY DEF Source, CallsOK
<1>2. held'[Watcher] = file /\ at'[Watcher] = "list"
  BY <1>1, WatcherIsActor DEF Load, Go
<1>3. QED
  BY <1>2 DEF KeepsUp

LEMMA ListKeepsUp ==
  ASSUME TypeOK, KeepsUp, List(Watcher), file' = file
  PROVE  KeepsUp'
<1>1. held[Watcher] = file
  BY DEF List, KeepsUp
<1>2. /\ at'[Watcher] = "registry" /\ held' = held /\ map' = map
      /\ todo'[Watcher] = [drop |-> {e[1] : e \in map}, put |-> Wanted]
  BY <1>1, WatcherIsActor DEF List, Go, registry, Wanted
<1>3. Wanted' = Wanted
  BY DEF Wanted
<1>4. Progress'
  BY <1>2, <1>3 DEF Progress
<1>5. QED
  BY <1>1, <1>2, <1>3, <1>4 DEF KeepsUp

LEMMA RemoveKeepsUp ==
  ASSUME TypeOK, KeepsUp, Remove(Watcher), file' = file
  PROVE  KeepsUp'
<1>1. at[Watcher] = "registry" /\ held[Watcher] = file /\ Progress
  BY DEF Remove, KeepsUp
<1>2. PICK u \in todo[Watcher].drop :
        /\ map' = Without(map, u)
        /\ todo' = [todo EXCEPT ![Watcher].drop = @ \ {u}]
        /\ IF Of(map, {u}) # {} THEN Go(Watcher, "collect") ELSE UNCHANGED at
  BY DEF Remove
<1>3. /\ todo'[Watcher].drop = todo[Watcher].drop \ {u}
      /\ todo'[Watcher].put = todo[Watcher].put
  BY <1>2, WatcherIsActor
<1>4. Wanted' = Wanted /\ todo[Watcher].put = Wanted
  BY <1>1, <1>2 DEF Wanted, Progress
<1>5. Progress'
  BY <1>1, <1>2, <1>3, <1>4 DEF Progress, Without
<1>6. at'[Watcher] \in {"registry", "collect"} /\ held' = held
  BY <1>1, <1>2, WatcherIsActor DEF Remove, Go
<1>7. QED
  BY <1>1, <1>3, <1>4, <1>5, <1>6 DEF KeepsUp

LEMMA UpsertKeepsUp ==
  ASSUME TypeOK, KeepsUp, UpstreamsUnique, Upsert(Watcher), file # Torn, file' = file
  PROVE  KeepsUp'
<1>1. at[Watcher] = "registry" /\ held[Watcher] = file /\ Progress
  BY DEF Upsert, KeepsUp
<1>2. PICK e \in todo[Watcher].put :
        /\ map' = With(map, e[1], e[2])
        /\ todo' = [todo EXCEPT ![Watcher].put = @ \ {e}]
  BY DEF Upsert
<1>3. /\ todo'[Watcher].drop = {} /\ todo[Watcher].drop = {}
      /\ todo'[Watcher].put = todo[Watcher].put \ {e}
  BY <1>2, WatcherIsActor DEF Upsert
<1>4. Wanted' = Wanted /\ e \in Wanted /\ e[1] \in Upstreams /\ <<e[1], e[2]>> = e
  <2>1. e \in Pairs
    BY <1>2, WatcherIsActor
  <2>2. QED
    BY <1>1, <1>2, <2>1 DEF Wanted, Of, Progress, Pairs
<1>5. map' = {p \in map : p[1] # e[1]} \cup {e}
  BY <1>2, <1>4 DEF With, Without
<1>6. \A f \in Wanted : f[1] = e[1] => f = e
  BY <1>4 DEF UpstreamsUnique, OneEach, Wanted, Of
<1>7. Progress'
  <2>1. todo'[Watcher].put \subseteq Wanted'
    BY <1>1, <1>3, <1>4 DEF Progress
  <2>2. \A f \in map' : f \in Wanted'
    BY <1>1, <1>3, <1>4, <1>5 DEF Progress
  <2>3. Wanted' \subseteq map' \cup todo'[Watcher].put
    BY <1>1, <1>3, <1>4, <1>5, <1>6 DEF Progress
  <2>4. QED
    BY <1>3, <2>1, <2>2, <2>3 DEF Progress
<1>8. at'[Watcher] = "collect" /\ held' = held
  BY WatcherIsActor DEF Upsert, Go
<1>9. QED
  BY <1>1, <1>7, <1>8 DEF KeepsUp

LEMMA RebuildKeepsUp ==
  ASSUME TypeOK, KeepsUp, Collect(Watcher) \/ Publish(Watcher), file' = file
  PROVE  KeepsUp'
<1>1. held' = held /\ held[Watcher] = file /\ Progress /\ UNCHANGED <<map, todo>>
  BY DEF Collect, Publish, KeepsUp, registry
<1>2. Progress'
  BY <1>1 DEF Progress, Wanted
<1>3. CASE Collect(Watcher)
  <2>1. at'[Watcher] = "publish" /\ collected'[Watcher] = map
    BY <1>3, WatcherIsActor DEF Collect, Go
  <2>2. QED
    BY <1>1, <1>2, <2>1 DEF KeepsUp
<1>4. CASE Publish(Watcher)
  <2>1. at'[Watcher] = "registry" /\ list' = map
    BY <1>4, WatcherIsActor DEF Publish, Go, KeepsUp
  <2>2. QED
    BY <1>1, <1>2, <2>1 DEF KeepsUp
<1>5. QED
  BY <1>3, <1>4

LEMMA ReplaceKeepsUp ==
  ASSUME TypeOK, KeepsUp, ReplaceAll(Watcher) \/ Install(Watcher), CallsOK, file' = file
  PROVE  KeepsUp'
<1>1. CASE ReplaceAll(Watcher)
  <2>1. /\ at[Watcher] = "registry" /\ held[Watcher] = file /\ Progress
        /\ todo[Watcher].drop = {} /\ todo[Watcher].put = {}
    BY <1>1 DEF ReplaceAll, RegistryDone, Nothing, KeepsUp
  <2>2. map = Wanted
    BY <2>1 DEF Progress
  <2>3. list = map \/ map = {}
    BY <2>1, <2>2 DEF KeepsUp
  <2>4. /\ at'[Watcher] = "install" /\ keys' = Of(file, Keys)
        /\ UNCHANGED <<map, list, held>>
    BY <1>1, <2>1, WatcherIsActor DEF ReplaceAll, Go, registry, local
  <2>5. QED
    BY <2>1, <2>2, <2>3, <2>4 DEF KeepsUp, Wanted
<1>2. CASE Install(Watcher)
  <2>1. /\ held[Watcher] = file /\ map = Wanted /\ keys = Of(file, Keys)
        /\ list = map \/ map = {}
    BY <1>2 DEF Install, KeepsUp
  <2>2. /\ at'[Watcher] = "idle" /\ config' = file /\ UNCHANGED <<map, list, keys>>
    BY <1>2, <2>1, WatcherIsActor DEF Install, AfterInstall, Go, registry, CallsOK
  <2>3. QED
    BY <2>1, <2>2 DEF KeepsUp, Wanted
<1>3. QED
  BY <1>1, <1>2

LEMMA KeepsUpKeeps ==
  TypeOK /\ CallsOK /\ UpstreamsUnique /\ WatcherKeepsUp /\ [Next]_vars => WatcherKeepsUp'
<1> SUFFICES ASSUME TypeOK, CallsOK, UpstreamsUnique, WatcherKeepsUp, [Next]_vars
             PROVE  WatcherKeepsUp'
  OBVIOUS
<1>1. CASE \E a \in Admins : Arrive(a) \/ AdminStep(a)
  BY <1>1, AdminKeeps
<1>2. CASE Wake
  <2>1. at'[Watcher] = "load"
    BY <1>2, WatcherIsActor DEF Wake, Go
  <2>2. QED
    BY <2>1 DEF WatcherKeepsUp, KeepsUp
<1>3. CASE RegistryStep(Watcher) \/ ReloadStep(Watcher)
  <2> SUFFICES ASSUME Calm', file' # Torn PROVE KeepsUp'
    BY DEF WatcherKeepsUp
  <2>1. KeepsUp /\ file' = file /\ file # Torn /\ ~LoadFails(Watcher)
    BY <1>3, WatcherCalm
  <2>2. QED
    BY <1>3, <2>1, LoadKeepsUp, ListKeepsUp, RemoveKeepsUp, UpsertKeepsUp, RebuildKeepsUp,
       ReplaceKeepsUp DEF RegistryStep, ReloadStep
<1>4. CASE DatabaseWrite
  BY <1>4 DEF DatabaseWrite, WatcherKeepsUp, Calm
<1>5. CASE UNCHANGED vars
  BY <1>5, SameView DEF vars, disk, registry, local, Calm
<1>6. QED
  BY <1>1, <1>2, <1>3, <1>4, <1>5 DEF Next, WatcherStep

THEOREM Invariance == Spec => []IInv
<1>1. IInv /\ [Next]_vars => IInv'
  BY NextType, CallsKeep, UniqueKeep, KeepsUpKeeps DEF IInv
<1>2. QED
  BY <1>1, InitIInv, PTL DEF Spec

\* Once no admin call is running and the watcher has nothing left to wait for, the
\* configuration in memory, the upstreams and the keys are those of config.toml,
\* however the calls and the reloads were interleaved and wherever a write, a backup
\* or a staging failed half-way: unless an event is missing, because save_to_path
\* failed before it touched the file (admin/mod.rs:219, 241, 253, 694), the watcher
\* could not read it or append_audit failed.
THEOREM QuietAgreement == Spec => []QuietAgrees
<1>1. IInv => QuietAgrees
  BY DEF IInv, WatcherKeepsUp, KeepsUp, Calm, QuietAgrees, Quiet, Resting, Unchanged, Wanted
<1>2. QED
  BY <1>1, Invariance, PTL

=============================================================================
