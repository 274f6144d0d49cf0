------------------------------- MODULE Routing -------------------------------
(***************************************************************************)
(* How a request gets from the model it names to an upstream of one kind,  *)
(* while admin calls and reloads replace the upstreams: resolve_alias      *)
(* rewrites the name, by_provider and filter_upstreams_for_model give the  *)
(* candidates, QueueManager::acquire claims one of them - now or after     *)
(* waiting - and release goes to the instance that was claimed.            *)
(*                                                                         *)
(* An instance is one Arc<Upstream>.  UpstreamRegistry::upsert makes a new *)
(* one with in_flight 0; requests keep those they have listed or claimed.  *)
(* The registry is a map of the instances by id and a list made from it    *)
(* after every change, entry by entry and without a lock over both.        *)
(* The passes of acquire are in Dispatch, the reasons for an upstream to   *)
(* be down in UpstreamHealth.                                              *)
(***************************************************************************)
EXTENDS Integers, Sequences, FiniteSets

CONSTANTS
  Requests,      \* tasks that serve requests, one after the other
  Admins,        \* tasks that change the registry: admin calls, reloads
  Ids,           \* ids of upstreams of the kind
  Rank,          \* of each id: its place by priority and then id, from 1
  Names,         \* model names that clients ask for
  Models,        \* model names that upstreams know
  MaxConcurrency,\* of each id; 0 for no limit
  ModelChoices,  \* sets of names that an upstream may declare
  ModelList,     \* for each name its entries in model_list: id, model
  Aliases,       \* the same in model_aliases
  MaxInstances,  \* bound: instances ever made
  None           \* no instance, no id

Instances == 1 .. MaxInstances
Targets == [id : Ids, model : Models]

ASSUME RoutingAssumption ==
  /\ IsFiniteSet(Requests)
  /\ Rank \in [Ids -> Instances] /\ \A u, v \in Ids : Rank[u] = Rank[v] => u = v
  /\ MaxConcurrency \in [Ids -> Nat]
  /\ {} \in ModelChoices
  /\ ModelList \in [Names -> Seq(Targets)] /\ Aliases \in [Names -> Seq(Targets)]
  /\ MaxInstances \in Nat
  /\ None \notin Ids /\ None \notin Nat

VARIABLES
  registry,   \* UpstreamRegistry::upstreams: the instance of each id or None
  listed,     \* UpstreamRegistry::by_provider
  rebuild,    \* no, or whether a task is the only one that rebuilds the list:
              \* alone or raced
  unread,     \* ids whose entries it has not come to
  found,      \* instances it has collected
  stale,      \* history: the list was last written by a task that was raced
  id,         \* UpstreamConfig::id of each instance
  models,     \* UpstreamConfig::models of each instance
  up,         \* enabled, not paused and healthy
  inFlight,   \* Upstream::in_flight
  at,         \* where each request is
  name,       \* the model it asked for
  forwarded,  \* the model in the body it will send
  cands,      \* the instances it was given
  serves      \* the instance it has claimed

instances == <<id, models, up>>
tasks == <<at, name, forwarded, cands, serves>>
index == <<listed, rebuild, unread, found, stale>>
vars == <<registry, index, instances, inFlight, tasks>>

Made == {g \in Instances : id[g] # None}

\* UpstreamRegistry::from_config: one instance for each upstream configured,
\* numbered by its place.
Init ==
  /\ registry = Rank
  /\ listed = {Rank[u] : u \in Ids} /\ stale = FALSE
  /\ rebuild = [w \in Admins |-> "no"]
  /\ unread = [w \in Admins |-> {}] /\ found = [w \in Admins |-> {}]
  /\ id = [g \in Instances |->
       IF \E u \in Ids : Rank[u] = g THEN CHOOSE u \in Ids : Rank[u] = g ELSE None]
  /\ models \in [Instances -> ModelChoices]
  /\ \A g \in Instances \ Made : models[g] = {}
  /\ up \in [Instances -> BOOLEAN] /\ \A g \in Instances \ Made : ~up[g]
  /\ inFlight = [g \in Instances |-> 0]
  /\ at = [r \in Requests |-> "new"]
  /\ name \in [Requests -> Names]
  /\ forwarded = name
  /\ cands = [r \in Requests |-> {}]
  /\ serves = [r \in Requests |-> None]

Go(r, p) == at' = [at EXCEPT ![r] = p]
Over(r) == Go(r, "new") /\ forwarded' = [forwarded EXCEPT ![r] = name[r]]

-----------------------------------------------------------------------------
\* is_usable of an instance.
Full(g) == MaxConcurrency[id[g]] > 0 /\ inFlight[g] >= MaxConcurrency[id[g]]
Usable(g) == up[g] /\ ~Full(g)

\* resolve_alias: the first entry for the name, of model_list and then of
\* model_aliases, whose upstream is registered and usable; else the name itself.
Entries(n) == ModelList[n] \o Aliases[n]

Hit(e) == registry[e.id] # None /\ Usable(registry[e.id])

Resolved(n) ==
  LET E == Entries(n)
      first == {i \in DOMAIN E : Hit(E[i]) /\ \A j \in 1 .. i - 1 : ~Hit(E[j])}
  IN IF first = {} THEN n ELSE E[CHOOSE i \in first : TRUE].model

Resolve(r) ==
  /\ at[r] = "new"
  /\ \E n \in Names :
       /\ name' = [name EXCEPT ![r] = n]
       /\ forwarded' = [forwarded EXCEPT ![r] = Resolved(n)]
  /\ Go(r, "list")
  /\ UNCHANGED <<registry, index, instances, inFlight, cands, serves>>

\* filter_upstreams_for_model: those that declare the model, or all if none of
\* them declares any model.
Filter(list, n) ==
  IF \A g \in list : models[g] = {} THEN list ELSE {g \in list : n \in models[g]}

\* The candidates are listed once, by by_provider; the name is the one the client
\* asked for.  The order, that of the ranks, comes in when one is claimed.
List(r) ==
  LET matching == Filter(listed, name[r]) IN
  /\ at[r] = "list"
  /\ cands' = [cands EXCEPT ![r] = matching]
  /\ IF matching = {} THEN Over(r) ELSE Go(r, "acquire") /\ UNCHANGED forwarded
  /\ UNCHANGED <<registry, index, instances, inFlight, name, serves>>

-----------------------------------------------------------------------------
\* acquire claims the first usable candidate, in its first pass or a later one.
Claim(r) ==
  /\ at[r] = "acquire"
  /\ \E g \in cands[r] :
       /\ Usable(g)
       /\ \A h \in cands[r] : Usable(h) => Rank[id[g]] <= Rank[id[h]]
       /\ inFlight' = [inFlight EXCEPT ![g] = IF MaxConcurrency[id[g]] > 0 THEN @ + 1 ELSE @]
       /\ serves' = [serves EXCEPT ![r] = g]
  /\ cands' = [cands EXCEPT ![r] = {}]
  /\ Go(r, "serving")
  /\ UNCHANGED <<registry, index, instances, name, forwarded>>

\* No candidate was usable, and the queue is full or the deadline has passed.
GiveUp(r) ==
  /\ at[r] = "acquire"
  /\ \A g \in cands[r] : ~Usable(g)
  /\ cands' = [cands EXCEPT ![r] = {}]
  /\ Over(r)
  /\ UNCHANGED <<registry, index, instances, inFlight, name, serves>>

\* Slip: the upstream to release is looked up by its id.
ReleasedById(g) ==
  LET h == registry[id[g]] IN
  IF h # None /\ MaxConcurrency[id[g]] > 0 THEN [inFlight EXCEPT ![h] = @ - 1] ELSE inFlight

\* Slip: the count of an instance that is no longer registered is left alone.
ReleasedIfListed(g) ==
  IF registry[id[g]] = g /\ MaxConcurrency[id[g]] > 0
  THEN [inFlight EXCEPT ![g] = @ - 1] ELSE inFlight

\* release, on the instance that was claimed.
Released(g) ==
  IF MaxConcurrency[id[g]] > 0 THEN [inFlight EXCEPT ![g] = @ - 1] ELSE inFlight

Finish(r) ==
  /\ at[r] = "serving"
  /\ inFlight' = Released(serves[r])
  /\ serves' = [serves EXCEPT ![r] = None]
  /\ Over(r)
  /\ UNCHANGED <<registry, index, instances, name, cands>>

-----------------------------------------------------------------------------
\* After a change of the map its task rebuilds the list, maybe with others.
BeginRebuild(w) ==
  LET others == {v \in Admins \ {w} : rebuild[v] # "no"} IN
  /\ rebuild[w] = "no"
  /\ rebuild' = [v \in Admins |-> IF v \in others THEN "raced"
                                  ELSE IF v # w THEN "no"
                                  ELSE IF others = {} THEN "alone" ELSE "raced"]
  /\ unread' = [unread EXCEPT ![w] = Ids]
  /\ UNCHANGED <<listed, found, stale>>

\* rebuild_by_provider goes over the map, an entry at a time,
Collect(w, u) ==
  /\ u \in unread[w]
  /\ unread' = [unread EXCEPT ![w] = @ \ {u}]
  /\ found' = [found EXCEPT ![w] = @ \cup ({registry[u]} \ {None})]
  /\ UNCHANGED <<registry, listed, rebuild, stale, instances, inFlight, tasks>>

\* Slip: what is found is added to the list and the old instances stay in it.
PublishAdds(w) ==
  /\ rebuild[w] # "no" /\ unread[w] = {}
  /\ listed' = listed \cup found[w]
  /\ stale' = (rebuild[w] = "raced")
  /\ found' = [found EXCEPT ![w] = {}]
  /\ rebuild' = [rebuild EXCEPT ![w] = "no"]
  /\ UNCHANGED <<registry, unread, instances, inFlight, tasks>>

\* and then writes the list.
Publish(w) ==
  /\ rebuild[w] # "no" /\ unread[w] = {}
  /\ listed' = found[w]
  /\ stale' = (rebuild[w] = "raced")
  /\ found' = [found EXCEPT ![w] = {}]
  /\ rebuild' = [rebuild EXCEPT ![w] = "no"]
  /\ UNCHANGED <<registry, unread, instances, inFlight, tasks>>

\* UpstreamRegistry::upsert, by create_upstream, update_upstream or a reload:
\* a new instance, usable unless the configuration disables it.
Upsert(w, u) ==
  \E g \in Instances \ Made, declared \in ModelChoices, enabled \in BOOLEAN :
    /\ \A h \in Instances \ Made : g <= h
    /\ registry' = [registry EXCEPT ![u] = g]
    /\ id' = [id EXCEPT ![g] = u]
    /\ models' = [models EXCEPT ![g] = declared]
    /\ up' = [up EXCEPT ![g] = enabled]
    /\ BeginRebuild(w)
    /\ UNCHANGED <<inFlight, tasks>>

\* UpstreamRegistry::remove, by delete_upstream, update_upstream or a reload.
Unregister(w, u) ==
  /\ registry[u] # None
  /\ registry' = [registry EXCEPT ![u] = None]
  /\ BeginRebuild(w)
  /\ UNCHANGED <<instances, inFlight, tasks>>

\* Admin calls and the health checker find the registered instance, and reports
\* of requests the one they claimed.
Flip(g) ==
  /\ g \in Made
  /\ registry[id[g]] = g \/ \E r \in Requests : serves[r] = g
  /\ up' = [up EXCEPT ![g] = ~@]
  /\ UNCHANGED <<registry, index, id, models, inFlight, tasks>>

-----------------------------------------------------------------------------
Task(r) == List(r) \/ Claim(r) \/ GiveUp(r) \/ Finish(r)
Reconfigure(w) == \E u \in Ids : Upsert(w, u) \/ Unregister(w, u)
Rebuild(w) == Publish(w) \/ \E u \in Ids : Collect(w, u)

Next ==
  \/ \E r \in Requests : Resolve(r) \/ Task(r)
  \/ \E w \in Admins : Reconfigure(w) \/ Rebuild(w)
  \/ \E g \in Instances : Flip(g)

Spec == Init /\ [][Next]_vars

\* A request that has begun goes on: upstreams answer or time out, and a waiter
\* tries again until its deadline.  A rebuild that has begun is code without a wait.
LiveSpec ==
  /\ Spec
  /\ \A r \in Requests : WF_vars(Task(r))
  /\ \A w \in Admins : WF_vars(Rebuild(w))

-----------------------------------------------------------------------------
TypeOK ==
  /\ registry \in [Ids -> Instances \cup {None}]
  /\ listed \subseteq Made /\ stale \in BOOLEAN
  /\ rebuild \in [Admins -> {"no", "alone", "raced"}]
  /\ unread \in [Admins -> SUBSET Ids] /\ found \in [Admins -> SUBSET Made]
  /\ id \in [Instances -> Ids \cup {None}]
  /\ models \in [Instances -> ModelChoices]
  /\ up \in [Instances -> BOOLEAN]
  /\ inFlight \in [Instances -> Nat]
  /\ at \in [Requests -> {"new", "list", "acquire", "serving"}]
  /\ name \in [Requests -> Names]
  /\ forwarded \in [Requests -> Names \cup Models]
  /\ cands \in [Requests -> SUBSET Made]
  /\ serves \in [Requests -> Made \cup {None}]

\* "Reload never drops in-flight requests" (docs/ARCHITECTURE.md:416): whatever is
\* replaced under them, each instance counts exactly the requests that hold it,
\* never more than its cap; so an upstream has at most its cap for each instance
\* that is registered or still held.
HeldExact ==
  \A g \in Made :
    MaxConcurrency[id[g]] > 0 =>
      /\ inFlight[g] = Cardinality({r \in Requests : serves[r] = g})
      /\ inFlight[g] <= MaxConcurrency[id[g]]

\* An instance that was replaced or removed is let go, for good: no request keeps it
\* as a candidate or as its upstream, and none gets it any more.  Unless, that is,
\* changes overlap: then the list may be written last by a task that collected it
\* first, and keeps the instance until the next change that no other overlaps.
Retired(g) == g \in Made /\ registry[id[g]] # g
Referenced(g) == \E r \in Requests : serves[r] = g \/ g \in cands[r]
Raced == stale \/ \E w \in Admins : rebuild[w] = "raced"
RetiredDrains ==
  \A g \in Instances : (Retired(g) /\ ~Raced) ~> (Raced \/ []~Referenced(g))

\* docs/FEATURES.md:228-232: an alias names the upstream and the model to use
\* there.  A request whose model was rewritten is served by an upstream that the
\* alias pairs with that model.
AliasReachesTarget ==
  \A r \in Requests :
    at[r] = "serving" /\ forwarded[r] # name[r] =>
      \E i \in DOMAIN Entries(name[r]) :
        LET e == Entries(name[r])[i] IN e.id = id[serves[r]] /\ e.model = forwarded[r]

=============================================================================
