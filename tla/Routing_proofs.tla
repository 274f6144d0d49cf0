---------------------------- MODULE Routing_proofs ----------------------------
(***************************************************************************)
(* Proofs about Routing, for any upstreams, requests, limits, aliases and  *)
(* any number of instances.                                                *)
(*                                                                         *)
(* The count of an instance is related to the requests that hold it, not   *)
(* to the registry, so replacing an upstream disturbs no count; a new      *)
(* instance starts at 0 because nobody can hold one that was not made.     *)
(***************************************************************************)
EXTENDS Routing, Counting

\* Who holds an instance, and where the code lets a request hold one.
Holders(g) == {r \in Requests : serves[r] = g}

HoldsWhileServing == \A r \in Requests : serves[r] # None <=> at[r] = "serving"

UnmadeIsFresh == \A g \in Instances \ Made : inFlight[g] = 0

RegisteredIsMade == \A u \in Ids : registry[u] # None => registry[u] \in Made

IInv == TypeOK /\ RegisteredIsMade /\ HeldExact /\ HoldsWhileServing /\ UnmadeIsFresh

-----------------------------------------------------------------------------
\* An instance is no id and no None, and what is made has an id with a limit.
LEMMA Facts ==
  ASSUME TypeOK
  PROVE  /\ Instances \subseteq Nat /\ None \notin Instances
         /\ \A g \in Made : id[g] \in Ids /\ MaxConcurrency[id[g]] \in Nat
BY RoutingAssumption DEF RoutingAssumption, TypeOK, Made, Instances

\* resolve_alias gives the name itself or a model of an entry.
LEMMA ResolvedType ==
  ASSUME NEW n \in Names
  PROVE  Resolved(n) \in Names \cup Models
<1> DEFINE E == Entries(n)
           first == {i \in DOMAIN E : Hit(E[i]) /\ \A j \in 1 .. i - 1 : ~Hit(E[j])}
<1>1. E \in Seq(Targets)
  <2>1. ModelList[n] \in Seq(Targets) /\ Aliases[n] \in Seq(Targets)
    BY RoutingAssumption DEF RoutingAssumption
  <2>2. QED
    BY <2>1 DEF Entries
<1>2. \A i \in DOMAIN E : E[i].model \in Models
  <2>1. \A i \in DOMAIN E : E[i] \in Targets
    BY <1>1
  <2>2. \A e \in Targets : e.model \in Models
    BY DEF Targets
  <2>3. QED
    BY <2>1, <2>2
<1>3. CASE first = {}
  BY <1>3 DEF Resolved
<1>4. CASE first # {}
  <2>1. (CHOOSE i \in first : TRUE) \in DOMAIN E
    BY <1>4
  <2>2. Resolved(n) = E[CHOOSE i \in first : TRUE].model
    BY <1>4 DEF Resolved
  <2>3. QED
    BY <2>1, <2>2, <1>2
<1>5. QED
  BY <1>3, <1>4

\* The candidates are instances.
LEMMA FilterType ==
  ASSUME NEW n
  PROVE  Filter(listed, n) \subseteq listed
BY DEF Filter

-----------------------------------------------------------------------------
LEMMA InitIInv == Init => IInv
<1> SUFFICES ASSUME Init PROVE IInv
  OBVIOUS
<1>1. id \in [Instances -> Ids \cup {None}]
  BY DEF Init
<1>2. registry \in [Ids -> Instances \cup {None}]
  BY RoutingAssumption DEF Init, RoutingAssumption
<1>3. TypeOK /\ RegisteredIsMade
  <2>1. \A u \in Ids : Rank[u] \in Instances /\ id[Rank[u]] \in Ids
    <3> SUFFICES ASSUME NEW u \in Ids PROVE Rank[u] \in Instances /\ id[Rank[u]] \in Ids
      OBVIOUS
    <3>1. Rank[u] \in Instances /\ \E v \in Ids : Rank[v] = Rank[u]
      BY RoutingAssumption DEF RoutingAssumption
    <3>2. id[Rank[u]] = CHOOSE v \in Ids : Rank[v] = Rank[u]
      BY <3>1 DEF Init
    <3>3. QED
      BY <3>1, <3>2
  <2>2. \A u \in Ids : Rank[u] \in Made
    BY <2>1, RoutingAssumption DEF Made, RoutingAssumption
  <2>3. listed \subseteq Made /\ RegisteredIsMade
    BY <2>2 DEF Init, RegisteredIsMade
  <2>4. /\ rebuild \in [Admins -> {"no", "alone", "raced"}] /\ stale \in BOOLEAN
        /\ unread \in [Admins -> SUBSET Ids] /\ found \in [Admins -> SUBSET Made]
    BY DEF Init
  <2>5. /\ models \in [Instances -> ModelChoices] /\ up \in [Instances -> BOOLEAN]
        /\ inFlight \in [Instances -> Nat] /\ name \in [Requests -> Names]
        /\ at \in [Requests -> {"new", "list", "acquire", "serving"}]
        /\ forwarded \in [Requests -> Names \cup Models]
        /\ cands \in [Requests -> SUBSET Made] /\ serves \in [Requests -> Made \cup {None}]
    BY DEF Init
  <2>6. QED
    BY <1>1, <1>2, <2>3, <2>4, <2>5 DEF TypeOK
<1>4. \A g \in Instances : Holders(g) = {}
  BY <1>3, Facts DEF Init, Holders
<1>5. HeldExact
  <2> SUFFICES ASSUME NEW g \in Made, MaxConcurrency[id[g]] > 0
               PROVE  inFlight[g] = Cardinality(Holders(g)) /\ inFlight[g] <= MaxConcurrency[id[g]]
    BY DEF HeldExact, Holders
  <2>1. g \in Instances /\ inFlight[g] = 0
    BY DEF Made, Init
  <2>2. QED
    BY <2>1, <1>4, <1>3, Facts, FS_EmptySet
<1>6. HoldsWhileServing /\ UnmadeIsFresh
  BY DEF Init, HoldsWhileServing, UnmadeIsFresh
<1>7. QED
  BY <1>3, <1>5, <1>6 DEF IInv

-----------------------------------------------------------------------------
\* Steps that leave ids, counts and holders alone leave the counts exact.
LEMMA CountsKept ==
  ASSUME IInv, UNCHANGED <<id, inFlight, serves>>,
         \A r \in Requests : at'[r] = "serving" <=> at[r] = "serving"
  PROVE  HeldExact' /\ HoldsWhileServing' /\ UnmadeIsFresh'
BY DEF IInv, HeldExact, HoldsWhileServing, UnmadeIsFresh, Made

LEMMA MapKept ==
  ASSUME IInv, UNCHANGED <<registry, id>>
  PROVE  RegisteredIsMade'
BY DEF IInv, RegisteredIsMade, Made

LEMMA ResolveStep ==
  ASSUME IInv, NEW r \in Requests, Resolve(r)
  PROVE  IInv'
<1>1. TypeOK'
  BY ResolvedType DEF IInv, TypeOK, Resolve, Go, Made, instances, index
<1>2. \A q \in Requests : at'[q] = "serving" <=> at[q] = "serving"
  BY DEF Resolve, Go, IInv, TypeOK
<1>3. QED
  BY <1>1, <1>2, CountsKept, MapKept DEF Resolve, IInv, instances

LEMMA ListStep ==
  ASSUME IInv, NEW r \in Requests, List(r)
  PROVE  IInv'
<1>1. cands' \in [Requests -> SUBSET Made] /\ Made' = Made
  BY FilterType DEF IInv, TypeOK, List, Made, instances
<1>2. /\ at' \in [Requests -> {"new", "list", "acquire", "serving"}]
      /\ forwarded' \in [Requests -> Names \cup Models]
  BY DEF IInv, TypeOK, List, Go, Over
<1>3. TypeOK'
  BY <1>1, <1>2 DEF IInv, TypeOK, List, instances, index
<1>4. \A q \in Requests : at'[q] = "serving" <=> at[q] = "serving"
  BY DEF List, Go, Over, IInv, TypeOK
<1>5. QED
  BY <1>3, <1>4, CountsKept, MapKept DEF List, IInv, instances

LEMMA GiveUpStep ==
  ASSUME IInv, NEW r \in Requests, GiveUp(r)
  PROVE  IInv'
<1>1. TypeOK'
  BY DEF IInv, TypeOK, GiveUp, Go, Over, Made, instances, index
<1>2. \A q \in Requests : at'[q] = "serving" <=> at[q] = "serving"
  BY DEF GiveUp, Go, Over, IInv, TypeOK
<1>3. QED
  BY <1>1, <1>2, CountsKept, MapKept DEF GiveUp, IInv, instances

\* One request begins or ceases to hold an instance and its count follows.
LEMMA ClaimStep ==
  ASSUME IInv, NEW r \in Requests, Claim(r)
  PROVE  IInv'
<1> PICK g \in cands[r] :
      /\ Usable(g)
      /\ inFlight' = [inFlight EXCEPT ![g] = IF MaxConcurrency[id[g]] > 0 THEN @ + 1 ELSE @]
      /\ serves' = [serves EXCEPT ![r] = g]
  BY DEF Claim
<1>1. g \in Made /\ g \in Instances /\ g # None /\ serves[r] = None
  BY Facts DEF IInv, TypeOK, Claim, HoldsWhileServing, Made
<1>2. Made' = Made /\ id' = id
  BY DEF Claim, Made, instances
<1>3. inFlight' \in [Instances -> Nat]
  BY <1>1 DEF IInv, TypeOK
<1>4. TypeOK'
  BY <1>1, <1>2, <1>3 DEF IInv, TypeOK, Claim, Go, instances, index
<1>5. HoldsWhileServing'
  BY <1>1 DEF IInv, TypeOK, HoldsWhileServing, Claim, Go
<1>6. UnmadeIsFresh'
  BY <1>1, <1>2 DEF IInv, TypeOK, UnmadeIsFresh
<1>7. HeldExact'
  <2> SUFFICES ASSUME NEW h \in Made, MaxConcurrency[id[h]] > 0
               PROVE  inFlight'[h] = Cardinality(Holders(h)') /\ inFlight'[h] <= MaxConcurrency[id[h]]
    BY <1>2 DEF HeldExact, Holders
  <2>1. /\ inFlight[h] = Cardinality(Holders(h)) /\ inFlight[h] <= MaxConcurrency[id[h]]
        /\ inFlight[h] \in Nat /\ MaxConcurrency[id[h]] \in Nat /\ h \in Instances
    BY Facts DEF IInv, HeldExact, Holders, TypeOK, Made
  <2>2. CASE h = g
    <3>1. Cardinality(Holders(h)') = Cardinality(Holders(h)) + Change(r \in Holders(h), r \in Holders(h)')
      <4>1. Holders(h) \in SUBSET Requests /\ Holders(h)' \in SUBSET Requests
        BY DEF Holders
      <4>2. \A q \in Requests : q # r => (q \in Holders(h) <=> q \in Holders(h)')
        BY DEF Holders, IInv, TypeOK
      <4>3. IsFiniteSet(Requests)
        BY RoutingAssumption DEF RoutingAssumption
      <4>4. QED
        BY <4>1, <4>2, <4>3, Recount
    <3>2. r \notin Holders(h) /\ r \in Holders(h)'
      BY <1>1, <2>2 DEF Holders, IInv, TypeOK
    <3>3. inFlight'[h] = inFlight[h] + 1 /\ inFlight[h] < MaxConcurrency[id[h]]
      BY <1>1, <2>1, <2>2 DEF IInv, TypeOK, Usable, Full
    <3>4. QED
      BY <3>1, <3>2, <3>3, <2>1 DEF Change
  <2>3. CASE h # g
    <3>1. inFlight'[h] = inFlight[h]
      BY <2>1, <2>3 DEF IInv, TypeOK
    <3>2. Holders(h)' = Holders(h)
      BY <1>1, <2>1, <2>3, Facts DEF Holders, IInv, TypeOK
    <3>3. QED
      BY <3>1, <3>2, <2>1
  <2>4. QED
    BY <2>2, <2>3
<1>8. QED
  BY <1>4, <1>5, <1>6, <1>7, MapKept DEF IInv, Claim, instances

LEMMA FinishStep ==
  ASSUME IInv, NEW r \in Requests, Finish(r)
  PROVE  IInv'
<1> DEFINE g == serves[r]
<1>1. g \in Made /\ g \in Instances /\ g # None
  BY Facts DEF IInv, TypeOK, Finish, HoldsWhileServing, Made
<1>2. Made' = Made /\ id' = id
  BY DEF Finish, Made, instances
<1>3. MaxConcurrency[id[g]] > 0 => inFlight[g] > 0
  <2>1. ASSUME MaxConcurrency[id[g]] > 0 PROVE inFlight[g] > 0
    <3>1. inFlight[g] = Cardinality(Holders(g))
      BY <1>1, <2>1 DEF IInv, HeldExact, Holders
    <3>2. IsFiniteSet(Holders(g)) /\ Holders(g) # {}
      BY FS_Subset, RoutingAssumption DEF RoutingAssumption, Holders
    <3>3. QED
      BY <3>1, <3>2, FS_EmptySet, FS_CardinalityType
  <2>2. QED
    BY <2>1
<1>4. inFlight' \in [Instances -> Nat]
  BY <1>1, <1>3 DEF IInv, TypeOK, Finish, Released
<1>5. TypeOK'
  BY <1>1, <1>2, <1>4 DEF IInv, TypeOK, Finish, Go, Over, instances, index
<1>6. HoldsWhileServing'
  BY <1>1 DEF IInv, TypeOK, HoldsWhileServing, Finish, Go, Over
<1>7. UnmadeIsFresh'
  BY <1>1, <1>2 DEF IInv, TypeOK, UnmadeIsFresh, Finish, Released
<1>8. HeldExact'
  <2> SUFFICES ASSUME NEW h \in Made, MaxConcurrency[id[h]] > 0
               PROVE  inFlight'[h] = Cardinality(Holders(h)') /\ inFlight'[h] <= MaxConcurrency[id[h]]
    BY <1>2 DEF HeldExact, Holders
  <2>1. /\ inFlight[h] = Cardinality(Holders(h)) /\ inFlight[h] <= MaxConcurrency[id[h]]
        /\ inFlight[h] \in Nat /\ MaxConcurrency[id[h]] \in Nat /\ h \in Instances
    BY Facts DEF IInv, HeldExact, Holders, TypeOK, Made
  <2>2. serves' = [serves EXCEPT ![r] = None]
    BY DEF Finish
  <2>3. CASE h = g
    <3>1. Cardinality(Holders(h)') = Cardinality(Holders(h)) + Change(r \in Holders(h), r \in Holders(h)')
      <4>1. Holders(h) \in SUBSET Requests /\ Holders(h)' \in SUBSET Requests
        BY DEF Holders
      <4>2. \A q \in Requests : q # r => (q \in Holders(h) <=> q \in Holders(h)')
        BY <2>2 DEF Holders, IInv, TypeOK
      <4>3. IsFiniteSet(Requests)
        BY RoutingAssumption DEF RoutingAssumption
      <4>4. QED
        BY <4>1, <4>2, <4>3, Recount
    <3>2. r \in Holders(h) /\ r \notin Holders(h)'
      BY <1>1, <2>2, <2>3 DEF Holders, IInv, TypeOK
    <3>3. inFlight'[h] = inFlight[h] - 1
      BY <2>1, <2>3 DEF IInv, TypeOK, Finish, Released
    <3>4. QED
      BY <3>1, <3>2, <3>3, <2>1 DEF Change
  <2>4. CASE h # g
    <3>1. inFlight'[h] = inFlight[h]
      BY <2>1, <2>4 DEF IInv, TypeOK, Finish, Released
    <3>2. Holders(h)' = Holders(h)
      BY <2>1, <2>2, <2>4, Facts DEF Holders, IInv, TypeOK
    <3>3. QED
      BY <3>1, <3>2, <2>1
  <2>5. QED
    BY <2>3, <2>4
<1>9. QED
  BY <1>5, <1>6, <1>7, <1>8, MapKept DEF IInv, Finish, instances

-----------------------------------------------------------------------------
\* A task rebuilds the list from instances that are made.
LEMMA BeginType ==
  ASSUME TypeOK, NEW w \in Admins, BeginRebuild(w)
  PROVE  /\ rebuild' \in [Admins -> {"no", "alone", "raced"}]
         /\ unread' \in [Admins -> SUBSET Ids]
         /\ UNCHANGED <<listed, found, stale>>
BY DEF TypeOK, BeginRebuild

LEMMA CollectStep ==
  ASSUME IInv, NEW w \in Admins, NEW u \in Ids, Collect(w, u)
  PROVE  IInv'
<1>1. {registry[u]} \ {None} \subseteq Made
  BY DEF IInv, TypeOK, RegisteredIsMade
<1>2. found' \in [Admins -> SUBSET Made] /\ unread' \in [Admins -> SUBSET Ids]
  BY <1>1 DEF IInv, TypeOK, Collect
<1>3. TypeOK' /\ RegisteredIsMade'
  BY <1>2 DEF IInv, TypeOK, RegisteredIsMade, Collect, Made, instances, tasks
<1>4. QED
  BY <1>3, CountsKept DEF IInv, Collect, instances, tasks

LEMMA PublishStep ==
  ASSUME IInv, NEW w \in Admins, Publish(w)
  PROVE  IInv'
<1>1. /\ listed' \subseteq Made /\ stale' \in BOOLEAN
      /\ found' \in [Admins -> SUBSET Made]
      /\ rebuild' \in [Admins -> {"no", "alone", "raced"}]
  BY DEF IInv, TypeOK, Publish
<1>2. TypeOK' /\ RegisteredIsMade'
  BY <1>1 DEF IInv, TypeOK, RegisteredIsMade, Publish, Made, instances, tasks
<1>3. QED
  BY <1>2, CountsKept DEF IInv, Publish, instances, tasks

\* A new instance has count 0 and no holder.
LEMMA UpsertStep ==
  ASSUME IInv, NEW w \in Admins, NEW u \in Ids, Upsert(w, u)
  PROVE  IInv'
<1> PICK g \in Instances \ Made, declared \in ModelChoices, enabled \in BOOLEAN :
      /\ registry' = [registry EXCEPT ![u] = g]
      /\ id' = [id EXCEPT ![g] = u]
      /\ models' = [models EXCEPT ![g] = declared]
      /\ up' = [up EXCEPT ![g] = enabled]
      /\ BeginRebuild(w)
      /\ UNCHANGED <<inFlight, tasks>>
  BY DEF Upsert
<1>1. u # None /\ Made' = Made \cup {g}
  BY RoutingAssumption DEF RoutingAssumption, IInv, TypeOK, Made
<1>2. TypeOK' /\ RegisteredIsMade'
  <2>1. /\ registry' \in [Ids -> Instances \cup {None}] /\ id' \in [Instances -> Ids \cup {None}]
        /\ models' \in [Instances -> ModelChoices] /\ up' \in [Instances -> BOOLEAN]
    BY DEF IInv, TypeOK
  <2>2. /\ listed' \subseteq Made' /\ found' \in [Admins -> SUBSET Made']
        /\ cands' \in [Requests -> SUBSET Made'] /\ serves' \in [Requests -> Made' \cup {None}]
    BY <1>1, BeginType DEF IInv, TypeOK, tasks
  <2>3. TypeOK'
    BY <2>1, <2>2, BeginType DEF IInv, TypeOK, tasks
  <2>4. RegisteredIsMade'
    BY <1>1 DEF IInv, TypeOK, RegisteredIsMade
  <2>5. QED
    BY <2>3, <2>4
<1>3. Holders(g)' = {} /\ inFlight'[g] = 0
  BY Facts DEF Holders, IInv, TypeOK, UnmadeIsFresh, tasks
<1>4. HeldExact'
  <2> SUFFICES ASSUME NEW h \in Made', MaxConcurrency[id'[h]] > 0
               PROVE  inFlight'[h] = Cardinality(Holders(h)') /\ inFlight'[h] <= MaxConcurrency[id'[h]]
    BY DEF HeldExact, Holders
  <2>1. CASE h = g
    <3>1. id'[g] = u /\ MaxConcurrency[u] \in Nat
      BY RoutingAssumption DEF RoutingAssumption, IInv, TypeOK
    <3>2. inFlight'[h] = 0 /\ Holders(h)' = {}
      BY <1>3, <2>1
    <3>3. Cardinality(Holders(h)') = 0
      BY <3>2, FS_EmptySet
    <3>4. QED
      BY <2>1, <3>1, <3>2, <3>3
  <2>2. CASE h # g
    <3>1. h \in Made /\ id'[h] = id[h] /\ Holders(h)' = Holders(h) /\ inFlight'[h] = inFlight[h]
      BY <1>1, <2>2 DEF IInv, TypeOK, Made, Holders, tasks
    <3>2. QED
      BY <3>1 DEF IInv, HeldExact, Holders
  <2>3. QED
    BY <2>1, <2>2
<1>5. HoldsWhileServing' /\ UnmadeIsFresh'
  BY <1>1 DEF IInv, HoldsWhileServing, UnmadeIsFresh, tasks
<1>6. QED
  BY <1>2, <1>4, <1>5 DEF IInv

LEMMA UnregisterStep ==
  ASSUME IInv, NEW w \in Admins, NEW u \in Ids, Unregister(w, u)
  PROVE  IInv'
<1>1. TypeOK' /\ RegisteredIsMade'
  BY BeginType DEF IInv, TypeOK, RegisteredIsMade, Unregister, Made, instances, tasks
<1>2. QED
  BY <1>1, CountsKept DEF IInv, Unregister, instances, tasks

LEMMA FlipStep ==
  ASSUME IInv, NEW g \in Instances, Flip(g)
  PROVE  IInv'
<1>1. TypeOK' /\ RegisteredIsMade'
  BY DEF IInv, TypeOK, RegisteredIsMade, Flip, Made, tasks, index
<1>2. QED
  BY <1>1, CountsKept DEF IInv, Flip, tasks

LEMMA NextIInv == IInv /\ [Next]_vars => IInv'
<1> SUFFICES ASSUME IInv, [Next]_vars PROVE IInv'
  OBVIOUS
<1>1. CASE UNCHANGED vars
  <2>1. TypeOK' /\ RegisteredIsMade'
    BY <1>1 DEF IInv, TypeOK, RegisteredIsMade, Made, vars, instances, tasks, index
  <2>2. QED
    BY <1>1, <2>1, CountsKept DEF IInv, vars, instances, tasks
<1>2. CASE Next
  BY <1>2, ResolveStep, ListStep, ClaimStep, GiveUpStep, FinishStep,
     UpsertStep, UnregisterStep, CollectStep, PublishStep, FlipStep
     DEF Next, Task, Reconfigure, Rebuild
<1>3. QED
  BY <1>1, <1>2

LEMMA Invariance == Spec => []IInv
BY InitIInv, NextIInv, PTL DEF Spec

-----------------------------------------------------------------------------
\* Every variable of Routing keeps its type: in_flight never goes below zero
\* (Upstream::release), and candidates and claimed upstreams are instances.
THEOREM TypeCorrect == Spec => []TypeOK
<1>1. IInv => TypeOK
  BY DEF IInv
<1>2. QED
  BY <1>1, Invariance, PTL

\* Whatever upsert and remove do to the registry meanwhile, in_flight of every
\* limited instance counts the requests that claimed it and have not released it,
\* and never passes max_concurrency (Upstream::try_acquire, release).
THEOREM HeldExactness == Spec => []HeldExact
<1>1. IInv => HeldExact
  BY DEF IInv
<1>2. QED
  BY <1>1, Invariance, PTL

=============================================================================
