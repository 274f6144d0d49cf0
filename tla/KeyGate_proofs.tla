---------------------------- MODULE KeyGate_proofs ----------------------------
(***************************************************************************)
(* Proofs about KeyGate, for any number of requests and keys, any caps and *)
(* budgets.                                                                *)
(*                                                                         *)
(* That a release never decrements a key's count below zero needs to know  *)
(* who holds a slot, and that needs to know where a slot can be lost: the  *)
(* three properties are only inductive together.  What a key overspends    *)
(* and that its slots are leases follow from them.                         *)
(***************************************************************************)
EXTENDS KeyGate, Counting

IInv ==
  /\ TypeOK
  /\ KeySlotsExact
  /\ LeaksAreEarlyExits

LEMMA ConstantTypes ==
  /\ IsFiniteSet(Requests)
  /\ KeyOf \in [Requests -> Keys]
  /\ MaxParallel \in [Keys -> Nat]
  /\ Costs \subseteq Nat
BY KeyGateAssumption DEF KeyGateAssumption

LEMMA InitIInv == Init => IInv
<1> SUFFICES ASSUME Init PROVE IInv
  OBVIOUS
<1>1. TypeOK
  BY DEF Init, TypeOK, Running
<1>2. KeySlotsExact
  <2>1. \A k \in Keys : Cardinality(Holders(k)) = 0
    BY FS_EmptySet DEF Init, Holders
  <2>2. QED
    BY <2>1, ConstantTypes DEF Init, KeySlotsExact, Capped
<1>3. LeaksAreEarlyExits
  BY DEF Init, LeaksAreEarlyExits
<1>4. QED
  BY <1>1, <1>2, <1>3 DEF IInv

\* The part of LeaksAreEarlyExits that is about one request.
LeaksEarly(r) ==
  /\ slot[r] => at[r] \in {"budget", "compare", "handler", "serving", "record", "release",
                           "denied", "refused", "listed", "gone"}
  /\ at[r] \in {"budget", "compare", "handler", "serving", "record", "release"}
       => (slot[r] <=> Capped(KeyOf[r]))

\* A step that leaves the slots alone keeps KeySlotsExact.
LEMMA SlotsUntouched ==
  ASSUME KeySlotsExact, UNCHANGED <<slot, inFlight>>
  PROVE  KeySlotsExact'
BY DEF KeySlotsExact, Holders, Capped

\* A step that moves one slot, and the count of its key with it, keeps it too.
LEMMA SlotsKeep ==
  ASSUME IInv, NEW r \in Requests,
         \A q \in Requests : q # r => slot'[q] = slot[q],
         \A k \in Keys :
           IF Capped(k)
           THEN /\ inFlight'[k] = inFlight[k] + Change(KeyOf[r] = k /\ slot[r],
                                                      KeyOf[r] = k /\ slot'[r])
                /\ inFlight'[k] <= MaxParallel[k]
           ELSE inFlight'[k] = 0
  PROVE  KeySlotsExact' /\ \A k \in Keys : inFlight'[k] \in Nat
<1>1. ASSUME NEW k \in Keys
      PROVE  Cardinality(Holders(k)') =
               Cardinality(Holders(k)) + Change(KeyOf[r] = k /\ slot[r],
                                                KeyOf[r] = k /\ slot'[r])
  <2>1. Holders(k) \in SUBSET Requests /\ Holders(k)' \in SUBSET Requests
    BY DEF Holders
  <2>2. \A q \in Requests : q # r => (q \in Holders(k) <=> q \in Holders(k)')
    BY DEF Holders
  <2>3. /\ r \in Holders(k) <=> KeyOf[r] = k /\ slot[r]
        /\ r \in Holders(k)' <=> KeyOf[r] = k /\ slot'[r]
    BY DEF Holders
  <2>4. Cardinality(Holders(k)') =
          Cardinality(Holders(k)) + Change(r \in Holders(k), r \in Holders(k)')
    BY <2>1, <2>2, Recount, ConstantTypes DEF Change
  <2>5. QED
    BY <2>3, <2>4 DEF Change
<1>2. \A k \in Keys : Capped(k) => inFlight'[k] = Cardinality(Holders(k)')
  BY <1>1 DEF IInv, KeySlotsExact
<1>3. KeySlotsExact'
  BY <1>2 DEF KeySlotsExact, Capped
<1>4. \A k \in Keys : Cardinality(Holders(k)') \in Nat
  BY FS_Subset, FS_CardinalityType, ConstantTypes DEF Holders
<1>5. QED
  BY <1>2, <1>3, <1>4

\* A step of one request that does not touch the slots.
LEMMA PassKeeps ==
  ASSUME IInv, NEW r \in Requests,
         at' = [at EXCEPT ![r] = at'[r]], at'[r] \in Running \cup Over,
         UNCHANGED <<call, slot, inFlight>>,
         watcher' \in [Requests -> {"none", "running", "ended"}],
         seen' \in [Requests -> Nat], stored' \in [Keys -> Nat],
         spend' \in [Keys -> Nat],
         lapsed' \in [Keys -> BOOLEAN], wiping' \in [Keys -> BOOLEAN],
         LeaksEarly(r)'
  PROVE  IInv'
<1>1. TypeOK'
  BY DEF IInv, TypeOK
<1>2. KeySlotsExact'
  BY SlotsUntouched DEF IInv
<1>3. LeaksAreEarlyExits'
  <2>1. \A q \in Requests : q # r => at'[q] = at[q] /\ slot'[q] = slot[q]
    BY DEF IInv, TypeOK
  <2>2. QED
    BY <2>1 DEF IInv, LeaksAreEarlyExits, LeaksEarly, Capped
<1>4. QED
  BY <1>1, <1>2, <1>3 DEF IInv

\* The steps that only move a request, and those that charge or persist.
LEMMA CheckKeyKeeps ==
  ASSUME IInv, NEW r \in Requests, CheckKey(r)
  PROVE  IInv'
<1>1. TypeOK /\ LeaksEarly(r)
  BY DEF IInv, LeaksAreEarlyExits, LeaksEarly
<1>2. /\ at[r] = "new" /\ at' = [at EXCEPT ![r] = at'[r]]
      /\ at'[r] \in {"denied", "slot"}
      /\ UNCHANGED <<call, slot, watcher, seen, inFlight, stored, spend, lapsed, wiping>>
  BY <1>1 DEF CheckKey, Go, TypeOK, window
<1>3. LeaksEarly(r)'
  BY <1>1, <1>2 DEF LeaksEarly
<1>4. QED
  BY <1>1, <1>2, <1>3, PassKeeps DEF TypeOK, Running, Over

LEMMA CheckBudgetKeeps ==
  ASSUME IInv, NEW r \in Requests, RestartWindow(r) \/ CheckBudget(r)
  PROVE  IInv'
<1>1. TypeOK /\ LeaksEarly(r)
  BY DEF IInv, LeaksAreEarlyExits, LeaksEarly
<1>2. at[r] \in {"budget", "compare"} /\ (slot[r] <=> Capped(KeyOf[r]))
  BY DEF RestartWindow, CheckBudget, IInv, LeaksAreEarlyExits
<1>3. /\ at' = [at EXCEPT ![r] = at'[r]] /\ at'[r] \in {"compare", "denied", "handler"}
      /\ UNCHANGED <<call, slot, watcher, seen, inFlight, stored, wiping>>
  BY <1>1 DEF RestartWindow, CheckBudget, Go, TypeOK, window
<1>4. spend' \in [Keys -> Nat] /\ lapsed' \in [Keys -> BOOLEAN]
  <2>1. CASE UNCHANGED <<spend, lapsed>>
    BY <1>1, <2>1 DEF TypeOK
  <2>2. CASE /\ spend' = [spend EXCEPT ![KeyOf[r]] = 0]
             /\ lapsed' = [lapsed EXCEPT ![KeyOf[r]] = FALSE]
    BY <1>1, <2>2 DEF TypeOK
  <2>3. QED
    BY <2>1, <2>2 DEF RestartWindow, CheckBudget, window
<1>5. LeaksEarly(r)'
  BY <1>2, <1>3 DEF LeaksEarly, Capped
<1>6. QED
  BY <1>1, <1>3, <1>4, <1>5, PassKeeps DEF TypeOK, Running, Over

LEMMA ServeKeeps ==
  ASSUME IInv, NEW r \in Requests, Handle(r) \/ Succeed(r) \/ Fail(r) \/ Disconnect(r)
  PROVE  IInv'
<1>1. TypeOK /\ LeaksEarly(r)
  BY DEF IInv, LeaksAreEarlyExits, LeaksEarly
<1>2. /\ at[r] \in {"handler", "serving"} /\ at' = [at EXCEPT ![r] = at'[r]]
      /\ at'[r] \in {"serving", "refused", "listed", "record", "release", "gone"}
      /\ UNCHANGED <<call, slot, seen, inFlight, stored, spend, lapsed, wiping>>
  BY <1>1 DEF Handle, Succeed, Fail, Disconnect, Go, TypeOK, window
<1>3. watcher' \in [Requests -> {"none", "running", "ended"}]
  BY <1>1 DEF Handle, Succeed, Fail, Disconnect, TypeOK
<1>4. LeaksEarly(r)'
  BY <1>1, <1>2 DEF LeaksEarly, Capped
<1>5. QED
  BY <1>1, <1>2, <1>3, <1>4, PassKeeps DEF TypeOK, Running, Over

\* What Charge and the steps that call it do to the spend.
LEMMA ChargeType ==
  ASSUME spend \in [Keys -> Nat], NEW k \in Keys, NEW c \in Nat, Charge(k, c)
  PROVE  spend' \in [Keys -> Nat]
<1>1. c \div 1000 \in Nat
  OBVIOUS
<1>2. QED
  BY <1>1 DEF Charge, Millis

LEMMA RecordKeeps ==
  ASSUME IInv, NEW r \in Requests, Record(r)
  PROVE  IInv'
<1>1. TypeOK /\ LeaksEarly(r) /\ KeyOf[r] \in Keys
  BY ConstantTypes DEF IInv, LeaksAreEarlyExits, LeaksEarly
<1>2. /\ at[r] = "record" /\ at' = [at EXCEPT ![r] = at'[r]] /\ at'[r] = "release"
      /\ UNCHANGED <<call, slot, watcher, seen, inFlight, stored, lapsed, wiping>>
  BY <1>1 DEF Record, Go, TypeOK, window
<1>3. spend' \in [Keys -> Nat]
  <2>1. PICK c \in Nat : Charge(KeyOf[r], c)
    BY ConstantTypes DEF Record
  <2>2. QED
    BY <1>1, <2>1, ChargeType DEF TypeOK
<1>4. LeaksEarly(r)'
  BY <1>1, <1>2 DEF LeaksEarly, Capped
<1>5. QED
  BY <1>1, <1>2, <1>3, <1>4, PassKeeps DEF TypeOK, Running

LEMMA PersistKeeps ==
  ASSUME IInv, NEW r \in Requests, LoadCount(r) \/ StoreCount(r)
  PROVE  IInv'
<1>1. TypeOK /\ LeaksEarly(r) /\ KeyOf[r] \in Keys
  BY ConstantTypes DEF IInv, LeaksAreEarlyExits, LeaksEarly
<1>2. /\ at[r] \in {"load", "store"} /\ at' = [at EXCEPT ![r] = at'[r]]
      /\ at'[r] \in {"store", "done"}
      /\ UNCHANGED <<call, slot, watcher, inFlight, spend, lapsed, wiping>>
  BY <1>1 DEF LoadCount, StoreCount, Go, TypeOK, window
<1>3. seen' \in [Requests -> Nat]
  BY <1>1 DEF LoadCount, StoreCount, TypeOK
<1>4. stored' \in [Keys -> Nat]
  BY <1>1 DEF LoadCount, StoreCount, TypeOK
<1>5. LeaksEarly(r)'
  BY <1>1, <1>2 DEF LeaksEarly
<1>6. QED
  BY <1>1, <1>2, <1>3, <1>4, <1>5, PassKeeps DEF TypeOK, Running, Over

LEMMA WatchKeeps ==
  ASSUME IInv, NEW r \in Requests, Watch(r)
  PROVE  IInv'
<1>1. TypeOK /\ LeaksEarly(r) /\ KeyOf[r] \in Keys
  BY ConstantTypes DEF IInv, LeaksAreEarlyExits, LeaksEarly
<1>2. UNCHANGED <<at, call, slot, seen, inFlight, stored, lapsed, wiping>>
  BY DEF Watch, window
<1>3. watcher' \in [Requests -> {"none", "running", "ended"}]
  BY <1>1 DEF Watch, TypeOK
<1>4. spend' \in [Keys -> Nat]
  <2>1. CASE UNCHANGED spend
    BY <1>1, <2>1 DEF TypeOK
  <2>2. CASE \E c \in Costs : Charge(KeyOf[r], c)
    BY <1>1, <2>2, ChargeType, ConstantTypes DEF TypeOK
  <2>3. QED
    BY <2>1, <2>2 DEF Watch
<1>5. LeaksEarly(r)'
  BY <1>1, <1>2 DEF LeaksEarly, Capped
<1>6. at' = [at EXCEPT ![r] = at'[r]] /\ at'[r] \in Running \cup Over
  BY <1>1, <1>2 DEF TypeOK
<1>7. QED
  BY <1>1, <1>2, <1>3, <1>4, <1>5, <1>6, PassKeeps DEF TypeOK

\* The two steps that move a slot.
LEMMA TakeSlotKeeps ==
  ASSUME IInv, NEW r \in Requests, TakeSlot(r)
  PROVE  IInv'
<1> DEFINE k == KeyOf[r]
<1>1. TypeOK /\ LeaksEarly(r) /\ k \in Keys
  BY ConstantTypes DEF IInv, LeaksAreEarlyExits, LeaksEarly
<1>2. /\ at[r] = "slot" /\ ~slot[r]
      /\ at' = [at EXCEPT ![r] = at'[r]] /\ at'[r] \in {"denied", "budget"}
      /\ UNCHANGED <<call, watcher, seen, stored, spend, lapsed, wiping>>
  BY <1>1 DEF TakeSlot, Go, TypeOK, window, LeaksEarly
<1>3. CASE UNCHANGED <<slot, inFlight>> /\ (at'[r] = "budget" => ~Capped(k))
  <2>1. LeaksEarly(r)'
    BY <1>1, <1>2, <1>3 DEF LeaksEarly, Capped
  <2>2. QED
    BY <1>1, <1>2, <1>3, <2>1, PassKeeps DEF TypeOK, Running, Over
<1>4. CASE /\ HasRoom(k) /\ Capped(k) /\ at'[r] = "budget"
           /\ slot' = [slot EXCEPT ![r] = TRUE]
           /\ inFlight' = [inFlight EXCEPT ![k] = @ + 1]
  <2>1. /\ slot' \in [Requests -> BOOLEAN] /\ slot'[r] = TRUE
        /\ \A q \in Requests : q # r => slot'[q] = slot[q] /\ at'[q] = at[q]
    BY <1>1, <1>2, <1>4 DEF TypeOK
  <2>2. ASSUME NEW j \in Keys
        PROVE  IF Capped(j)
               THEN /\ inFlight'[j] = inFlight[j] + Change(KeyOf[r] = j /\ slot[r],
                                                          KeyOf[r] = j /\ slot'[r])
                    /\ inFlight'[j] <= MaxParallel[j]
               ELSE inFlight'[j] = 0
    <3>1. /\ inFlight[j] \in Nat /\ MaxParallel[j] \in Nat
          /\ Capped(j) => inFlight[j] <= MaxParallel[j]
          /\ ~Capped(j) => inFlight[j] = 0
      BY <1>1, ConstantTypes DEF TypeOK, IInv, KeySlotsExact
    <3>2. inFlight'[j] = IF j = k THEN inFlight[j] + 1 ELSE inFlight[j]
      BY <1>1, <1>4 DEF TypeOK
    <3>3. CASE j = k
      BY <1>2, <1>4, <2>1, <3>1, <3>2, <3>3 DEF Change, HasRoom
    <3>4. CASE j # k
      BY <3>1, <3>2, <3>4 DEF Change
    <3>5. QED
      BY <3>3, <3>4
  <2>3. KeySlotsExact' /\ \A j \in Keys : inFlight'[j] \in Nat
    BY <2>1, <2>2, SlotsKeep
  <2>4. LeaksEarly(r)'
    BY <1>2, <1>4, <2>1 DEF LeaksEarly, Capped
  <2>5. LeaksAreEarlyExits'
    BY <2>1, <2>4 DEF IInv, LeaksAreEarlyExits, LeaksEarly, Capped
  <2>6. TypeOK'
    <3>1. inFlight' \in [Keys -> Nat] /\ at' \in [Requests -> Running \cup Over]
      BY <1>1, <1>2, <1>4, <2>3 DEF TypeOK, Running, Over
    <3>2. QED
      BY <1>1, <1>2, <2>1, <3>1 DEF TypeOK
  <2>7. QED
    BY <2>3, <2>5, <2>6 DEF IInv
<1>5. QED
  BY <1>1, <1>2, <1>3, <1>4 DEF TakeSlot, Go, TypeOK, window

LEMMA ReleaseKeeps ==
  ASSUME IInv, NEW r \in Requests, Release(r)
  PROVE  IInv'
<1> DEFINE k == KeyOf[r]
<1>1. TypeOK /\ LeaksEarly(r) /\ k \in Keys
  BY ConstantTypes DEF IInv, LeaksAreEarlyExits, LeaksEarly
<1>2. /\ at[r] = "release" /\ (slot[r] <=> Capped(k))
      /\ at' = [at EXCEPT ![r] = at'[r]] /\ at'[r] = "load"
      /\ slot' = [slot EXCEPT ![r] = FALSE]
      /\ inFlight' = IF Capped(k) THEN [inFlight EXCEPT ![k] = @ - 1] ELSE inFlight
      /\ UNCHANGED <<call, watcher, seen, stored, spend, lapsed, wiping>>
  BY <1>1 DEF Release, Go, TypeOK, window, LeaksEarly
<1>3. /\ slot' \in [Requests -> BOOLEAN] /\ slot'[r] = FALSE
      /\ \A q \in Requests : q # r => slot'[q] = slot[q] /\ at'[q] = at[q]
  BY <1>1, <1>2 DEF TypeOK
<1>4. ASSUME NEW j \in Keys
      PROVE  IF Capped(j)
             THEN /\ inFlight'[j] = inFlight[j] + Change(KeyOf[r] = j /\ slot[r],
                                                        KeyOf[r] = j /\ slot'[r])
                  /\ inFlight'[j] <= MaxParallel[j]
             ELSE inFlight'[j] = 0
  <2>1. /\ inFlight[j] \in Nat /\ MaxParallel[j] \in Nat
        /\ Capped(j) => inFlight[j] <= MaxParallel[j]
        /\ ~Capped(j) => inFlight[j] = 0
    BY <1>1, ConstantTypes DEF TypeOK, IInv, KeySlotsExact
  <2>2. inFlight'[j] = IF j = k /\ Capped(k) THEN inFlight[j] - 1 ELSE inFlight[j]
    BY <1>1, <1>2 DEF TypeOK
  <2>3. CASE j = k
    BY <1>2, <1>3, <2>1, <2>2, <2>3 DEF Change
  <2>4. CASE j # k
    BY <2>1, <2>2, <2>4 DEF Change
  <2>5. QED
    BY <2>3, <2>4
<1>5. KeySlotsExact' /\ \A j \in Keys : inFlight'[j] \in Nat
  BY <1>3, <1>4, SlotsKeep
<1>6. LeaksAreEarlyExits'
  <2>1. LeaksEarly(r)'
    BY <1>2, <1>3 DEF LeaksEarly
  <2>2. QED
    BY <1>3, <2>1 DEF IInv, LeaksAreEarlyExits, LeaksEarly, Capped
<1>7. TypeOK'
  <2>1. inFlight' \in [Keys -> Nat] /\ at' \in [Requests -> Running \cup Over]
    BY <1>1, <1>2, <1>5 DEF TypeOK, Running
  <2>2. QED
    BY <1>1, <1>2, <1>3, <2>1 DEF TypeOK
<1>8. QED
  BY <1>5, <1>6, <1>7 DEF IInv

\* Neither what happens to a budget window nor a stutter touches any of this.
LEMMA IdleKeeps ==
  ASSUME IInv,
         UNCHANGED vars \/ \E k \in Keys : Lapse(k) \/ ExpireWindow(k) \/ WipeSpend(k)
  PROVE  IInv'
<1>1. /\ UNCHANGED <<at, call, slot, watcher, seen, inFlight, stored>>
      /\ spend' \in [Keys -> Nat]
      /\ lapsed' \in [Keys -> BOOLEAN] /\ wiping' \in [Keys -> BOOLEAN]
  <2>1. TypeOK
    BY DEF IInv
  <2>2. CASE UNCHANGED vars
    BY <2>1, <2>2 DEF TypeOK, vars, task, window
  <2>3. ASSUME NEW k \in Keys, Lapse(k) \/ ExpireWindow(k) \/ WipeSpend(k)
        PROVE  /\ UNCHANGED <<at, call, slot, watcher, seen, inFlight, stored>>
               /\ spend' \in [Keys -> Nat]
               /\ lapsed' \in [Keys -> BOOLEAN] /\ wiping' \in [Keys -> BOOLEAN]
    <3>1. CASE Lapse(k)
      BY <2>1, <3>1 DEF TypeOK, task, Lapse
    <3>2. CASE ExpireWindow(k)
      BY <2>1, <3>2 DEF TypeOK, task, ExpireWindow
    <3>3. CASE WipeSpend(k)
      BY <2>1, <3>3 DEF TypeOK, task, WipeSpend
    <3>4. QED
      BY <2>3, <3>1, <3>2, <3>3
  <2>4. QED
    BY <2>2, <2>3
<1>2. TypeOK'
  BY <1>1 DEF IInv, TypeOK
<1>3. KeySlotsExact'
  BY <1>1, SlotsUntouched DEF IInv
<1>4. LeaksAreEarlyExits'
  BY <1>1 DEF IInv, LeaksAreEarlyExits, Capped
<1>5. QED
  BY <1>2, <1>3, <1>4 DEF IInv

-----------------------------------------------------------------------------
\* IInv holds in every reachable state.
THEOREM Invariance == Spec => []IInv
<1>1. Init => IInv
  BY InitIInv
<1>2. IInv /\ [Next]_vars => IInv'
  <2> SUFFICES ASSUME IInv, [Next]_vars PROVE IInv'
    OBVIOUS
  <2>1. ASSUME NEW r \in Requests, Step(r) PROVE IInv'
    BY <2>1, CheckKeyKeeps, TakeSlotKeeps, CheckBudgetKeeps, ServeKeeps, RecordKeeps,
       ReleaseKeeps, PersistKeeps DEF Step
  <2>2. ASSUME NEW r \in Requests, Watch(r) \/ Disconnect(r) PROVE IInv'
    BY <2>2, WatchKeeps, ServeKeeps
  <2>3. CASE UNCHANGED vars \/ \E k \in Keys : Lapse(k) \/ ExpireWindow(k) \/ WipeSpend(k)
    BY <2>3, IdleKeeps
  <2>4. QED
    BY <2>1, <2>2, <2>3 DEF Next
<1>3. QED
  BY <1>1, <1>2, PTL DEF Spec

\* The variables keep their types: no counter of a key wraps below zero.
THEOREM TypeCorrect == Spec => []TypeOK
BY Invariance, PTL DEF IInv

\* A key's in_flight is the number of slots taken and not returned, and never
\* above max_parallel_requests, for any number of keys and requests.
THEOREM KeySlotsCounted == Spec => []KeySlotsExact
BY Invariance, PTL DEF IInv

\* A key slot is lost by a late refusal, an endpoint that does not release or a
\* client that hung up, and in no other way.
THEOREM OnlyEarlyExitsLeak == Spec => []LeaksAreEarlyExits
BY Invariance, PTL DEF IInv

-----------------------------------------------------------------------------
\* Who passed the budget check of a key and has not been charged.
Uncharged(k) ==
  {r \in Requests : KeyOf[r] = k /\
     IF call[r] = "stream"
     THEN at[r] \in {"handler", "serving"} \/ watcher[r] = "running"
     ELSE at[r] \in {"handler", "serving", "record"}}

\* Only a stream that was served has a watcher.
Watched ==
  \A r \in Requests :
    watcher[r] # "none" =>
      call[r] = "stream" /\ at[r] \notin {"new", "slot", "budget", "compare", "handler", "serving"}

\* The bound holds even if everybody who is uncharged costs the most.
Ceiling(k) == Budget[k] + MaxCost * (MaxParallel[k] + Cardinality(Streams(k)))
Committed(k) ==
  k \in Budgeted /\ Capped(k) /\ Budget[k] > 0 =>
    spend[k] + MaxCost * Cardinality(Uncharged(k)) < Ceiling(k)

SpendInv == IInv /\ Watched /\ \A k \in Keys : Committed(k)

LEMMA BudgetTypes ==
  /\ Budget \in [Keys -> Nat] /\ Budgeted \subseteq Keys /\ MaxCost \in Nat
  /\ \A c \in Costs : Millis(c) \in Nat /\ Millis(c) <= MaxCost
  /\ Millis(0) = 0
BY KeyGateAssumption DEF KeyGateAssumption, Millis

LEMMA Sizes ==
  ASSUME NEW k \in Keys
  PROVE  /\ IsFiniteSet(Uncharged(k)) /\ Cardinality(Uncharged(k)) \in Nat
         /\ IsFiniteSet(Uncharged(k)') /\ Cardinality(Uncharged(k)') \in Nat
         /\ IsFiniteSet(Streams(k)) /\ Cardinality(Streams(k)) \in Nat
         /\ IsFiniteSet(Holders(k)) /\ Cardinality(Holders(k)) \in Nat
         /\ Budget[k] \in Nat /\ MaxParallel[k] \in Nat
<1>1. /\ Uncharged(k) \subseteq Requests /\ Uncharged(k)' \subseteq Requests
      /\ Streams(k) \subseteq Requests /\ Holders(k) \subseteq Requests
  BY DEF Uncharged, Streams, Holders
<1>2. QED
  BY <1>1, ConstantTypes, BudgetTypes, FS_Subset, FS_CardinalityType

\* A step that admits nobody and charges nothing.
LEMMA CommittedStays ==
  ASSUME IInv, NEW k \in Keys, Committed(k), call' = call, spend'[k] \in Nat,
         Uncharged(k)' \subseteq Uncharged(k), spend'[k] <= spend[k]
  PROVE  Committed(k)'
<1>1. Streams(k)' = Streams(k) /\ Ceiling(k)' = Ceiling(k)
  BY DEF Streams, Ceiling
<1>2. Cardinality(Uncharged(k)') <= Cardinality(Uncharged(k))
  BY Sizes, FS_Subset
<1>3. \A a, b \in Nat : a <= b => MaxCost * a \in Nat /\ MaxCost * b \in Nat /\ MaxCost * a <= MaxCost * b
  BY BudgetTypes
<1>4. /\ MaxCost * Cardinality(Uncharged(k)') <= MaxCost * Cardinality(Uncharged(k))
      /\ MaxCost * Cardinality(Uncharged(k)') \in Nat /\ MaxCost * Cardinality(Uncharged(k)) \in Nat
  BY <1>2, <1>3, Sizes
<1>5. Ceiling(k) \in Nat
  <2>1. \A a, b, c \in Nat : c + MaxCost * (a + b) \in Nat
    BY BudgetTypes
  <2>2. QED
    BY <2>1, Sizes DEF Ceiling
<1>6. spend[k] \in Nat
  BY DEF IInv, TypeOK
<1>7. QED
  BY <1>1, <1>4, <1>5, <1>6 DEF Committed, Capped

\* A step that charges one who was uncharged.
LEMMA CommittedCharged ==
  ASSUME IInv, NEW r \in Requests, NEW k \in Keys, Committed(k), call' = call,
         r \in Uncharged(k), Uncharged(k)' = Uncharged(k) \ {r},
         NEW m \in Nat, m <= MaxCost, spend'[k] = spend[k] + m
  PROVE  Committed(k)'
<1>1. Streams(k)' = Streams(k) /\ Ceiling(k)' = Ceiling(k)
  BY DEF Streams, Ceiling
<1>2. Cardinality(Uncharged(k)') = Cardinality(Uncharged(k)) - 1
  <2>1. Cardinality(Uncharged(k) \ {r}) = Cardinality(Uncharged(k)) - 1
    <3>1. IsFiniteSet(Uncharged(k))
      BY Sizes
    <3>2. QED
      BY <3>1, FS_RemoveElement
  <2>2. QED
    BY <2>1
<1>3. \A a \in Nat : MaxCost * (a - 1) = MaxCost * a - MaxCost /\ MaxCost * a \in Nat
  BY BudgetTypes
<1>4. /\ MaxCost * Cardinality(Uncharged(k)') = MaxCost * Cardinality(Uncharged(k)) - MaxCost
      /\ MaxCost * Cardinality(Uncharged(k)) \in Nat
  BY <1>2, <1>3, Sizes
<1>5. Ceiling(k) \in Nat
  <2>1. \A a, b, c \in Nat : c + MaxCost * (a + b) \in Nat
    BY BudgetTypes
  <2>2. QED
    BY <2>1, Sizes DEF Ceiling
<1>6. spend[k] \in Nat /\ MaxCost \in Nat
  BY BudgetTypes DEF IInv, TypeOK
<1>7. QED
  BY <1>1, <1>4, <1>5, <1>6 DEF Committed, Capped

\* A request passes the check: the spend is under the budget, and whoever is
\* uncharged is a stream or holds a slot.
LEMMA CommittedAdmitted ==
  ASSUME IInv, NEW k \in Keys, k \in Budgeted, Capped(k), Budget[k] > 0, call' = call, spend' = spend,
         spend[k] < Budget[k], Uncharged(k)' \subseteq Holders(k) \cup Streams(k)
  PROVE  Committed(k)'
<1>1. Streams(k)' = Streams(k) /\ Ceiling(k)' = Ceiling(k)
  BY DEF Streams, Ceiling
<1>2. Cardinality(Holders(k)) <= MaxParallel[k]
  BY DEF IInv, KeySlotsExact
<1>3. /\ IsFiniteSet(Holders(k) \cup Streams(k))
      /\ Cardinality(Holders(k) \cup Streams(k)) <= Cardinality(Holders(k)) + Cardinality(Streams(k))
  <2>1. IsFiniteSet(Holders(k) \cap Streams(k)) /\ Cardinality(Holders(k) \cap Streams(k)) \in Nat
    BY Sizes, FS_Intersection, FS_CardinalityType
  <2>2. IsFiniteSet(Holders(k)) /\ IsFiniteSet(Streams(k))
    BY Sizes
  <2>3. /\ IsFiniteSet(Holders(k) \cup Streams(k))
        /\ Cardinality(Holders(k) \cup Streams(k)) =
             Cardinality(Holders(k)) + Cardinality(Streams(k)) - Cardinality(Holders(k) \cap Streams(k))
    BY <2>2, FS_Union
  <2>4. Cardinality(Holders(k)) \in Nat /\ Cardinality(Streams(k)) \in Nat
    BY Sizes
  <2>5. QED
    BY <2>1, <2>3, <2>4
<1>4. Cardinality(Uncharged(k)') <= Cardinality(Holders(k) \cup Streams(k))
      /\ Cardinality(Holders(k) \cup Streams(k)) \in Nat
  BY <1>3, FS_Subset, FS_CardinalityType
<1>5. Cardinality(Uncharged(k)') <= MaxParallel[k] + Cardinality(Streams(k))
  BY <1>2, <1>3, <1>4, Sizes
<1>6. \A a, b \in Nat : a <= b => MaxCost * a \in Nat /\ MaxCost * b \in Nat /\ MaxCost * a <= MaxCost * b
  BY BudgetTypes
<1>7. /\ MaxCost * Cardinality(Uncharged(k)') <= MaxCost * (MaxParallel[k] + Cardinality(Streams(k)))
      /\ MaxCost * Cardinality(Uncharged(k)') \in Nat
      /\ MaxCost * (MaxParallel[k] + Cardinality(Streams(k))) \in Nat
  BY <1>5, <1>6, Sizes
<1>8. spend[k] \in Nat /\ Budget[k] \in Nat
  BY Sizes DEF IInv, TypeOK
<1>9. QED
  BY <1>1, <1>7, <1>8 DEF Committed, Ceiling

-----------------------------------------------------------------------------
\* A step of one request that leaves the spend of every key alone.
LEMMA UnchargedStays ==
  ASSUME IInv, NEW r \in Requests, call' = call,
         \A q \in Requests : q # r => at'[q] = at[q] /\ watcher'[q] = watcher[q],
         at'[r] \in {"handler", "serving"} => at[r] \in {"handler", "serving"},
         at'[r] = "record" => at[r] \in {"handler", "serving", "record"},
         watcher'[r] = "running" => watcher[r] = "running" \/ at[r] = "serving",
         NEW k \in Keys
  PROVE  Uncharged(k)' \subseteq Uncharged(k)
BY DEF Uncharged

\* The steps on which nobody is admitted or charged.
LEMMA FreeStep ==
  ASSUME SpendInv, IInv', NEW r \in Requests,
         \/ CheckKey(r) \/ TakeSlot(r) \/ RestartWindow(r) \/ Handle(r) \/ Succeed(r) \/ Fail(r)
         \/ Release(r) \/ LoadCount(r) \/ StoreCount(r) \/ Disconnect(r)
  PROVE  SpendInv'
<1>1. TypeOK /\ IInv
  BY DEF SpendInv, IInv
<1>2. /\ call' = call
      /\ \A q \in Requests : q # r => at'[q] = at[q] /\ watcher'[q] = watcher[q]
  BY <1>1 DEF TypeOK, CheckKey, TakeSlot, RestartWindow, Handle, Succeed, Fail, Release, LoadCount,
              StoreCount, Disconnect, Go
<1>3. /\ at'[r] \in {"handler", "serving"} => at[r] \in {"handler", "serving"}
      /\ at'[r] = "record" => at[r] \in {"handler", "serving", "record"}
      /\ at'[r] \in {"new", "slot", "budget", "compare", "handler", "serving"} =>
           at[r] \in {"new", "slot", "budget", "compare", "handler", "serving"}
  BY <1>1 DEF TypeOK, CheckKey, TakeSlot, RestartWindow, Handle, Succeed, Fail, Release, LoadCount,
              StoreCount, Disconnect, Go
<1>4. \/ watcher'[r] = watcher[r]
      \/ watcher'[r] = "running" /\ call[r] = "stream" /\ at[r] = "serving" /\ at'[r] = "record"
  BY <1>1 DEF TypeOK, CheckKey, TakeSlot, RestartWindow, Handle, Succeed, Fail, Release, LoadCount,
              StoreCount, Disconnect, Go
<1>5. \A k \in Keys : spend'[k] = spend[k] \/ spend'[k] = 0
  BY <1>1, ConstantTypes DEF TypeOK, CheckKey, TakeSlot, RestartWindow, Handle, Succeed, Fail, Release,
              LoadCount, StoreCount, Disconnect
<1>6. Watched'
  BY <1>2, <1>3, <1>4 DEF SpendInv, Watched
<1>7. ASSUME NEW k \in Keys PROVE Committed(k)'
  <2>1. Uncharged(k)' \subseteq Uncharged(k)
    BY <1>1, <1>2, <1>3, <1>4, UnchargedStays
  <2>2. spend'[k] \in Nat /\ spend'[k] <= spend[k]
    BY <1>1, <1>5 DEF TypeOK
  <2>3. QED
    BY <1>1, <1>2, <2>1, <2>2, CommittedStays DEF SpendInv
<1>8. QED
  BY <1>6, <1>7 DEF SpendInv

\* What the budget check of a key admits, it admits under the budget.
LEMMA CheckBudgetStep ==
  ASSUME SpendInv, IInv', NEW r \in Requests, CheckBudget(r)
  PROVE  SpendInv'
<1>1. TypeOK /\ IInv
  BY DEF SpendInv, IInv
<1>2. /\ at[r] = "compare" /\ at'[r] \in {"denied", "handler"}
      /\ \A q \in Requests : q # r => at'[q] = at[q]
      /\ UNCHANGED <<call, slot, watcher, spend>>
  BY <1>1 DEF TypeOK, CheckBudget, Go
<1>3. Watched'
  BY <1>2 DEF SpendInv, Watched
<1>4. ASSUME NEW k \in Keys PROVE Committed(k)'
  <2>1. CASE at'[r] = "handler" /\ KeyOf[r] = k /\ k \in Budgeted /\ Capped(k) /\ Budget[k] > 0
    <3>1. spend[k] < Budget[k]
      <4>1. ~Exhausted(k, spend[k])
        BY <1>1, <2>1 DEF TypeOK, CheckBudget, Go
      <4>2. spend[k] \in Nat /\ Budget[k] \in Nat
        BY <1>1, BudgetTypes DEF TypeOK
      <4>3. QED
        BY <2>1, <4>1, <4>2 DEF Exhausted
    <3>2. ASSUME NEW q \in Uncharged(k)' PROVE q \in Holders(k) \cup Streams(k)
      <4>1. q \in Requests /\ KeyOf[q] = k
        BY DEF Uncharged
      <4>2. CASE call[q] = "stream"
        BY <4>1, <4>2 DEF Streams
      <4>3. CASE call[q] # "stream"
        <5>1. at'[q] \in {"handler", "serving", "record"}
          BY <1>2, <4>3 DEF Uncharged
        <5>2. at[q] \in {"compare", "handler", "serving", "record"}
          BY <1>2, <4>1, <5>1
        <5>3. slot[q]
          BY <1>1, <2>1, <4>1, <5>2 DEF IInv, LeaksAreEarlyExits
        <5>4. QED
          BY <4>1, <5>3 DEF Holders
      <4>4. QED
        BY <4>2, <4>3
    <3>3. Uncharged(k)' \subseteq Holders(k) \cup Streams(k)
      BY <3>2
    <3>4. QED
      BY <1>1, <1>2, <2>1, <3>1, <3>3, CommittedAdmitted
  <2>2. CASE at'[r] # "handler" \/ KeyOf[r] # k
    <3>1. Uncharged(k)' \subseteq Uncharged(k)
      BY <1>2, <2>2 DEF Uncharged
    <3>2. spend'[k] \in Nat /\ spend'[k] <= spend[k]
      BY <1>1, <1>2 DEF TypeOK
    <3>3. QED
      BY <1>1, <1>2, <3>1, <3>2, CommittedStays DEF SpendInv
  <2>3. CASE ~(k \in Budgeted /\ Capped(k) /\ Budget[k] > 0)
    BY <2>3 DEF Committed, Capped
  <2>4. QED
    BY <2>1, <2>2, <2>3
<1>5. QED
  BY <1>3, <1>4 DEF SpendInv

\* A charge moves its request out of the uncharged ones, whoever makes it.
LEMMA ChargeStep ==
  ASSUME SpendInv, IInv', NEW r \in Requests, Record(r) \/ Watch(r)
  PROVE  SpendInv'
<1>1. TypeOK /\ IInv /\ KeyOf[r] \in Keys
  BY ConstantTypes DEF SpendInv, IInv
<1>2. /\ call' = call
      /\ \A q \in Requests : q # r => at'[q] = at[q] /\ watcher'[q] = watcher[q]
      /\ \/ at[r] = "record" /\ at'[r] = "release" /\ watcher'[r] = watcher[r]
         \/ at'[r] = at[r] /\ watcher[r] = "running" /\ watcher'[r] = "ended"
  BY <1>1 DEF TypeOK, Record, Watch, Go
<1>3. Watched'
  BY <1>2 DEF SpendInv, Watched
<1>4. PICK m \in Nat :
        /\ m <= MaxCost
        /\ m = 0 \/ (r \in Uncharged(KeyOf[r]) /\ r \notin Uncharged(KeyOf[r])')
        /\ spend' = [spend EXCEPT ![KeyOf[r]] = @ + m]
  <2>1. CASE spend' = spend \/ Charge(KeyOf[r], 0)
    <3>1. spend' = [spend EXCEPT ![KeyOf[r]] = @ + 0]
      BY <1>1, <2>1, BudgetTypes DEF TypeOK, Charge
    <3>2. 0 \in Nat /\ 0 <= MaxCost
      BY BudgetTypes
    <3>3. QED
      BY <3>1, <3>2
  <2>2. CASE \E c \in Costs : Charge(KeyOf[r], c)
    <3>1. PICK c \in Costs : spend' = [spend EXCEPT ![KeyOf[r]] = @ + Millis(c)]
      BY <2>2 DEF Charge
    <3>2. CASE call[r] = "plain" /\ Record(r)
      <4>1. at[r] = "record" /\ at'[r] = "release" /\ call[r] = "plain" /\ call'[r] = "plain"
        BY <1>1, <1>2, <3>2 DEF Record, Go, TypeOK
      <4>2. r \in Uncharged(KeyOf[r]) /\ r \notin Uncharged(KeyOf[r])'
        BY <4>1 DEF Uncharged
      <4>3. QED
        BY <3>1, <4>2, BudgetTypes
    <3>3. CASE Watch(r)
      <4>1. /\ watcher[r] = "running" /\ watcher'[r] = "ended" /\ at'[r] = at[r]
            /\ call[r] = "stream" /\ at[r] \notin {"handler", "serving"}
        BY <1>1, <3>3 DEF Watch, TypeOK, SpendInv, Watched
      <4>2. r \in Uncharged(KeyOf[r]) /\ r \notin Uncharged(KeyOf[r])'
        BY <1>2, <4>1 DEF Uncharged
      <4>3. QED
        BY <3>1, <4>2, BudgetTypes
    <3>4. CASE call[r] = "stream" /\ Record(r)
      <4>1. Charge(KeyOf[r], 0)
        BY <3>4 DEF Record
      <4>2. QED
        BY <2>1, <4>1
    <3>5. QED
      BY <3>2, <3>3, <3>4 DEF Record
  <2>3. QED
    BY <2>1, <2>2 DEF Record, Watch
<1>5. ASSUME NEW k \in Keys PROVE Committed(k)'
  <2>1. \A q \in Requests : q # r => (q \in Uncharged(k) <=> q \in Uncharged(k)')
    BY <1>2 DEF Uncharged
  <2>2. Uncharged(k)' \subseteq Uncharged(k)
    BY <1>2 DEF Uncharged
  <2>3. CASE k # KeyOf[r] \/ m = 0
    <3>1. spend'[k] = spend[k] /\ spend'[k] \in Nat
      BY <1>1, <1>4, <2>3 DEF TypeOK
    <3>2. QED
      BY <1>1, <1>2, <2>2, <3>1, CommittedStays DEF SpendInv
  <2>4. CASE k = KeyOf[r] /\ m # 0
    <3>1. r \in Uncharged(k) /\ Uncharged(k)' = Uncharged(k) \ {r}
      BY <1>4, <2>1, <2>2, <2>4 DEF Uncharged
    <3>2. spend'[k] = spend[k] + m
      BY <1>1, <1>4, <2>4 DEF TypeOK
    <3>3. QED
      BY <1>1, <1>2, <1>4, <3>1, <3>2, CommittedCharged DEF SpendInv
  <2>5. QED
    BY <2>3, <2>4
<1>6. QED
  BY <1>3, <1>5 DEF SpendInv

\* A window ends, a spend is zeroed, or nothing happens.
LEMMA WindowStep ==
  ASSUME SpendInv, IInv',
         UNCHANGED vars \/ \E k \in Keys : Lapse(k) \/ ExpireWindow(k) \/ WipeSpend(k)
  PROVE  SpendInv'
<1>1. TypeOK /\ IInv
  BY DEF SpendInv, IInv
<1>2. UNCHANGED <<at, call, watcher>> /\ \A k \in Keys : spend'[k] = spend[k] \/ spend'[k] = 0
  BY <1>1 DEF TypeOK, Lapse, ExpireWindow, WipeSpend, vars, task
<1>3. Watched'
  BY <1>2 DEF SpendInv, Watched
<1>4. ASSUME NEW k \in Keys PROVE Committed(k)'
  <2>1. Uncharged(k)' = Uncharged(k)
    BY <1>2 DEF Uncharged
  <2>2. spend'[k] \in Nat /\ spend'[k] <= spend[k]
    BY <1>1, <1>2 DEF TypeOK
  <2>3. QED
    BY <1>1, <1>2, <2>1, <2>2, CommittedStays DEF SpendInv
<1>5. QED
  BY <1>3, <1>4 DEF SpendInv

LEMMA InitSpend == Init => SpendInv
<1> SUFFICES ASSUME Init PROVE SpendInv
  OBVIOUS
<1>1. IInv /\ Watched
  BY InitIInv DEF Init, Watched
<1>2. ASSUME NEW k \in Keys PROVE Committed(k)
  <2>1. Uncharged(k) = {} /\ spend[k] = 0
    BY DEF Init, Uncharged
  <2>2. Cardinality(Uncharged(k)) = 0
    BY <2>1, FS_EmptySet
  <2>3. \A a, b \in Nat : MaxCost * (a + b) \in Nat /\ MaxCost * 0 = 0
    BY BudgetTypes
  <2>4. MaxCost * (MaxParallel[k] + Cardinality(Streams(k))) \in Nat /\ MaxCost * 0 = 0
    BY <2>3, Sizes
  <2>5. QED
    BY <2>1, <2>2, <2>4, Sizes DEF Committed, Ceiling
<1>3. QED
  BY <1>1, <1>2 DEF SpendInv

\* The spend of a key stays below its budget and one cost for each parallel slot and
\* each stream, whatever the handlers and watchers record after the budget was
\* checked, for any number of requests and any limits.
THEOREM OvershootIsBounded == Spec => []OvershootBounded
<1>1. SpendInv /\ IInv' /\ [Next]_vars => SpendInv'
  <2> SUFFICES ASSUME SpendInv, IInv', [Next]_vars PROVE SpendInv'
    OBVIOUS
  <2>1. ASSUME NEW r \in Requests, Step(r) \/ Watch(r) \/ Disconnect(r) PROVE SpendInv'
    BY <2>1, FreeStep, CheckBudgetStep, ChargeStep DEF Step
  <2>2. CASE UNCHANGED vars \/ \E k \in Keys : Lapse(k) \/ ExpireWindow(k) \/ WipeSpend(k)
    BY <2>2, WindowStep
  <2>3. QED
    BY <2>1, <2>2 DEF Next
<1>2. SpendInv => OvershootBounded
  <2> SUFFICES ASSUME SpendInv, NEW k \in Budgeted, Capped(k), Budget[k] > 0
               PROVE  spend[k] < Ceiling(k)
    BY DEF OvershootBounded, Ceiling
  <2>1. k \in Keys
    BY BudgetTypes
  <2>2. \A a \in Nat : MaxCost * a \in Nat
    BY BudgetTypes
  <2>3. MaxCost * Cardinality(Uncharged(k)) \in Nat /\ spend[k] \in Nat /\ Ceiling(k) \in Nat
    <3>1. \A a, b, c \in Nat : c + MaxCost * (a + b) \in Nat
      BY BudgetTypes
    <3>2. QED
      BY <2>1, <2>2, <3>1, Sizes DEF Ceiling, SpendInv, IInv, TypeOK
  <2>4. QED
    BY <2>1, <2>3 DEF SpendInv, Committed
<1>3. QED
  BY InitSpend, Invariance, <1>1, <1>2, PTL DEF Spec

-----------------------------------------------------------------------------
\* The slots of keys as the leases of SlotLease.
LeaseOf(r) == IF slot[r] THEN KeyOf[r] ELSE NoKey
Lost == {r \in Requests : LostSlot(r)}

LEMMA LeaseValues ==
  ASSUME NEW r \in Requests
  PROVE  LeaseOf(r) = NoKey <=> ~slot[r]
BY KeyGateAssumption DEF KeyGateAssumption, LeaseOf

\* An instance of SlotLease counts as this module does.
LEMMA SameCardinality ==
  ASSUME NEW S
  PROVE  Leases!Cardinality(S) = Cardinality(S)
BY DEF Leases!Cardinality, Cardinality

LEMMA SameHolders ==
  ASSUME NEW k \in Keys
  PROVE  Leases!Holders(k) = Holders(k)
BY KeyGateAssumption DEF KeyGateAssumption, Leases!Holders, Holders

\* A step that moves no slot may end one request early.
LEMMA LoseOrStay ==
  ASSUME NEW r \in Requests, slot' = slot,
         \A q \in Requests : q # r => at'[q] = at[q],
         LostSlot(r) => at'[r] = at[r]
  PROVE  [Leases!Next]_(Leases!vars)
<1>1. \A q \in Requests : q # r => (LostSlot(q)' <=> LostSlot(q))
  BY DEF LostSlot
<1>2. CASE LostSlot(r)' <=> LostSlot(r)
  <2>1. Lost' = Lost
    BY <1>1, <1>2 DEF Lost
  <2>2. QED
    BY <2>1 DEF Leases!vars, Lost
<1>3. CASE LostSlot(r)' /\ ~LostSlot(r)
  <2>1. r \notin Lost /\ Lost' = Lost \cup {r}
    BY <1>1, <1>3 DEF Lost
  <2>2. Leases!Lose(r)
    BY <2>1 DEF Leases!Lose, Lost
  <2>3. QED
    BY <2>2 DEF Leases!Next
<1>4. CASE LostSlot(r) /\ ~LostSlot(r)'
  BY <1>4 DEF LostSlot
<1>5. QED
  BY <1>2, <1>3, <1>4

LEMMA TakeImplements ==
  ASSUME IInv, NEW r \in Requests, TakeSlot(r)
  PROVE  [Leases!Next]_(Leases!vars)
<1> DEFINE k == KeyOf[r]
<1>1. TypeOK /\ k \in Keys
  BY ConstantTypes DEF IInv
<1>2. /\ at[r] = "slot" /\ ~slot[r] /\ ~LostSlot(r)
      /\ \A q \in Requests : q # r => at'[q] = at[q]
      /\ at'[r] \in {"denied", "budget"}
  BY <1>1 DEF TakeSlot, Go, TypeOK, IInv, LeaksAreEarlyExits, LostSlot
<1>3. CASE slot' = slot
  BY <1>2, <1>3, LoseOrStay
<1>4. CASE HasRoom(k) /\ Capped(k) /\ slot' = [slot EXCEPT ![r] = TRUE] /\ at'[r] = "budget"
  <2>1. Lost' = Lost /\ r \notin Lost
    BY <1>2, <1>4 DEF Lost, LostSlot
  <2>2. Cardinality(Holders(k)) < MaxParallel[k]
    BY <1>1, <1>4 DEF IInv, KeySlotsExact, HasRoom
  <2>3. Leases!Cardinality(Leases!Holders(k)) < MaxParallel[k]
    BY <1>1, <2>2, SameHolders, SameCardinality
  <2>4. [q \in Requests |-> IF slot'[q] THEN KeyOf[q] ELSE NoKey] =
          [[q \in Requests |-> IF slot[q] THEN KeyOf[q] ELSE NoKey] EXCEPT ![r] = k]
    BY <1>1, <1>4 DEF TypeOK
  <2>5. Leases!Take(r, k)
    BY <1>2, <2>1, <2>3, <2>4 DEF Leases!Take, Lost
  <2>6. QED
    BY <1>1, <2>5 DEF Leases!Next
<1>5. QED
  BY <1>1, <1>3, <1>4 DEF TakeSlot, Go, TypeOK

LEMMA ReleaseImplements ==
  ASSUME IInv, NEW r \in Requests, Release(r)
  PROVE  [Leases!Next]_(Leases!vars)
<1>1. TypeOK
  BY DEF IInv
<1>2. /\ ~LostSlot(r) /\ ~LostSlot(r)' /\ slot' = [slot EXCEPT ![r] = FALSE]
      /\ \A q \in Requests : q # r => at'[q] = at[q]
  BY <1>1 DEF Release, Go, TypeOK, LostSlot
<1>3. CASE ~slot[r]
  <2>1. slot' = slot
    BY <1>1, <1>2, <1>3 DEF TypeOK
  <2>2. QED
    BY <1>2, <2>1, LoseOrStay
<1>4. CASE slot[r]
  <2>1. Lost' = Lost /\ r \notin Lost
    BY <1>2 DEF Lost, LostSlot
  <2>2. [q \in Requests |-> IF slot'[q] THEN KeyOf[q] ELSE NoKey] =
          [[q \in Requests |-> IF slot[q] THEN KeyOf[q] ELSE NoKey] EXCEPT ![r] = NoKey]
    BY <1>1, <1>2 DEF TypeOK
  <2>3. LeaseOf(r) # NoKey
    BY <1>4, LeaseValues
  <2>4. Leases!Return(r)
    BY <2>1, <2>2, <2>3 DEF Leases!Return, Lost, LeaseOf
  <2>5. QED
    BY <2>4 DEF Leases!Next
<1>5. QED
  BY <1>3, <1>4

\* The slots of a key are leases: no key is overdrawn, and a slot is returned by the
\* request that took it, unless that was refused late, hung up or called an endpoint
\* that releases nothing.
THEOREM SlotsImplementLeases == Spec => Leases!Spec
<1>1. Init => Leases!Init
  BY DEF Init, Leases!Init, LostSlot
<1>2. IInv /\ [Next]_vars => [Leases!Next]_(Leases!vars)
  <2> SUFFICES ASSUME IInv, [Next]_vars PROVE [Leases!Next]_(Leases!vars)
    OBVIOUS
  <2>1. ASSUME NEW r \in Requests,
               \/ CheckKey(r) \/ RestartWindow(r) \/ CheckBudget(r) \/ Handle(r) \/ Succeed(r)
               \/ Fail(r) \/ Record(r) \/ LoadCount(r) \/ StoreCount(r) \/ Watch(r) \/ Disconnect(r)
        PROVE  [Leases!Next]_(Leases!vars)
    <3>1. slot' = slot /\ \A q \in Requests : q # r => at'[q] = at[q]
      BY <2>1 DEF IInv, TypeOK, CheckKey, RestartWindow, CheckBudget, Handle, Succeed, Fail, Record,
                  LoadCount, StoreCount, Watch, Disconnect, Go
    <3>2. LostSlot(r) => at'[r] = at[r]
      BY <2>1 DEF LostSlot, CheckKey, RestartWindow, CheckBudget, Handle, Succeed, Fail, Record,
                  LoadCount, StoreCount, Watch, Disconnect
    <3>3. QED
      BY <3>1, <3>2, LoseOrStay
  <2>2. ASSUME NEW r \in Requests, TakeSlot(r) \/ Release(r) PROVE [Leases!Next]_(Leases!vars)
    BY <2>2, TakeImplements, ReleaseImplements
  <2>3. CASE UNCHANGED vars \/ \E k \in Keys : Lapse(k) \/ ExpireWindow(k) \/ WipeSpend(k)
    <3>1. UNCHANGED <<at, slot>>
      BY <2>3 DEF vars, task, Lapse, ExpireWindow, WipeSpend
    <3>2. QED
      BY <3>1 DEF Leases!vars, LostSlot
  <2>4. QED
    BY <2>1, <2>2, <2>3 DEF Next, Step
<1>3. QED
  BY <1>1, <1>2, Invariance, PTL DEF Spec, Leases!Spec

=============================================================================
