---------------------------- MODULE KeyStore_proofs ----------------------------
(***************************************************************************)
(* Proofs about KeyStore, for any requests, reloaders, records and limits. *)
(*                                                                         *)
(* What a reload may cost is bounded per record: a reloader fills a record *)
(* at most once, because it must install a newer one before it fills       *)
(* again.  Each filling may forget the slots that are taken, so the room   *)
(* of a record grows by MaxParallel with every reloader that has filled    *)
(* it or never will.                                                       *)
(***************************************************************************)
EXTENDS KeyStore, Counting

\* A request has a record of the past as soon as it has begun.
Begun ==
  /\ \A r \in Requests : rec[r] <= cur
  /\ \A r \in Requests : at[r] # "new" => rec[r] \in Records
  /\ \A r \in Requests : at[r] = "new" => bill[r] = "none"

Fills == {"row", "spend", "count"}
Targeted == \A w \in Reloaders : step[w] \in Fills => target[w] \in Records

\* The reloaders that will still fill record c, and the room the others gave.
Filling(c) ==
  {w \in Reloaders : (step[w] \in Fills /\ target[w] = c) \/ (step[w] = "keys" /\ c = cur)}
Room(c) == MaxParallel * (Cardinality(Reloaders) - Cardinality(Filling(c)))

RoomKept(c) ==
  /\ Cardinality(Holders(c)) <= MaxParallel + Room(c)
  /\ Cardinality(Holders(c)) <= count[c] + Room(c)

IInv == TypeOK /\ Begun /\ Targeted /\ \A c \in Records : RoomKept(c)

-----------------------------------------------------------------------------
LEMMA Constants ==
  /\ IsFiniteSet(Requests) /\ IsFiniteSet(Reloaders)
  /\ MaxParallel \in Nat /\ MaxParallel > 0
  /\ Width \in Nat /\ Width > MaxParallel
  /\ Costs \subseteq Nat
BY KeyStoreAssumption DEF KeyStoreAssumption

\* fetch_sub on a u32.
LEMMA Wrapped ==
  ASSUME NEW n \in 0 .. Width - 1
  PROVE  (n - 1) % Width = IF n = 0 THEN Width - 1 ELSE n - 1
BY Constants

LEMMA Cardinals ==
  ASSUME NEW c
  PROVE  /\ IsFiniteSet(Holders(c)) /\ Cardinality(Holders(c)) \in Nat
         /\ IsFiniteSet(Filling(c)) /\ Cardinality(Filling(c)) \in Nat
         /\ Cardinality(Filling(c)) <= Cardinality(Reloaders) /\ Cardinality(Reloaders) \in Nat
         /\ Room(c) \in Nat /\ Room(c) <= MaxParallel * Cardinality(Reloaders)
<1>1. Holders(c) \subseteq Requests /\ Filling(c) \subseteq Reloaders
  BY DEF Holders, Filling
<1>2. /\ IsFiniteSet(Holders(c)) /\ Cardinality(Holders(c)) \in Nat
      /\ IsFiniteSet(Filling(c)) /\ Cardinality(Filling(c)) \in Nat
      /\ Cardinality(Filling(c)) <= Cardinality(Reloaders) /\ Cardinality(Reloaders) \in Nat
  BY <1>1, Constants, FS_Subset, FS_CardinalityType
<1>3. \A a, b \in Nat : b <= a =>
        MaxParallel * (a - b) \in Nat /\ MaxParallel * (a - b) <= MaxParallel * a
  BY Constants
<1>4. QED
  BY <1>2, <1>3 DEF Room

\* The room of a record grows when fewer reloaders are to fill it.
LEMMA RoomGrows ==
  ASSUME NEW c, Filling(c)' \subseteq Filling(c)
  PROVE  Room(c)' >= Room(c) /\ Room(c)' \in Nat /\ Room(c) \in Nat
<1>1. Cardinality(Filling(c)') <= Cardinality(Filling(c)) /\ Cardinality(Filling(c)') \in Nat
  BY Cardinals, FS_Subset, FS_CardinalityType
<1>2. \A k, a, b \in Nat : b <= a /\ a <= k =>
        MaxParallel * (k - b) >= MaxParallel * (k - a) /\ MaxParallel * (k - b) \in Nat
  BY Constants
<1>3. QED
  BY <1>1, <1>2, Cardinals DEF Room

\* A step that gives a record no holder and no filling, and leaves its count alone.
LEMMA RoomStays ==
  ASSUME IInv, NEW c \in Records, Holders(c)' \subseteq Holders(c),
         Filling(c)' \subseteq Filling(c), count'[c] = count[c]
  PROVE  RoomKept(c)'
<1>1. Cardinality(Holders(c)') <= Cardinality(Holders(c)) /\ Cardinality(Holders(c)') \in Nat
  BY Cardinals, FS_Subset, FS_CardinalityType
<1>2. Room(c)' >= Room(c) /\ Room(c)' \in Nat /\ Room(c) \in Nat
  BY RoomGrows
<1>3. RoomKept(c) /\ count[c] \in Nat /\ Cardinality(Holders(c)) \in Nat
  BY Cardinals, Constants DEF IInv, TypeOK
<1>4. QED
  BY <1>1, <1>2, <1>3, Constants DEF RoomKept

\* A record that nobody has looked up.
LEMMA RoomFresh ==
  ASSUME NEW c, Holders(c)' = {}, count'[c] \in Nat
  PROVE  RoomKept(c)'
<1>1. Filling(c)' \subseteq Reloaders
  BY DEF Filling
<1>2. Cardinality(Filling(c)') \in Nat /\ Cardinality(Filling(c)') <= Cardinality(Reloaders)
      /\ Cardinality(Reloaders) \in Nat
  BY <1>1, Constants, FS_Subset, FS_CardinalityType
<1>3. \A k, a \in Nat : a <= k => MaxParallel * (k - a) \in Nat
  BY Constants
<1>4. Room(c)' \in Nat
  BY <1>2, <1>3 DEF Room
<1>5. Cardinality(Holders(c)') = 0
  BY FS_EmptySet
<1>6. QED
  BY <1>4, <1>5, Constants DEF RoomKept

-----------------------------------------------------------------------------
LEMMA InitIInv == Init => IInv
<1> SUFFICES ASSUME Init PROVE IInv
  OBVIOUS
<1>1. TypeOK
  BY Constants, KeyStoreAssumption DEF KeyStoreAssumption, Init, TypeOK, Positions, Live, Bills, Records
<1>2. Begun /\ Targeted
  BY DEF Init, Begun, Targeted, Fills
<1>3. ASSUME NEW c \in Records PROVE RoomKept(c)
  <2>1. Holders(c) = {}
    BY DEF Init, Holders
  <2>2. Cardinality(Holders(c)) = 0
    BY <2>1, FS_EmptySet
  <2>3. QED
    BY <2>2, <1>1, Cardinals, Constants DEF RoomKept, TypeOK
<1>4. QED
  BY <1>1, <1>2, <1>3 DEF IInv

\* What a request holds are numbers.
LEMMA Numbers ==
  ASSUME IInv
  PROVE  /\ cur \in Nat /\ rowSpend \in Nat
         /\ \A r \in Requests : rec[r] \in Nat /\ cost[r] \in Nat
<1>1. Records \cup {0} \subseteq Nat /\ Costs \cup {0} \subseteq Nat
  BY Constants DEF Records
<1>2. /\ cur \in Records /\ rowSpend \in Nat
      /\ \A r \in Requests : rec[r] \in Records \cup {0} /\ cost[r] \in Costs \cup {0}
  BY DEF IInv, TypeOK
<1>3. QED
  BY <1>1, <1>2

-----------------------------------------------------------------------------
\* Steps of requests that take and return no slot.
LEMMA QuietStep ==
  ASSUME IInv, NEW r \in Requests,
         Lookup(r) \/ Answer(r) \/ Fail(r) \/ Charge(r) \/ Persist(r) \/ LoadCount(r) \/ StoreCount(r)
  PROVE  IInv'
<1>1. rec[r] \in Records \/ at[r] = "new"
  BY DEF IInv, Begun
<1>2. bill[r] \in {"due", "taken"} => rec[r] \in Records
  BY <1>1 DEF IInv, Begun
<1>3. /\ at' \in [Requests -> Positions]
      /\ bill' \in [Requests -> Bills]
      /\ rec' \in [Requests -> Records \cup {0}]
      /\ streamed' \in [Requests -> BOOLEAN]
  <2> USE DEF Lookup, Answer, Fail, Charge, Persist, LoadCount, StoreCount
  <2>1. at' \in [Requests -> Positions]
    BY DEF IInv, TypeOK, Go, Positions, Live
  <2>2. bill' \in [Requests -> Bills]
    BY DEF IInv, TypeOK, Bills, request
  <2>3. rec' \in [Requests -> Records \cup {0}]
    BY DEF IInv, TypeOK, request
  <2>4. streamed' \in [Requests -> BOOLEAN]
    BY DEF IInv, TypeOK, request
  <2>5. QED
    BY <2>1, <2>2, <2>3, <2>4
<1>4. cost' \in [Requests -> Costs \cup {0}] /\ cur' = cur /\ count' = count /\ UNCHANGED reload
  BY DEF IInv, TypeOK, Lookup, Answer, Fail, Charge, Persist, LoadCount, StoreCount, memory
<1>5. spend' \in [Records -> Nat]
  <2>1. Charge(r) => spend[rec[r]] + Millis(cost[r]) \in Nat
    <3>1. ASSUME Charge(r) PROVE spend[rec[r]] + Millis(cost[r]) \in Nat
      <4>1. rec[r] \in Records
        BY <1>2, <3>1 DEF Charge
      <4>2. spend[rec[r]] \in Nat
        BY <4>1 DEF IInv, TypeOK
      <4>3. QED
        BY <4>2, Numbers DEF Millis
    <3>2. QED
      BY <3>1
  <2>2. Charge(r) => spend' \in [Records -> Nat]
    BY <2>1 DEF Charge, IInv, TypeOK
  <2>3. ~Charge(r) => spend' = spend
    BY DEF Lookup, Answer, Fail, Persist, LoadCount, StoreCount, memory
  <2>4. QED
    BY <2>2, <2>3 DEF IInv, TypeOK
<1>6. seen' \in [Requests -> 0 .. Width - 1]
  BY <1>1, Constants DEF IInv, TypeOK, Lookup, Answer, Fail, Charge, Persist, LoadCount, StoreCount
<1>7. rowCount' \in 0 .. Width - 1 /\ registered' \in BOOLEAN
  BY DEF IInv, TypeOK, Lookup, Answer, Fail, Charge, Persist, LoadCount, StoreCount, row
<1>8. rowSpend' \in Nat
  <2>1. rowSpend \in Nat /\ cost[r] \in Nat
    BY Numbers
  <2>2. QED
    BY <2>1 DEF Lookup, Answer, Fail, Charge, Persist, LoadCount, StoreCount, row
<1>9. TypeOK'
  BY <1>3, <1>4, <1>5, <1>6, <1>7, <1>8 DEF IInv, TypeOK, reload
<1>10. Begun' /\ Targeted'
  <2>1. Targeted'
    BY <1>4 DEF IInv, Targeted, reload
  <2>2. Begun'
    <3>1. CASE Lookup(r)
      <4>1. cur \in Records /\ cur \in Nat /\ at[r] = "new"
        BY <3>1, Numbers DEF Lookup, IInv, TypeOK
      <4>2. /\ rec' = [rec EXCEPT ![r] = cur] /\ at' = [at EXCEPT ![r] = "slot"]
            /\ UNCHANGED <<bill, cur>>
        BY <3>1 DEF Lookup, Go
      <4>3. QED
        BY <4>1, <4>2 DEF IInv, TypeOK, Begun
    <3>2. CASE ~Lookup(r)
      <4>1. rec' = rec /\ at[r] # "new"
        BY <3>2 DEF IInv, Begun, Answer, Fail, Charge, Persist, LoadCount, StoreCount
      <4>2. /\ at' \in [Requests -> Positions] /\ at'[r] # "new"
            /\ \A q \in Requests : q # r => at'[q] = at[q] /\ bill'[q] = bill[q]
        BY <3>2, <4>1 DEF IInv, TypeOK, Answer, Fail, Charge, Persist, LoadCount, StoreCount, Go,
                          Positions, Live
      <4>3. QED
        BY <1>4, <4>1, <4>2 DEF IInv, Begun
    <3>3. QED
      BY <3>1, <3>2
  <2>3. QED
    BY <2>1, <2>2
<1>11. ASSUME NEW c \in Records PROVE RoomKept(c)'
  <2>1. Holders(c)' \subseteq Holders(c)
    BY DEF IInv, TypeOK, Holders, Lookup, Answer, Fail, Charge, Persist, LoadCount, StoreCount, Go
  <2>2. Filling(c)' = Filling(c)
    BY <1>4 DEF Filling, reload
  <2>3. QED
    BY <2>1, <2>2, <1>4, RoomStays
<1>12. QED
  BY <1>9, <1>10, <1>11 DEF IInv

\* A slot is taken or refused.
LEMMA TakeSlotStep ==
  ASSUME IInv, NEW r \in Requests, TakeSlot(r)
  PROVE  IInv'
<1> DEFINE d == rec[r]
<1>1. d \in Records /\ at[r] = "slot" /\ count[d] \in 0 .. Width - 1
  BY DEF IInv, Begun, TypeOK, TakeSlot
<1>2. /\ UNCHANGED <<rec, cost, streamed, bill, seen, cur, spend, row, reload>>
      /\ \/ at' = [at EXCEPT ![r] = "denied"] /\ UNCHANGED count
         \/ /\ count[d] < MaxParallel
            /\ count' = [count EXCEPT ![d] = @ + 1]
            /\ at' = [at EXCEPT ![r] = "serving"]
  BY DEF TakeSlot, Go, HasRoom
<1>3. at' \in [Requests -> Positions]
  BY <1>2 DEF IInv, TypeOK, Positions, Live
<1>4. count' \in [Records -> 0 .. Width - 1]
  <2>1. count[d] < MaxParallel => count[d] + 1 \in 0 .. Width - 1
    BY <1>1, Constants
  <2>2. QED
    BY <1>2, <2>1 DEF IInv, TypeOK
<1>5. TypeOK' /\ Begun' /\ Targeted'
  BY <1>1, <1>2, <1>3, <1>4 DEF IInv, TypeOK, Begun, Targeted, row, reload
<1>6. ASSUME NEW c \in Records PROVE RoomKept(c)'
  <2>1. Filling(c)' = Filling(c)
    BY <1>2 DEF Filling, reload
  <2>2. CASE c # d \/ at'[r] # "serving"
    <3>1. Holders(c)' \subseteq Holders(c) /\ count'[c] = count[c]
      BY <1>1, <1>2, <2>2 DEF IInv, TypeOK, Holders
    <3>2. QED
      BY <2>1, <3>1, RoomStays
  <2>3. CASE c = d /\ at'[r] = "serving"
    <3>1. count[c] < MaxParallel /\ count'[c] = count[c] + 1
      BY <1>1, <1>2, <2>3 DEF IInv, TypeOK
    <3>2. Cardinality(Holders(c)') = Cardinality(Holders(c)) + Change(r \in Holders(c), r \in Holders(c)')
      <4>1. Holders(c) \in SUBSET Requests /\ Holders(c)' \in SUBSET Requests
        BY DEF Holders
      <4>2. \A q \in Requests : q # r => (q \in Holders(c) <=> q \in Holders(c)')
        BY <1>2 DEF Holders, IInv, TypeOK
      <4>3. QED
        BY <4>1, <4>2, Constants, Recount
    <3>3. r \notin Holders(c)
      BY <1>1 DEF Holders
    <3>4. Cardinality(Holders(c)') \in Nat /\ Cardinality(Holders(c)') <= Cardinality(Holders(c)) + 1
      BY <3>2, <3>3, Cardinals DEF Change
    <3>5. RoomKept(c) /\ Room(c) \in Nat /\ Room(c)' = Room(c) /\ count[c] \in Nat
          /\ Cardinality(Holders(c)) \in Nat
      BY <1>1, <2>1, <2>3, Cardinals, Constants DEF IInv, Room
    <3>6. QED
      BY <3>1, <3>4, <3>5, Constants DEF RoomKept
  <2>4. QED
    BY <2>2, <2>3
<1>7. QED
  BY <1>5, <1>6 DEF IInv

\* A slot is returned to the record it was taken from; the count may wrap.
LEMMA ReleaseStep ==
  ASSUME IInv, NEW r \in Requests, Release(r)
  PROVE  IInv'
<1> DEFINE d == rec[r]
<1>1. d \in Records /\ at[r] = "release" /\ count[d] \in 0 .. Width - 1
  BY DEF IInv, Begun, TypeOK, Release
<1>2. /\ UNCHANGED <<rec, cost, streamed, bill, seen, cur, spend, row, reload>>
      /\ count' = [count EXCEPT ![d] = (@ - 1) % Width]
      /\ at' = [at EXCEPT ![r] = "load"]
  BY DEF Release, Go
<1>3. /\ (count[d] - 1) % Width = IF count[d] = 0 THEN Width - 1 ELSE count[d] - 1
      /\ (count[d] - 1) % Width \in 0 .. Width - 1
  <2>1. (count[d] - 1) % Width = IF count[d] = 0 THEN Width - 1 ELSE count[d] - 1
    BY <1>1, Wrapped
  <2>2. QED
    BY <1>1, <2>1, Constants
<1>4. count' \in [Records -> 0 .. Width - 1] /\ at' \in [Requests -> Positions]
  BY <1>2, <1>3 DEF IInv, TypeOK, Positions, Live
<1>5. TypeOK' /\ Begun' /\ Targeted'
  BY <1>1, <1>2, <1>4 DEF IInv, TypeOK, Begun, Targeted, row, reload
<1>6. ASSUME NEW c \in Records PROVE RoomKept(c)'
  <2>1. Filling(c)' = Filling(c)
    BY <1>2 DEF Filling, reload
  <2>2. CASE c # d
    <3>1. Holders(c)' \subseteq Holders(c) /\ count'[c] = count[c]
      BY <1>1, <1>2, <2>2 DEF IInv, TypeOK, Holders
    <3>2. QED
      BY <2>1, <3>1, RoomStays
  <2>3. CASE c = d
    <3>1. count'[c] = IF count[c] = 0 THEN Width - 1 ELSE count[c] - 1
      BY <1>1, <1>2, <1>3, <2>3 DEF IInv, TypeOK
    <3>2. Cardinality(Holders(c)') = Cardinality(Holders(c)) + Change(r \in Holders(c), r \in Holders(c)')
      <4>1. Holders(c) \in SUBSET Requests /\ Holders(c)' \in SUBSET Requests
        BY DEF Holders
      <4>2. \A q \in Requests : q # r => (q \in Holders(c) <=> q \in Holders(c)')
        BY <1>2 DEF Holders, IInv, TypeOK
      <4>3. QED
        BY <4>1, <4>2, Constants, Recount
    <3>3. r \in Holders(c) /\ r \notin Holders(c)'
      BY <1>1, <1>2, <2>3 DEF Holders, IInv, TypeOK
    <3>4. Cardinality(Holders(c)') = Cardinality(Holders(c)) - 1
      BY <3>2, <3>3, Cardinals DEF Change
    <3>5. RoomKept(c) /\ Room(c) \in Nat /\ Room(c)' = Room(c) /\ count[c] \in Nat
          /\ Cardinality(Holders(c)) \in Nat
      BY <1>1, <2>1, <2>3, Cardinals, Constants DEF IInv, Room
    <3>6. QED
      BY <3>1, <3>4, <3>5, Constants DEF RoomKept
  <2>4. QED
    BY <2>2, <2>3
<1>7. QED
  BY <1>5, <1>6 DEF IInv

-----------------------------------------------------------------------------
\* A newer record leaves the older ones as they are, with fewer to fill them.
LEMMA NewRecord ==
  ASSUME IInv, cur' = cur + 1, UNCHANGED <<rec, target>>,
         \A r \in Requests : at'[r] = at[r] \/ at'[r] = "lost",
         \A w \in Reloaders : step'[w] \in {step[w], "idle"} \/ step'[w] = "keys",
         NEW c \in Records, c <= cur, count'[c] = count[c]
  PROVE  RoomKept(c)'
<1>1. Holders(c)' \subseteq Holders(c)
  BY DEF Holders
<1>2. Filling(c)' \subseteq Filling(c)
  BY DEF Filling, Fills, Records, IInv, TypeOK
<1>3. QED
  BY <1>1, <1>2, RoomStays

LEMMA ReplaceAllStep ==
  ASSUME IInv, NEW w \in Reloaders, ReplaceAll(w)
  PROVE  IInv'
<1>1. cur \in Nat /\ cur' = cur + 1 /\ cur' \in Records
  BY KeyStoreAssumption DEF KeyStoreAssumption, IInv, TypeOK, ReplaceAll, Records
<1>2. step' \in [Reloaders -> {"idle", "keys", "row", "spend", "count"}]
  BY DEF IInv, TypeOK, ReplaceAll
<1>3. TypeOK' /\ Begun' /\ Targeted'
  <2>1. TypeOK'
    BY <1>1, <1>2 DEF IInv, TypeOK, ReplaceAll, request, memory, row
  <2>2. Begun'
    BY <1>1, Numbers DEF IInv, Begun, ReplaceAll, request
  <2>3. Targeted'
    BY DEF IInv, TypeOK, Targeted, Fills, ReplaceAll
  <2>4. QED
    BY <2>1, <2>2, <2>3
<1>4. ASSUME NEW c \in Records PROVE RoomKept(c)'
  <2>1. CASE c <= cur
    <3>1. \A v \in Reloaders : step'[v] \in {step[v], "idle"} \/ step'[v] = "keys"
      BY DEF IInv, TypeOK, ReplaceAll
    <3>2. QED
      BY <2>1, <3>1, NewRecord DEF ReplaceAll, request, memory
  <2>2. CASE c > cur
    <3>1. Holders(c)' = {}
      BY <1>1, <2>2 DEF Holders, IInv, TypeOK, Begun, Records, ReplaceAll, request
    <3>2. count'[c] \in Nat
      BY Constants DEF IInv, TypeOK, ReplaceAll, memory
    <3>3. QED
      BY <3>1, <3>2, RoomFresh
  <2>3. QED
    BY <1>1, <2>1, <2>2 DEF Records
<1>5. QED
  BY <1>3, <1>4 DEF IInv

LEMMA RotateStep ==
  ASSUME IInv, Rotate
  PROVE  IInv'
<1>1. cur \in Nat /\ cur' = cur + 1 /\ cur' \in Records
  BY KeyStoreAssumption DEF KeyStoreAssumption, IInv, TypeOK, Rotate, Records
<1>2. TypeOK' /\ Begun' /\ Targeted'
  <2>1. TypeOK'
    BY <1>1 DEF IInv, TypeOK, Rotate, request, memory, row, reload
  <2>2. Begun'
    <3>1. at' = at /\ rec' = rec /\ bill' = bill
      BY DEF Rotate, request
    <3>2. \A r \in Requests : rec[r] <= cur'
      <4>1. \A r \in Requests : rec[r] \in Nat /\ rec[r] <= cur
        BY DEF IInv, TypeOK, Begun, Records
      <4>2. QED
        BY <1>1, <4>1
    <3>3. QED
      BY <3>1, <3>2 DEF IInv, Begun
  <2>3. Targeted'
    BY DEF IInv, Targeted, Rotate, reload
  <2>4. QED
    BY <2>1, <2>2, <2>3
<1>3. ASSUME NEW c \in Records PROVE RoomKept(c)'
  <2>1. CASE c <= cur
    BY <2>1, NewRecord DEF Rotate, request, memory, reload
  <2>2. CASE c > cur
    <3>1. Holders(c)' = {}
      BY <1>1, <2>2 DEF Holders, IInv, TypeOK, Begun, Records, Rotate, request
    <3>2. count'[c] \in Nat
      BY Constants DEF IInv, TypeOK, Rotate, memory
    <3>3. QED
      BY <3>1, <3>2, RoomFresh
  <2>3. QED
    BY <1>1, <2>1, <2>2 DEF Records
<1>4. QED
  BY <1>2, <1>3 DEF IInv

LEMMA RestartStep ==
  ASSUME IInv, Restart
  PROVE  IInv'
<1>1. cur \in Nat /\ cur' = cur + 1 /\ cur' \in Records
  BY KeyStoreAssumption DEF KeyStoreAssumption, IInv, TypeOK, Restart, Records
<1>2. /\ at' \in [Requests -> Positions]
      /\ \A r \in Requests : at'[r] = at[r] \/ at'[r] = "lost"
      /\ \A r \in Requests : at'[r] = "new" <=> at[r] = "new"
  BY DEF IInv, TypeOK, Restart, Positions, Live
<1>3. bill' \in [Requests -> Bills] /\ \A r \in Requests : bill[r] = "none" => bill'[r] = "none"
  BY DEF IInv, TypeOK, Restart, Bills
<1>4. count' \in [Records -> 0 .. Width - 1] /\ spend' \in [Records -> Nat]
  BY DEF IInv, TypeOK, Restart
<1>5. TypeOK' /\ Begun' /\ Targeted'
  <2>1. TypeOK'
    BY <1>1, <1>2, <1>3, <1>4, Constants DEF IInv, TypeOK, Restart
  <2>2. Begun'
    <3>1. rec' = rec
      BY DEF Restart
    <3>2. QED
      BY <1>1, <1>2, <1>3, <3>1, Numbers DEF IInv, Begun
  <2>3. Targeted'
    BY DEF Targeted, Fills, Restart
  <2>4. QED
    BY <2>1, <2>2, <2>3
<1>6. ASSUME NEW c \in Records PROVE RoomKept(c)'
  <2>1. CASE c <= cur
    <3>1. Holders(c)' \subseteq Holders(c)
      BY <1>2 DEF Holders, Restart
    <3>2. Filling(c)' = {}
      BY DEF Filling, Fills, Restart
    <3>3. count'[c] = count[c]
      BY <1>1, <2>1 DEF IInv, TypeOK, Restart, Records
    <3>4. QED
      BY <3>1, <3>2, <3>3, RoomStays
  <2>2. CASE c > cur
    <3>1. Holders(c)' = {}
      BY <1>1, <2>2 DEF Holders, IInv, TypeOK, Begun, Records, Restart
    <3>2. count'[c] \in Nat
      BY <1>4, Constants
    <3>3. QED
      BY <3>1, <3>2, RoomFresh
  <2>3. QED
    BY <1>1, <2>1, <2>2 DEF Records
<1>7. QED
  BY <1>5, <1>6 DEF IInv

-----------------------------------------------------------------------------
\* The steps of a reloader before it stores the count.
LEMMA FillStep ==
  ASSUME IInv, NEW w \in Reloaders, AllKeys(w) \/ ReadRow(w) \/ RestoreSpend(w)
  PROVE  IInv'
<1>1. /\ UNCHANGED <<request, cur, count, row>>
      /\ \A v \in Reloaders : v # w => step'[v] = step[v] /\ target'[v] = target[v]
      /\ \/ step[w] = "keys" /\ step'[w] = "row" /\ target'[w] = cur
         \/ step[w] \in Fills /\ step'[w] \in Fills /\ target'[w] = target[w]
  BY DEF IInv, TypeOK, AllKeys, ReadRow, RestoreSpend, memory, Fills
<1>2. /\ step' \in [Reloaders -> {"idle", "keys", "row", "spend", "count"}]
      /\ target' \in [Reloaders -> Records \cup {0}]
  BY DEF IInv, TypeOK, AllKeys, ReadRow, RestoreSpend
<1>3. read' \in [Reloaders -> [count : 0 .. Width - 1, spend : Nat]]
  BY DEF IInv, TypeOK, AllKeys, ReadRow, RestoreSpend
<1>4. spend' \in [Records -> Nat]
  BY DEF IInv, TypeOK, Targeted, Fills, AllKeys, ReadRow, RestoreSpend, memory
<1>5. TypeOK'
  BY <1>1, <1>2, <1>3, <1>4 DEF IInv, TypeOK, request, row
<1>6. Begun' /\ Targeted'
  BY <1>1 DEF IInv, TypeOK, Begun, Targeted, Fills, request
<1>7. ASSUME NEW c \in Records PROVE RoomKept(c)'
  <2>1. Filling(c)' \subseteq Filling(c)
    BY <1>1 DEF Filling, Fills
  <2>2. Holders(c)' = Holders(c) /\ count'[c] = count[c]
    BY <1>1 DEF Holders, request
  <2>3. QED
    BY <2>1, <2>2, RoomStays
<1>8. QED
  BY <1>5, <1>6, <1>7 DEF IInv

\* A reloader stores the count of the row: slots that are taken may be forgotten,
\* and it will not fill this record again.
LEMMA RestoreCountStep ==
  ASSUME IInv, NEW w \in Reloaders, RestoreCount(w)
  PROVE  IInv'
<1> DEFINE d == target[w]
<1>1. d \in Records /\ step[w] = "count" /\ read[w].count \in 0 .. Width - 1
  BY DEF IInv, TypeOK, Targeted, Fills, RestoreCount
<1>2. /\ count' = [count EXCEPT ![d] = read[w].count]
      /\ step' = [step EXCEPT ![w] = "idle"]
      /\ target' = [target EXCEPT ![w] = 0]
      /\ UNCHANGED <<request, cur, spend, row>>
  BY DEF RestoreCount
<1>3. read' \in [Reloaders -> [count : 0 .. Width - 1, spend : Nat]]
  BY Constants DEF IInv, TypeOK, RestoreCount
<1>4. TypeOK'
  BY <1>1, <1>2, <1>3 DEF IInv, TypeOK, request, row
<1>5. Begun' /\ Targeted'
  BY <1>2 DEF IInv, TypeOK, Begun, Targeted, Fills, request
<1>6. ASSUME NEW c \in Records PROVE RoomKept(c)'
  <2>1. Holders(c)' = Holders(c)
    BY <1>2 DEF Holders, request
  <2>2. CASE c # d
    <3>1. Filling(c)' \subseteq Filling(c) /\ count'[c] = count[c]
      BY <1>1, <1>2, <2>2 DEF Filling, Fills, IInv, TypeOK
    <3>2. QED
      BY <2>1, <3>1, RoomStays
  <2>3. CASE c = d
    <3>1. w \in Filling(c) /\ Filling(c)' = Filling(c) \ {w}
      BY <1>1, <1>2, <2>3 DEF Filling, Fills, IInv, TypeOK
    <3>2. Cardinality(Filling(c)') = Cardinality(Filling(c)) - 1
      BY <3>1, Cardinals, FS_RemoveElement
    <3>3. Room(c)' = Room(c) + MaxParallel
      <4>1. \A k, a \in Nat : MaxParallel * (k - (a - 1)) = MaxParallel * (k - a) + MaxParallel
        BY Constants
      <4>2. QED
        BY <4>1, <3>2, Cardinals DEF Room
    <3>4. RoomKept(c) /\ Room(c) \in Nat /\ count'[c] \in Nat /\ Cardinality(Holders(c)) \in Nat
      BY <1>1, <1>2, <2>3, Cardinals, Constants DEF IInv, TypeOK
    <3>5. QED
      BY <2>1, <3>3, <3>4, Constants DEF RoomKept
  <2>4. QED
    BY <2>2, <2>3
<1>7. QED
  BY <1>4, <1>5, <1>6 DEF IInv

-----------------------------------------------------------------------------
LEMMA NextIInv == IInv /\ [Next]_vars => IInv'
<1> SUFFICES ASSUME IInv, [Next]_vars PROVE IInv'
  OBVIOUS
<1>1. CASE UNCHANGED vars
  <2>1. TypeOK' /\ Begun' /\ Targeted'
    BY <1>1 DEF IInv, TypeOK, Begun, Targeted, vars, request, memory, row, reload
  <2>2. ASSUME NEW c \in Records PROVE RoomKept(c)'
    <3>1. Holders(c)' = Holders(c) /\ Filling(c)' = Filling(c) /\ count'[c] = count[c]
      BY <1>1 DEF Holders, Filling, vars, request, memory, reload
    <3>2. QED
      BY <3>1, RoomStays
  <2>3. QED
    BY <2>1, <2>2 DEF IInv
<1>2. CASE Next
  BY <1>2, QuietStep, TakeSlotStep, ReleaseStep, ReplaceAllStep, FillStep, RestoreCountStep,
     RotateStep, RestartStep DEF Next
<1>3. QED
  BY <1>1, <1>2

LEMMA Invariance == Spec => []IInv
BY InitIInv, NextIInv, PTL DEF Spec

-----------------------------------------------------------------------------
\* Every variable of KeyStore keeps its type, over reloads, rotations and restarts:
\* a count that wraps (auth::release) stays a number below Width.
THEOREM TypeCorrect == Spec => []TypeOK
<1>1. IInv => TypeOK
  BY DEF IInv
<1>2. QED
  BY <1>1, Invariance, PTL

\* However many records follow each other and however reloads interleave with
\* requests (restore_usage, authorize), a record never has more holders than
\* max_parallel_requests once for itself and once for each reloader.
THEOREM OvershootBounded == Spec => []OvershootPerRecord
<1>1. IInv => OvershootPerRecord
  <2> SUFFICES ASSUME IInv, NEW c \in Records
               PROVE  Cardinality(Holders(c)) <= MaxParallel * (1 + Cardinality(Reloaders))
    BY DEF OvershootPerRecord
  <2>1. RoomKept(c) /\ Room(c) \in Nat /\ Room(c) <= MaxParallel * Cardinality(Reloaders)
        /\ Cardinality(Holders(c)) \in Nat /\ Cardinality(Reloaders) \in Nat
    BY Cardinals DEF IInv
  <2>2. \A k \in Nat : MaxParallel * (1 + k) = MaxParallel + MaxParallel * k /\ MaxParallel * k \in Nat
    BY Constants
  <2>3. QED
    BY <2>1, <2>2, Constants DEF RoomKept
<1>2. QED
  BY <1>1, Invariance, PTL

-----------------------------------------------------------------------------
(***************************************************************************)
(* The money.  A bill is paid once and never unpaid, so the paid bills are *)
(* an upper bound that only rises.  A record's total is at most that bound *)
(* because a charge raises both and a restoration replaces the total by    *)
(* what the row held: a part of the bills paid by then.                    *)
(***************************************************************************)
Booked == {r \in Requests : bill[r] = "booked"}

\* A request has no bill before it is answered.
Unbilled == \A r \in Requests : at[r] \in {"new", "slot", "serving"} => bill[r] = "none"

\* The row holds the booked bills.
RowIsBooked == rowSpend = TotalCost(Booked)

\* A plain answer leaves its handler with its bill settled; before it there is no
\* cost, and a request that fails has none.
Handled ==
  \A r \in Requests :
    /\ at[r] \in {"new", "slot", "serving"} => cost[r] = 0
    /\ ~streamed[r] /\ at[r] \in {"release", "load", "store", "done"} =>
         bill[r] \in {"booked", "unbooked"} \/ (bill[r] = "none" /\ cost[r] = 0)

\* A reloader has not read more than has been paid.
ReadBounded == \A w \in Reloaders : read[w].spend <= TotalCost(Paid)

MoneyInv == Unbilled /\ RowIsBooked /\ ReadBounded /\ NeverDoubleCharged

-----------------------------------------------------------------------------
\* Sums of costs are numbers, and those of booked bills are among the paid ones.
LEMMA Totals ==
  ASSUME IInv
  PROVE  /\ \A S \in SUBSET Requests : IsFiniteSet(S) /\ TotalCost(S) \in Nat
         /\ TotalCost(Booked) <= TotalCost(Paid)
<1>1. \A S \in SUBSET Requests : IsFiniteSet(S)
  BY Constants, FS_Subset
<1>2. \A r \in Requests : cost[r] \in Nat
  BY Numbers
<1>3. \A S \in SUBSET Requests : TotalCost(S) \in Nat
  BY <1>1, <1>2, SumType DEF TotalCost
<1>4. Booked \in SUBSET Paid /\ Paid \in SUBSET Requests
  BY DEF Booked, Paid
<1>5. \A r \in Booked : cost[r] \in Nat /\ cost[r] <= cost[r]
  BY <1>2 DEF Booked
<1>6. \A r \in Paid : cost[r] \in Nat
  BY <1>2 DEF Paid
<1>7. TotalCost(Booked) <= TotalCost(Paid)
  BY <1>1, <1>4, <1>5, <1>6, SumMonotone DEF TotalCost
<1>8. QED
  BY <1>1, <1>3, <1>7

\* A paid bill stays paid, and its cost is fixed.
LEMMA PaidStays ==
  ASSUME IInv, Unbilled, [Next]_vars
  PROVE  /\ Unbilled'
         /\ Paid \subseteq Paid' /\ Booked \subseteq Booked'
         /\ \A r \in Paid : cost'[r] = cost[r]
<1> USE DEF IInv, TypeOK, Unbilled, Paid, Booked
<1>1. ASSUME NEW r \in Requests, Lookup(r) \/ TakeSlot(r) \/ Fail(r)
      PROVE  Unbilled' /\ bill' = bill /\ cost' = cost
  BY <1>1 DEF Lookup, TakeSlot, Fail, Go
<1>2. ASSUME NEW r \in Requests, Answer(r)
      PROVE  /\ Unbilled' /\ bill[r] = "none" /\ bill'[r] = "due"
             /\ \A q \in Requests : q # r => bill'[q] = bill[q] /\ cost'[q] = cost[q]
  BY <1>2 DEF Answer, Go
<1>3. ASSUME NEW r \in Requests, Charge(r) \/ Persist(r)
      PROVE  /\ Unbilled' /\ bill[r] \in {"due", "taken"} /\ r \in Paid' /\ cost' = cost
             /\ \A q \in Requests : q # r => bill'[q] = bill[q]
  BY <1>3 DEF Charge, Persist, Go
<1>4. ASSUME NEW r \in Requests, Release(r) \/ LoadCount(r) \/ StoreCount(r)
      PROVE  Unbilled' /\ bill' = bill /\ cost' = cost
  BY <1>4 DEF Release, LoadCount, StoreCount, Go
<1>5. ASSUME NEW w \in Reloaders,
             ReplaceAll(w) \/ AllKeys(w) \/ ReadRow(w) \/ RestoreSpend(w) \/ RestoreCount(w)
      PROVE  UNCHANGED request
  BY <1>5 DEF ReplaceAll, AllKeys, ReadRow, RestoreSpend, RestoreCount
<1>6. Rotate => UNCHANGED request
  BY DEF Rotate
<1>7. Restart => /\ Unbilled' /\ cost' = cost
                 /\ \A r \in Requests : bill[r] \notin {"none", "due"} => bill'[r] \notin {"none", "due"}
                 /\ \A r \in Requests : bill[r] = "booked" => bill'[r] = "booked"
  BY DEF Restart, Live
<1>8. UNCHANGED vars => UNCHANGED request
  BY DEF vars
<1>9. UNCHANGED request => Unbilled' /\ bill' = bill /\ cost' = cost
  BY DEF request
<1>10. QED
  BY <1>1, <1>2, <1>3, <1>4, <1>5, <1>6, <1>7, <1>8, <1>9 DEF Next

\* So the total of the paid bills only rises.
LEMMA PaidRises ==
  ASSUME IInv, IInv', Unbilled, [Next]_vars
  PROVE  /\ TotalCost(Paid) \in Nat /\ TotalCost(Paid)' \in Nat
         /\ TotalCost(Paid) <= TotalCost(Paid)'
<1>1. Paid \in SUBSET Paid' /\ \A r \in Paid : cost'[r] = cost[r]
  BY PaidStays
<1>2. /\ \A r \in Paid : cost[r] \in Nat
      /\ \A r \in Paid' : cost'[r] \in Nat
  <2>1. cost' \in [Requests -> Costs \cup {0}] /\ Costs \cup {0} \subseteq Nat
    BY Constants DEF IInv, TypeOK
  <2>2. QED
    BY <2>1, Numbers DEF Paid
<1>3. IsFiniteSet(Paid')
  BY Constants, FS_Subset DEF Paid
<1>4. \A r \in Paid : cost[r] \in Nat /\ cost[r] <= cost'[r]
  BY <1>1, <1>2
<1>5. TotalCost(Paid) <= TotalCost(Paid)'
  BY <1>1, <1>2, <1>3, <1>4, SumMonotone DEF TotalCost
<1>6. TotalCost(Paid) \in Nat
  BY Totals DEF Paid
<1>7. TotalCost(Paid)' \in Nat
  BY <1>2, <1>3, SumType DEF TotalCost
<1>8. QED
  BY <1>5, <1>6, <1>7

\* A record that a step leaves alone stays below the bound.
LEMMA SpendStays ==
  ASSUME IInv, IInv', MoneyInv, [Next]_vars, NEW c \in Records, spend'[c] = spend[c]
  PROVE  spend'[c] <= TotalCost(Paid)'
<1>1. spend[c] <= TotalCost(Paid) /\ spend[c] \in Nat
  BY DEF MoneyInv, NeverDoubleCharged, Paid, IInv, TypeOK
<1>2. QED
  BY <1>1, PaidRises DEF MoneyInv

\* A charge raises the total of one record by no more than the bill.
LEMMA ChargeStep ==
  ASSUME IInv, IInv', MoneyInv, NEW r \in Requests, Charge(r)
  PROVE  MoneyInv'
<1>1. [Next]_vars
  BY DEF Next
<1>2. /\ bill[r] = "due" /\ bill' = [bill EXCEPT ![r] = "taken"]
      /\ spend' = [spend EXCEPT ![rec[r]] = @ + Millis(cost[r])]
      /\ cost' = cost /\ rowSpend' = rowSpend /\ read' = read
  BY DEF Charge, row, reload
<1>3. Booked' = Booked /\ Paid' = Paid \cup {r} /\ r \notin Paid
  BY <1>2 DEF Booked, Paid, IInv, TypeOK
<1>4. TotalCost(Paid)' = cost[r] + TotalCost(Paid)
  <2>1. Paid' \ {r} = Paid /\ r \in Paid' /\ IsFiniteSet(Paid')
    BY <1>3, Constants, FS_Subset DEF Paid
  <2>2. \A q \in Paid' : cost[q] \in Nat
    BY Numbers DEF Paid
  <2>3. SumFunctionOnSet(cost, Paid') = cost[r] + SumFunctionOnSet(cost, Paid' \ {r})
    BY <2>1, <2>2, SumOneMore
  <2>4. QED
    BY <1>2, <2>1, <2>3 DEF TotalCost
<1>5. TotalCost(Paid) \in Nat /\ cost[r] \in Nat /\ Millis(cost[r]) \in Nat /\ Millis(cost[r]) <= cost[r]
  BY Numbers, Totals DEF Paid, Millis
<1>6. ASSUME NEW c \in Records PROVE spend'[c] <= TotalCost(Paid)'
  <2>1. spend[c] \in Nat /\ spend[c] <= TotalCost(Paid)
    BY DEF MoneyInv, NeverDoubleCharged, Paid, IInv, TypeOK
  <2>2. spend'[c] \in {spend[c], spend[c] + Millis(cost[r])}
    BY <1>2 DEF IInv, TypeOK
  <2>3. QED
    BY <1>4, <1>5, <2>1, <2>2
<1>7. NeverDoubleCharged'
  BY <1>6 DEF NeverDoubleCharged, Paid
<1>8. RowIsBooked'
  BY <1>2, <1>3 DEF MoneyInv, RowIsBooked, Booked, TotalCost
<1>9. ReadBounded'
  <2>1. \A w \in Reloaders : read[w].spend \in Nat
    BY DEF IInv, TypeOK
  <2>2. QED
    BY <1>2, <1>4, <1>5, <2>1 DEF MoneyInv, ReadBounded
<1>10. QED
  BY <1>1, <1>7, <1>8, <1>9, PaidStays DEF MoneyInv

\* The row is exact as long as no bill is booked.
LEMMA RowStays ==
  ASSUME IInv, MoneyInv, [Next]_vars, Booked' = Booked, rowSpend' = rowSpend
  PROVE  RowIsBooked'
<1>1. IsFiniteSet(Booked) /\ \A r \in Booked : cost[r] \in Nat
  BY Constants, FS_Subset, Numbers DEF Booked
<1>2. \A r \in Booked : cost'[r] = cost[r]
  BY PaidStays DEF MoneyInv, Booked, Paid
<1>3. SumFunctionOnSet(cost', Booked) = SumFunctionOnSet(cost, Booked)
  BY <1>1, <1>2, SumSame
<1>4. QED
  BY <1>3 DEF MoneyInv, RowIsBooked, Booked, TotalCost

\* What a reloader has read stays below the bound.
LEMMA ReadStays ==
  ASSUME IInv, IInv', MoneyInv, [Next]_vars, NEW w \in Reloaders, read'[w].spend \in {read[w].spend, 0}
  PROVE  read'[w].spend <= TotalCost(Paid)'
<1>1. read[w].spend <= TotalCost(Paid) /\ read[w].spend \in Nat
  BY DEF MoneyInv, ReadBounded, IInv, TypeOK
<1>2. QED
  BY <1>1, PaidRises DEF MoneyInv

\* A bill is booked in the row, or cannot be.
LEMMA PersistStep ==
  ASSUME IInv, IInv', MoneyInv, NEW r \in Requests, Persist(r)
  PROVE  MoneyInv'
<1>1. [Next]_vars
  BY DEF Next
<1>2. bill[r] = "taken" /\ cost' = cost /\ UNCHANGED <<spend, read>>
  BY DEF Persist, memory, reload
<1>3. ReadBounded' /\ NeverDoubleCharged'
  BY <1>1, <1>2, ReadStays, SpendStays DEF ReadBounded, NeverDoubleCharged, Paid
<1>4. RowIsBooked'
  <2>1. CASE rowSpend' = rowSpend + cost[r] /\ bill' = [bill EXCEPT ![r] = "booked"]
    <3>1. r \in Booked' /\ Booked' \ {r} = Booked
      BY <1>2, <2>1 DEF Booked, IInv, TypeOK
    <3>2. IsFiniteSet(Booked') /\ \A q \in Booked' : cost[q] \in Nat
      BY Constants, FS_Subset, Numbers DEF Booked
    <3>3. SumFunctionOnSet(cost, Booked') = cost[r] + SumFunctionOnSet(cost, Booked' \ {r})
      BY <3>1, <3>2, SumOneMore
    <3>4. rowSpend = SumFunctionOnSet(cost, Booked) /\ rowSpend \in Nat /\ cost[r] \in Nat
      BY Numbers DEF MoneyInv, RowIsBooked, TotalCost, Booked
    <3>5. SumFunctionOnSet(cost', Booked') = cost[r] + SumFunctionOnSet(cost, Booked)
      BY <1>2, <3>1, <3>3, Zenon
    <3>6. rowSpend' = SumFunctionOnSet(cost', Booked')
      BY <2>1, <3>4, <3>5
    <3>7. QED
      BY <3>6 DEF RowIsBooked, TotalCost, Booked
  <2>2. CASE bill' = [bill EXCEPT ![r] = "unbooked"] /\ UNCHANGED rowSpend
    <3>1. Booked' = Booked
      BY <1>2, <2>2 DEF Booked, IInv, TypeOK
    <3>2. QED
      BY <1>1, <2>2, <3>1, RowStays
  <2>3. QED
    BY <2>1, <2>2 DEF Persist
<1>5. QED
  BY <1>1, <1>3, <1>4, PaidStays DEF MoneyInv

\* A reloader takes the total of the row, which is part of what has been paid.
LEMMA ReadRowStep ==
  ASSUME IInv, IInv', MoneyInv, NEW w \in Reloaders, ReadRow(w)
  PROVE  MoneyInv'
<1>1. [Next]_vars
  BY DEF Next
<1>2. /\ read' = [read EXCEPT ![w] = [count |-> rowCount, spend |-> rowSpend]]
      /\ UNCHANGED <<bill, cost, spend, rowSpend>>
  BY DEF ReadRow, request, memory, row
<1>3. rowSpend <= TotalCost(Paid)
  BY Totals DEF MoneyInv, RowIsBooked, Booked
<1>4. ReadBounded'
  <2>1. TotalCost(Paid)' = TotalCost(Paid)
    BY <1>2 DEF TotalCost, Paid
  <2>2. \A v \in Reloaders : read'[v].spend \in {read[v].spend, rowSpend}
    BY <1>2 DEF IInv, TypeOK
  <2>3. QED
    BY <1>3, <2>1, <2>2 DEF MoneyInv, ReadBounded
<1>5. NeverDoubleCharged'
  BY <1>1, <1>2, SpendStays DEF NeverDoubleCharged, Paid
<1>6. RowIsBooked'
  BY <1>1, <1>2, RowStays DEF Booked
<1>7. QED
  BY <1>1, <1>4, <1>5, <1>6, PaidStays DEF MoneyInv

\* It puts that total in the place of the record's own.
LEMMA RestoreSpendStep ==
  ASSUME IInv, IInv', MoneyInv, NEW w \in Reloaders, RestoreSpend(w)
  PROVE  MoneyInv'
<1>1. [Next]_vars
  BY DEF Next
<1>2. /\ spend' = [spend EXCEPT ![target[w]] = read[w].spend]
      /\ UNCHANGED <<bill, cost, rowSpend, read>>
  BY DEF RestoreSpend, request, row
<1>3. ReadBounded' /\ RowIsBooked'
  BY <1>1, <1>2, ReadStays, RowStays DEF ReadBounded, Booked
<1>4. ASSUME NEW c \in Records PROVE spend'[c] <= TotalCost(Paid)'
  <2>1. spend'[c] \in {spend[c], read[w].spend}
    BY <1>2 DEF IInv, TypeOK
  <2>2. CASE spend'[c] = spend[c]
    BY <1>1, <2>2, SpendStays
  <2>3. CASE spend'[c] = read[w].spend
    BY <1>1, <1>2, <2>3, ReadStays
  <2>4. QED
    BY <2>1, <2>2, <2>3
<1>5. QED
  BY <1>1, <1>3, <1>4, PaidStays DEF MoneyInv, NeverDoubleCharged, Paid

\* A restart does both at once for a new record.
LEMMA RestartMoney ==
  ASSUME IInv, IInv', MoneyInv, Restart
  PROVE  MoneyInv'
<1>1. [Next]_vars
  BY DEF Next
<1>2. /\ spend' = [spend EXCEPT ![cur + 1] = rowSpend]
      /\ UNCHANGED <<cost, rowSpend>>
      /\ \A w \in Reloaders : read'[w].spend = 0
  BY DEF Restart
<1>3. Booked' = Booked
  BY DEF Restart, Booked, IInv, TypeOK, Bills
<1>4. ReadBounded' /\ RowIsBooked'
  BY <1>1, <1>2, <1>3, ReadStays, RowStays DEF ReadBounded
<1>5. rowSpend <= TotalCost(Paid) /\ rowSpend \in Nat
  BY Totals, Numbers DEF MoneyInv, RowIsBooked, Booked
<1>6. ASSUME NEW c \in Records PROVE spend'[c] <= TotalCost(Paid)'
  <2>1. spend'[c] \in {spend[c], rowSpend}
    BY <1>2 DEF IInv, TypeOK
  <2>2. CASE spend'[c] = spend[c]
    BY <1>1, <2>2, SpendStays
  <2>3. CASE spend'[c] = rowSpend
    BY <1>1, <1>5, <2>3, PaidRises DEF MoneyInv
  <2>4. QED
    BY <2>1, <2>2, <2>3
<1>7. QED
  BY <1>1, <1>4, <1>6, PaidStays DEF MoneyInv, NeverDoubleCharged, Paid

\* The other steps move no money.
LEMMA NoMoneyMoves ==
  ASSUME IInv, IInv', MoneyInv, [Next]_vars,
         UNCHANGED <<spend, rowSpend>>, Booked' = Booked,
         \A w \in Reloaders : read'[w].spend \in {read[w].spend, 0}
  PROVE  MoneyInv'
BY PaidStays, RowStays, ReadStays, SpendStays DEF MoneyInv, ReadBounded, NeverDoubleCharged, Paid

LEMMA OtherSteps ==
  ASSUME IInv, IInv', MoneyInv,
         \/ UNCHANGED vars
         \/ \E r \in Requests :
              \/ Lookup(r) \/ TakeSlot(r) \/ Answer(r) \/ Fail(r)
              \/ Release(r) \/ LoadCount(r) \/ StoreCount(r)
         \/ \E w \in Reloaders : ReplaceAll(w) \/ AllKeys(w) \/ RestoreCount(w)
         \/ Rotate
  PROVE  MoneyInv'
<1>1. [Next]_vars
  BY DEF Next
<1>2. UNCHANGED <<spend, rowSpend>>
  BY DEF vars, Lookup, TakeSlot, Answer, Fail, Release, LoadCount, StoreCount,
         ReplaceAll, AllKeys, RestoreCount, Rotate, memory, row
<1>3. Booked' = Booked
  <2>1. ASSUME NEW r \in Requests, Answer(r) PROVE bill[r] = "none" /\ bill' = [bill EXCEPT ![r] = "due"]
    BY <2>1 DEF Answer, MoneyInv, Unbilled
  <2>2. \A r \in Requests : Answer(r) => Booked' = Booked
    BY <2>1 DEF Booked, IInv, TypeOK
  <2>3. (\A r \in Requests : ~Answer(r)) => bill' = bill
    BY DEF vars, Lookup, TakeSlot, Fail, Release, LoadCount, StoreCount,
           ReplaceAll, AllKeys, RestoreCount, Rotate, request
  <2>4. QED
    BY <2>2, <2>3 DEF Booked
<1>4. \A w \in Reloaders : read'[w].spend \in {read[w].spend, 0}
  <2>1. (\A w \in Reloaders : ~ReplaceAll(w) /\ ~AllKeys(w) /\ ~RestoreCount(w)) => read' = read
    BY DEF vars, Lookup, TakeSlot, Answer, Fail, Release, LoadCount, StoreCount, Rotate, reload
  <2>2. ASSUME NEW v \in Reloaders, ReplaceAll(v) \/ AllKeys(v) \/ RestoreCount(v)
        PROVE  \A w \in Reloaders : read'[w].spend \in {read[w].spend, 0}
    <3>1. read' = read \/ read' = [read EXCEPT ![v] = [count |-> 0, spend |-> 0]]
      BY <2>2 DEF ReplaceAll, AllKeys, RestoreCount
    <3>2. read \in [Reloaders -> [count : 0 .. Width - 1, spend : Nat]]
      BY DEF IInv, TypeOK
    <3>3. QED
      BY <3>1, <3>2
  <2>3. QED
    BY <2>1, <2>2
<1>5. QED
  BY <1>1, <1>2, <1>3, <1>4, NoMoneyMoves

-----------------------------------------------------------------------------
LEMMA InitMoney == Init => MoneyInv
<1> SUFFICES ASSUME Init PROVE MoneyInv
  OBVIOUS
<1>1. Unbilled
  BY DEF Init, Unbilled
<1>2. Booked = {} /\ Paid = {}
  BY DEF Init, Booked, Paid
<1>3. TotalCost(Booked) = 0 /\ TotalCost(Paid) = 0
  BY <1>2, SumOfNone DEF TotalCost
<1>4. RowIsBooked
  BY <1>3 DEF Init, RowIsBooked, Booked
<1>5. ReadBounded
  <2>1. \A w \in Reloaders : read[w].spend = 0
    BY DEF Init
  <2>2. QED
    BY <1>3, <2>1 DEF ReadBounded
<1>6. NeverDoubleCharged
  BY <1>3 DEF Init, NeverDoubleCharged, Paid
<1>7. QED
  BY <1>1, <1>4, <1>5, <1>6 DEF MoneyInv

LEMMA NextMoney == IInv /\ IInv' /\ MoneyInv /\ [Next]_vars => MoneyInv'
BY ChargeStep, PersistStep, ReadRowStep, RestoreSpendStep, RestartMoney, OtherSteps DEF Next

LEMMA MoneyInvariance == Spec => []MoneyInv
BY InitMoney, NextMoney, Invariance, PTL DEF Spec

-----------------------------------------------------------------------------
\* No step of a request undoes what Handled says of it, and no other step touches it.
LEMMA HandledStays ==
  ASSUME IInv, Unbilled, Handled, [Next]_vars
  PROVE  Handled'
<1> USE DEF IInv, TypeOK, Unbilled, Handled
<1>1. ASSUME NEW r \in Requests, Lookup(r) \/ TakeSlot(r) \/ Fail(r) PROVE Handled'
  <2>1. UNCHANGED <<cost, streamed, bill>>
    BY <1>1 DEF Lookup, TakeSlot, Fail
  <2>2. /\ at[r] \in {"new", "slot", "serving"}
        /\ \A q \in Requests : q # r => at'[q] = at[q]
        /\ at'[r] \in {"slot", "denied", "serving", "release", "left"}
    BY <1>1 DEF Lookup, TakeSlot, Fail, Go
  <2>3. QED
    BY <2>1, <2>2
<1>2. ASSUME NEW r \in Requests, Answer(r) PROVE Handled'
  <2>1. /\ at'[r] = IF streamed'[r] THEN "release" ELSE "billing"
        /\ \A q \in Requests : q # r =>
             /\ at'[q] = at[q] /\ cost'[q] = cost[q] /\ bill'[q] = bill[q]
             /\ streamed'[q] = streamed[q]
    BY <1>2 DEF Answer, Go
  <2>2. QED
    BY <2>1
<1>3. ASSUME NEW r \in Requests, Charge(r) PROVE Handled'
  <2>1. UNCHANGED <<at, cost, streamed>> /\ bill[r] = "due"
        /\ \A q \in Requests : q # r => bill'[q] = bill[q]
    BY <1>3 DEF Charge
  <2>2. QED
    BY <2>1
<1>4. ASSUME NEW r \in Requests, Persist(r) PROVE Handled'
  <2>1. /\ UNCHANGED <<cost, streamed>> /\ bill[r] = "taken"
        /\ bill'[r] \in {"booked", "unbooked"}
        /\ at'[r] = IF at[r] = "billing" THEN "release" ELSE at[r]
        /\ \A q \in Requests : q # r => bill'[q] = bill[q] /\ at'[q] = at[q]
    BY <1>4 DEF Persist, Go
  <2>2. QED
    BY <2>1
<1>5. ASSUME NEW r \in Requests, Release(r) \/ LoadCount(r) \/ StoreCount(r) PROVE Handled'
  <2>1. /\ UNCHANGED <<cost, streamed, bill>>
        /\ at[r] \in {"release", "load", "store"} /\ at'[r] \in {"load", "store", "done"}
        /\ \A q \in Requests : q # r => at'[q] = at[q]
    BY <1>5 DEF Release, LoadCount, StoreCount, Go
  <2>2. QED
    BY <2>1
<1>6. Restart => Handled'
  <2> SUFFICES ASSUME Restart PROVE Handled'
    OBVIOUS
  <2>1. UNCHANGED <<cost, streamed>>
    BY DEF Restart
  <2>2. \A r \in Requests :
          /\ (at'[r] = at[r] /\ at[r] \notin Live) \/ at'[r] = "lost"
          /\ bill[r] \in {"none", "booked", "unbooked"} => bill'[r] = bill[r]
    BY DEF Restart
  <2>3. QED
    BY <2>1, <2>2
<1>7. UNCHANGED request => Handled'
  BY DEF request
<1>8. UNCHANGED vars => UNCHANGED request
  BY DEF vars
<1>9. (Rotate \/ \E w \in Reloaders :
         ReplaceAll(w) \/ AllKeys(w) \/ ReadRow(w) \/ RestoreSpend(w) \/ RestoreCount(w))
        => UNCHANGED request
  BY DEF ReplaceAll, AllKeys, ReadRow, RestoreSpend, RestoreCount, Rotate
<1>10. QED
  BY <1>1, <1>2, <1>3, <1>4, <1>5, <1>6, <1>7, <1>8, <1>9 DEF Next

LEMMA HandledInvariance == Spec => []Handled
<1>1. Init => Handled
  BY DEF Init, Handled
<1>2. MoneyInv => Unbilled
  BY DEF MoneyInv
<1>3. IInv /\ MoneyInv /\ Handled /\ [Next]_vars => Handled'
  BY <1>2, HandledStays
<1>4. QED
  BY <1>1, <1>3, Invariance, MoneyInvariance, PTL DEF Spec

\* The bills of settled requests are booked, or there is no cost.
LEMMA SettledIsBooked ==
  ASSUME IInv, RowIsBooked, Handled
  PROVE  TotalCost(Settled) <= rowSpend
<1> DEFINE None == Settled \ Booked
<1>1. /\ Settled \in SUBSET Requests /\ Booked \in SUBSET Requests
      /\ None \in SUBSET Settled /\ Settled \ None \in SUBSET Booked
      /\ \A r \in None : cost[r] = 0
  BY DEF Settled, Booked, Handled
<1>2. IsFiniteSet(Settled) /\ IsFiniteSet(None) /\ IsFiniteSet(Booked)
      /\ TotalCost(Settled \ None) \in Nat /\ TotalCost(Booked) \in Nat
  BY <1>1, Totals, FS_Subset
<1>3. /\ \A r \in Settled : cost[r] \in Nat
      /\ \A r \in Booked : cost[r] \in Nat
  BY <1>1, Numbers
<1> HIDE DEF None
<1>4. TotalCost(Settled) = TotalCost(None) + TotalCost(Settled \ None)
  BY <1>1, <1>2, <1>3, SumSplit DEF TotalCost
<1>5. TotalCost(None) = 0
  BY <1>1, <1>2, SumOfZeros DEF TotalCost
<1>6. TotalCost(Settled \ None) <= TotalCost(Booked)
  <2>1. \A r \in Settled \ None : cost[r] \in Nat /\ cost[r] <= cost[r]
    BY <1>3
  <2>2. QED
    BY <1>1, <1>2, <1>3, <2>1, SumMonotone DEF TotalCost
<1>7. QED
  BY <1>2, <1>4, <1>5, <1>6 DEF RowIsBooked

\* Before a client has a plain answer its cost is in the row, and stays there
\* (record_key_usage before release_key, apply_counter_delta), whatever becomes of
\* the records: for any number of requests, records, reloads and restarts.  Only a
\* write that failed is missing, and nothing is there twice.
THEOREM AnswersAreDurable == Spec => []AnsweredIsDurable
<1>1. IInv /\ MoneyInv /\ Handled => AnsweredIsDurable
  <2> SUFFICES ASSUME IInv, MoneyInv, Handled PROVE AnsweredIsDurable
    OBVIOUS
  <2>1. TotalCost(Settled) <= rowSpend
    BY SettledIsBooked DEF MoneyInv
  <2>2. rowSpend <= TotalCost(Paid)
    BY Totals DEF MoneyInv, RowIsBooked
  <2>3. QED
    BY <2>1, <2>2 DEF AnsweredIsDurable
<1>2. QED
  BY <1>1, Invariance, MoneyInvariance, HandledInvariance, PTL

\* Neither a reload nor a rotation nor a restart charges a cost twice
\* (restore_usage stores the total of the row in the place of the record's own).
THEOREM DoubleChargeFree == Spec => []NeverDoubleCharged
<1>1. MoneyInv => NeverDoubleCharged
  BY DEF MoneyInv
<1>2. QED
  BY <1>1, MoneyInvariance, PTL

=============================================================================
