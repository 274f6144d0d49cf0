---------------------------- MODULE Dispatch_proofs ----------------------------
(***************************************************************************)
(* Proofs about Dispatch, for any number of requests, upstreams and kinds  *)
(* and any limits, and at the end about UpstreamHealth, which says when an *)
(* upstream is up.                                                         *)
(*                                                                         *)
(* The counters of the code (in_flight, pending_waits, QueueStats, the     *)
(* gauge) are related to sets of requests.  A step of one request changes  *)
(* the membership of that request alone, so each counter has to move by    *)
(* what Recount says.                                                      *)
(***************************************************************************)
EXTENDS Dispatch, UpstreamHealth, Counting

\* The invariant that is inductive: no part of it is without the others.
IInv ==
  /\ TypeOK
  /\ InFlightExact
  /\ WithinConcurrency
  /\ PendingExact
  /\ NoIdleLease
  /\ StatsBalance

-----------------------------------------------------------------------------
\* A candidate list: its indices, and what it holds.
LEMMA CandidateList ==
  ASSUME NEW r \in Requests
  PROVE  /\ Len(Candidates[r]) \in Nat
         /\ DOMAIN Candidates[r] = 1 .. Len(Candidates[r])
         /\ Candidates[r] # << >> => Len(Candidates[r]) > 0
         /\ \A i \in DOMAIN Candidates[r] : Candidates[r][i] \in Upstreams
BY DispatchAssumption DEF DispatchAssumption

LEMMA InitIInv == Init => IInv
<1> SUFFICES ASSUME Init PROVE IInv
  OBVIOUS
<1> USE DispatchAssumption DEF DispatchAssumption
<1>1. TypeOK
  <2>1. \A r \in Requests : Candidates[r] # << >> => 1 \in DOMAIN Candidates[r]
    BY CandidateList
  <2>2. QED
    BY <2>1 DEF Init, TypeOK, Positions, Queueing, Over, BucketCapacity
<1>2. /\ \A u \in Upstreams : Holders(u) = {}
      /\ \A k \in Kinds : Seated(k) = {}
      /\ {r \in Requests : WasDispatched(r)} = {}
      /\ {r \in Requests : WasRejected(r)} = {}
      /\ {r \in Requests : seat[r] # "none"} = {}
      /\ \A k \in Kinds : {r \in Requests : Kind[r] = k /\ GaugeCounts(r)} = {}
  BY DEF Init, Holders, Seated, WasDispatched, WasRejected, GaugeCounts
<1>3. Cardinality({}) = 0
  BY FS_EmptySet
<1>4. InFlightExact
  BY <1>2, <1>3 DEF Init, InFlightExact
<1>5. WithinConcurrency
  <2>1. \A u \in Upstreams : Cardinality(Holders(u)) = 0
    BY <1>2, <1>3
  <2>2. QED
    BY <2>1 DEF WithinConcurrency, Limited
<1>6. PendingExact
  <2>1. \A k \in Kinds : Cardinality(Seated(k)) = 0 /\ pending[k] = 0
    BY <1>2, <1>3 DEF Init
  <2>2. QED
    BY <2>1 DEF PendingExact
<1>7. StatsBalance
  BY <1>2, <1>3 DEF Init, StatsBalance
<1>8. NoIdleLease
  BY DEF Init, NoIdleLease, LeasesFit, Queueing
<1>9. QED
  BY <1>1, <1>4, <1>5, <1>6, <1>7, <1>8 DEF IInv

-----------------------------------------------------------------------------
Dispatched == {r \in Requests : WasDispatched(r)}
Rejected == {r \in Requests : WasRejected(r)}
Waited == {r \in Requests : seat[r] # "none"}
Gauged(k) == {r \in Requests : Kind[r] = k /\ GaugeCounts(r)}

\* A step leaves the other requests where they are.
Alone(r) == \A q \in Requests :
  q # r => pc'[q] = pc[q] /\ slot'[q] = slot[q] /\ seat'[q] = seat[q]

\* Recount for a set of requests.
LEMMA Moves ==
  ASSUME NEW A \in SUBSET Requests, NEW B \in SUBSET Requests, NEW r \in Requests,
         \A q \in Requests : q # r => (q \in A <=> q \in B)
  PROVE  Cardinality(B) = Cardinality(A) + Change(r \in A, r \in B)
<1>1. IsFiniteSet(Requests)
  BY DispatchAssumption DEF DispatchAssumption
<1>2. QED
  BY <1>1, Recount DEF Change

\* A step of one request keeps the facts about claims if in_flight moves with
\* its claim and stays within the limit.
SlotsMove(r) ==
  \A u \in Upstreams :
    IF Limited(u)
    THEN /\ inFlight'[u] = inFlight[u] + Change(slot[r] = u, slot'[r] = u)
         /\ inFlight'[u] <= MaxConcurrency[u]
    ELSE inFlight'[u] = 0

LEMMA SlotsKeep ==
  ASSUME IInv, NEW r \in Requests, Alone(r), SlotsMove(r)
  PROVE  InFlightExact' /\ WithinConcurrency'
<1>1. ASSUME NEW u \in Upstreams
      PROVE  Cardinality(Holders(u)') = Cardinality(Holders(u))
                                          + Change(slot[r] = u, slot'[r] = u)
  <2>1. Holders(u) \in SUBSET Requests /\ Holders(u)' \in SUBSET Requests
    BY DEF Holders
  <2>2. \A q \in Requests : q # r => (q \in Holders(u) <=> q \in Holders(u)')
    BY DEF Holders, Alone
  <2>3. (r \in Holders(u) <=> slot[r] = u) /\ (r \in Holders(u)' <=> slot'[r] = u)
    BY DEF Holders
  <2>4. Cardinality(Holders(u)') =
          Cardinality(Holders(u)) + Change(r \in Holders(u), r \in Holders(u)')
    BY <2>1, <2>2, Moves DEF Change
  <2>5. QED
    BY <2>3, <2>4 DEF Change
<1>2. \A u \in Upstreams : Limited(u) => inFlight'[u] = Cardinality(Holders(u)')
  BY <1>1 DEF IInv, InFlightExact, SlotsMove
<1>3. InFlightExact'
  BY <1>2 DEF InFlightExact, Limited, SlotsMove
<1>4. WithinConcurrency'
  BY <1>2 DEF WithinConcurrency, Limited, SlotsMove
<1>5. QED
  BY <1>3, <1>4

\* The same of waiting places and pending_waits.
SeatsMove(r) ==
  \A k \in Kinds :
    /\ pending'[k] = pending[k] + Change(Kind[r] = k /\ seat[r] = "held",
                                         Kind[r] = k /\ seat'[r] = "held")
    /\ MaxQueue > 0 => pending'[k] <= MaxQueue

LEMMA SeatsKeep ==
  ASSUME IInv, NEW r \in Requests, Alone(r), SeatsMove(r)
  PROVE  PendingExact'
<1>1. ASSUME NEW k \in Kinds
      PROVE  Cardinality(Seated(k)') =
               Cardinality(Seated(k)) + Change(Kind[r] = k /\ seat[r] = "held",
                                               Kind[r] = k /\ seat'[r] = "held")
  <2>1. Seated(k) \in SUBSET Requests /\ Seated(k)' \in SUBSET Requests
    BY DEF Seated
  <2>2. \A q \in Requests : q # r => (q \in Seated(k) <=> q \in Seated(k)')
    BY DEF Seated, Alone
  <2>3. /\ r \in Seated(k) <=> Kind[r] = k /\ seat[r] = "held"
        /\ r \in Seated(k)' <=> Kind[r] = k /\ seat'[r] = "held"
    BY DEF Seated
  <2>4. Cardinality(Seated(k)') =
          Cardinality(Seated(k)) + Change(r \in Seated(k), r \in Seated(k)')
    BY <2>1, <2>2, Moves DEF Change
  <2>5. QED
    BY <2>3, <2>4 DEF Change
<1>2. \A k \in Kinds : pending'[k] = Cardinality(Seated(k)')
  BY <1>1 DEF IInv, PendingExact, SeatsMove
<1>3. QED
  BY <1>2 DEF PendingExact, SeatsMove

\* The same of QueueStats and the gauge.
StatsMove(r) ==
  /\ dispatched' = dispatched + Change(WasDispatched(r), WasDispatched(r)')
  /\ rejected' = rejected + Change(WasRejected(r), WasRejected(r)')
  /\ waited' = waited + Change(seat[r] # "none", seat'[r] # "none")
  /\ \A k \in Kinds :
       active'[k] = active[k] + Change(Kind[r] = k /\ GaugeCounts(r),
                                       Kind[r] = k /\ GaugeCounts(r)')

LEMMA StatsKeep ==
  ASSUME IInv, NEW r \in Requests, Alone(r), StatsMove(r)
  PROVE  StatsBalance'
<1>1. dispatched' = Cardinality(Dispatched')
  <2>1. Dispatched \in SUBSET Requests /\ Dispatched' \in SUBSET Requests
    BY DEF Dispatched
  <2>2. \A q \in Requests : q # r => (q \in Dispatched <=> q \in Dispatched')
    BY DEF Dispatched, WasDispatched, Alone
  <2>3. /\ r \in Dispatched <=> WasDispatched(r)
        /\ r \in Dispatched' <=> WasDispatched(r)'
    BY DEF Dispatched
  <2>4. Cardinality(Dispatched') =
          Cardinality(Dispatched) + Change(r \in Dispatched, r \in Dispatched')
    BY <2>1, <2>2, Moves DEF Change
  <2>5. QED
    BY <2>3, <2>4 DEF Change, IInv, StatsBalance, StatsMove, Dispatched
<1>2. rejected' = Cardinality(Rejected')
  <2>1. Rejected \in SUBSET Requests /\ Rejected' \in SUBSET Requests
    BY DEF Rejected
  <2>2. \A q \in Requests : q # r => (q \in Rejected <=> q \in Rejected')
    BY DEF Rejected, WasRejected, Alone
  <2>3. (r \in Rejected <=> WasRejected(r)) /\ (r \in Rejected' <=> WasRejected(r)')
    BY DEF Rejected
  <2>4. Cardinality(Rejected') =
          Cardinality(Rejected) + Change(r \in Rejected, r \in Rejected')
    BY <2>1, <2>2, Moves DEF Change
  <2>5. QED
    BY <2>3, <2>4 DEF Change, IInv, StatsBalance, StatsMove, Rejected
<1>3. waited' = Cardinality(Waited')
  <2>1. Waited \in SUBSET Requests /\ Waited' \in SUBSET Requests
    BY DEF Waited
  <2>2. \A q \in Requests : q # r => (q \in Waited <=> q \in Waited')
    BY DEF Waited, Alone
  <2>3. (r \in Waited <=> seat[r] # "none") /\ (r \in Waited' <=> seat'[r] # "none")
    BY DEF Waited
  <2>4. Cardinality(Waited') =
          Cardinality(Waited) + Change(r \in Waited, r \in Waited')
    BY <2>1, <2>2, Moves DEF Change
  <2>5. QED
    BY <2>3, <2>4 DEF Change, IInv, StatsBalance, StatsMove, Waited
<1>4. ASSUME NEW k \in Kinds
      PROVE  active'[k] = Cardinality(Gauged(k)')
  <2>1. Gauged(k) \in SUBSET Requests /\ Gauged(k)' \in SUBSET Requests
    BY DEF Gauged
  <2>2. \A q \in Requests : q # r => (q \in Gauged(k) <=> q \in Gauged(k)')
    BY DEF Gauged, GaugeCounts, Alone
  <2>3. /\ r \in Gauged(k) <=> Kind[r] = k /\ GaugeCounts(r)
        /\ r \in Gauged(k)' <=> Kind[r] = k /\ GaugeCounts(r)'
    BY DEF Gauged
  <2>4. Cardinality(Gauged(k)') =
          Cardinality(Gauged(k)) + Change(r \in Gauged(k), r \in Gauged(k)')
    BY <2>1, <2>2, Moves DEF Change
  <2>5. QED
    BY <2>3, <2>4 DEF Change, IInv, StatsBalance, StatsMove, Gauged
<1>5. QED
  BY <1>1, <1>2, <1>3, <1>4 DEF StatsBalance, Dispatched, Rejected, Waited, Gauged

-----------------------------------------------------------------------------
\* A step that leaves the claims alone keeps the two facts about them, and one
\* that leaves the waiting places alone keeps the fact about those.
LEMMA SlotsUntouched ==
  ASSUME InFlightExact, WithinConcurrency, UNCHANGED <<slot, inFlight>>
  PROVE  InFlightExact' /\ WithinConcurrency'
BY DEF InFlightExact, WithinConcurrency, Holders, Limited

LEMMA SeatsUntouched ==
  ASSUME PendingExact, UNCHANGED <<seat, pending>>
  PROVE  PendingExact'
BY DEF PendingExact, Seated

\* NoIdleLease is about each request by itself.
LEMMA OtherLeasesFit ==
  ASSUME NEW r \in Requests, NoIdleLease, Alone(r), LeasesFit(r)'
  PROVE  NoIdleLease'
BY DEF NoIdleLease, LeasesFit, Alone

\* Where Refused leaves the request: at the next candidate or at its next wait.
LEMMA RefusedFacts ==
  ASSUME TypeOK, NEW r \in Requests, Candidates[r] # << >>, Refused(r)
  PROVE  /\ pc' \in [Requests -> Positions]
         /\ pc' = [pc EXCEPT ![r] = pc'[r]]
         /\ idx' \in [Requests -> Nat]
         /\ \A q \in Requests : Candidates[q] # << >> => idx'[q] \in DOMAIN Candidates[q]
         /\ pc'[r] \in {"check", "deadline", "reserve"}
         /\ pc'[r] = "deadline" => seat[r] = "held"
         /\ pc'[r] = "reserve" => seat[r] # "held"
<1>1. /\ Len(Candidates[r]) \in Nat
      /\ DOMAIN Candidates[r] = 1 .. Len(Candidates[r])
      /\ Len(Candidates[r]) > 0
  BY CandidateList
<1>2. pc \in [Requests -> Positions] /\ idx \in [Requests -> Nat]
  BY DEF TypeOK
<1>3. idx[r] \in 1 .. Len(Candidates[r])
  BY <1>1 DEF TypeOK
<1>4. /\ pc' \in [Requests -> Positions]
      /\ pc' = [pc EXCEPT ![r] = pc'[r]]
      /\ pc'[r] \in {"check", "deadline", "reserve"}
      /\ pc'[r] = "deadline" => seat[r] = "held"
      /\ pc'[r] = "reserve" => seat[r] # "held"
  BY <1>2 DEF Refused, Go, Positions, Queueing
<1>5. /\ idx' \in [Requests -> Nat]
      /\ idx'[r] \in 1 .. Len(Candidates[r])
      /\ \A q \in Requests : q # r => idx'[q] = idx[q]
  BY <1>1, <1>2, <1>3 DEF Refused
<1>6. \A q \in Requests : Candidates[q] # << >> => idx'[q] \in DOMAIN Candidates[q]
  BY <1>1, <1>5 DEF TypeOK
<1>7. QED
  BY <1>4, <1>5, <1>6

\* A request in dispatch_* has candidates, and tries one of the registry.
LEMMA HasCandidate ==
  ASSUME TypeOK, NEW r \in Requests, pc[r] \notin {"arrived", "unrouted"}
  PROVE  Candidates[r] # << >> /\ Candidate(r) \in Upstreams
<1>1. Candidates[r] # << >>
  BY DEF TypeOK
<1>2. idx[r] \in DOMAIN Candidates[r]
  BY <1>1 DEF TypeOK
<1>3. QED
  BY <1>1, <1>2, CandidateList DEF Candidate

\* What the constants are, without the sequences.
LEMMA ConstantTypes ==
  /\ Kind \in [Requests -> Kinds]
  /\ MaxConcurrency \in [Upstreams -> Nat]
  /\ RateRpm \in [Upstreams -> Nat]
  /\ MaxQueue \in Nat
  /\ RefillStep \in Nat \ {0}
  /\ NoUpstream \notin Upstreams
BY DispatchAssumption DEF DispatchAssumption

-----------------------------------------------------------------------------
\* Every action keeps the invariant: one lemma each.
LEMMA RouteKeeps ==
  ASSUME IInv, NEW r \in Requests, Route(r)
  PROVE  IInv'
<1>1. TypeOK
  BY DEF IInv
<1>2. /\ pc[r] = "arrived" /\ slot[r] = NoUpstream /\ seat[r] = "none"
      /\ pc' = [pc EXCEPT ![r] = pc'[r]]
      /\ \/ Candidates[r] = << >> /\ pc'[r] = "unrouted" /\ active' = active
         \/ /\ Candidates[r] # << >> /\ pc'[r] = "check"
            /\ active' = [active EXCEPT ![Kind[r]] = @ + 1]
      /\ UNCHANGED <<idx, slot, seat, expired, inFlight, tokens, open, pending,
                     dispatched, rejected, waited>>
  BY <1>1 DEF Route, Go, TypeOK, IInv, NoIdleLease, LeasesFit
<1>3. Alone(r)
  BY <1>1, <1>2 DEF Alone, TypeOK
<1>4. TypeOK'
  <2>1. pc' \in [Requests -> Positions]
    BY <1>1, <1>2 DEF TypeOK, Positions, Queueing, Over
  <2>2. \A q \in Requests : Candidates[q] = << >> => pc'[q] \in {"arrived", "unrouted"}
    BY <1>1, <1>2 DEF TypeOK
  <2>3. active' \in [Kinds -> Nat]
    <3>1. active \in [Kinds -> Nat] /\ Kind[r] \in Kinds
      BY <1>1, ConstantTypes DEF TypeOK
    <3>2. QED
      BY <1>2, <3>1
  <2>4. QED
    BY <1>1, <1>2, <2>1, <2>2, <2>3 DEF TypeOK
<1>5. NoIdleLease'
  <2>1. LeasesFit(r)'
    BY <1>1, <1>2 DEF LeasesFit, TypeOK, Queueing
  <2>2. QED
    BY <1>3, <2>1, OtherLeasesFit DEF IInv
<1>6. InFlightExact' /\ WithinConcurrency'
  BY <1>2, SlotsUntouched DEF IInv
<1>7. PendingExact'
  BY <1>2, SeatsUntouched DEF IInv
<1>8. StatsBalance'
  <2>1. /\ ~WasDispatched(r) /\ ~WasDispatched(r)'
        /\ ~WasRejected(r) /\ ~WasRejected(r)'
        /\ ~GaugeCounts(r) /\ (GaugeCounts(r)' <=> pc'[r] = "check")
    BY <1>1, <1>2 DEF WasDispatched, WasRejected, GaugeCounts, TypeOK
  <2>2. \A k \in Kinds :
          active'[k] = active[k] + Change(Kind[r] = k /\ GaugeCounts(r),
                                          Kind[r] = k /\ GaugeCounts(r)')
    BY <1>1, <1>2, <2>1, ConstantTypes DEF Change, TypeOK
  <2>3. /\ dispatched' = dispatched + Change(WasDispatched(r), WasDispatched(r)')
        /\ rejected' = rejected + Change(WasRejected(r), WasRejected(r)')
        /\ waited' = waited + Change(seat[r] # "none", seat'[r] # "none")
    BY <1>1, <1>2, <2>1 DEF Change, TypeOK
  <2>4. QED
    BY <1>3, <2>2, <2>3, StatsKeep DEF StatsMove
<1>9. QED
  BY <1>4, <1>5, <1>6, <1>7, <1>8 DEF IInv

\* What every step of a request that has candidates does to the types.
Shape(r) ==
  /\ pc' = [pc EXCEPT ![r] = pc'[r]] /\ pc'[r] \in Positions
  /\ slot' = [slot EXCEPT ![r] = slot'[r]]
  /\ slot'[r] \in Upstreams \cup {NoUpstream}
  /\ seat' = [seat EXCEPT ![r] = seat'[r]]
  /\ seat'[r] \in {"none", "held", "returned"}
  /\ idx' \in [Requests -> Nat]
  /\ \A q \in Requests : Candidates[q] # << >> => idx'[q] \in DOMAIN Candidates[q]
  /\ expired' \in [Requests -> BOOLEAN]
  /\ inFlight' \in [Upstreams -> Int]
  /\ tokens' \in [Upstreams -> Nat]
  /\ open' \in [Upstreams -> BOOLEAN]
  /\ pending' \in [Kinds -> Int]
  /\ active' \in [Kinds -> Int]

\* The counters are natural numbers because they count something.
LEMMA CountersAreNat ==
  ASSUME InFlightExact', PendingExact', StatsBalance',
         inFlight' \in [Upstreams -> Int], pending' \in [Kinds -> Int],
         active' \in [Kinds -> Int]
  PROVE  /\ inFlight' \in [Upstreams -> Nat]
         /\ pending' \in [Kinds -> Nat]
         /\ active' \in [Kinds -> Nat]
         /\ dispatched' \in Nat /\ rejected' \in Nat /\ waited' \in Nat
<1>1. \A A \in SUBSET Requests : Cardinality(A) \in Nat
  BY FS_Subset, FS_CardinalityType, DispatchAssumption DEF DispatchAssumption
<1>2. \A u \in Upstreams : inFlight'[u] \in Nat
  <2>1. \A u \in Upstreams : Cardinality(Holders(u)') \in Nat
    BY <1>1 DEF Holders
  <2>2. QED
    BY <2>1 DEF InFlightExact
<1>3. \A k \in Kinds : pending'[k] \in Nat
  <2>1. \A k \in Kinds : Cardinality(Seated(k)') \in Nat
    BY <1>1 DEF Seated
  <2>2. QED
    BY <2>1 DEF PendingExact
<1>4. /\ \A k \in Kinds : active'[k] \in Nat
      /\ dispatched' \in Nat /\ rejected' \in Nat /\ waited' \in Nat
  <2>1. /\ \A k \in Kinds : Cardinality(Gauged(k)') \in Nat
        /\ Cardinality(Dispatched') \in Nat
        /\ Cardinality(Rejected') \in Nat
        /\ Cardinality(Waited') \in Nat
    BY <1>1 DEF Gauged, Dispatched, Rejected, Waited
  <2>2. QED
    BY <2>1 DEF StatsBalance, Gauged, Dispatched, Rejected, Waited
<1>5. QED
  BY <1>2, <1>3, <1>4

\* The invariant is kept by a step of one request that moves each counter by
\* what the step does to that request.
LEMMA StepKeeps ==
  ASSUME IInv, NEW r \in Requests, Candidates[r] # << >>,
         Shape(r), SlotsMove(r), SeatsMove(r), StatsMove(r), LeasesFit(r)'
  PROVE  IInv'
<1>1. TypeOK
  BY DEF IInv
<1>2. Alone(r)
  BY <1>1 DEF Alone, Shape, TypeOK
<1>3. InFlightExact' /\ WithinConcurrency'
  BY <1>2, SlotsKeep
<1>4. PendingExact'
  BY <1>2, SeatsKeep
<1>5. StatsBalance'
  BY <1>2, StatsKeep
<1>6. NoIdleLease'
  BY <1>2, OtherLeasesFit DEF IInv
<1>7. TypeOK'
  <2>1. /\ pc' \in [Requests -> Positions]
        /\ slot' \in [Requests -> Upstreams \cup {NoUpstream}]
        /\ seat' \in [Requests -> {"none", "held", "returned"}]
    BY <1>1 DEF Shape, TypeOK
  <2>2. \A q \in Requests : Candidates[q] = << >> => pc'[q] \in {"arrived", "unrouted"}
    BY <1>1, <1>2 DEF Alone, TypeOK
  <2>3. /\ inFlight' \in [Upstreams -> Nat]
        /\ pending' \in [Kinds -> Nat]
        /\ active' \in [Kinds -> Nat]
        /\ dispatched' \in Nat /\ rejected' \in Nat /\ waited' \in Nat
    BY <1>3, <1>4, <1>5, CountersAreNat DEF Shape
  <2>4. QED
    BY <2>1, <2>2, <2>3 DEF Shape, TypeOK
<1>8. QED
  BY <1>3, <1>4, <1>5, <1>6, <1>7 DEF IInv

\* Nothing moves that the step leaves alone.
LEMMA SlotsStay ==
  ASSUME IInv, NEW r \in Requests, UNCHANGED <<slot, inFlight>>
  PROVE  SlotsMove(r)
BY DEF SlotsMove, Change, IInv, TypeOK, InFlightExact, WithinConcurrency, Limited

LEMMA SeatsStay ==
  ASSUME IInv, NEW r \in Requests, UNCHANGED <<seat, pending>>
  PROVE  SeatsMove(r)
BY DEF SeatsMove, Change, IInv, TypeOK, PendingExact

LEMMA StatsStay ==
  ASSUME IInv, NEW r \in Requests, UNCHANGED stats, UNCHANGED seat,
         WasDispatched(r) <=> WasDispatched(r)', WasRejected(r) <=> WasRejected(r)',
         GaugeCounts(r) <=> GaugeCounts(r)'
  PROVE  StatsMove(r)
BY DEF StatsMove, stats, Change, IInv, TypeOK

LEMMA CheckUsableKeeps ==
  ASSUME IInv, NEW r \in Requests, CheckUsable(r)
  PROVE  IInv'
<1>1. TypeOK /\ pc[r] = "check" /\ slot[r] = NoUpstream /\ seat[r] \in {"none", "held"}
  BY DEF CheckUsable, IInv, TypeOK, NoIdleLease, LeasesFit, Queueing
<1>2. Candidates[r] # << >>
  BY <1>1, HasCandidate
<1>3. UNCHANGED <<slot, seat, expired, inFlight, tokens, open, pending, stats>>
  BY DEF CheckUsable
<1>4. /\ pc' \in [Requests -> Positions]
      /\ pc' = [pc EXCEPT ![r] = pc'[r]]
      /\ pc'[r] \in {"claim", "check", "deadline", "reserve"}
      /\ pc'[r] = "deadline" => seat[r] = "held"
      /\ pc'[r] = "reserve" => seat[r] # "held"
      /\ idx' \in [Requests -> Nat]
      /\ \A q \in Requests : Candidates[q] # << >> => idx'[q] \in DOMAIN Candidates[q]
  <2>1. CASE Refused(r)
    BY <2>1, <1>1, <1>2, RefusedFacts
  <2>2. CASE Go(r, "claim") /\ UNCHANGED idx
    BY <2>2, <1>1 DEF Go, TypeOK, Positions, Queueing
  <2>3. QED
    BY <2>1, <2>2 DEF CheckUsable
<1>5. Shape(r)
  BY <1>1, <1>3, <1>4 DEF Shape, TypeOK, stats
<1>6. SlotsMove(r) /\ SeatsMove(r)
  BY <1>3, SlotsStay, SeatsStay
<1>7. StatsMove(r)
  BY <1>1, <1>3, <1>4, StatsStay DEF WasDispatched, WasRejected, GaugeCounts
<1>8. LeasesFit(r)'
  BY <1>1, <1>3, <1>4 DEF LeasesFit, Queueing
<1>9. QED
  BY <1>2, <1>5, <1>6, <1>7, <1>8, StepKeeps

\* Granted counts the dispatch and sends the request on.
LEMMA GrantedFacts ==
  ASSUME TypeOK, NEW r \in Requests, Granted(r)
  PROVE  /\ pc' = [pc EXCEPT ![r] = pc'[r]]
         /\ pc'[r] = IF seat[r] = "held" THEN "settle" ELSE "forward"
         /\ dispatched' = dispatched + 1
         /\ UNCHANGED <<idx, rejected, waited, active>>
BY DEF Granted, Go, TypeOK

LEMMA ClaimKeeps ==
  ASSUME IInv, NEW r \in Requests, Claim(r)
  PROVE  IInv'
<1> DEFINE u == Candidate(r)
<1>1. TypeOK /\ pc[r] = "claim" /\ slot[r] = NoUpstream /\ seat[r] \in {"none", "held"}
  BY DEF Claim, IInv, TypeOK, NoIdleLease, LeasesFit, Queueing
<1>2. Candidates[r] # << >> /\ u \in Upstreams
  BY <1>1, HasCandidate
<1>3. UNCHANGED <<seat, expired, tokens, open, pending>>
  BY DEF Claim
<1>4. SeatsMove(r)
  BY <1>3, SeatsStay
<1>5. ASSUME CanClaim(u),
             slot' = [slot EXCEPT ![r] = u],
             inFlight' = IF Limited(u) THEN [inFlight EXCEPT ![u] = @ + 1] ELSE inFlight
      PROVE  /\ slot'[r] = u
             /\ inFlight' \in [Upstreams -> Int]
             /\ SlotsMove(r)
  <2>1. slot'[r] = u /\ inFlight' \in [Upstreams -> Int]
    BY <1>1, <1>2, <1>5 DEF TypeOK
  <2>2. ASSUME NEW v \in Upstreams
        PROVE  IF Limited(v)
               THEN /\ inFlight'[v] = inFlight[v] + Change(slot[r] = v, slot'[r] = v)
                    /\ inFlight'[v] <= MaxConcurrency[v]
               ELSE inFlight'[v] = 0
    <3>1. /\ inFlight[v] \in Nat /\ MaxConcurrency[v] \in Nat /\ slot[r] # v
          /\ Limited(v) => inFlight[v] <= MaxConcurrency[v]
          /\ ~Limited(v) => inFlight[v] = 0
      BY <1>1, ConstantTypes
      DEF TypeOK, IInv, InFlightExact, WithinConcurrency, Limited
    <3>2. CASE v = u
      BY <1>1, <1>2, <1>5, <2>1, <3>1, <3>2 DEF TypeOK, Change, CanClaim
    <3>3. CASE v # u
      BY <1>1, <1>2, <1>5, <2>1, <3>1, <3>3 DEF TypeOK, Change
    <3>4. QED
      BY <3>2, <3>3
  <2>3. QED
    BY <2>1, <2>2 DEF SlotsMove
<1>6. CASE /\ CanClaim(u)
           /\ slot' = [slot EXCEPT ![r] = u]
           /\ inFlight' = IF Limited(u) THEN [inFlight EXCEPT ![u] = @ + 1] ELSE inFlight
           /\ RateRpm[u] = 0 /\ Granted(r)
  <2>1. slot'[r] = u /\ inFlight' \in [Upstreams -> Int] /\ SlotsMove(r)
    BY <1>5, <1>6
  <2>2. /\ pc' = [pc EXCEPT ![r] = pc'[r]]
        /\ pc'[r] = IF seat[r] = "held" THEN "settle" ELSE "forward"
        /\ dispatched' = dispatched + 1
        /\ UNCHANGED <<idx, rejected, waited, active>>
    BY <1>1, <1>6, GrantedFacts
  <2>3. Shape(r)
    BY <1>1, <1>2, <1>3, <1>6, <2>1, <2>2 DEF Shape, TypeOK, Positions, Queueing
  <2>4. /\ ~WasDispatched(r) /\ WasDispatched(r)'
        /\ ~WasRejected(r) /\ ~WasRejected(r)'
        /\ GaugeCounts(r) /\ GaugeCounts(r)'
    BY <1>1, <1>2, <2>1, <2>2, ConstantTypes DEF WasDispatched, WasRejected, GaugeCounts
  <2>5. StatsMove(r)
    BY <1>1, <1>3, <2>2, <2>4 DEF StatsMove, Change, TypeOK
  <2>6. LeasesFit(r)'
    BY <1>1, <1>2, <1>3, <2>1, <2>2, ConstantTypes DEF LeasesFit, Queueing
  <2>7. QED
    BY <1>2, <1>4, <2>1, <2>3, <2>5, <2>6, StepKeeps
<1>7. CASE /\ CanClaim(u)
           /\ slot' = [slot EXCEPT ![r] = u]
           /\ inFlight' = IF Limited(u) THEN [inFlight EXCEPT ![u] = @ + 1] ELSE inFlight
           /\ RateRpm[u] > 0 /\ Go(r, "bucket") /\ UNCHANGED <<idx, stats>>
  <2>1. slot'[r] = u /\ inFlight' \in [Upstreams -> Int] /\ SlotsMove(r)
    BY <1>5, <1>7
  <2>2. /\ pc' = [pc EXCEPT ![r] = pc'[r]] /\ pc'[r] = "bucket"
        /\ UNCHANGED <<idx, stats>>
    BY <1>1, <1>7 DEF Go, TypeOK
  <2>3. Shape(r)
    BY <1>1, <1>2, <1>3, <1>7, <2>1, <2>2 DEF Shape, TypeOK, Positions, Queueing, stats
  <2>4. StatsMove(r)
    BY <1>1, <1>3, <2>2, StatsStay DEF WasDispatched, WasRejected, GaugeCounts
  <2>5. LeasesFit(r)'
    BY <1>1, <1>2, <1>3, <2>1, <2>2, ConstantTypes DEF LeasesFit, Queueing
  <2>6. QED
    BY <1>2, <1>4, <2>1, <2>3, <2>4, <2>5, StepKeeps
<1>8. CASE Refused(r) /\ UNCHANGED <<slot, inFlight, stats>>
  <2>1. /\ pc' \in [Requests -> Positions]
        /\ pc' = [pc EXCEPT ![r] = pc'[r]]
        /\ pc'[r] \in {"check", "deadline", "reserve"}
        /\ pc'[r] = "deadline" => seat[r] = "held"
        /\ pc'[r] = "reserve" => seat[r] # "held"
        /\ idx' \in [Requests -> Nat]
        /\ \A q \in Requests : Candidates[q] # << >> => idx'[q] \in DOMAIN Candidates[q]
    BY <1>1, <1>2, <1>8, RefusedFacts
  <2>2. Shape(r)
    BY <1>1, <1>3, <1>8, <2>1 DEF Shape, TypeOK, stats
  <2>3. SlotsMove(r)
    BY <1>8, SlotsStay
  <2>4. StatsMove(r)
    BY <1>1, <1>3, <1>8, <2>1, StatsStay DEF WasDispatched, WasRejected, GaugeCounts
  <2>5. LeasesFit(r)'
    BY <1>1, <1>3, <1>8, <2>1 DEF LeasesFit, Queueing
  <2>6. QED
    BY <1>2, <1>4, <2>2, <2>3, <2>4, <2>5, StepKeeps
<1>9. QED
  BY <1>6, <1>7, <1>8 DEF Claim

\* Giving a claim back moves in_flight by exactly that claim.
LEMMA GiveBackFacts ==
  ASSUME IInv, NEW r \in Requests, slot[r] \in Upstreams, GiveBack(r)
  PROVE  /\ slot' = [slot EXCEPT ![r] = slot'[r]] /\ slot'[r] = NoUpstream
         /\ inFlight' \in [Upstreams -> Int]
         /\ SlotsMove(r)
<1> DEFINE u == slot[r]
<1>1. TypeOK /\ NoUpstream \notin Upstreams
  BY ConstantTypes DEF IInv
<1>2. /\ slot' = [slot EXCEPT ![r] = slot'[r]] /\ slot'[r] = NoUpstream
      /\ inFlight' = IF Limited(u) THEN [inFlight EXCEPT ![u] = @ - 1] ELSE inFlight
  BY <1>1 DEF GiveBack, TypeOK
<1>3. inFlight' \in [Upstreams -> Int]
  BY <1>1, <1>2 DEF TypeOK
<1>4. ASSUME NEW v \in Upstreams
      PROVE  IF Limited(v)
             THEN /\ inFlight'[v] = inFlight[v] + Change(slot[r] = v, slot'[r] = v)
                  /\ inFlight'[v] <= MaxConcurrency[v]
             ELSE inFlight'[v] = 0
  <2>1. /\ inFlight[v] \in Nat /\ MaxConcurrency[v] \in Nat
        /\ Limited(v) => inFlight[v] <= MaxConcurrency[v]
        /\ ~Limited(v) => inFlight[v] = 0
    BY <1>1, ConstantTypes DEF TypeOK, IInv, InFlightExact, WithinConcurrency, Limited
  <2>2. inFlight'[v] = IF v = u /\ Limited(v) THEN inFlight[v] - 1 ELSE inFlight[v]
    BY <1>1, <1>2 DEF TypeOK
  <2>3. QED
    BY <1>1, <1>2, <2>1, <2>2 DEF Change
<1>5. QED
  BY <1>2, <1>3, <1>4 DEF SlotsMove

LEMMA TakeTokenKeeps ==
  ASSUME IInv, NEW r \in Requests, TakeToken(r)
  PROVE  IInv'
<1> DEFINE u == slot[r]
<1>1. /\ TypeOK /\ pc[r] = "bucket" /\ u \in Upstreams /\ u # NoUpstream
      /\ seat[r] \in {"none", "held"}
  BY DEF TakeToken, IInv, TypeOK, NoIdleLease, LeasesFit, Queueing
<1>2. Candidates[r] # << >>
  BY <1>1, HasCandidate
<1>3. UNCHANGED <<seat, expired, open, pending>>
  BY DEF TakeToken
<1>4. SeatsMove(r)
  BY <1>3, SeatsStay
<1>5. CASE /\ tokens[u] >= OneToken
           /\ tokens' = [tokens EXCEPT ![u] = @ - OneToken]
           /\ Granted(r)
           /\ UNCHANGED <<slot, inFlight>>
  <2>1. /\ pc' = [pc EXCEPT ![r] = pc'[r]]
        /\ pc'[r] = IF seat[r] = "held" THEN "settle" ELSE "forward"
        /\ dispatched' = dispatched + 1
        /\ UNCHANGED <<idx, rejected, waited, active>>
    BY <1>1, <1>5, GrantedFacts
  <2>2. tokens' \in [Upstreams -> Nat]
    BY <1>1, <1>5 DEF TypeOK, OneToken
  <2>3. Shape(r)
    BY <1>1, <1>3, <1>5, <2>1, <2>2 DEF Shape, TypeOK, Positions, Queueing
  <2>4. /\ ~WasDispatched(r) /\ WasDispatched(r)'
        /\ ~WasRejected(r) /\ ~WasRejected(r)'
        /\ GaugeCounts(r) /\ GaugeCounts(r)'
    BY <1>1, <1>5, <2>1 DEF WasDispatched, WasRejected, GaugeCounts
  <2>5. StatsMove(r)
    BY <1>1, <1>3, <2>1, <2>4 DEF StatsMove, Change, TypeOK
  <2>6. LeasesFit(r)'
    BY <1>1, <1>3, <1>5, <2>1 DEF LeasesFit, Queueing
  <2>7. SlotsMove(r)
    BY <1>5, SlotsStay
  <2>8. QED
    BY <1>2, <1>4, <2>3, <2>5, <2>6, <2>7, StepKeeps
<1>6. CASE /\ GiveBack(r)
           /\ Refused(r)
           /\ UNCHANGED <<tokens, stats>>
  <2>1. /\ pc' \in [Requests -> Positions]
        /\ pc' = [pc EXCEPT ![r] = pc'[r]]
        /\ pc'[r] \in {"check", "deadline", "reserve"}
        /\ pc'[r] = "deadline" => seat[r] = "held"
        /\ pc'[r] = "reserve" => seat[r] # "held"
        /\ idx' \in [Requests -> Nat]
        /\ \A q \in Requests : Candidates[q] # << >> => idx'[q] \in DOMAIN Candidates[q]
    BY <1>1, <1>2, <1>6, RefusedFacts
  <2>2. /\ slot' = [slot EXCEPT ![r] = slot'[r]] /\ slot'[r] = NoUpstream
        /\ inFlight' \in [Upstreams -> Int]
        /\ SlotsMove(r)
    BY <1>1, <1>6, GiveBackFacts
  <2>3. Shape(r)
    BY <1>1, <1>3, <1>6, <2>1, <2>2 DEF Shape, TypeOK, stats
  <2>4. StatsMove(r)
    BY <1>1, <1>3, <1>6, <2>1, StatsStay DEF WasDispatched, WasRejected, GaugeCounts
  <2>5. LeasesFit(r)'
    BY <1>1, <1>3, <2>1, <2>2 DEF LeasesFit, Queueing
  <2>6. QED
    BY <1>2, <1>4, <2>2, <2>3, <2>4, <2>5, StepKeeps
<1>7. QED
  BY <1>5, <1>6 DEF TakeToken

LEMMA ReserveKeeps ==
  ASSUME IInv, NEW r \in Requests, Reserve(r)
  PROVE  IInv'
<1> DEFINE k == Kind[r]
<1>1. TypeOK /\ pc[r] = "reserve" /\ slot[r] = NoUpstream /\ seat[r] = "none"
  BY DEF Reserve, IInv, TypeOK, NoIdleLease, LeasesFit, Queueing
<1>2. Candidates[r] # << >> /\ k \in Kinds /\ MaxQueue \in Nat
  BY <1>1, HasCandidate, ConstantTypes
<1>3. UNCHANGED <<idx, slot, expired, inFlight, tokens, open, dispatched, active>>
  BY DEF Reserve
<1>4. SlotsMove(r)
  BY <1>3, SlotsStay
<1>5. CASE /\ rejected' = rejected + 1
           /\ Go(r, "rejected")
           /\ UNCHANGED <<seat, pending, waited>>
  <2>1. pc' = [pc EXCEPT ![r] = pc'[r]] /\ pc'[r] = "rejected"
    BY <1>1, <1>5 DEF Go, TypeOK
  <2>2. Shape(r)
    BY <1>1, <1>3, <1>5, <2>1 DEF Shape, TypeOK, Positions, Over
  <2>3. SeatsMove(r)
    BY <1>5, SeatsStay
  <2>4. /\ ~WasDispatched(r) /\ ~WasDispatched(r)'
        /\ ~WasRejected(r) /\ WasRejected(r)'
        /\ GaugeCounts(r) /\ GaugeCounts(r)'
    BY <1>1, <1>3, <2>1 DEF WasDispatched, WasRejected, GaugeCounts
  <2>5. StatsMove(r)
    BY <1>1, <1>3, <1>5, <2>4 DEF StatsMove, Change, TypeOK
  <2>6. LeasesFit(r)'
    BY <1>1, <1>3, <1>5, <2>1 DEF LeasesFit, Queueing
  <2>7. QED
    BY <1>2, <1>4, <2>2, <2>3, <2>5, <2>6, StepKeeps
<1>6. CASE /\ ~QueueFull(k)
           /\ pending' = [pending EXCEPT ![k] = @ + 1]
           /\ waited' = waited + 1
           /\ seat' = [seat EXCEPT ![r] = "held"]
           /\ Go(r, "check")
           /\ UNCHANGED rejected
  <2>1. /\ pc' = [pc EXCEPT ![r] = pc'[r]] /\ pc'[r] = "check"
        /\ seat' = [seat EXCEPT ![r] = seat'[r]] /\ seat'[r] = "held"
    BY <1>1, <1>6 DEF Go, TypeOK
  <2>2. pending' \in [Kinds -> Int]
    BY <1>1, <1>2, <1>6 DEF TypeOK
  <2>3. Shape(r)
    BY <1>1, <1>3, <2>1, <2>2 DEF Shape, TypeOK, Positions, Queueing
  <2>4. SeatsMove(r)
    <3>1. ASSUME NEW j \in Kinds
          PROVE  /\ pending'[j] = pending[j] + Change(Kind[r] = j /\ seat[r] = "held",
                                                      Kind[r] = j /\ seat'[r] = "held")
                 /\ MaxQueue > 0 => pending'[j] <= MaxQueue
      <4>1. pending[j] \in Nat /\ (MaxQueue > 0 => pending[j] <= MaxQueue)
        BY <1>1 DEF TypeOK, IInv, PendingExact
      <4>2. pending'[j] = IF j = k THEN pending[j] + 1 ELSE pending[j]
        BY <1>1, <1>2, <1>6 DEF TypeOK
      <4>3. j = k /\ MaxQueue > 0 => pending[j] < MaxQueue
        BY <1>2, <1>6, <4>1 DEF QueueFull
      <4>4. QED
        BY <1>1, <1>2, <2>1, <4>1, <4>2, <4>3 DEF Change
    <3>2. QED
      BY <3>1 DEF SeatsMove
  <2>5. /\ ~WasDispatched(r) /\ ~WasDispatched(r)'
        /\ ~WasRejected(r) /\ ~WasRejected(r)'
        /\ GaugeCounts(r) /\ GaugeCounts(r)'
    BY <1>1, <1>3, <2>1 DEF WasDispatched, WasRejected, GaugeCounts
  <2>6. StatsMove(r)
    BY <1>1, <1>3, <1>6, <2>1, <2>5 DEF StatsMove, Change, TypeOK
  <2>7. LeasesFit(r)'
    BY <1>1, <1>3, <2>1 DEF LeasesFit, Queueing
  <2>8. QED
    BY <1>2, <1>4, <2>3, <2>4, <2>6, <2>7, StepKeeps
<1>7. QED
  BY <1>5, <1>6 DEF Reserve

LEMMA DeadlineKeeps ==
  ASSUME IInv, NEW r \in Requests, Deadline(r)
  PROVE  IInv'
<1>1. TypeOK /\ pc[r] = "deadline" /\ slot[r] = NoUpstream /\ seat[r] = "held"
  BY DEF Deadline, IInv, TypeOK, NoIdleLease, LeasesFit
<1>2. Candidates[r] # << >>
  BY <1>1, HasCandidate
<1>3. UNCHANGED <<idx, slot, seat, expired, inFlight, tokens, open, pending,
                  dispatched, waited, active>>
  BY DEF Deadline
<1>4. /\ pc' = [pc EXCEPT ![r] = pc'[r]]
      /\ \/ pc'[r] = "settle" /\ rejected' = rejected + 1
         \/ pc'[r] = "asleep" /\ rejected' = rejected
  BY <1>1 DEF Deadline, Go, TypeOK
<1>5. Shape(r)
  BY <1>1, <1>3, <1>4 DEF Shape, TypeOK, Positions, Queueing
<1>6. SlotsMove(r) /\ SeatsMove(r)
  BY <1>3, SlotsStay, SeatsStay
<1>7. /\ ~WasDispatched(r) /\ ~WasDispatched(r)'
      /\ ~WasRejected(r) /\ (WasRejected(r)' <=> pc'[r] = "settle")
      /\ GaugeCounts(r) /\ GaugeCounts(r)'
  BY <1>1, <1>3, <1>4 DEF WasDispatched, WasRejected, GaugeCounts
<1>8. StatsMove(r)
  BY <1>1, <1>3, <1>4, <1>7 DEF StatsMove, Change, TypeOK
<1>9. LeasesFit(r)'
  BY <1>1, <1>3, <1>4 DEF LeasesFit, Queueing
<1>10. QED
  BY <1>2, <1>5, <1>6, <1>8, <1>9, StepKeeps

LEMMA BackOffKeeps ==
  ASSUME IInv, NEW r \in Requests, BackOff(r)
  PROVE  IInv'
<1>1. TypeOK /\ pc[r] = "asleep" /\ slot[r] = NoUpstream /\ seat[r] = "held"
  BY DEF BackOff, IInv, TypeOK, NoIdleLease, LeasesFit
<1>2. Candidates[r] # << >>
  BY <1>1, HasCandidate
<1>3. /\ UNCHANGED <<idx, slot, seat, expired, inFlight, tokens, open, pending, stats>>
      /\ pc' = [pc EXCEPT ![r] = pc'[r]] /\ pc'[r] = "check"
  BY <1>1 DEF BackOff, Go, TypeOK
<1>4. Shape(r)
  BY <1>1, <1>3 DEF Shape, TypeOK, Positions, Queueing, stats
<1>5. SlotsMove(r) /\ SeatsMove(r)
  BY <1>3, SlotsStay, SeatsStay
<1>6. StatsMove(r)
  BY <1>1, <1>3, StatsStay DEF WasDispatched, WasRejected, GaugeCounts
<1>7. LeasesFit(r)'
  BY <1>1, <1>3 DEF LeasesFit, Queueing
<1>8. QED
  BY <1>2, <1>4, <1>5, <1>6, <1>7, StepKeeps

LEMMA SettleKeeps ==
  ASSUME IInv, NEW r \in Requests, Settle(r)
  PROVE  IInv'
<1> DEFINE k == Kind[r]
<1>1. TypeOK /\ pc[r] = "settle" /\ seat[r] = "held"
  BY DEF Settle, IInv, TypeOK, NoIdleLease, LeasesFit
<1>2. Candidates[r] # << >> /\ k \in Kinds /\ MaxQueue \in Nat
  BY <1>1, HasCandidate, ConstantTypes
<1>3. UNCHANGED <<idx, slot, expired, inFlight, tokens, open, stats>>
  BY DEF Settle
<1>4. /\ pc' = [pc EXCEPT ![r] = pc'[r]]
      /\ pc'[r] = IF slot[r] = NoUpstream THEN "rejected" ELSE "forward"
      /\ seat' = [seat EXCEPT ![r] = seat'[r]] /\ seat'[r] = "returned"
      /\ pending' = [pending EXCEPT ![k] = IF @ > 0 THEN @ - 1 ELSE 0]
  BY <1>1 DEF Settle, Go, TypeOK
<1>5. pending[k] > 0
  <2>1. r \in Seated(k) /\ Seated(k) \in SUBSET Requests
    BY <1>1 DEF Seated
  <2>2. IsFiniteSet(Seated(k))
    BY <2>1, FS_Subset, DispatchAssumption DEF DispatchAssumption
  <2>3. Cardinality(Seated(k)) # 0 /\ Cardinality(Seated(k)) \in Nat
    BY <2>1, <2>2, FS_EmptySet, FS_CardinalityType
  <2>4. QED
    BY <1>2, <2>3 DEF IInv, PendingExact
<1>6. pending' \in [Kinds -> Int]
  BY <1>1, <1>2, <1>4 DEF TypeOK
<1>7. Shape(r)
  BY <1>1, <1>3, <1>4, <1>6 DEF Shape, TypeOK, Positions, Over, stats
<1>8. SlotsMove(r)
  BY <1>3, SlotsStay
<1>9. SeatsMove(r)
  <2>1. ASSUME NEW j \in Kinds
        PROVE  /\ pending'[j] = pending[j] + Change(Kind[r] = j /\ seat[r] = "held",
                                                    Kind[r] = j /\ seat'[r] = "held")
               /\ MaxQueue > 0 => pending'[j] <= MaxQueue
    <3>1. pending[j] \in Nat /\ (MaxQueue > 0 => pending[j] <= MaxQueue)
      BY <1>1 DEF TypeOK, IInv, PendingExact
    <3>2. pending'[j] = IF j = k THEN pending[j] - 1 ELSE pending[j]
      BY <1>1, <1>2, <1>4, <1>5 DEF TypeOK
    <3>3. QED
      BY <1>1, <1>2, <1>4, <3>1, <3>2 DEF Change
  <2>2. QED
    BY <2>1 DEF SeatsMove
<1>10. /\ WasDispatched(r) <=> WasDispatched(r)'
       /\ WasRejected(r) <=> WasRejected(r)'
       /\ GaugeCounts(r) /\ GaugeCounts(r)'
  BY <1>1, <1>3, <1>4 DEF WasDispatched, WasRejected, GaugeCounts
<1>11. StatsMove(r)
  BY <1>1, <1>3, <1>4, <1>10 DEF StatsMove, Change, TypeOK, stats
<1>12. LeasesFit(r)'
  BY <1>1, <1>3, <1>4 DEF LeasesFit, Queueing
<1>13. QED
  BY <1>2, <1>7, <1>8, <1>9, <1>11, <1>12, StepKeeps

LEMMA RespondKeeps ==
  ASSUME IInv, NEW r \in Requests, Respond(r)
  PROVE  IInv'
<1>1. /\ TypeOK /\ pc[r] = "forward" /\ slot[r] \in Upstreams
      /\ seat[r] \in {"none", "returned"}
  BY DEF Respond, IInv, TypeOK, NoIdleLease, LeasesFit, Queueing
<1>2. Candidates[r] # << >> /\ Kind[r] \in Kinds
  BY <1>1, HasCandidate, ConstantTypes
<1>3. /\ UNCHANGED <<idx, seat, expired, tokens, open, pending,
                     dispatched, rejected, waited>>
      /\ active' = [active EXCEPT ![Kind[r]] = @ - 1]
      /\ pc' = [pc EXCEPT ![r] = pc'[r]] /\ pc'[r] = "answered"
  BY <1>1 DEF Respond, Go, TypeOK
<1>4. /\ slot' = [slot EXCEPT ![r] = slot'[r]] /\ slot'[r] = NoUpstream
      /\ inFlight' \in [Upstreams -> Int]
      /\ SlotsMove(r)
  BY <1>1, GiveBackFacts DEF Respond
<1>5. active' \in [Kinds -> Int]
  BY <1>1, <1>2, <1>3 DEF TypeOK
<1>6. Shape(r)
  BY <1>1, <1>3, <1>4, <1>5 DEF Shape, TypeOK, Positions, Over
<1>7. SeatsMove(r)
  BY <1>3, SeatsStay
<1>8. /\ WasDispatched(r) /\ WasDispatched(r)'
      /\ ~WasRejected(r) /\ ~WasRejected(r)'
      /\ GaugeCounts(r) /\ ~GaugeCounts(r)'
  BY <1>1, <1>3 DEF WasDispatched, WasRejected, GaugeCounts
<1>9. StatsMove(r)
  BY <1>1, <1>2, <1>3, <1>8 DEF StatsMove, Change, TypeOK
<1>10. LeasesFit(r)'
  BY <1>1, <1>3, <1>4 DEF LeasesFit, Queueing
<1>11. QED
  BY <1>2, <1>4, <1>6, <1>7, <1>9, <1>10, StepKeeps

LEMMA DisconnectKeeps ==
  ASSUME IInv, NEW r \in Requests, Disconnect(r)
  PROVE  IInv'
<1>1. /\ TypeOK /\ pc[r] \in {"asleep", "forward"}
      /\ pc[r] = "asleep" <=> slot[r] = NoUpstream
  BY DEF Disconnect, IInv, TypeOK, NoIdleLease, LeasesFit
<1>2. Candidates[r] # << >>
  BY <1>1, HasCandidate
<1>3. /\ UNCHANGED <<idx, slot, seat, expired, inFlight, tokens, open, pending, stats>>
      /\ pc' = [pc EXCEPT ![r] = pc'[r]] /\ pc'[r] = "gone"
  BY <1>1 DEF Disconnect, Go, TypeOK
<1>4. Shape(r)
  BY <1>1, <1>3 DEF Shape, TypeOK, Positions, Over, stats
<1>5. SlotsMove(r) /\ SeatsMove(r)
  BY <1>3, SlotsStay, SeatsStay
<1>6. StatsMove(r)
  BY <1>1, <1>3, StatsStay DEF WasDispatched, WasRejected, GaugeCounts
<1>7. LeasesFit(r)'
  BY <1>1, <1>3 DEF LeasesFit, Queueing
<1>8. QED
  BY <1>2, <1>4, <1>5, <1>6, <1>7, StepKeeps

LEMMA ExpireKeeps ==
  ASSUME IInv, NEW r \in Requests, Expire(r)
  PROVE  IInv'
<1>1. TypeOK /\ LeasesFit(r)
  BY DEF IInv, NoIdleLease
<1>2. Candidates[r] # << >>
  BY <1>1, HasCandidate DEF LeasesFit, Queueing, Expire
<1>3. /\ UNCHANGED <<pc, idx, slot, seat, inFlight, tokens, open, pending, stats>>
      /\ expired' \in [Requests -> BOOLEAN]
  BY <1>1 DEF Expire, TypeOK
<1>4. Shape(r)
  BY <1>1, <1>3 DEF Shape, TypeOK, stats
<1>5. SlotsMove(r) /\ SeatsMove(r)
  BY <1>3, SlotsStay, SeatsStay
<1>6. StatsMove(r)
  BY <1>3, StatsStay DEF WasDispatched, WasRejected, GaugeCounts
<1>7. LeasesFit(r)'
  BY <1>1, <1>3 DEF LeasesFit
<1>8. QED
  BY <1>2, <1>4, <1>5, <1>6, <1>7, StepKeeps

\* A step that changes none of the sets, nor any counter.
LEMMA NobodyMoves ==
  ASSUME IInv,
         UNCHANGED <<idx, slot, seat, expired, inFlight, pending, stats>>,
         tokens' \in [Upstreams -> Nat], open' \in [Upstreams -> BOOLEAN],
         pc' \in [Requests -> Positions],
         \A q \in Requests :
           pc'[q] = pc[q] \/ (pc[q] = "asleep" /\ pc'[q] = "check")
  PROVE  IInv'
<1>1. TypeOK
  BY DEF IInv
<1>2. TypeOK'
  <2>1. \A q \in Requests : Candidates[q] = << >> => pc'[q] \in {"arrived", "unrouted"}
    BY <1>1 DEF TypeOK
  <2>2. QED
    BY <1>1, <2>1 DEF TypeOK, stats
<1>3. InFlightExact' /\ WithinConcurrency' /\ PendingExact'
  BY SlotsUntouched, SeatsUntouched DEF IInv
<1>4. NoIdleLease'
  BY DEF IInv, NoIdleLease, LeasesFit, Queueing
<1>5. StatsBalance'
  <2>1. ASSUME NEW q \in Requests
        PROVE  /\ WasDispatched(q) <=> WasDispatched(q)'
               /\ WasRejected(q) <=> WasRejected(q)'
               /\ GaugeCounts(q) <=> GaugeCounts(q)'
    <3>1. slot'[q] = slot[q] /\ (pc'[q] = pc[q] \/ (pc[q] = "asleep" /\ pc'[q] = "check"))
      OBVIOUS
    <3>2. QED
      BY <3>1 DEF WasDispatched, WasRejected, GaugeCounts
  <2>2. /\ Dispatched' = Dispatched /\ Rejected' = Rejected /\ Waited' = Waited
        /\ \A k \in Kinds : Gauged(k)' = Gauged(k)
    BY <2>1 DEF Dispatched, Rejected, Waited, Gauged
  <2>3. /\ dispatched' = Cardinality(Dispatched')
        /\ rejected' = Cardinality(Rejected')
        /\ waited' = Cardinality(Waited')
        /\ \A k \in Kinds : active'[k] = Cardinality(Gauged(k)')
    BY <2>2 DEF IInv, StatsBalance, stats, Dispatched, Rejected, Waited, Gauged
  <2>4. QED
    BY <2>3 DEF StatsBalance, Dispatched, Rejected, Waited, Gauged
<1>6. QED
  BY <1>2, <1>3, <1>4, <1>5 DEF IInv

LEMMA RefillKeeps ==
  ASSUME IInv, NEW u \in Upstreams, Refill(u)
  PROVE  IInv'
<1>1. TypeOK /\ RateRpm[u] \in Nat /\ RefillStep \in Nat
  BY ConstantTypes DEF IInv
<1>2. tokens' \in [Upstreams -> Nat]
  BY <1>1 DEF Refill, TypeOK, BucketCapacity
<1>3. /\ UNCHANGED <<pc, idx, slot, seat, expired, inFlight, pending, stats>>
      /\ tokens' \in [Upstreams -> Nat] /\ open' \in [Upstreams -> BOOLEAN]
      /\ pc' \in [Requests -> Positions]
  BY <1>1, <1>2 DEF Refill, local, TypeOK
<1>4. QED
  BY <1>3, NobodyMoves

LEMMA FlipKeeps ==
  ASSUME IInv, NEW u \in Upstreams, Flip(u)
  PROVE  IInv'
<1>1. TypeOK
  BY DEF IInv
<1>2. open' \in [Upstreams -> BOOLEAN]
  BY <1>1 DEF Flip, TypeOK
<1>3. /\ UNCHANGED <<pc, idx, slot, seat, expired, inFlight, pending, stats>>
      /\ tokens' \in [Upstreams -> Nat] /\ open' \in [Upstreams -> BOOLEAN]
      /\ pc' \in [Requests -> Positions]
  BY <1>1, <1>2 DEF Flip, local, TypeOK
<1>4. QED
  BY <1>3, NobodyMoves

LEMMA NotifyChangeKeeps ==
  ASSUME IInv, NotifyChange
  PROVE  IInv'
<1>1. TypeOK
  BY DEF IInv
<1>2. pc' = [r \in Requests |-> IF pc[r] = "asleep" THEN "check" ELSE pc[r]]
  BY DEF NotifyChange
<1>3. \A q \in Requests : pc'[q] = pc[q] \/ (pc[q] = "asleep" /\ pc'[q] = "check")
  BY <1>2
<1>4. pc' \in [Requests -> Positions]
  BY <1>1, <1>2 DEF TypeOK, Positions, Queueing
<1>5. /\ UNCHANGED <<idx, slot, seat, expired, inFlight, tokens, open, pending, stats>>
      /\ tokens' \in [Upstreams -> Nat] /\ open' \in [Upstreams -> BOOLEAN]
  BY <1>1 DEF NotifyChange, TypeOK
<1>6. QED
  BY <1>3, <1>4, <1>5, NobodyMoves

LEMMA StutterKeeps ==
  ASSUME IInv, UNCHANGED vars
  PROVE  IInv'
<1>1. TypeOK
  BY DEF IInv
<1>2. /\ UNCHANGED <<pc, idx, slot, seat, expired, inFlight, pending, stats>>
      /\ tokens' \in [Upstreams -> Nat] /\ open' \in [Upstreams -> BOOLEAN]
      /\ pc' \in [Requests -> Positions]
  BY <1>1 DEF vars, local, TypeOK
<1>3. QED
  BY <1>2, NobodyMoves

-----------------------------------------------------------------------------
\* IInv holds in every reachable state.
THEOREM Invariance == Spec => []IInv
<1>1. Init => IInv
  BY InitIInv
<1>2. IInv /\ [Next]_vars => IInv'
  <2> SUFFICES ASSUME IInv, [Next]_vars PROVE IInv'
    OBVIOUS
  <2>1. ASSUME NEW r \in Requests, Step(r) PROVE IInv'
    BY <2>1, RouteKeeps, CheckUsableKeeps, ClaimKeeps, TakeTokenKeeps, ReserveKeeps,
       DeadlineKeeps, BackOffKeeps, SettleKeeps, RespondKeeps DEF Step
  <2>2. ASSUME NEW r \in Requests, Disconnect(r) \/ Expire(r) PROVE IInv'
    BY <2>2, DisconnectKeeps, ExpireKeeps
  <2>3. ASSUME NEW u \in Upstreams, Refill(u) \/ Flip(u) PROVE IInv'
    BY <2>3, RefillKeeps, FlipKeeps
  <2>4. CASE NotifyChange
    BY <2>4, NotifyChangeKeeps
  <2>5. CASE UNCHANGED vars
    BY <2>5, StutterKeeps
  <2>6. QED
    BY <2>1, <2>2, <2>3, <2>4, <2>5 DEF Next
<1>3. QED
  BY <1>1, <1>2, PTL DEF Spec

\* The variables keep their types; with the other parts of IInv this says that
\* no counter of the code ever wraps below zero.
THEOREM TypeCorrect == Spec => []TypeOK
BY Invariance, PTL DEF IInv

\* The two-step test-then-claim of try_acquire respects max_concurrency, for any
\* number of upstreams and requests and any limits.
THEOREM ConcurrencyBounded == Spec => []WithinConcurrency
BY Invariance, PTL DEF IInv

\* in_flight is the number of outstanding claims, for any instance.
THEOREM InFlightCountsClaims == Spec => []InFlightExact
BY Invariance, PTL DEF IInv

\* pending_waits is the number of taken waiting places and within
\* max_queue_per_provider, for any instance.
THEOREM PendingCountsSeats == Spec => []PendingExact
BY Invariance, PTL DEF IInv

\* Claims and waiting places are held only where the code needs them.
THEOREM LeasesAreUsed == Spec => []NoIdleLease
BY Invariance, PTL DEF IInv

\* QueueStats and the gauge account for every request.
THEOREM StatsAreBalanced == Spec => []StatsBalance
BY Invariance, PTL DEF IInv

-----------------------------------------------------------------------------
\* Dispatch implements SlotLease twice, with the slots of the upstreams and with
\* the waiting places of the providers: every initial state of Dispatch is one of
\* SlotLease, and every step is a step or a stutter.

\* A request hangs up, or the set of those that did stays as it is.
LEMMA GoneMoves ==
  ASSUME TypeOK, NEW r \in Requests, pc' = [pc EXCEPT ![r] = pc'[r]],
         pc[r] # "gone", pc'[r] # "gone"
  PROVE  Gone' = Gone /\ r \notin Gone
BY DEF TypeOK, Gone

\* No task moves a request that hung up, and none but Disconnect makes one so.
LEMMA StepIsNotLoss ==
  ASSUME TypeOK, NEW r \in Requests, Step(r)
  PROVE  Gone' = Gone /\ r \notin Gone
<1>1. pc \in [Requests -> Positions]
  BY DEF TypeOK
<1>2. /\ pc' = [pc EXCEPT ![r] = pc'[r]]
      /\ pc[r] # "gone" /\ pc'[r] # "gone"
  <2>1. CASE Route(r) \/ Deadline(r) \/ BackOff(r) \/ Settle(r) \/ Respond(r) \/ Reserve(r)
    BY <1>1, <2>1 DEF Route, Deadline, BackOff, Settle, Respond, Reserve, Go
  <2>2. CASE CheckUsable(r)
    BY <1>1, <2>2 DEF CheckUsable, Refused, Go
  <2>3. CASE Claim(r)
    BY <1>1, <2>3 DEF Claim, Refused, Granted, Go
  <2>4. CASE TakeToken(r)
    BY <1>1, <2>4 DEF TakeToken, Refused, Granted, Go
  <2>5. QED
    BY <2>1, <2>2, <2>3, <2>4 DEF Step
<1>3. QED
  BY <1>2, GoneMoves

-----------------------------------------------------------------------------
\* An instance of SlotLease counts as this module does.
LEMMA SameCardinality ==
  ASSUME NEW S
  PROVE  Slots!Cardinality(S) = Cardinality(S) /\ Seats!Cardinality(S) = Cardinality(S)
BY DEF Slots!Cardinality, Seats!Cardinality, Cardinality

\* Taking and giving back a slot, as SlotLease has it.
LEMMA SlotStep ==
  ASSUME IInv, NEW r \in Requests, Step(r)
  PROVE  [Slots!Next]_(Slots!vars)
<1>1. TypeOK /\ Gone' = Gone /\ r \notin Gone
  BY StepIsNotLoss DEF IInv
<1>2. CASE UNCHANGED slot
  BY <1>1, <1>2 DEF Slots!vars
<1>3. CASE /\ pc[r] = "claim" /\ CanClaim(Candidate(r))
           /\ slot' = [slot EXCEPT ![r] = Candidate(r)]
  <2> DEFINE u == Candidate(r)
  <2>1. u \in Upstreams /\ slot[r] = NoUpstream
    BY <1>1, <1>3, HasCandidate DEF IInv, NoIdleLease, LeasesFit
  <2>2. Slots!Holders(u) = Holders(u)
    BY DEF Slots!Holders, Holders
  <2>3. MaxConcurrency[u] > 0 => Cardinality(Slots!Holders(u)) < MaxConcurrency[u]
    BY <1>3, <2>1, <2>2 DEF CanClaim, Limited, IInv, InFlightExact
  <2>4. Slots!Take(r, u)
    BY <1>1, <1>3, <2>1, <2>3, SameCardinality DEF Slots!Take
  <2>5. QED
    BY <2>1, <2>4 DEF Slots!Next
<1>4. CASE pc[r] \in {"bucket", "forward"} /\ GiveBack(r)
  <2>1. slot[r] # NoUpstream
    BY <1>4 DEF IInv, NoIdleLease, LeasesFit
  <2>2. Slots!Return(r)
    BY <1>1, <1>4, <2>1 DEF Slots!Return, GiveBack
  <2>3. QED
    BY <2>2 DEF Slots!Next
<1>5. QED
  BY <1>2, <1>3, <1>4 DEF Step, Route, CheckUsable, Claim, TakeToken, Reserve,
     Deadline, BackOff, Settle, Respond

\* The same of waiting places.
Seating == [q \in Requests |-> IF seat[q] = "held" THEN Kind[q] ELSE NoUpstream]
SeatCapacity == [j \in Kinds |-> MaxQueue]

LEMMA SeatStep ==
  ASSUME IInv, NEW r \in Requests, Step(r)
  PROVE  [Seats!Next]_(Seats!vars)
<1>1. TypeOK /\ Gone' = Gone /\ r \notin Gone
  BY StepIsNotLoss DEF IInv
<1>2. Kind[r] \in Kinds /\ Kind[r] # NoUpstream
  BY DispatchAssumption DEF DispatchAssumption
<1>3. CASE UNCHANGED seat
  BY <1>1, <1>3 DEF Seats!vars
<1>4. CASE /\ pc[r] = "reserve" /\ ~QueueFull(Kind[r])
           /\ seat' = [seat EXCEPT ![r] = "held"]
  <2> DEFINE k == Kind[r]
  <2>1. seat[r] = "none" /\ seat \in [Requests -> {"none", "held", "returned"}]
    BY <1>1, <1>4 DEF IInv, NoIdleLease, LeasesFit, TypeOK
  <2>2. Seats!Holders(k) = Seated(k)
    BY <1>2, DispatchAssumption DEF Seats!Holders, Seated, DispatchAssumption
  <2>3. MaxQueue > 0 => Cardinality(Seats!Holders(k)) < MaxQueue
    <3>1. pending[k] \in Nat /\ pending[k] = Cardinality(Seated(k)) /\ MaxQueue \in Nat
      BY <1>1, <1>2, ConstantTypes DEF TypeOK, IInv, PendingExact
    <3>2. QED
      BY <1>4, <2>2, <3>1 DEF QueueFull
  <2>4. Seating[r] = NoUpstream /\ Seating' = [Seating EXCEPT ![r] = k]
    BY <1>2, <1>4, <2>1 DEF Seating
  <2>5. Seats!Take(r, k)
    BY <1>1, <1>2, <2>3, <2>4, SameCardinality DEF Seats!Take, Seating
  <2>6. QED
    BY <1>2, <2>5 DEF Seats!Next
<1>5. CASE pc[r] = "settle" /\ seat' = [seat EXCEPT ![r] = "returned"]
  <2>1. seat[r] = "held" /\ seat \in [Requests -> {"none", "held", "returned"}]
    BY <1>1, <1>5 DEF IInv, NoIdleLease, LeasesFit, TypeOK
  <2>2. Seating[r] # NoUpstream /\ Seating' = [Seating EXCEPT ![r] = NoUpstream]
    BY <1>2, <1>5, <2>1 DEF Seating
  <2>3. Seats!Return(r)
    BY <1>1, <2>2 DEF Seats!Return, Seating
  <2>4. QED
    BY <2>3 DEF Seats!Next
<1>6. QED
  BY <1>3, <1>4, <1>5 DEF Step, Route, CheckUsable, Claim, TakeToken, Reserve,
     Deadline, BackOff, Settle, Respond

\* A request that hangs up loses what it holds.
LEMMA LossStep ==
  ASSUME IInv, NEW r \in Requests, Disconnect(r)
  PROVE  [Slots!Next]_(Slots!vars) /\ [Seats!Next]_(Seats!vars)
<1>1. TypeOK
  BY DEF IInv
<1>2. r \notin Gone /\ Gone' = Gone \cup {r} /\ UNCHANGED <<slot, seat>>
  BY <1>1 DEF Disconnect, Go, Gone, TypeOK
<1>3. Slots!Lose(r)
  BY <1>2 DEF Slots!Lose
<1>4. Seats!Lose(r)
  BY <1>2 DEF Seats!Lose
<1>5. QED
  BY <1>3, <1>4 DEF Slots!Next, Seats!Next

LEMMA OtherStep ==
  ASSUME IInv,
         \/ \E r \in Requests : Expire(r)
         \/ \E u \in Upstreams : Refill(u) \/ Flip(u)
         \/ NotifyChange \/ UNCHANGED vars
  PROVE  UNCHANGED <<slot, seat, Gone>>
<1>1. TypeOK /\ UNCHANGED <<slot, seat>>
  BY DEF IInv, Expire, Refill, Flip, NotifyChange, vars, local
<1>2. \A q \in Requests : pc'[q] = "gone" <=> pc[q] = "gone"
  BY <1>1 DEF Expire, Refill, Flip, NotifyChange, vars, local, TypeOK
<1>3. QED
  BY <1>1, <1>2 DEF Gone

\* The slots of the upstreams are leases: whatever the interleaving, no upstream
\* is overdrawn and only a request that hung up keeps its slot for ever.
THEOREM SlotsImplementLeases == Spec => Slots!Spec
<1>1. Init => Slots!Init
  BY DEF Init, Slots!Init, Gone
<1>2. IInv /\ [Next]_vars => [Slots!Next]_(Slots!vars)
  <2>1. CASE UNCHANGED <<slot, seat, Gone>>
    BY <2>1 DEF Slots!vars
  <2>2. QED
    BY <2>1, SlotStep, LossStep, OtherStep DEF Next
<1>3. QED
  BY <1>1, <1>2, Invariance, PTL DEF Spec, Slots!Spec

\* The waiting places of the providers are leases in the same sense.
THEOREM SeatsImplementLeases == Spec => Seats!Spec
<1>1. Init => Seats!Init
  BY DEF Init, Seats!Init, Gone
<1>2. IInv /\ [Next]_vars => [Seats!Next]_(Seats!vars)
  <2>1. CASE UNCHANGED <<slot, seat, Gone>>
    BY <2>1 DEF Seats!vars
  <2>2. QED
    BY <2>1, SeatStep, LossStep, OtherStep DEF Next
<1>3. QED
  BY <1>1, <1>2, Invariance, PTL DEF Spec, Seats!Spec

-----------------------------------------------------------------------------
(***************************************************************************)
(* The health of an upstream, for any set of tasks that report at the same *)
(* time, any threshold and with or without a health checker.               *)
(***************************************************************************)

LEMMA HealthTypeStays ==
  ASSUME HealthTypeOK, [HealthNext]_healthVars
  PROVE  HealthTypeOK'
<1> USE HealthAssumption
<1>1. ASSUME NEW t \in Tasks, Send(t) \/ Answer(t)
      PROVE  HealthTypeOK'
  BY <1>1 DEF HealthTypeOK, Send, Answer, Reaches, InSuccess, InFailure, report, flags
<1>2. ASSUME NEW t \in Tasks, ZeroFailures(t) \/ CloseBreaker(t) \/ Heal(t)
      PROVE  HealthTypeOK'
  BY <1>2 DEF HealthTypeOK, ZeroFailures, CloseBreaker, Heal, Reaches, InSuccess, InFailure, flags
<1>3. ASSUME NEW t \in Tasks, AddFailure(t)
      PROVE  HealthTypeOK'
  <2>1. failures' \in 0 .. FailureCap /\ count' \in [Tasks -> 0 .. FailureCap]
    BY <1>3 DEF HealthTypeOK, AddFailure
  <2>2. at' \in [Tasks -> {"idle", "sent"} \cup InSuccess \cup InFailure]
    <3>1. PICK p \in {"mark", "idle"} : Reaches(t, p)
      BY <1>3 DEF AddFailure
    <3>2. QED
      BY <3>1 DEF HealthTypeOK, Reaches, InFailure
  <2>3. UNCHANGED <<health, breaker, enabled, paused, resetting, up>>
    BY <1>3 DEF AddFailure, flags
  <2>4. QED
    BY <2>1, <2>2, <2>3 DEF HealthTypeOK
<1>4. ASSUME NEW t \in Tasks, MarkHealth(t) \/ TripBreaker(t)
      PROVE  HealthTypeOK'
  BY <1>4 DEF HealthTypeOK, MarkHealth, TripBreaker, Reaches, InSuccess, InFailure, flags
<1>5. CASE Probe
  BY <1>5 DEF HealthTypeOK, Probe, Reaches, Tasks, InSuccess, InFailure, report, flags
<1>6. CASE WindowPasses \/ Weather \/ ResetCount \/ ResetHealth
  <2>1. 0 \in 0 .. FailureCap
    BY DEF HealthTypeOK
  <2>2. QED
    BY <1>6, <2>1 DEF HealthTypeOK, WindowPasses, Weather, ResetCount, ResetHealth, report, flags
<1>7. ASSUME NEW b \in BOOLEAN, SetEnabled(b) \/ SetPaused(b)
      PROVE  HealthTypeOK'
  BY <1>7 DEF HealthTypeOK, SetEnabled, SetPaused, report
<1>8. CASE UNCHANGED healthVars
  BY <1>8 DEF HealthTypeOK, healthVars, report, flags
<1>9. QED
  BY <1>1, <1>2, <1>3, <1>4, <1>5, <1>6, <1>7, <1>8 DEF HealthNext, Report

\* The variables keep their types, for any threshold and any set of callers.
THEOREM HealthTypeCorrect == HealthSpec => []HealthTypeOK
<1>1. HealthInit => HealthTypeOK
  <2>1. 0 \in 0 .. FailureCap
    BY HealthAssumption
  <2>2. QED
    BY <2>1 DEF HealthInit, HealthTypeOK, InSuccess, InFailure
<1>2. QED
  BY <1>1, HealthTypeStays, PTL DEF HealthSpec

-----------------------------------------------------------------------------
\* A task that is about to write health or breaker_open_until stays so until it
\* does, and the four writes concerned leave a window or a healthy upstream.
LEMMA WindowKept ==
  ASSUME HealthTypeOK, UnhealthyHasWindow, [HealthNext]_healthVars
  PROVE  UnhealthyHasWindow'
<1>1. ASSUME NEW t \in Tasks, Send(t) \/ Answer(t) \/ ZeroFailures(t) \/ AddFailure(t)
      PROVE  UnhealthyHasWindow'
  <2>1. /\ at[t] \notin {"trip", "heal"} /\ UNCHANGED <<health, breaker>>
        /\ \A s \in Tasks : s # t => at'[s] = at[s]
    BY <1>1 DEF HealthTypeOK, Send, Answer, ZeroFailures, AddFailure, Reaches, report
  <2>2. QED
    BY <2>1 DEF UnhealthyHasWindow
<1>2. ASSUME NEW t \in Tasks, CloseBreaker(t)
      PROVE  UnhealthyHasWindow'
  <2>1. at'[t] = "heal"
    BY <1>2 DEF HealthTypeOK, CloseBreaker, Reaches
  <2>2. QED
    BY <2>1 DEF UnhealthyHasWindow
<1>3. ASSUME NEW t \in Tasks, MarkHealth(t)
      PROVE  UnhealthyHasWindow'
  <2>1. health' = "unhealthy" => at'[t] = "trip"
    BY <1>3 DEF HealthTypeOK, MarkHealth, Reaches
  <2>2. QED
    BY <2>1 DEF UnhealthyHasWindow
<1>4. ASSUME NEW t \in Tasks, Heal(t) \/ TripBreaker(t)
      PROVE  UnhealthyHasWindow'
  BY <1>4 DEF UnhealthyHasWindow, Heal, TripBreaker
<1>5. CASE Probe
  <2>1. /\ at[Checker] = "idle" /\ UNCHANGED <<health, breaker>>
        /\ \A s \in Tasks : s # Checker => at'[s] = at[s]
    BY <1>5 DEF HealthTypeOK, Probe, Reaches, report
  <2>2. QED
    BY <2>1 DEF UnhealthyHasWindow
<1>6. CASE WindowPasses \/ Weather \/ ResetCount \/ ResetHealth \/ UNCHANGED healthVars
  BY <1>6 DEF UnhealthyHasWindow, WindowPasses, Weather, ResetCount, ResetHealth,
     healthVars, report
<1>7. ASSUME NEW b \in BOOLEAN, SetEnabled(b) \/ SetPaused(b)
      PROVE  UnhealthyHasWindow'
  BY <1>7 DEF UnhealthyHasWindow, SetEnabled, SetPaused, report
<1>8. QED
  BY <1>1, <1>2, <1>3, <1>4, <1>5, <1>6, <1>7 DEF HealthNext, Report

\* However the writes of concurrent reports interleave, none leaves the
\* upstream unhealthy for good without a breaker window.
THEOREM UnhealthyKeepsWindow == HealthSpec => []UnhealthyHasWindow
<1>1. HealthInit => UnhealthyHasWindow
  BY DEF HealthInit, UnhealthyHasWindow
<1>2. QED
  BY <1>1, WindowKept, HealthTypeCorrect, PTL DEF HealthSpec

=============================================================================
