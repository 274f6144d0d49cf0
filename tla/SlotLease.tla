------------------------------ MODULE SlotLease ------------------------------
(***************************************************************************)
(* What a counter guarded by a compare-and-swap promises its users.        *)
(*                                                                         *)
(* The router limits concurrency in three places with the same pattern: an *)
(* integer that a task increments before it goes on and must decrement     *)
(* later.  They are the slots of an upstream (max_concurrency), the waiting *)
(* places of a provider (max_queue_per_provider) and the slots of an API   *)
(* key (max_parallel_requests).  This module says what each is meant to be: *)
(* a pool of leases that never has more holders than its capacity, where a *)
(* lease is returned by the task that took it.                             *)
(*                                                                         *)
(* The code returns a lease by an explicit call on the normal path and has *)
(* no destructor that does it, so a task that ends early keeps it for good. *)
(* Those tasks are in `lost`: a pool may shrink, but is never overdrawn.   *)
(***************************************************************************)
EXTENDS Naturals, FiniteSets

CONSTANTS
  Clients,    \* the tasks that take leases
  Pools,      \* what leases are taken from
  Capacity,   \* [Pools -> Nat], 0 = no limit
  NoPool      \* the lease of a client that has none

\* What the constants are, where the module is used.
LeaseAssumption ==
  /\ IsFiniteSet(Clients)
  /\ Capacity \in [Pools -> Nat]
  /\ NoPool \notin Pools

VARIABLES
  lease,   \* the pool each client holds a lease of
  lost     \* the clients that ended without returning their lease

vars == <<lease, lost>>

Holders(p) == {c \in Clients : lease[c] = p}

TypeOK ==
  /\ lease \in [Clients -> Pools \cup {NoPool}]
  /\ lost \subseteq Clients

Init ==
  /\ lease = [c \in Clients |-> NoPool]
  /\ lost = {}

Take(c, p) ==
  /\ c \notin lost
  /\ lease[c] = NoPool
  /\ Capacity[p] > 0 => Cardinality(Holders(p)) < Capacity[p]
  /\ lease' = [lease EXCEPT ![c] = p]
  /\ UNCHANGED lost

Return(c) ==
  /\ c \notin lost
  /\ lease[c] # NoPool
  /\ lease' = [lease EXCEPT ![c] = NoPool]
  /\ UNCHANGED lost

\* The client ends while it holds its lease: nobody returns it.
Lose(c) ==
  /\ c \notin lost
  /\ lost' = lost \cup {c}
  /\ UNCHANGED lease

Next ==
  \E c \in Clients :
    \/ \E p \in Pools : Take(c, p)
    \/ Return(c)
    \/ Lose(c)

Spec == Init /\ [][Next]_vars

\* With tasks that are scheduled fairly, a lease that is not lost comes back.
FairSpec == Spec /\ \A c \in Clients : WF_vars(Return(c))

\* No pool ever has more holders than its capacity, the lost leases included.
NeverOverdrawn ==
  \A p \in Pools : Capacity[p] > 0 => Cardinality(Holders(p)) <= Capacity[p]

=============================================================================
