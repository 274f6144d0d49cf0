------------------------------ MODULE MCDispatch ------------------------------
(***************************************************************************)
(* Instances of Dispatch for TLC.                                          *)
(*                                                                         *)
(* u1 has one slot and no rate limit, u2 one slot and a rate limit of 10   *)
(* requests a minute, so its bucket holds one token; u3 is unlimited.      *)
(***************************************************************************)
EXTENDS Dispatch, TLC

CONSTANTS r1, r2, r3, r4, u1, u2, u3, openai, anthropic

MCMaxConcurrency == [u \in Upstreams |-> IF u = u3 THEN 0 ELSE 1]
MCRateRpm == [u \in Upstreams |-> IF u = u2 THEN 10 ELSE 0]

\* Three requests of one kind that compete for u1 and spill over to u2, and
\* one whose model no upstream serves.
MCKind == [r \in Requests |-> openai]
MCCandidates == r1 :> <<u1, u2>> @@ r2 :> <<u1, u2>> @@ r3 :> <<u1, u2>> @@ r4 :> << >>
MCSymmetry == Permutations({r1, r2, r3})

\* Two requests that compete for u2, and one of the other kind for u3.
LiveKind == r1 :> openai @@ r2 :> openai @@ r3 :> anthropic
LiveCandidates == r1 :> <<u2>> @@ r2 :> <<u2>> @@ r3 :> <<u3>>

=============================================================================
