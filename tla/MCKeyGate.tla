------------------------------ MODULE MCKeyGate ------------------------------
(***************************************************************************)
(* An instance of KeyGate for TLC.  r1 and r2 use k1, which has one        *)
(* parallel slot and a budget of two thousandths of a dollar; r3 uses k2,  *)
(* which has neither a cap nor a budget.                                   *)
(***************************************************************************)
EXTENDS KeyGate, TLC

CONSTANTS r1, r2, r3, k1, k2

MCKeyOf == [r \in Requests |-> IF r = r3 THEN k2 ELSE k1]
MCMaxParallel == [k \in Keys |-> IF k = k1 THEN 1 ELSE 0]

\* r1 may be any request, r2 a completion that may be streamed, r3 a plain one.
MCCalls == r1 :> AllCalls @@ r2 :> {"plain", "stream"} @@ r3 :> {"plain"}

MCBudget == [k \in Keys |-> 2]

=============================================================================
