------------------------------ MODULE MCRegistry ------------------------------
(***************************************************************************)
(* Instances of Registry for TLC: a call that creates an upstream, stages  *)
(* a snapshot or rolls back, beside one that deletes an upstream, rotates  *)
(* a key or changes a setting, with the watcher, the writes to the         *)
(* database and what can fail.  Other pairs and the kinds whose steps      *)
(* these have (update, addKey, revoke, reload) are left to the proofs.     *)
(***************************************************************************)
EXTENDS Registry, TLC

CONSTANTS a1, a2

MCKinds ==
  [a \in {a1, a2} |->
     IF a = a1 THEN {"create", "stage", "rollback"}
     ELSE {"delete", "rotate", "setting"}]

\* A file that is cut short holds nothing or does not parse.
MCParts == {{}}

=============================================================================
