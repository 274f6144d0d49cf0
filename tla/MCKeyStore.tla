------------------------------ MODULE MCKeyStore ------------------------------
(***************************************************************************)
(* An instance of KeyStore for TLC: a key with one parallel slot, three    *)
(* requests, one reloader and two records, so that one replacement of any  *)
(* kind happens at any point.  in_flight has two bits instead of 32.       *)
(***************************************************************************)
EXTENDS KeyStore, TLC

CONSTANTS r1, r2, r3, w1

MCSymmetry == Permutations({r1, r2, r3})

=============================================================================
