----------------------------- MODULE MCRpmWindow -----------------------------
(***************************************************************************)
(* Instances of RpmWindow for TLC.                                         *)
(***************************************************************************)
EXTENDS RpmWindow, TLC

MCSymmetry == Permutations(Requests)

=============================================================================
