---------------------------- MODULE MCReadAccess ----------------------------
(***************************************************************************)
(* A read key and its renewals, with two calls of the notices' buttons.    *)
(***************************************************************************)
EXTENDS ReadAccess, TLC

Symmetry == Permutations(Keys) \cup Permutations(Flows)
=============================================================================
