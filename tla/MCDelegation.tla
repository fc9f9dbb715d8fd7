---------------------------- MODULE MCDelegation ----------------------------
(***************************************************************************)
(* An owner with two writes under way at once and two delegates, one of    *)
(* whose clocks is two ticks ahead.                                        *)
(***************************************************************************)
EXTENDS Delegation, TLC

CONSTANTS alice, bob, carol, c1, c2

Alike == Permutations(Calls)
=============================================================================
