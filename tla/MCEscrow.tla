------------------------------ MODULE MCEscrow ------------------------------
(***************************************************************************)
(* Two parties, one of them also the auditor; each may lock once, so an    *)
(* amount paid out can be locked again.                                    *)
(***************************************************************************)
EXTENDS Escrow

CONSTANTS owner, delegate, ref1
==============================================================================
