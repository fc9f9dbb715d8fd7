---------------------------- MODULE MCInvoicing ----------------------------
(***************************************************************************)
(* Two devices, a list that has two invoices, room for a third, and a      *)
(* window that shows two of the three.                                     *)
(***************************************************************************)
EXTENDS Invoicing

CONSTANTS i1, i2, i3
=============================================================================
