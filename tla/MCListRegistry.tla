--------------------------- MODULE MCListRegistry ---------------------------
(***************************************************************************)
(* Two lists, one of them made here, and two identities.                   *)
(***************************************************************************)
EXTENDS ListRegistry

CONSTANTS l1, l2, anonymous, passkey

\* Nothing is promised of a history that has rushed: it is followed no further.
Followed == Init /\ [][Next /\ ~ rushed]_vars /\ Fairness
=============================================================================
