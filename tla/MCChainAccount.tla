--------------------------- MODULE MCChainAccount ---------------------------
(***************************************************************************)
(* One passkey in two tabs of one browser and in another browser, or in    *)
(* one tab alone, and one peer who looks its account up.                   *)
(***************************************************************************)
EXTENDS ChainAccount

CONSTANTS tab1, tab2, phoneTab, laptop, phone

ProfilesOfTabs ==
    [t \in {tab1, tab2, phoneTab} |-> IF t = phoneTab THEN phone ELSE laptop]

\* One tab alone, of the laptop.
OneTab == [t \in {tab1} |-> laptop]
=============================================================================
