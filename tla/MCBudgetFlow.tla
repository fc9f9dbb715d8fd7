---------------------------- MODULE MCBudgetFlow ----------------------------
(***************************************************************************)
(* Three locks, so that a failed one can be retried and the retry clicked  *)
(* twice, and two releases, so that a second click can overlap the first;  *)
(* three attempts at most.                                                 *)
(* Attempts of a kind are alike, so the first is the one that starts first *)
(* (a symmetry set would not be sound for StatusSettles).                  *)
(***************************************************************************)
EXTENDS BudgetFlow, FiniteSets

CONSTANTS l1, l2, l3, x1, x2

Started(a) == pc[a] # "unused"

InOrder ==
    /\ Started(l2) => Started(l1)
    /\ Started(l3) => Started(l2)
    /\ Started(x2) => Started(x1)

AtMostThree == Cardinality({a \in Attempts : Started(a)}) <= 3

\* The third lock is there for a click that overlaps the second; edits and the
\* delegate stay out of its way.
ThirdLockAlone == Started(l3) => ~ writer.busy /\ overlay = "silent"

Bounded == InOrder /\ AtMostThree /\ ThirdLockAlone

MCSpec == Init /\ [][Next /\ Bounded']_vars /\ Fairness
=============================================================================
