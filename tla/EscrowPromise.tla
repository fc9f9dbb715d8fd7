---------------------------- MODULE EscrowPromise ----------------------------
(***************************************************************************)
(* What the escrow contract promises the app, with no token, clock or      *)
(* deadline in sight: a pot is filled once, stands until it is emptied     *)
(* once, and is emptied in full to one of two parties.                     *)
(*                                                                         *)
(* Escrow implements this module, and BudgetFlow uses its actions as the   *)
(* chain the app talks to.                                                 *)
(***************************************************************************)
EXTENDS Integers

CONSTANTS
  Keys,       \* what an escrow is filed under
  Parties,    \* who can be paid
  Arrivals    \* what can arrive in a pot

VARIABLES
  pots,       \* Keys -> what stands under each key
  vault,      \* everything held
  received    \* Parties -> what each has got out minus what it has put in

promiseVars == <<pots, vault, received>>

Closed == {"Released", "Refunded"}
Statuses == {"None", "Locked"} \cup Closed

NoPot == [status |-> "None", amount |-> 0]

PromiseTypeOK ==
  /\ pots \in [Keys -> [status : Statuses, amount : Nat]]
  /\ vault \in Int
  /\ received \in [Parties -> Int]

PromiseInit ==
  /\ pots = [k \in Keys |-> NoPot]
  /\ vault = 0
  /\ received = [p \in Parties |-> 0]

\* `amount` is what really arrived: 0 when the creator had too little.
Fill(k, creator, amount) ==
  /\ pots[k].status = "None"
  /\ pots' = [pots EXCEPT ![k] = [status |-> "Locked", amount |-> amount]]
  /\ vault' = vault + amount
  /\ received' = [received EXCEPT ![creator] = @ - amount]

Empty(k, to, outcome) ==
  /\ pots[k].status = "Locked"
  /\ pots' = [pots EXCEPT ![k].status = outcome]
  /\ vault' = vault - pots[k].amount
  /\ received' = [received EXCEPT ![to] = @ + pots[k].amount]

PromiseNext ==
  \E k \in Keys, p \in Parties :
    \/ \E amount \in Arrivals : Fill(k, p, amount)
    \/ \E outcome \in Closed : Empty(k, p, outcome)

PromiseSpec == PromiseInit /\ [][PromiseNext]_promiseVars
==============================================================================
