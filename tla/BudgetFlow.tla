----------------------------- MODULE BudgetFlow -----------------------------
(***************************************************************************)
(* One delegated todo's confidential budget, as the owner's session runs   *)
(* it: budget.js, budget-flow.js, budget-store.js, the lock and release of *)
(* budget-service-zama.js and setTodoBudget of db-actions.js.              *)
(*                                                                         *)
(* The todo's entry in OrbitDB says what the app believes; the chain says  *)
(* what is so. An attempt is one call of the lock or release flow. Every   *)
(* `await` in it is a point where the user, another attempt, a rename, the *)
(* chain or a reload may come between; a user operation once sent lives on *)
(* without the attempt that sent it. A `put` that rejects is taken at      *)
(* setTodoBudget's word: it is a write that did not happen.                *)
(***************************************************************************)
EXTENDS Integers, FiniteSets

CONSTANTS
  Locks,     \* lock attempts; each draws a todoRef of its own and stands for it
  Releases,  \* release attempts
  NoRef

ASSUME AttemptsDiffer == Locks \cap Releases = {} /\ NoRef \notin Locks

VARIABLES
  entry,     \* the todo's own entry in the list
  overlay,   \* what the delegate's surviving actions make of `completed`
  pc,        \* where each attempt stands
  next,      \* the budget each attempt writes next
  base,      \* of the entry each attempt read before it writes: `completed`
  op,        \* the user operation each attempt sent
  writer,    \* a rename or toggle between its read and its write
  notice,    \* budgetNoticeStore
  typed,     \* pendingAmounts has this todo's amount
  here,      \* the todo's list is the one that is open
  announced, \* history: attempts whose `locking` or `releasing` was written
  disturbed, \* history: a reload, a list switch or a stale write has happened
  unrecorded,\* history: attempts whose outcome the list's storage did not take
  pots, vault, received  \* the chain: see EscrowPromise

Chain == INSTANCE EscrowPromise WITH
  Keys <- Locks, Parties <- {"owner", "delegate"}, Arrivals <- {0, 1}

chainVars == <<pots, vault, received>>
sessionVars == <<pc, next, base, notice, typed>>
listVars == <<entry, overlay>>
historyVars == <<announced, disturbed, unrecorded>>
vars == <<chainVars, sessionVars, listVars, historyVars, op, writer, here>>

Attempts == Locks \cup Releases

Budgets == [status : {"none", "locking", "funded", "releasing", "released", "failed"},
            ref : Locks \cup {NoRef},
            lockTx : BOOLEAN]

EmptyBudget == [status |-> "none", ref |-> NoRef, lockTx |-> FALSE]

Entries == [present : BOOLEAN, completed : BOOLEAN, budget : Budgets]

NoEntry == [present |-> FALSE, completed |-> FALSE, budget |-> EmptyBudget]

PCs == {"unused", "announce", "announcing", "service", "receipt",
        "reading", "report", "reporting", "over", "dead"}

TypeOK ==
  /\ entry \in Entries
  /\ overlay \in {"silent", "done", "open"}
  /\ pc \in [Attempts -> PCs]
  /\ next \in [Attempts -> Budgets]
  /\ base \in [Attempts -> BOOLEAN]
  /\ op \in [Attempts -> {"none", "pending", "mined", "reverted"}]
  /\ writer \in [busy : BOOLEAN, base : Entries]
  /\ notice \in {"none", "lock", "release"}
  /\ typed \in BOOLEAN
  /\ here \in BOOLEAN
  /\ announced \subseteq Attempts
  /\ disturbed \in BOOLEAN
  /\ unrecorded \subseteq Attempts
  /\ Chain!PromiseTypeOK

Init ==
  /\ entry = NoEntry
  /\ overlay = "silent"
  /\ pc = [a \in Attempts |-> "unused"]
  /\ next = [a \in Attempts |-> EmptyBudget]
  /\ base = [a \in Attempts |-> FALSE]
  /\ op = [a \in Attempts |-> "none"]
  /\ writer = [busy |-> FALSE, base |-> NoEntry]
  /\ notice = "none"
  /\ typed = FALSE
  /\ here = TRUE
  /\ announced = {}
  /\ disturbed = FALSE
  /\ unrecorded = {}
  /\ Chain!PromiseInit

-----------------------------------------------------------------------------
\* budget.js: the budget's own transitions

StartLock(todoRef) == [status |-> "locking", ref |-> todoRef, lockTx |-> FALSE]
LockSucceeded(b) == [b EXCEPT !.status = "funded", !.lockTx = TRUE]
LockFailed(b, lockTx) == [b EXCEPT !.status = "failed", !.lockTx = lockTx]
StartRelease(b) == [b EXCEPT !.status = "releasing"]
ReleaseSucceeded(b) == [b EXCEPT !.status = "released"]
ReleaseFailed(b) == [b EXCEPT !.status = "funded"]

HoldsTodo(b) == b.status \in {"locking", "funded", "releasing"}

\* `completed` as the list shows it: the entry with the delegate's actions
\* folded in.
Shown == IF overlay = "silent" THEN entry.completed ELSE overlay = "done"

CanRelease == entry.present /\ Shown /\ entry.budget.status = "funded"

-----------------------------------------------------------------------------
\* setTodoBudget: read the entry, await, write it back with another budget

KindOf(a) == IF a \in Locks THEN "lock" ELSE "release"

\* readTodoForWrite reads whichever list is open now.
Readable == here /\ entry.present

ReadForWrite(a, from, to) ==
  /\ pc[a] = from
  /\ Readable
  /\ base' = [base EXCEPT ![a] = entry.completed]
  /\ pc' = [pc EXCEPT ![a] = to]
  /\ UNCHANGED <<next, notice, typed, listVars, chainVars, historyVars, op, writer, here>>

\* The todo is not in the open list, or OrbitDB's `get` or `put` rejects: the
\* flow throws, its caller leaves a notice, and the entry stays as it was.
WriteRefused(a) ==
  /\ pc[a] \in {"announce", "announcing", "report", "reporting"}
  /\ pc' = [pc EXCEPT ![a] = "over"]
  /\ notice' = KindOf(a)
  /\ base' = [base EXCEPT ![a] = FALSE]
  /\ unrecorded' = IF pc[a] \in {"report", "reporting"} THEN unrecorded \cup {a}
                                                        ELSE unrecorded
  /\ UNCHANGED <<next, typed, listVars, chainVars, announced, disturbed, op, writer, here>>

Put(a, completed) ==
  /\ entry' = [present |-> TRUE, completed |-> completed, budget |-> next[a]]
  /\ base' = [base EXCEPT ![a] = FALSE]

\* The write that starts a release takes the delegate's completion into the
\* entry and moves updatedAt, so the actions folded in so far no longer apply.
AcceptCompletion(a) == a \in Releases

Announce(a) ==
  /\ pc[a] = "announcing"
  /\ Put(a, base[a] \/ AcceptCompletion(a))
  /\ overlay' = IF AcceptCompletion(a) THEN "silent" ELSE overlay
  /\ pc' = [pc EXCEPT ![a] = "service"]
  /\ announced' = announced \cup {a}
  /\ notice' = IF a \in Locks THEN "none" ELSE notice
  /\ UNCHANGED <<next, typed, chainVars, disturbed, unrecorded, op, writer, here>>

Succeeded(a) == next[a].status = IF a \in Locks THEN "funded" ELSE "released"

\* Mutant: records only an outcome that went well.
ReportSuccess(a) ==
  /\ pc[a] = "reporting"
  /\ IF Succeeded(a) THEN Put(a, base[a]) ELSE UNCHANGED <<entry, base>>
  /\ pc' = [pc EXCEPT ![a] = "over"]
  /\ UNCHANGED <<next, typed, notice, overlay, chainVars, historyVars, op, writer, here>>

Report(a) ==
  LET ok == Succeeded(a)
  IN /\ pc[a] = "reporting"
     /\ Put(a, base[a])
     /\ pc' = [pc EXCEPT ![a] = "over"]
     /\ typed' = (typed /\ ~ (ok /\ a \in Locks))
     /\ notice' = IF ok THEN notice ELSE KindOf(a)
     /\ UNCHANGED <<next, overlay, chainVars, historyVars, op, writer, here>>

-----------------------------------------------------------------------------
\* budget-store.js: what the user starts

\* addTodoWithBudget: the todo is written once, already `locking`.
AddTodoWithBudget(a) ==
  /\ here
  /\ \A other \in Locks : pc[other] = "unused"
  /\ entry' = [present |-> TRUE, completed |-> FALSE, budget |-> StartLock(a)]
  /\ next' = [next EXCEPT ![a] = StartLock(a)]
  /\ pc' = [pc EXCEPT ![a] = "service"]
  /\ announced' = announced \cup {a}
  /\ typed' = TRUE
  /\ notice' = "none"
  /\ UNCHANGED <<base, overlay, chainVars, disturbed, unrecorded, op, writer, here>>

\* Mutant: asks for nothing but the amount that was typed.
RetryableByAmount == Readable /\ typed

NoticeRetryable ==
  /\ notice = "lock"
  /\ Readable
  /\ entry.budget.status = "failed"
  /\ typed

\* Mutant: asks the service first and leaves the writing to the report.
RetryLockUnannounced(a) ==
  /\ pc[a] = "unused"
  /\ NoticeRetryable
  /\ notice' = "none"
  /\ next' = [next EXCEPT ![a] = StartLock(a)]
  /\ pc' = [pc EXCEPT ![a] = "service"]
  /\ UNCHANGED <<base, typed, listVars, chainVars, historyVars, op, writer, here>>

\* retryBudgetNotice: the notice goes before the first await, so a second
\* click finds nothing to retry.
RetryLock(a) ==
  /\ pc[a] = "unused"
  /\ NoticeRetryable
  /\ notice' = "none"
  /\ next' = [next EXCEPT ![a] = StartLock(a)]
  /\ pc' = [pc EXCEPT ![a] = "announce"]
  /\ UNCHANGED <<base, typed, listVars, chainVars, historyVars, op, writer, here>>

\* releaseTodoBudget: the budget is the one on screen at the click. Nothing
\* keeps a second click out until `releasing` has been written.
ReleaseTodoBudget(a) ==
  /\ pc[a] = "unused"
  /\ here
  /\ CanRelease
  /\ notice' = "none"
  /\ next' = [next EXCEPT ![a] = StartRelease(entry.budget)]
  /\ pc' = [pc EXCEPT ![a] = "announce"]
  /\ UNCHANGED <<base, typed, listVars, chainVars, historyVars, op, writer, here>>

DismissNotice ==
  /\ notice # "none"
  /\ notice' = "none"
  /\ UNCHANGED <<pc, next, base, typed, listVars, chainVars, historyVars, op, writer, here>>

-----------------------------------------------------------------------------
\* budget-service-zama.js: lock and release

\* The service answers: the attempt has a budget to write.
Answer(a, b) ==
  /\ next' = [next EXCEPT ![a] = b]
  /\ pc' = [pc EXCEPT ![a] = "report"]
  /\ UNCHANGED <<base, notice, typed, listVars, chainVars, historyVars, op, writer, here>>

\* What a failure makes of the budget. Whether it names a transaction is up to
\* the BudgetError's details.
Failed(a, lockTx) ==
  IF a \in Locks THEN LockFailed(next[a], lockTx) ELSE ReleaseFailed(next[a])

\* A check, the encryption or the passkey says no; nothing was sent.
RefusedBeforeSending(a) ==
  /\ pc[a] = "service"
  /\ Answer(a, Failed(a, FALSE))

\* What the chain must show for the operation to be worth a signature.
MayAsk(a) ==
  IF a \in Locks THEN pots[next[a].ref].status = "None"
                 ELSE pots[next[a].ref].status = "Locked"

SendOperation(a) ==
  /\ pc[a] = "service"
  /\ MayAsk(a)
  /\ op' = [op EXCEPT ![a] = "pending"]
  /\ pc' = [pc EXCEPT ![a] = "receipt"]
  /\ UNCHANGED <<next, base, notice, typed, listVars, chainVars, historyVars, writer, here>>

\* Mutant: waits for a receipt as long as it takes.
ReceiptAwaited(a) ==
  /\ pc[a] = "receipt"
  /\ op[a] # "pending"
  /\ Answer(a, Failed(a, FALSE))

\* Mutant: a receipt that did not come in time is filed like a reverted one.
ReceiptLostWithTx(a) ==
  /\ pc[a] = "receipt"
  /\ Answer(a, Failed(a, TRUE))

\* The bundler or the wait for the receipt fails. The operation may be waiting,
\* mined or reverted all the same.
ReceiptLost(a) ==
  /\ pc[a] = "receipt"
  /\ Answer(a, Failed(a, FALSE))

ReceiptReverted(a) ==
  /\ pc[a] = "receipt"
  /\ op[a] = "reverted"
  /\ Answer(a, Failed(a, TRUE))

\* Mutant: takes a mined lock for a funded one.
LockTrusted(a) ==
  /\ pc[a] = "reading"
  /\ Answer(a, LockSucceeded(next[a]))

\* A lock's receipt says it was mined. Only reading the escrow and decrypting
\* what arrived tells whether it was 0.
LockMined(a) ==
  /\ a \in Locks
  /\ pc[a] = "receipt"
  /\ op[a] = "mined"
  /\ pc' = [pc EXCEPT ![a] = "reading"]
  /\ UNCHANGED <<next, base, notice, typed, listVars, chainVars, historyVars, op, writer, here>>

LockRead(a) ==
  /\ pc[a] = "reading"
  /\ Answer(a, IF pots[next[a].ref].amount > 0 THEN LockSucceeded(next[a])
                                               ELSE LockFailed(next[a], TRUE))

\* The escrow cannot be read or decrypted after the lock was mined: `decrypt`
\* and requireReadKey throw without details.
LockUnreadable(a) ==
  /\ pc[a] = "reading"
  /\ Answer(a, LockFailed(next[a], FALSE))

\* Mutant: any receipt counts as a release.
ReleaseHasReceipt(a) ==
  /\ a \in Releases
  /\ pc[a] = "receipt"
  /\ op[a] \in {"mined", "reverted"}
  /\ Answer(a, ReleaseSucceeded(next[a]))

ReleaseMined(a) ==
  /\ a \in Releases
  /\ pc[a] = "receipt"
  /\ op[a] = "mined"
  /\ Answer(a, ReleaseSucceeded(next[a]))

ServiceAnswers(a) ==
  \/ RefusedBeforeSending(a)
  \/ ReceiptLost(a)
  \/ ReceiptReverted(a)
  \/ LockRead(a)
  \/ LockUnreadable(a)
  \/ ReleaseMined(a)

-----------------------------------------------------------------------------
\* The chain, which goes on whether or not anyone waits for it

\* Mutant: an escrow that was paid out can be paid out again.
MineOverAgain(a) ==
  /\ op[a] = "pending"
  /\ \/ \E amount \in {0, 1} : a \in Locks /\ Chain!Fill(a, "owner", amount)
     \/ /\ a \in Releases
        /\ pots' = [pots EXCEPT ![next[a].ref].status = "Released"]
        /\ vault' = vault - pots[next[a].ref].amount
        /\ received' = [received EXCEPT !["delegate"] = @ + pots[next[a].ref].amount]
  /\ op' = [op EXCEPT ![a] = "mined"]
  /\ UNCHANGED <<sessionVars, listVars, historyVars, writer, here>>

Mine(a) ==
  /\ op[a] = "pending"
  /\ \/ \E amount \in {0, 1} : a \in Locks /\ Chain!Fill(a, "owner", amount)
     \/ a \in Releases /\ Chain!Empty(next[a].ref, "delegate", "Released")
  /\ op' = [op EXCEPT ![a] = "mined"]
  /\ UNCHANGED <<sessionVars, listVars, historyVars, writer, here>>

\* Out of gas, past its deadline, or refused by the contract.
Revert(a) ==
  /\ op[a] = "pending"
  /\ op' = [op EXCEPT ![a] = "reverted"]
  /\ UNCHANGED <<chainVars, sessionVars, listVars, historyVars, writer, here>>

-----------------------------------------------------------------------------
\* The rest of the app, around the flows

\* toggleTodoComplete and updateTodoText read the entry, await and write it
\* back whole, budget included. A toggle flips what is on screen.
StartEdit ==
  /\ ~ writer.busy
  /\ Readable
  /\ \E completed \in {entry.completed, ~ Shown} :
       writer' = [busy |-> TRUE, base |-> [entry EXCEPT !.completed = completed]]
  /\ UNCHANGED <<sessionVars, listVars, chainVars, historyVars, op, here>>

FinishEdit ==
  /\ writer.busy
  /\ entry' = writer.base
  /\ overlay' = "silent"
  /\ writer' = [busy |-> FALSE, base |-> NoEntry]
  /\ disturbed' = (disturbed \/ writer.base.budget # entry.budget)
  /\ UNCHANGED <<sessionVars, chainVars, announced, unrecorded, op, here>>

\* The delegate's action replicates in and is folded in on read, or stops
\* counting because the delegation has run out.
DelegateActs ==
  /\ entry.present
  /\ overlay' \in {"silent", "done", "open"}
  /\ UNCHANGED <<entry, sessionVars, chainVars, historyVars, op, writer, here>>

\* The row offers no delete while the budget holds the todo.
DeleteTodo ==
  /\ Readable
  /\ ~ HoldsTodo(entry.budget)
  /\ entry' = NoEntry
  /\ overlay' = "silent"
  /\ UNCHANGED <<sessionVars, chainVars, historyVars, op, writer, here>>

SwitchList ==
  /\ here' = ~ here
  /\ disturbed' = TRUE
  /\ UNCHANGED <<sessionVars, listVars, chainVars, announced, unrecorded, op, writer>>

\* The session's memory is gone, the entry and what was sent are not. The app
\* starts on the shared list.
Reload ==
  /\ pc' = [a \in Attempts |-> IF pc[a] \in {"unused", "over"} THEN pc[a] ELSE "dead"]
  /\ notice' = "none"
  /\ typed' = FALSE
  /\ here' = FALSE
  /\ writer' = [busy |-> FALSE, base |-> NoEntry]
  /\ base' = [a \in Attempts |-> FALSE]
  /\ disturbed' = TRUE
  /\ UNCHANGED <<next, listVars, chainVars, announced, unrecorded, op>>

-----------------------------------------------------------------------------
UserStarts ==
  \/ \E a \in Locks : AddTodoWithBudget(a) \/ RetryLock(a)
  \/ \E a \in Releases : ReleaseTodoBudget(a)
  \/ DismissNotice

FlowStep(a) ==
  \/ ReadForWrite(a, "announce", "announcing")
  \/ Announce(a)
  \/ SendOperation(a)
  \/ LockMined(a)
  \/ ServiceAnswers(a)
  \/ ReadForWrite(a, "report", "reporting")
  \/ Report(a)
  \/ WriteRefused(a)

ChainStep(a) == Mine(a) \/ Revert(a)

Around == StartEdit \/ FinishEdit \/ DelegateActs \/ DeleteTodo \/ SwitchList \/ Reload

Next ==
  \/ UserStarts
  \/ \E a \in Attempts : FlowStep(a) \/ ChainStep(a)
  \/ Around

\* The event loop owes every started attempt its next step: each await in it
\* either resolves or times out. The chain and the user owe nothing.
Fairness == \A a \in Attempts : WF_vars(FlowStep(a))

Spec == Init /\ [][Next]_vars
FairSpec == Spec /\ Fairness

-----------------------------------------------------------------------------
\* Properties

Live(a) == pc[a] \notin {"unused", "over", "dead"}

\* A budget shown as funded, releasing or released is backed by an escrow that
\* really received money: neither a lock that moved 0 (the contract does not
\* say) nor a stale write of the entry can make it up.
FundedWasPaidIn ==
  entry.budget.status \in {"funded", "releasing", "released"} =>
    /\ pots[entry.budget.ref].status # "None"
    /\ pots[entry.budget.ref].amount > 0

\* `released` is only ever shown for an escrow the chain has paid out.
ReleasedWasPaid ==
  entry.budget.status = "released" => pots[entry.budget.ref].status = "Released"

\* However often the user clicks, at most one lock is under way.
OneLockAtATime ==
  \A a, b \in Locks : Live(a) /\ Live(b) => a = b

\* The delegate is paid for the todo at most once, whatever attempts overlap,
\* fail half way, or are cut off by a reload.
PaidAtMostOnce == received["delegate"] <= 1

\* Each step is written to the todo before the next one starts: no operation
\* is sent whose todoRef, or whose accepted completion, was not written first.
WrittenBeforeSent ==
  \A a \in Attempts : op[a] # "none" => a \in announced

\* A budget is left at `locking` or `releasing` with no attempt at work on its
\* escrow only by a reload, by switching lists in the middle, by an edit that
\* wrote back an entry it had read before, or because an attempt on that very
\* escrow could not write its outcome: no failure of the service or the chain
\* does it, and no other attempt's failed write.
StuckOnlyIfDisturbed ==
  entry.budget.status \in {"locking", "releasing"} =>
    \/ disturbed
    \/ \E a \in Attempts : /\ next[a].ref = entry.budget.ref
                          /\ (Live(a) \/ a \in unrecorded)

\* A failed lock that names its transaction left no money behind, so retrying
\* it under a new todoRef locks nothing twice.
FailedWithTxHoldsNothing ==
  entry.budget.status = "failed" /\ entry.budget.lockTx =>
    pots[entry.budget.ref].amount = 0

\* Nothing short of a reload, a list switch, a stale edit or storage that does
\* not take the outcome keeps a budget at `locking` or `releasing` for ever:
\* every await in an attempt resolves or times out, and a lost receipt, a
\* revert or an unreadable escrow is written to the todo like a success.
StatusSettles ==
  entry.budget.status \in {"locking", "releasing"} ~>
    \/ entry.budget.status \notin {"locking", "releasing"}
    \/ disturbed
    \/ \E a \in unrecorded : next[a].ref = entry.budget.ref

-----------------------------------------------------------------------------
\* What the sources say, and the runs refute

\* budget.js on BudgetError: `lockTx` is given "when something reached the chain
\* before the failure showed". The lock was mined, and the failure the service
\* answers with names no transaction.
FailureNamesMinedLock ==
  [][\A a \in Locks :
       pc[a] = "reading" /\ pc'[a] = "report" => next'[a].lockTx]_vars
=============================================================================
