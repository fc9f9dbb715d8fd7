--------------------------- MODULE BudgetFlowProofs ---------------------------
(***************************************************************************)
(* What BudgetFlow guarantees for any sets of lock and release attempts.   *)
(* The invariant IInv says of every budget in flight what the chain must   *)
(* already show (Honest), that a lock fills only its own pot, and that all *)
(* claims to money name one escrow (OneClaim): the amount typed for the    *)
(* lock is needed for another lock and goes when a lock is recorded.       *)
(***************************************************************************)
EXTENDS BudgetFlow, TLAPS

\* A budget some attempt or entry carries that claims money.
Backed(b) == b.status \in {"funded", "releasing", "released"}

\* What any budget written down anywhere may say of the chain.
Honest(b) ==
  /\ Backed(b) => /\ b.ref \in Locks
                  /\ pots[b.ref].status # "None"
                  /\ pots[b.ref].amount > 0
  /\ b.status = "released" => pots[b.ref].status = "Released"
  /\ b.status = "failed" /\ b.lockTx =>
       /\ b.ref \in Locks
       /\ op[b.ref] \in {"mined", "reverted"}
       /\ pots[b.ref].amount = 0

AllHonest ==
  /\ Honest(entry.budget)
  /\ Honest(writer.base.budget)
  /\ \A a \in Attempts : Honest(next[a])

\* Each lock stands for its own pot: filled by its operation and nothing else.
LocksOwnPots ==
  \A a \in Locks :
    /\ pc[a] # "unused" => next[a].ref = a
    /\ pots[a].amount \in {0, 1}
    /\ op[a] = "mined" => pots[a].status # "None"
    /\ op[a] # "mined" => pots[a].status = "None" /\ pots[a].amount = 0
    /\ pc[a] = "reading" => op[a] = "mined"
    /\ pc[a] \in {"announce", "announcing", "service", "receipt", "reading"} =>
         next[a].status = "locking"
    /\ pc[a] \in {"report", "reporting"} => next[a].status \in {"failed", "funded"}

\* A release carries a funded budget from beginning to end.
ReleasesAreBacked ==
  \A a \in Releases :
    /\ pc[a] # "unused" => Backed(next[a])
    /\ pc[a] \in {"announce", "announcing", "service", "receipt"} =>
         next[a].status = "releasing"
    /\ pc[a] # "reading"
    /\ pc[a] \in {"report", "reporting"} => next[a].status \in {"funded", "released"}
    /\ op[a] = "mined" => pots[next[a].ref].status = "Released"

\* Nothing is sent before its announcement is written.
SentAfterAnnounced ==
  \A a \in Attempts :
    /\ pc[a] \in {"unused", "announce", "announcing", "service"} => op[a] = "none"
    /\ pc[a] \in {"service", "receipt"} => a \in announced
    /\ op[a] # "none" => a \in announced

\* While a lock is under way, nothing else is, the notice offers no other, and
\* the amount is still there to type again.
OneLock ==
  /\ OneLockAtATime
  /\ \A a \in Locks : Live(a) => typed /\ notice # "lock"

\* Claims to money written in the list or held by a release.
Claims == {entry.budget, writer.base.budget} \cup
          {next[a] : a \in {r \in Releases : pc[r] # "unused"}}

\* No claim is made until a lock's success is recorded, which takes the typed
\* amount, and with it every later lock, away: so all claims name one escrow.
OneClaim ==
  /\ typed => \A b \in Claims : ~ Backed(b)
  /\ \A b, c \in Claims : Backed(b) /\ Backed(c) => b.ref = c.ref

\* Only that escrow is ever paid out.
PaidClaim ==
  /\ received["delegate"] \in {0, 1}
  /\ received["delegate"] = 1 =>
       \E a \in Releases : pc[a] # "unused" /\ pots[next[a].ref].status = "Released"

\* Attempts that have written `locking` or `releasing` and still owe the todo
\* its outcome, or could not write it.
Owes(a) ==
  \/ pc[a] \in {"service", "receipt", "reading", "report", "reporting"}
  \/ a \in unrecorded

HalfWay(b) == b.status \in {"locking", "releasing"}

OwedBy(b) == \E a \in Attempts : next[a].ref = b.ref /\ Owes(a)

\* As long as nothing has disturbed the session, its list is open, and an
\* attempt owes the todo its outcome while it is being locked or released.
\* What an edit writes back is a todo that was there, and only such a todo has
\* a budget.
AttendedWhenCalm ==
  /\ here \/ disturbed
  /\ ~ entry.present => entry.budget.status = "none"
  /\ writer.busy => writer.base.present
  /\ \A a \in unrecorded : pc[a] = "over"
  /\ HalfWay(entry.budget) => disturbed \/ OwedBy(entry.budget)

IInv ==
  /\ TypeOK
  /\ AllHonest
  /\ LocksOwnPots
  /\ ReleasesAreBacked
  /\ SentAfterAnnounced
  /\ OneLock
  /\ OneClaim
  /\ PaidClaim
  /\ AttendedWhenCalm

-------------------------------------------------------------------------------
\* Type correctness

LEMMA BudgetTypes ==
  /\ EmptyBudget \in Budgets
  /\ NoEntry \in Entries
  /\ \A l \in Locks : StartLock(l) \in Budgets
  /\ \A b \in Budgets : /\ LockSucceeded(b) \in Budgets
                        /\ StartRelease(b) \in Budgets
                        /\ ReleaseSucceeded(b) \in Budgets
                        /\ ReleaseFailed(b) \in Budgets
                        /\ \A t \in BOOLEAN : LockFailed(b, t) \in Budgets
<1>1. EmptyBudget \in Budgets
  BY DEF EmptyBudget, Budgets
<1>2. NoEntry \in Entries
  BY <1>1 DEF NoEntry, Entries
<1>3. \A l \in Locks : StartLock(l) \in Budgets
  BY DEF StartLock, Budgets
<1>4. ASSUME NEW b \in Budgets
      PROVE  /\ LockSucceeded(b) \in Budgets
             /\ StartRelease(b) \in Budgets
             /\ ReleaseSucceeded(b) \in Budgets
             /\ ReleaseFailed(b) \in Budgets
             /\ \A t \in BOOLEAN : LockFailed(b, t) \in Budgets
  BY DEF LockSucceeded, StartRelease, ReleaseSucceeded, ReleaseFailed, LockFailed, Budgets
<1> QED BY <1>1, <1>2, <1>3, <1>4

LEMMA InitTypeOK == Init => TypeOK
<1> SUFFICES ASSUME Init PROVE TypeOK
  OBVIOUS
<1>1. Chain!PromiseTypeOK
  BY DEF Init, Chain!PromiseInit, Chain!PromiseTypeOK, Chain!NoPot, Chain!Statuses
<1> QED BY <1>1, BudgetTypes DEF Init, TypeOK, PCs

\* The moves inside one attempt.
LEMMA FlowTypeOK ==
  ASSUME TypeOK, NEW a \in Attempts, FlowStep(a)
  PROVE  TypeOK'
<1>0. next[a] \in Budgets /\ base[a] \in BOOLEAN /\ entry \in Entries
  BY DEF TypeOK
<1>1. ASSUME NEW from, NEW to \in PCs, ReadForWrite(a, from, to)
      PROVE  TypeOK'
  BY <1>0, <1>1 DEF ReadForWrite, TypeOK, Entries, listVars, chainVars, historyVars,
     Chain!PromiseTypeOK
<1>2. CASE Announce(a)
  <2>1. entry' \in Entries /\ base' \in [Attempts -> BOOLEAN]
    BY <1>0, <1>2 DEF Announce, Put, AcceptCompletion, TypeOK, Entries
  <2> QED BY <1>2, <2>1 DEF Announce, TypeOK, PCs, chainVars, Chain!PromiseTypeOK
<1>3. CASE SendOperation(a)
  BY <1>3 DEF SendOperation, TypeOK, PCs, listVars, chainVars, historyVars, Chain!PromiseTypeOK
<1>4. CASE LockMined(a)
  BY <1>4 DEF LockMined, TypeOK, PCs, listVars, chainVars, historyVars, Chain!PromiseTypeOK
<1>5. ASSUME NEW b \in Budgets, Answer(a, b) PROVE TypeOK'
  BY <1>5 DEF Answer, TypeOK, PCs, listVars, chainVars, historyVars, Chain!PromiseTypeOK
<1>6. CASE ServiceAnswers(a)
  <2>1. \A t \in BOOLEAN : Failed(a, t) \in Budgets
    BY <1>0, BudgetTypes DEF Failed
  <2>2. PICK b \in Budgets : Answer(a, b)
    BY <1>0, <1>6, <2>1, BudgetTypes DEF ServiceAnswers, RefusedBeforeSending, ReceiptLost,
       ReceiptReverted, LockRead, LockUnreadable, ReleaseMined
  <2> QED BY <1>5, <2>2
<1>7. CASE Report(a)
  <2>1. entry' \in Entries /\ base' \in [Attempts -> BOOLEAN]
    BY <1>0, <1>7 DEF Report, Put, TypeOK, Entries
  <2> QED BY <1>7, <2>1 DEF Report, KindOf, TypeOK, PCs, chainVars, historyVars,
             Chain!PromiseTypeOK
<1>8. CASE WriteRefused(a)
  BY <1>8 DEF WriteRefused, KindOf, TypeOK, PCs, listVars, chainVars, historyVars,
     Chain!PromiseTypeOK
<1> QED BY <1>1, <1>2, <1>3, <1>4, <1>6, <1>7, <1>8 DEF FlowStep, PCs

LEMMA UserTypeOK == TypeOK /\ UserStarts => TypeOK'
<1> SUFFICES ASSUME TypeOK, UserStarts PROVE TypeOK'
  OBVIOUS
<1>1. ASSUME NEW a \in Locks, AddTodoWithBudget(a) PROVE TypeOK'
  <2>1. entry' \in Entries
    BY <1>1, BudgetTypes DEF AddTodoWithBudget, Entries
  <2> QED BY <1>1, <2>1, BudgetTypes DEF AddTodoWithBudget, TypeOK, PCs, Attempts, chainVars,
             Chain!PromiseTypeOK
<1>2. ASSUME NEW a \in Locks, RetryLock(a) PROVE TypeOK'
  BY <1>2, BudgetTypes DEF RetryLock, TypeOK, PCs, Attempts, listVars, chainVars, historyVars,
     Chain!PromiseTypeOK
<1>3. ASSUME NEW a \in Releases, ReleaseTodoBudget(a) PROVE TypeOK'
  <2>1. entry.budget \in Budgets
    BY DEF TypeOK, Entries
  <2> QED BY <1>3, <2>1, BudgetTypes DEF ReleaseTodoBudget, TypeOK, PCs, Attempts, listVars,
             chainVars, historyVars, Chain!PromiseTypeOK
<1>4. CASE DismissNotice
  BY <1>4 DEF DismissNotice, TypeOK, listVars, chainVars, historyVars, Chain!PromiseTypeOK
<1> QED BY <1>1, <1>2, <1>3, <1>4 DEF UserStarts

\* What a user operation does to the chain when it is mined.
LEMMA ChainTypeOK ==
  ASSUME TypeOK, LocksOwnPots, ReleasesAreBacked, AllHonest, SentAfterAnnounced,
         NEW a \in Attempts, ChainStep(a)
  PROVE  TypeOK'
<1>1. CASE Revert(a)
  BY <1>1 DEF Revert, TypeOK, listVars, sessionVars, chainVars, historyVars, Chain!PromiseTypeOK
<1>2. CASE Mine(a)
  <2>1. ASSUME NEW amount \in {0, 1}, a \in Locks, Chain!Fill(a, "owner", amount)
        PROVE  Chain!PromiseTypeOK'
    BY <2>1 DEF Chain!Fill, TypeOK, Chain!PromiseTypeOK, Chain!Statuses
  <2>2. ASSUME a \in Releases, Chain!Empty(next[a].ref, "delegate", "Released")
        PROVE  Chain!PromiseTypeOK'
    <3>1. next[a].ref \in Locks
      BY <1>2, <2>2 DEF Mine, ReleasesAreBacked, AllHonest, Honest, SentAfterAnnounced
    <3>2. pots[next[a].ref].amount \in Nat
      BY <3>1 DEF TypeOK, Chain!PromiseTypeOK
    <3> QED BY <2>2, <3>1, <3>2 DEF Chain!Empty, TypeOK, Chain!PromiseTypeOK, Chain!Statuses,
               Chain!Closed
  <2>3. Chain!PromiseTypeOK'
    BY <1>2, <2>1, <2>2 DEF Mine
  <2> QED BY <1>2, <2>3 DEF Mine, TypeOK, listVars, sessionVars, historyVars
<1> QED BY <1>1, <1>2 DEF ChainStep

LEMMA AroundTypeOK == TypeOK /\ Around => TypeOK'
<1> SUFFICES ASSUME TypeOK, Around PROVE TypeOK'
  OBVIOUS
<1> USE DEF TypeOK, listVars, sessionVars, chainVars, historyVars, Chain!PromiseTypeOK
<1>1. CASE StartEdit
  <2>1. Shown \in BOOLEAN
    BY DEF Shown, Entries
  <2>2. PICK completed \in BOOLEAN :
          writer' = [busy |-> TRUE, base |-> [entry EXCEPT !.completed = completed]]
    BY <1>1, <2>1 DEF StartEdit, Entries
  <2>3. [entry EXCEPT !.completed = completed] \in Entries
    BY DEF Entries
  <2> QED BY <1>1, <2>2, <2>3 DEF StartEdit
<1>2. CASE FinishEdit
  BY <1>2, BudgetTypes DEF FinishEdit
<1>3. CASE DelegateActs
  BY <1>3 DEF DelegateActs
<1>4. CASE DeleteTodo
  BY <1>4, BudgetTypes DEF DeleteTodo
<1>5. CASE SwitchList
  BY <1>5 DEF SwitchList
<1>6. CASE Reload
  BY <1>6, BudgetTypes DEF Reload, PCs
<1> QED BY <1>1, <1>2, <1>3, <1>4, <1>5, <1>6 DEF Around

-------------------------------------------------------------------------------
\* What a step leaves alone

\* Only a sent, mined or reverted operation touches the chain's side.
LEMMA ChainMoves ==
  ASSUME [Next]_vars
  PROVE  \/ UNCHANGED <<chainVars, op>>
         \/ \E a \in Attempts : SendOperation(a) \/ Mine(a) \/ Revert(a)
BY DEF Next, vars, UserStarts, FlowStep, ChainStep, Around, AddTodoWithBudget, RetryLock,
   ReleaseTodoBudget, DismissNotice, ReadForWrite, Announce, LockMined, ServiceAnswers,
   RefusedBeforeSending, ReceiptLost, ReceiptReverted, LockRead, LockUnreadable,
   ReleaseMined, Answer, Report, WriteRefused, StartEdit, FinishEdit, DelegateActs,
   DeleteTodo, SwitchList, Reload

\* A pot once filled keeps its amount and is never `None` again; what was
\* mined or reverted stays so.
ChainForward ==
  /\ \A l \in Locks :
       /\ pots[l].status # "None" =>
            /\ pots'[l].status # "None"
            /\ pots'[l].amount = pots[l].amount
       /\ pots[l].status = "Released" => pots'[l].status = "Released"
       /\ op[l] \in {"mined", "reverted"} =>
            op'[l] = op[l] /\ pots'[l].amount = pots[l].amount
  /\ \A a \in Attempts : op[a] \in {"mined", "reverted"} => op'[a] = op[a]

LEMMA ChainGoesForward ==
  ASSUME IInv, [Next]_vars
  PROVE  ChainForward
<1>0. /\ pots \in [Locks -> [status : Chain!Statuses, amount : Nat]]
      /\ op \in [Attempts -> {"none", "pending", "mined", "reverted"}]
      /\ Locks \subseteq Attempts
  BY DEF IInv, TypeOK, Chain!PromiseTypeOK, Attempts
<1>1. CASE UNCHANGED <<chainVars, op>>
  BY <1>1 DEF ChainForward, chainVars
<1>2. ASSUME NEW a \in Attempts, SendOperation(a) PROVE ChainForward
  <2>1. op[a] = "none"
    BY <1>2 DEF SendOperation, IInv, SentAfterAnnounced
  <2> QED BY <1>0, <1>2, <2>1 DEF SendOperation, ChainForward, chainVars
<1>3. ASSUME NEW a \in Attempts, Revert(a) PROVE ChainForward
  BY <1>0, <1>3 DEF Revert, ChainForward, chainVars
<1>4. ASSUME NEW a \in Attempts, Mine(a) PROVE ChainForward
  <2>1. op[a] = "pending" /\ op' = [op EXCEPT ![a] = "mined"]
    BY <1>4 DEF Mine
  <2>2. CASE a \in Locks
    <3>1. PICK amount \in {0, 1} : Chain!Fill(a, "owner", amount)
      BY <1>4, <2>2, AttemptsDiffer DEF Mine
    <3> QED BY <1>0, <2>1, <2>2, <3>1 DEF ChainForward, Chain!Fill
  <2>3. CASE a \notin Locks
    <3>1. Chain!Empty(next[a].ref, "delegate", "Released")
      BY <1>4, <2>3 DEF Mine
    <3> QED BY <1>0, <2>1, <2>3, <3>1 DEF ChainForward, Chain!Empty
  <2> QED BY <2>2, <2>3
<1> QED BY <1>1, <1>2, <1>3, <1>4, ChainMoves

\* So an honest budget stays honest whatever happens next.
LEMMA HonestKept ==
  ASSUME IInv, [Next]_vars, NEW b, Honest(b)
  PROVE  Honest(b)'
BY ChainGoesForward DEF ChainForward, Honest, Backed, Attempts

-------------------------------------------------------------------------------
\* Honesty

LEMMA StartsHonest ==
  /\ Honest(EmptyBudget)
  /\ \A l \in Locks : Honest(StartLock(l))
BY DEF Honest, Backed, EmptyBudget, StartLock

\* What the service answers is true of the chain.
LEMMA AnswerHonest ==
  ASSUME IInv, NEW a \in Attempts, ServiceAnswers(a)
  PROVE  \E b : Answer(a, b) /\ Honest(b)
<1>0. /\ next[a] \in Budgets /\ Honest(next[a])
      /\ a \in Locks \/ a \in Releases
  BY DEF IInv, TypeOK, AllHonest, Attempts
<1>1. CASE a \in Locks
  <2>1. /\ pc[a] \in {"service", "receipt", "reading"}
        /\ next[a].ref = a
    BY <1>1 DEF ServiceAnswers, RefusedBeforeSending, ReceiptLost, ReceiptReverted, LockRead,
       LockUnreadable, ReleaseMined, IInv, LocksOwnPots
  <2>2. Honest(LockFailed(next[a], FALSE))
    BY <1>0 DEF Honest, Backed, LockFailed, Budgets
  <2>3. CASE RefusedBeforeSending(a) \/ ReceiptLost(a) \/ LockUnreadable(a)
    BY <1>1, <2>2, <2>3 DEF RefusedBeforeSending, ReceiptLost, LockUnreadable, Failed
  <2>4. CASE ReceiptReverted(a)
    <3>1. Honest(LockFailed(next[a], TRUE))
      BY <1>0, <1>1, <2>1, <2>4 DEF ReceiptReverted, Honest, Backed, LockFailed, Budgets,
         IInv, LocksOwnPots
    <3> QED BY <1>1, <2>4, <3>1 DEF ReceiptReverted, Failed
  <2>5. CASE LockRead(a)
    <3>1. op[a] = "mined" /\ pots[a].status # "None" /\ pots[a].amount \in {0, 1}
      BY <1>1, <2>5 DEF LockRead, IInv, LocksOwnPots
    <3>2. CASE pots[a].amount > 0
      <4>1. Honest(LockSucceeded(next[a]))
        BY <1>0, <1>1, <2>1, <3>1, <3>2 DEF Honest, Backed, LockSucceeded, Budgets
      <4> QED BY <2>1, <2>5, <3>2, <4>1 DEF LockRead
    <3>3. CASE ~ (pots[a].amount > 0)
      <4>1. Honest(LockFailed(next[a], TRUE))
        BY <1>0, <1>1, <2>1, <3>1, <3>3 DEF Honest, Backed, LockFailed, Budgets
      <4> QED BY <2>1, <2>5, <3>3, <4>1 DEF LockRead
    <3> QED BY <3>2, <3>3
  <2> QED BY <1>1, <2>3, <2>4, <2>5, AttemptsDiffer DEF ServiceAnswers, ReleaseMined
<1>2. CASE a \in Releases
  <2>1. /\ a \notin Locks
        /\ pc[a] \in {"service", "receipt"}
        /\ Backed(next[a])
    BY <1>2, AttemptsDiffer DEF ServiceAnswers, RefusedBeforeSending, ReceiptLost,
       ReceiptReverted, LockRead, LockUnreadable, ReleaseMined, IInv, ReleasesAreBacked
  <2>2. Honest(ReleaseFailed(next[a]))
    BY <1>0, <2>1 DEF Honest, Backed, ReleaseFailed, Budgets
  <2>3. CASE RefusedBeforeSending(a) \/ ReceiptLost(a) \/ ReceiptReverted(a)
    BY <2>1, <2>2, <2>3 DEF RefusedBeforeSending, ReceiptLost, ReceiptReverted, Failed
  <2>4. CASE ReleaseMined(a)
    <3>1. pots[next[a].ref].status = "Released"
      BY <1>2, <2>4 DEF ReleaseMined, IInv, ReleasesAreBacked
    <3>2. Honest(ReleaseSucceeded(next[a]))
      BY <1>0, <2>1, <3>1 DEF Honest, Backed, ReleaseSucceeded, Budgets
    <3> QED BY <2>4, <3>2 DEF ReleaseMined
  <2> QED BY <2>1, <2>3, <2>4 DEF ServiceAnswers, LockRead, LockUnreadable
<1> QED BY <1>0, <1>1, <1>2

\* Every budget written anywhere is one that was there before, a fresh start
\* or an answer of the service.
LEMMA HonestStep ==
  ASSUME IInv, [Next]_vars
  PROVE  AllHonest'
<1>0. /\ Honest(entry.budget) /\ Honest(writer.base.budget)
      /\ \A a \in Attempts : Honest(next[a])
      /\ next \in [Attempts -> Budgets]
      /\ writer \in [busy : BOOLEAN, base : Entries]
      /\ entry \in Entries
  BY DEF IInv, AllHonest, TypeOK
<1>1. \E b : entry'.budget = b /\ Honest(b)
  <2>1. CASE UNCHANGED entry
    BY <1>0, <2>1
  <2>2. ASSUME NEW a \in Locks, AddTodoWithBudget(a)
        PROVE  \E b : entry'.budget = b /\ Honest(b)
    BY <2>2, StartsHonest DEF AddTodoWithBudget
  <2>3. ASSUME NEW a \in Attempts, Announce(a) \/ Report(a)
        PROVE  \E b : entry'.budget = b /\ Honest(b)
    BY <1>0, <2>3 DEF Announce, Report, Put
  <2>4. CASE FinishEdit
    BY <1>0, <2>4 DEF FinishEdit
  <2>5. CASE DeleteTodo
    BY <2>5, StartsHonest DEF DeleteTodo, NoEntry
  <2> QED BY <2>1, <2>2, <2>3, <2>4, <2>5
          DEF Next, vars, listVars, UserStarts, FlowStep, ChainStep, Around, RetryLock,
              ReleaseTodoBudget, DismissNotice, ReadForWrite, SendOperation, LockMined,
              ServiceAnswers, RefusedBeforeSending, ReceiptLost, ReceiptReverted, LockRead,
              LockUnreadable, ReleaseMined, Answer, WriteRefused, StartEdit, DelegateActs,
              SwitchList, Reload, Mine, Revert
<1>2. \E b : writer'.base.budget = b /\ Honest(b)
  <2>1. CASE UNCHANGED writer
    BY <1>0, <2>1
  <2>2. CASE StartEdit
    <3>1. PICK completed : writer' = [busy |-> TRUE,
                                     base |-> [entry EXCEPT !.completed = completed]]
      BY <2>2 DEF StartEdit
    <3> QED BY <1>0, <3>1 DEF Entries
  <2>3. CASE FinishEdit \/ Reload
    BY <2>3, StartsHonest DEF FinishEdit, Reload, NoEntry
  <2> QED BY <2>1, <2>2, <2>3
          DEF Next, vars, UserStarts, FlowStep, ChainStep, Around, AddTodoWithBudget,
              RetryLock, ReleaseTodoBudget, DismissNotice, ReadForWrite, Announce,
              SendOperation, LockMined, ServiceAnswers, RefusedBeforeSending, ReceiptLost,
              ReceiptReverted, LockRead, LockUnreadable, ReleaseMined, Answer, Report,
              WriteRefused, DelegateActs, DeleteTodo, SwitchList, Mine, Revert
<1>3. ASSUME NEW c \in Attempts
      PROVE  \E b : next'[c] = b /\ Honest(b)
  <2>1. CASE UNCHANGED next
    BY <1>0, <2>1
  <2>2. ASSUME NEW a \in Locks, AddTodoWithBudget(a) \/ RetryLock(a)
        PROVE  \E b : next'[c] = b /\ Honest(b)
    BY <1>0, <2>2, StartsHonest DEF AddTodoWithBudget, RetryLock, Attempts
  <2>3. ASSUME NEW a \in Releases, ReleaseTodoBudget(a)
        PROVE  \E b : next'[c] = b /\ Honest(b)
    <3>1. Honest(StartRelease(entry.budget))
      BY <1>0, <2>3 DEF ReleaseTodoBudget, CanRelease, StartRelease, Honest, Backed, Entries,
         Budgets
    <3> QED BY <1>0, <2>3, <3>1 DEF ReleaseTodoBudget, Attempts
  <2>4. ASSUME NEW a \in Attempts, ServiceAnswers(a)
        PROVE  \E b : next'[c] = b /\ Honest(b)
    <3>1. PICK b : Answer(a, b) /\ Honest(b)
      BY <2>4, AnswerHonest
    <3> QED BY <1>0, <3>1 DEF Answer
  <2> QED BY <2>1, <2>2, <2>3, <2>4
          DEF Next, vars, sessionVars, UserStarts, FlowStep, ChainStep, Around,
              DismissNotice, ReadForWrite, Announce, SendOperation, LockMined, Report,
              WriteRefused, StartEdit, FinishEdit, DelegateActs, DeleteTodo, SwitchList,
              Reload, Mine, Revert
<1>4. ASSUME NEW b, Honest(b) PROVE Honest(b)'
  BY <1>4, HonestKept
<1> QED BY <1>1, <1>2, <1>3, <1>4 DEF AllHonest, Honest, Backed

-------------------------------------------------------------------------------
\* Sending, and the locks

LEMMA SentAfterAnnouncedStep ==
  ASSUME IInv, [Next]_vars
  PROVE  SentAfterAnnounced'
<1>0. /\ pc \in [Attempts -> PCs]
      /\ op \in [Attempts -> {"none", "pending", "mined", "reverted"}]
      /\ Locks \subseteq Attempts /\ Releases \subseteq Attempts
      /\ SentAfterAnnounced
  BY DEF IInv, TypeOK, Attempts
<1> USE DEF SentAfterAnnounced, historyVars, sessionVars
<1>1. ASSUME NEW a \in Locks, AddTodoWithBudget(a) PROVE SentAfterAnnounced'
  BY <1>0, <1>1 DEF AddTodoWithBudget
<1>2. ASSUME NEW a \in Locks, RetryLock(a) PROVE SentAfterAnnounced'
  BY <1>0, <1>2 DEF RetryLock
<1>3. ASSUME NEW a \in Releases, ReleaseTodoBudget(a) PROVE SentAfterAnnounced'
  BY <1>0, <1>3 DEF ReleaseTodoBudget
<1>4. ASSUME NEW a \in Attempts, FlowStep(a) PROVE SentAfterAnnounced'
  <2>1. CASE ReadForWrite(a, "announce", "announcing") \/ ReadForWrite(a, "report", "reporting")
    BY <1>0, <2>1 DEF ReadForWrite
  <2>2. CASE Announce(a)
    BY <1>0, <2>2 DEF Announce
  <2>3. CASE SendOperation(a)
    BY <1>0, <2>3 DEF SendOperation
  <2>4. CASE LockMined(a)
    BY <1>0, <2>4 DEF LockMined
  <2>5. CASE ServiceAnswers(a)
    BY <1>0, <2>5 DEF ServiceAnswers, RefusedBeforeSending, ReceiptLost, ReceiptReverted,
       LockRead, LockUnreadable, ReleaseMined, Answer
  <2>6. CASE Report(a) \/ WriteRefused(a)
    BY <1>0, <2>6 DEF Report, WriteRefused
  <2> QED BY <1>4, <2>1, <2>2, <2>3, <2>4, <2>5, <2>6 DEF FlowStep
<1>5. ASSUME NEW a \in Attempts, ChainStep(a) PROVE SentAfterAnnounced'
  BY <1>0, <1>5 DEF ChainStep, Mine, Revert
<1>6. CASE Reload
  BY <1>0, <1>6 DEF Reload
<1>7. CASE DismissNotice \/ StartEdit \/ FinishEdit \/ DelegateActs \/ DeleteTodo \/ SwitchList
           \/ UNCHANGED vars
  BY <1>0, <1>7 DEF DismissNotice, StartEdit, FinishEdit, DelegateActs, DeleteTodo,
     SwitchList, vars
<1> QED BY <1>1, <1>2, <1>3, <1>4, <1>5, <1>6, <1>7 DEF Next, UserStarts, Around

\* A lock's answers are about its own pot.
LEMMA AnswerOfLock ==
  ASSUME IInv, NEW a \in Locks, ServiceAnswers(a)
  PROVE  \E b : Answer(a, b) /\ b.ref = a /\ b.status \in {"failed", "funded"}
<1>0. next[a] \in Budgets /\ next[a].ref = a
  BY DEF IInv, TypeOK, LocksOwnPots, Attempts, ServiceAnswers, RefusedBeforeSending,
     ReceiptLost, ReceiptReverted, LockRead, LockUnreadable, ReleaseMined
<1>1. ASSUME NEW t \in BOOLEAN
      PROVE  LockFailed(next[a], t).ref = a /\ LockFailed(next[a], t).status = "failed"
  BY <1>0 DEF LockFailed, Budgets
<1>2. LockSucceeded(next[a]).ref = a /\ LockSucceeded(next[a]).status = "funded"
  BY <1>0 DEF LockSucceeded, Budgets
<1>3. CASE RefusedBeforeSending(a) \/ ReceiptLost(a) \/ ReceiptReverted(a) \/ LockUnreadable(a)
  BY <1>1, <1>3 DEF RefusedBeforeSending, ReceiptLost, ReceiptReverted, LockUnreadable, Failed
<1>4. CASE LockRead(a)
  BY <1>1, <1>2, <1>4 DEF LockRead
<1> QED BY <1>3, <1>4, AttemptsDiffer DEF ServiceAnswers, ReleaseMined

LEMMA LocksOwnPotsStep ==
  ASSUME IInv, [Next]_vars
  PROVE  LocksOwnPots'
<1>0. /\ pc \in [Attempts -> PCs] /\ next \in [Attempts -> Budgets]
      /\ op \in [Attempts -> {"none", "pending", "mined", "reverted"}]
      /\ pots \in [Locks -> [status : Chain!Statuses, amount : Nat]]
      /\ Locks \subseteq Attempts /\ Releases \subseteq Attempts
      /\ Locks \cap Releases = {}
      /\ LocksOwnPots /\ SentAfterAnnounced
  BY AttemptsDiffer DEF IInv, TypeOK, Chain!PromiseTypeOK, Attempts
<1> USE DEF LocksOwnPots, sessionVars, chainVars
<1>1. ASSUME NEW a \in Locks, AddTodoWithBudget(a) PROVE LocksOwnPots'
  BY <1>0, <1>1 DEF AddTodoWithBudget, StartLock
<1>2. ASSUME NEW a \in Locks, RetryLock(a) PROVE LocksOwnPots'
  BY <1>0, <1>2 DEF RetryLock, StartLock
<1>3. ASSUME NEW a \in Releases, ReleaseTodoBudget(a) PROVE LocksOwnPots'
  BY <1>0, <1>3 DEF ReleaseTodoBudget
<1>4. ASSUME NEW a \in Attempts, FlowStep(a) PROVE LocksOwnPots'
  <2>1. CASE ReadForWrite(a, "announce", "announcing") \/ ReadForWrite(a, "report", "reporting")
    BY <1>0, <2>1 DEF ReadForWrite
  <2>2. CASE Announce(a)
    BY <1>0, <2>2 DEF Announce
  <2>3. CASE SendOperation(a)
    BY <1>0, <2>3 DEF SendOperation, SentAfterAnnounced
  <2>4. CASE LockMined(a)
    BY <1>0, <2>4 DEF LockMined
  <2>5. CASE ServiceAnswers(a)
    <3>1. PICK b : /\ Answer(a, b)
                   /\ a \in Locks => b.ref = a /\ b.status \in {"failed", "funded"}
      BY <1>0, <2>5, AnswerOfLock DEF ServiceAnswers, RefusedBeforeSending, ReceiptLost,
         ReceiptReverted, LockRead, LockUnreadable, ReleaseMined
    <3> QED BY <1>0, <3>1 DEF Answer
  <2>6. CASE Report(a) \/ WriteRefused(a)
    BY <1>0, <2>6 DEF Report, WriteRefused
  <2> QED BY <1>4, <2>1, <2>2, <2>3, <2>4, <2>5, <2>6 DEF FlowStep
<1>5. ASSUME NEW a \in Attempts, Revert(a) PROVE LocksOwnPots'
  BY <1>0, <1>5 DEF Revert
<1>6. ASSUME NEW a \in Attempts, Mine(a) PROVE LocksOwnPots'
  <2>1. CASE a \in Locks
    <3>1. PICK amount \in {0, 1} : Chain!Fill(a, "owner", amount)
      BY <1>0, <1>6, <2>1 DEF Mine
    <3> QED BY <1>0, <1>6, <2>1, <3>1 DEF Mine, Chain!Fill
  <2>2. CASE a \in Releases
    <3>1. Chain!Empty(next[a].ref, "delegate", "Released")
      BY <1>0, <1>6, <2>2 DEF Mine
    <3> QED BY <1>0, <1>6, <2>2, <3>1 DEF Mine, Chain!Empty
  <2> QED BY <2>1, <2>2 DEF Attempts
<1>7. CASE Reload
  BY <1>0, <1>7 DEF Reload
<1>8. CASE DismissNotice \/ StartEdit \/ FinishEdit \/ DelegateActs \/ DeleteTodo \/ SwitchList
           \/ UNCHANGED vars
  BY <1>0, <1>8 DEF DismissNotice, StartEdit, FinishEdit, DelegateActs, DeleteTodo,
     SwitchList, vars
<1> QED BY <1>1, <1>2, <1>3, <1>4, <1>5, <1>6, <1>7, <1>8
        DEF Next, UserStarts, Around, ChainStep

\* A release's answers claim the escrow it set out to pay.
LEMMA AnswerOfRelease ==
  ASSUME IInv, NEW a \in Releases, ServiceAnswers(a)
  PROVE  \E b : /\ Answer(a, b)
                /\ b.ref = next[a].ref
                /\ b.status \in {"funded", "released"}
<1>0. next[a] \in Budgets /\ a \notin Locks
  BY AttemptsDiffer DEF IInv, TypeOK, Attempts
<1>1. /\ ReleaseFailed(next[a]).ref = next[a].ref
      /\ ReleaseFailed(next[a]).status = "funded"
      /\ ReleaseSucceeded(next[a]).ref = next[a].ref
      /\ ReleaseSucceeded(next[a]).status = "released"
  BY <1>0 DEF ReleaseFailed, ReleaseSucceeded, Budgets
<1>2. pc[a] # "reading"
  BY DEF IInv, ReleasesAreBacked
<1> QED BY <1>0, <1>1, <1>2 DEF ServiceAnswers, RefusedBeforeSending, ReceiptLost,
        ReceiptReverted, LockRead, LockUnreadable, ReleaseMined, Failed

LEMMA ReleasesAreBackedStep ==
  ASSUME IInv, [Next]_vars
  PROVE  ReleasesAreBacked'
<1>0. /\ pc \in [Attempts -> PCs] /\ next \in [Attempts -> Budgets]
      /\ op \in [Attempts -> {"none", "pending", "mined", "reverted"}]
      /\ pots \in [Locks -> [status : Chain!Statuses, amount : Nat]]
      /\ Locks \subseteq Attempts /\ Releases \subseteq Attempts
      /\ Locks \cap Releases = {}
      /\ ReleasesAreBacked /\ SentAfterAnnounced
  BY AttemptsDiffer DEF IInv, TypeOK, Chain!PromiseTypeOK, Attempts
<1> USE DEF ReleasesAreBacked, Backed, sessionVars, chainVars
<1>1. ASSUME NEW a \in Locks, AddTodoWithBudget(a) PROVE ReleasesAreBacked'
  BY <1>0, <1>1 DEF AddTodoWithBudget
<1>2. ASSUME NEW a \in Locks, RetryLock(a) PROVE ReleasesAreBacked'
  BY <1>0, <1>2 DEF RetryLock
<1>3. ASSUME NEW a \in Releases, ReleaseTodoBudget(a) PROVE ReleasesAreBacked'
  <2>1. StartRelease(entry.budget).status = "releasing"
    BY DEF IInv, TypeOK, Entries, Budgets, StartRelease
  <2>2. op[a] = "none"
    BY <1>0, <1>3 DEF ReleaseTodoBudget, SentAfterAnnounced
  <2> QED BY <1>0, <1>3, <2>1, <2>2 DEF ReleaseTodoBudget
<1>4. ASSUME NEW a \in Attempts, FlowStep(a) PROVE ReleasesAreBacked'
  <2>1. CASE ReadForWrite(a, "announce", "announcing") \/ ReadForWrite(a, "report", "reporting")
    BY <1>0, <2>1 DEF ReadForWrite
  <2>2. CASE Announce(a)
    BY <1>0, <2>2 DEF Announce
  <2>3. CASE SendOperation(a)
    BY <1>0, <2>3 DEF SendOperation
  <2>4. CASE LockMined(a)
    BY <1>0, <2>4 DEF LockMined
  <2>5. CASE ServiceAnswers(a)
    <3>1. PICK b : /\ Answer(a, b)
                   /\ a \in Releases => /\ b.ref = next[a].ref
                                        /\ b.status \in {"funded", "released"}
      BY <1>0, <2>5, AnswerOfRelease DEF ServiceAnswers, RefusedBeforeSending, ReceiptLost,
         ReceiptReverted, LockRead, LockUnreadable, ReleaseMined
    <3> QED BY <1>0, <3>1 DEF Answer
  <2>6. CASE Report(a) \/ WriteRefused(a)
    BY <1>0, <2>6 DEF Report, WriteRefused
  <2> QED BY <1>4, <2>1, <2>2, <2>3, <2>4, <2>5, <2>6 DEF FlowStep
<1>5. ASSUME NEW a \in Attempts, Revert(a) PROVE ReleasesAreBacked'
  BY <1>0, <1>5 DEF Revert
<1>6. ASSUME NEW a \in Attempts, Mine(a) PROVE ReleasesAreBacked'
  <2>1. ASSUME NEW l \in Locks, pots[l].status = "Released"
        PROVE  pots'[l].status = "Released"
    BY <1>6, <2>1, ChainGoesForward DEF Next, ChainStep, ChainForward
  <2>2. /\ \A r \in Releases : op[r] = "mined" => next[r].ref \in Locks
        /\ a \in Releases => next[a].ref \in Locks
    BY <1>0, <1>6 DEF Mine, IInv, AllHonest, Honest, SentAfterAnnounced
  <2>3. a \in Releases => pots'[next[a].ref].status = "Released"
    BY <1>0, <1>6, <2>2 DEF Mine, Chain!Empty
  <2> QED BY <1>0, <1>6, <2>1, <2>2, <2>3 DEF Mine
<1>7. CASE Reload
  BY <1>0, <1>7 DEF Reload
<1>8. CASE DismissNotice \/ StartEdit \/ FinishEdit \/ DelegateActs \/ DeleteTodo \/ SwitchList
           \/ UNCHANGED vars
  BY <1>0, <1>8 DEF DismissNotice, StartEdit, FinishEdit, DelegateActs, DeleteTodo,
     SwitchList, vars
<1> QED BY <1>1, <1>2, <1>3, <1>4, <1>5, <1>6, <1>7, <1>8
        DEF Next, UserStarts, Around, ChainStep

LEMMA OneLockStep ==
  ASSUME IInv, [Next]_vars
  PROVE  OneLock'
<1>0. /\ pc \in [Attempts -> PCs]
      /\ Locks \subseteq Attempts /\ Releases \subseteq Attempts
      /\ Locks \cap Releases = {}
      /\ OneLock /\ typed \in BOOLEAN
  BY AttemptsDiffer DEF IInv, TypeOK, Attempts
<1> USE DEF OneLock, OneLockAtATime, Live, sessionVars
<1>1. ASSUME NEW a \in Locks, AddTodoWithBudget(a) PROVE OneLock'
  BY <1>0, <1>1 DEF AddTodoWithBudget
<1>2. ASSUME NEW a \in Locks, RetryLock(a) PROVE OneLock'
  BY <1>0, <1>2 DEF RetryLock, NoticeRetryable
<1>3. ASSUME NEW a \in Releases, ReleaseTodoBudget(a) PROVE OneLock'
  BY <1>0, <1>3 DEF ReleaseTodoBudget
<1>4. ASSUME NEW a \in Attempts, FlowStep(a) PROVE OneLock'
  <2>1. CASE ReadForWrite(a, "announce", "announcing") \/ ReadForWrite(a, "report", "reporting")
    BY <1>0, <2>1 DEF ReadForWrite
  <2>2. CASE Announce(a)
    BY <1>0, <2>2 DEF Announce
  <2>3. CASE SendOperation(a)
    BY <1>0, <2>3 DEF SendOperation
  <2>4. CASE LockMined(a)
    BY <1>0, <2>4 DEF LockMined
  <2>5. CASE ServiceAnswers(a)
    BY <1>0, <2>5 DEF ServiceAnswers, RefusedBeforeSending, ReceiptLost, ReceiptReverted,
       LockRead, LockUnreadable, ReleaseMined, Answer
  <2>6. CASE Report(a)
    BY <1>0, <2>6 DEF Report, KindOf, Attempts
  <2>7. CASE WriteRefused(a)
    BY <1>0, <2>7 DEF WriteRefused, KindOf, Attempts
  <2> QED BY <1>4, <2>1, <2>2, <2>3, <2>4, <2>5, <2>6, <2>7 DEF FlowStep
<1>5. ASSUME NEW a \in Attempts, ChainStep(a) PROVE OneLock'
  BY <1>0, <1>5 DEF ChainStep, Mine, Revert
<1>6. CASE Reload
  BY <1>0, <1>6 DEF Reload
<1>7. CASE DismissNotice \/ StartEdit \/ FinishEdit \/ DelegateActs \/ DeleteTodo \/ SwitchList
           \/ UNCHANGED vars
  BY <1>0, <1>7 DEF DismissNotice, StartEdit, FinishEdit, DelegateActs, DeleteTodo,
     SwitchList, vars
<1> QED BY <1>1, <1>2, <1>3, <1>4, <1>5, <1>6, <1>7 DEF Next, UserStarts, Around

-------------------------------------------------------------------------------
\* One claim

\* A step whose claims were all there before, and that does not bring the typed
\* amount back, keeps OneClaim.
LEMMA ClaimsInherited ==
  ASSUME OneClaim, typed' => typed,
         \A c \in Claims' : Backed(c) => \E b \in Claims : Backed(b) /\ b.ref = c.ref
  PROVE  OneClaim'
BY DEF OneClaim, Backed

\* Before any lock has been started there is nothing to claim.
LEMMA NoClaimWithoutLock ==
  ASSUME IInv, \A l \in Locks : pc[l] = "unused", NEW b, Honest(b)
  PROVE  ~ Backed(b)
BY DEF IInv, Honest, LocksOwnPots, SentAfterAnnounced, Attempts

LEMMA ClaimsAreHonest ==
  ASSUME IInv, NEW b \in Claims
  PROVE  Honest(b)
BY DEF IInv, AllHonest, Claims, Attempts

LEMMA OneClaimStep ==
  ASSUME IInv, [Next]_vars
  PROVE  OneClaim'
<1>0. /\ pc \in [Attempts -> PCs] /\ next \in [Attempts -> Budgets]
      /\ Locks \subseteq Attempts /\ Releases \subseteq Attempts
      /\ Locks \cap Releases = {}
      /\ OneClaim /\ typed \in BOOLEAN
  BY AttemptsDiffer DEF IInv, TypeOK, Attempts
<1>1. ASSUME NEW a \in Locks, AddTodoWithBudget(a) PROVE OneClaim'
  <2>1. \A c \in Claims : ~ Backed(c)
    BY <1>1, NoClaimWithoutLock, ClaimsAreHonest DEF AddTodoWithBudget
  <2>2. ~ Backed(entry'.budget)
    BY <1>1 DEF AddTodoWithBudget, StartLock, Backed
  <2>3. Claims' \subseteq Claims \cup {entry'.budget}
    BY <1>0, <1>1 DEF Claims, AddTodoWithBudget
  <2> QED BY <2>1, <2>2, <2>3 DEF OneClaim, Backed
<1>2. ASSUME NEW a \in Locks, RetryLock(a) PROVE OneClaim'
  <2>1. Claims' = Claims /\ typed' = typed
    BY <1>0, <1>2 DEF Claims, RetryLock, listVars
  <2> QED BY <1>0, <2>1, ClaimsInherited
<1>3. ASSUME NEW a \in Releases, ReleaseTodoBudget(a) PROVE OneClaim'
  <2>1. /\ Backed(entry.budget)
        /\ StartRelease(entry.budget).ref = entry.budget.ref
    BY <1>3 DEF ReleaseTodoBudget, CanRelease, Backed, StartRelease, IInv, TypeOK, Entries, Budgets
  <2>2. Claims' \subseteq Claims \cup {StartRelease(entry.budget)} /\ typed' = typed
    BY <1>0, <1>3 DEF Claims, ReleaseTodoBudget, listVars
  <2>3. entry.budget \in Claims
    BY DEF Claims
  <2> QED BY <1>0, <2>1, <2>2, <2>3, ClaimsInherited
<1>4. ASSUME NEW a \in Attempts, FlowStep(a) PROVE OneClaim'
  <2>1. CASE ReadForWrite(a, "announce", "announcing") \/ ReadForWrite(a, "report", "reporting")
    <3>1. Claims' = Claims /\ typed' = typed
      BY <1>0, <2>1 DEF Claims, ReadForWrite, listVars
    <3> QED BY <1>0, <3>1, ClaimsInherited
  <2>2. CASE Announce(a)
    <3>1. /\ Claims' \subseteq Claims \cup {next[a]} /\ typed' = typed
          /\ a \in Releases => next[a] \in Claims
      BY <1>0, <2>2 DEF Claims, Announce, Put
    <3>2. a \in Locks => ~ Backed(next[a])
      BY <2>2 DEF Announce, Backed, IInv, LocksOwnPots
    <3> QED BY <1>0, <3>1, <3>2, ClaimsInherited DEF Attempts
  <2>3. CASE SendOperation(a) \/ LockMined(a) \/ WriteRefused(a)
    <3>1. Claims' = Claims /\ typed' = typed
      BY <1>0, <2>3 DEF Claims, SendOperation, LockMined, WriteRefused, listVars
    <3> QED BY <1>0, <3>1, ClaimsInherited
  <2>4. ASSUME ServiceAnswers(a), a \in Locks PROVE OneClaim'
    <3>1. Claims' = Claims /\ typed' = typed
      BY <1>0, <2>4, AnswerOfLock DEF Claims, Answer, listVars
    <3> QED BY <1>0, <3>1, ClaimsInherited
  <2>5. ASSUME ServiceAnswers(a), a \in Releases PROVE OneClaim'
    <3>1. PICK b : Answer(a, b) /\ b.ref = next[a].ref
      BY <2>5, AnswerOfRelease
    <3>2. Claims' \subseteq Claims \cup {b} /\ typed' = typed
      BY <1>0, <3>1 DEF Claims, Answer, listVars
    <3>3. pc[a] # "unused"
      BY <2>5 DEF ServiceAnswers, RefusedBeforeSending, ReceiptLost, ReceiptReverted, LockRead,
         LockUnreadable, ReleaseMined
    <3>4. next[a] \in Claims /\ Backed(next[a])
      BY <2>5, <3>3 DEF Claims, IInv, ReleasesAreBacked
    <3> QED BY <1>0, <3>1, <3>2, <3>4, ClaimsInherited
  <2>6. CASE Report(a)
    <3>1. Claims' \subseteq Claims \cup {next[a]}
      BY <1>0, <2>6 DEF Claims, Report, Put
    <3>2. CASE a \in Releases
      <4>1. next[a] \in Claims /\ (typed' => typed)
        BY <1>0, <2>6, <3>2 DEF Claims, Report
      <4> QED BY <1>0, <3>1, <4>1, ClaimsInherited
    <3>3. CASE a \in Locks
      <4>1. \A c \in Claims : ~ Backed(c)
        BY <1>0, <2>6, <3>3 DEF IInv, OneLock, OneClaim, Live, Report
      <4>2. next[a].status \in {"failed", "funded"}
        BY <2>6, <3>3 DEF Report, IInv, LocksOwnPots
      <4>3. typed' => ~ Backed(next[a])
        BY <2>6, <3>3, <4>2 DEF Report, Succeeded, Backed
      <4> QED BY <3>1, <4>1, <4>3 DEF OneClaim, Backed
    <3> QED BY <3>2, <3>3 DEF Attempts
  <2> QED BY <1>4, <2>1, <2>2, <2>3, <2>4, <2>5, <2>6 DEF FlowStep, Attempts
<1>5. ASSUME NEW a \in Attempts, ChainStep(a) PROVE OneClaim'
  <2>1. Claims' = Claims /\ typed' = typed
    BY <1>5 DEF Claims, ChainStep, Mine, Revert, listVars, sessionVars
  <2> QED BY <1>0, <2>1, ClaimsInherited
<1>6. CASE Reload
  <2>1. Claims' \subseteq Claims \cup {EmptyBudget} /\ (typed' => typed)
    BY <1>0, <1>6 DEF Claims, Reload, NoEntry, listVars
  <2> QED BY <1>0, <2>1, ClaimsInherited DEF Backed, EmptyBudget
<1>7. CASE StartEdit \/ FinishEdit \/ DeleteTodo
  <2>1. Claims' \subseteq Claims \cup {EmptyBudget} /\ typed' = typed
    BY <1>7 DEF Claims, StartEdit, FinishEdit, DeleteTodo, NoEntry, listVars, sessionVars,
       IInv, TypeOK, Entries
  <2> QED BY <1>0, <2>1, ClaimsInherited DEF Backed, EmptyBudget
<1>8. CASE DismissNotice \/ DelegateActs \/ SwitchList \/ UNCHANGED vars
  <2>1. Claims' = Claims /\ typed' = typed
    BY <1>8 DEF Claims, DismissNotice, DelegateActs, SwitchList, vars, listVars, sessionVars
  <2> QED BY <1>0, <2>1, ClaimsInherited
<1> QED BY <1>1, <1>2, <1>3, <1>4, <1>5, <1>6, <1>7, <1>8 DEF Next, UserStarts, Around

-------------------------------------------------------------------------------
\* One payment

\* A release once started stays started, and goes on claiming the same escrow.
LEMMA StartedKeepsRef ==
  ASSUME IInv, [Next]_vars, NEW r \in Releases, pc[r] # "unused"
  PROVE  pc'[r] # "unused" /\ next'[r].ref = next[r].ref
<1>0. /\ pc \in [Attempts -> PCs] /\ next \in [Attempts -> Budgets]
      /\ r \in Attempts /\ r \notin Locks
      /\ Locks \subseteq Attempts /\ Releases \subseteq Attempts
  BY AttemptsDiffer DEF IInv, TypeOK, Attempts
<1>1. CASE UNCHANGED <<pc, next>>
  BY <1>1
<1>2. ASSUME NEW a \in Locks, AddTodoWithBudget(a) \/ RetryLock(a)
      PROVE  pc'[r] # "unused" /\ next'[r].ref = next[r].ref
  BY <1>0, <1>2 DEF AddTodoWithBudget, RetryLock
<1>3. ASSUME NEW a \in Releases, ReleaseTodoBudget(a)
      PROVE  pc'[r] # "unused" /\ next'[r].ref = next[r].ref
  BY <1>0, <1>3 DEF ReleaseTodoBudget
<1>4. ASSUME NEW a \in Attempts, FlowStep(a)
      PROVE  pc'[r] # "unused" /\ next'[r].ref = next[r].ref
  <2>1. CASE ServiceAnswers(a)
    <3>1. a \in Releases => \E b : Answer(a, b) /\ b.ref = next[a].ref
      BY <2>1, AnswerOfRelease
    <3>2. a \in Locks => \E b : Answer(a, b)
      BY <2>1, AnswerOfLock
    <3> QED BY <1>0, <3>1, <3>2 DEF Answer, Attempts
  <2>2. CASE ~ ServiceAnswers(a)
    BY <1>0, <1>4, <2>2 DEF FlowStep, ReadForWrite, Announce, SendOperation, LockMined, Report,
       WriteRefused
  <2> QED BY <2>1, <2>2
<1>5. CASE Reload
  BY <1>0, <1>5 DEF Reload
<1> QED BY <1>1, <1>2, <1>3, <1>4, <1>5 DEF Next, vars, sessionVars, UserStarts, ChainStep,
        Around, DismissNotice, Mine, Revert, StartEdit, FinishEdit, DelegateActs, DeleteTodo,
        SwitchList

LEMMA PaidClaimStep ==
  ASSUME IInv, [Next]_vars
  PROVE  PaidClaim'
<1>0. /\ pots \in [Locks -> [status : Chain!Statuses, amount : Nat]]
      /\ received \in [{"owner", "delegate"} -> Int]
      /\ Locks \cap Releases = {} /\ Releases \subseteq Attempts
      /\ PaidClaim
  BY AttemptsDiffer DEF IInv, TypeOK, Chain!PromiseTypeOK, Attempts
<1>1. ASSUME NEW r \in Releases, pc[r] # "unused"
      PROVE  /\ next[r] \in Claims /\ Backed(next[r]) /\ next[r].ref \in Locks
             /\ pots[next[r].ref].status = "Released" =>
                  /\ pc'[r] # "unused"
                  /\ pots'[next'[r].ref].status = "Released"
  <2>1. next[r] \in Claims /\ Backed(next[r])
    BY <1>1 DEF Claims, IInv, ReleasesAreBacked
  <2>2. next[r].ref \in Locks
    BY <2>1, ClaimsAreHonest DEF Honest
  <2> QED BY <1>1, <2>1, <2>2, StartedKeepsRef, ChainGoesForward DEF ChainForward
<1>2. CASE received'["delegate"] = received["delegate"]
  BY <1>0, <1>1, <1>2 DEF PaidClaim
<1>3. ASSUME NEW a \in Releases, Mine(a) PROVE PaidClaim'
  <2>1. Chain!Empty(next[a].ref, "delegate", "Released")
    BY <1>0, <1>3 DEF Mine
  <2>2. pc[a] # "unused"
    BY <1>0, <1>3 DEF Mine, IInv, SentAfterAnnounced
  <2>3. next[a].ref \in Locks /\ pots[next[a].ref].status = "Locked"
    BY <1>1, <2>1, <2>2 DEF Chain!Empty
  <2>4. pots[next[a].ref].amount \in {0, 1}
    BY <2>3 DEF IInv, LocksOwnPots
  <2>5. received["delegate"] = 0
    <3> SUFFICES ASSUME received["delegate"] = 1 PROVE FALSE
      BY <1>0 DEF PaidClaim
    <3>1. PICK r \in Releases : pc[r] # "unused" /\ pots[next[r].ref].status = "Released"
      BY <1>0 DEF PaidClaim
    <3>2. next[r].ref = next[a].ref
      BY <1>1, <2>2, <3>1 DEF IInv, OneClaim
    <3> QED BY <2>3, <3>1, <3>2
  <2>6. received'["delegate"] \in {0, 1}
    BY <1>0, <2>1, <2>4, <2>5 DEF Chain!Empty
  <2>7. pc'[a] # "unused" /\ pots'[next'[a].ref].status = "Released"
    BY <1>0, <1>3, <2>1, <2>2, <2>3, StartedKeepsRef DEF Chain!Empty
  <2> QED BY <2>6, <2>7 DEF PaidClaim
<1>4. ASSUME NEW a \in Locks, Mine(a) PROVE received'["delegate"] = received["delegate"]
  BY <1>0, <1>4 DEF Mine, Chain!Fill
<1> QED BY <1>2, <1>3, <1>4, ChainMoves DEF SendOperation, Revert, chainVars, Attempts

-------------------------------------------------------------------------------
\* Nobody leaves a budget half way

LEMMA AnswerKeepsRef ==
  ASSUME IInv, NEW a \in Attempts, ServiceAnswers(a)
  PROVE  \E b : /\ Answer(a, b)
                /\ b.ref = next[a].ref
                /\ pc[a] \in {"service", "receipt", "reading"}
<1>0. next[a] \in Budgets
  BY DEF IInv, TypeOK
<1>1. /\ LockSucceeded(next[a]).ref = next[a].ref
      /\ ReleaseSucceeded(next[a]).ref = next[a].ref
      /\ \A t \in BOOLEAN : Failed(a, t).ref = next[a].ref /\ LockFailed(next[a], t).ref = next[a].ref
  BY <1>0 DEF Budgets, LockSucceeded, ReleaseSucceeded, Failed, LockFailed, ReleaseFailed
<1>2. CASE LockRead(a)
  BY <1>1, <1>2 DEF LockRead
<1>3. CASE RefusedBeforeSending(a) \/ ReceiptLost(a) \/ ReceiptReverted(a)
  BY <1>1, <1>3 DEF RefusedBeforeSending, ReceiptLost, ReceiptReverted
<1>4. CASE LockUnreadable(a) \/ ReleaseMined(a)
  BY <1>1, <1>4 DEF LockUnreadable, ReleaseMined
<1> QED BY <1>2, <1>3, <1>4 DEF ServiceAnswers

\* A step that leaves the entry and what is owed to it alone.
LEMMA StillOwed ==
  ASSUME IInv, UNCHANGED <<entry, writer, here, disturbed>>,
         \A b \in Attempts : Owes(b) => Owes(b)' /\ next'[b].ref = next[b].ref,
         \A b \in unrecorded' : pc'[b] = "over"
  PROVE  AttendedWhenCalm'
<1>1. AttendedWhenCalm
  BY DEF IInv
<1>2. OwedBy(entry.budget) => OwedBy(entry.budget)'
  BY DEF OwedBy
<1> QED BY <1>1, <1>2 DEF AttendedWhenCalm, HalfWay

\* A step of one attempt towards its outcome.
LEMMA StillUnderWay ==
  ASSUME IInv, NEW a \in Attempts, NEW to \in PCs,
         pc' = [pc EXCEPT ![a] = to], pc[a] # "over",
         Owes(a) => to \in {"receipt", "reading", "report", "reporting"},
         NEW b, next' = [next EXCEPT ![a] = b], Owes(a) => b.ref = next[a].ref,
         UNCHANGED <<entry, writer, here, disturbed, unrecorded>>
  PROVE  AttendedWhenCalm'
<1>0. /\ pc \in [Attempts -> PCs] /\ next \in [Attempts -> Budgets]
      /\ unrecorded \subseteq Attempts
      /\ \A c \in unrecorded : pc[c] = "over"
  BY DEF IInv, TypeOK, AttendedWhenCalm
<1>1. \A c \in Attempts : Owes(c) => Owes(c)' /\ next'[c].ref = next[c].ref
  BY <1>0 DEF Owes
<1>2. \A c \in unrecorded' : pc'[c] = "over"
  BY <1>0
<1> QED BY <1>1, <1>2, StillOwed

\* The write that announces an attempt leaves it owing the outcome.
LEMMA NowOwed ==
  ASSUME IInv, NEW a \in Attempts, pc[a] # "over", pc' = [pc EXCEPT ![a] = "service"],
         UNCHANGED <<writer, here, disturbed, unrecorded>>,
         entry'.present, entry'.budget = next'[a]
  PROVE  AttendedWhenCalm'
<1>0. /\ pc \in [Attempts -> PCs] /\ unrecorded \subseteq Attempts
      /\ AttendedWhenCalm
  BY DEF IInv, TypeOK
<1>1. OwedBy(entry.budget)'
  BY <1>0 DEF OwedBy, Owes
<1>2. \A c \in unrecorded' : pc'[c] = "over"
  BY <1>0 DEF AttendedWhenCalm
<1> QED BY <1>0, <1>1, <1>2 DEF AttendedWhenCalm

\* An attempt ends by writing an outcome, or is known not to have written it.
LEMMA AttemptEnds ==
  ASSUME IInv, NEW a \in Attempts, Report(a) \/ WriteRefused(a)
  PROVE  AttendedWhenCalm'
<1>0. /\ next \in [Attempts -> Budgets] /\ pc \in [Attempts -> PCs]
      /\ unrecorded \subseteq Attempts
      /\ AttendedWhenCalm
      /\ UNCHANGED <<writer, here, disturbed>>
      /\ pc' = [pc EXCEPT ![a] = "over"] /\ next' = next
  BY DEF IInv, TypeOK, Report, WriteRefused, historyVars
<1>1. CASE Report(a)
  <2>1. next[a].status \in {"failed", "funded", "released"}
    BY <1>1 DEF Report, IInv, LocksOwnPots, ReleasesAreBacked, Attempts
  <2>2. entry'.present = TRUE /\ entry'.budget = next[a] /\ UNCHANGED unrecorded
    BY <1>1 DEF Report, Put, historyVars
  <2>3. \A c \in unrecorded' : pc'[c] = "over"
    BY <1>0, <2>2 DEF AttendedWhenCalm
  <2> QED BY <1>0, <2>1, <2>2, <2>3 DEF AttendedWhenCalm, HalfWay
<1>2. CASE WriteRefused(a)
  <2>1. /\ UNCHANGED entry
        /\ pc[a] \in {"announce", "announcing", "report", "reporting"}
        /\ unrecorded' = IF pc[a] \in {"report", "reporting"} THEN unrecorded \cup {a}
                                                              ELSE unrecorded
    BY <1>2 DEF WriteRefused, listVars
  <2>2. \A c \in unrecorded' : pc'[c] = "over"
    BY <1>0, <2>1 DEF AttendedWhenCalm
  <2>3. Owes(a) => a \in unrecorded'
    BY <1>0, <2>1 DEF Owes
  <2>4. ASSUME NEW c \in Attempts, Owes(c) PROVE Owes(c)'
    BY <1>0, <2>1, <2>3, <2>4 DEF Owes
  <2> QED BY <1>0, <2>1, <2>2, <2>4, StillOwed
<1> QED BY <1>1, <1>2

LEMMA AttendedStep ==
  ASSUME IInv, [Next]_vars
  PROVE  AttendedWhenCalm'
<1>0. /\ pc \in [Attempts -> PCs] /\ entry \in Entries /\ next \in [Attempts -> Budgets]
      /\ writer \in [busy : BOOLEAN, base : Entries]
      /\ here \in BOOLEAN /\ disturbed \in BOOLEAN /\ unrecorded \subseteq Attempts
      /\ Locks \subseteq Attempts /\ Releases \subseteq Attempts
      /\ AttendedWhenCalm
  BY DEF IInv, TypeOK, Attempts
<1>a. \A a \in Attempts : Owes(a) =>
        pc[a] \in {"service", "receipt", "reading", "report", "reporting", "over"}
  BY <1>0 DEF Owes, AttendedWhenCalm
<1>b. \A a \in Attempts : next = [next EXCEPT ![a] = next[a]]
  BY <1>0
<1>c. \A c \in unrecorded : pc[c] = "over"
  BY <1>0 DEF AttendedWhenCalm
<1> USE DEF listVars, historyVars, PCs
<1>1. ASSUME NEW a \in Locks, AddTodoWithBudget(a) PROVE AttendedWhenCalm'
  <2>1. entry'.present /\ entry'.budget = next'[a]
    BY <1>0, <1>1 DEF AddTodoWithBudget
  <2> QED BY <1>0, <1>1, <2>1, NowOwed DEF AddTodoWithBudget
<1>2. ASSUME NEW a \in Locks, RetryLock(a) PROVE AttendedWhenCalm'
  BY <1>0, <1>a, <1>2, StillUnderWay DEF RetryLock
<1>3. ASSUME NEW a \in Releases, ReleaseTodoBudget(a) PROVE AttendedWhenCalm'
  BY <1>0, <1>a, <1>3, StillUnderWay DEF ReleaseTodoBudget
<1>4. ASSUME NEW a \in Attempts, FlowStep(a) PROVE AttendedWhenCalm'
  <2>1. CASE ReadForWrite(a, "announce", "announcing")
    BY <1>0, <1>a, <1>b, <2>1, StillUnderWay DEF ReadForWrite
  <2>2. CASE ReadForWrite(a, "report", "reporting")
    BY <1>0, <1>a, <1>b, <2>2, StillUnderWay DEF ReadForWrite
  <2>3. CASE Announce(a)
    <3>1. entry'.present /\ entry'.budget = next'[a]
      BY <2>3 DEF Announce, Put
    <3> QED BY <2>3, <3>1, NowOwed DEF Announce
  <2>4. CASE SendOperation(a)
    BY <1>0, <1>a, <1>b, <2>4, StillUnderWay DEF SendOperation
  <2>5. CASE LockMined(a)
    BY <1>0, <1>a, <1>b, <2>5, StillUnderWay DEF LockMined
  <2>6. CASE ServiceAnswers(a)
    <3>1. PICK b : /\ Answer(a, b) /\ b.ref = next[a].ref
                   /\ pc[a] \in {"service", "receipt", "reading"}
      BY <2>6, AnswerKeepsRef
    <3> QED BY <1>0, <3>1, StillUnderWay DEF Answer
  <2>7. CASE Report(a) \/ WriteRefused(a)
    BY <2>7, AttemptEnds
  <2> QED BY <1>4, <2>1, <2>2, <2>3, <2>4, <2>5, <2>6, <2>7 DEF FlowStep
<1>5. CASE FinishEdit
  <2>0. UNCHANGED <<pc, next, unrecorded>>
    BY <1>5 DEF FinishEdit, sessionVars
  <2>1. entry' = writer.base /\ entry'.present
    BY <1>0, <1>5 DEF FinishEdit, AttendedWhenCalm
  <2>2. disturbed' \/ (entry'.budget = entry.budget /\ ~ disturbed)
    BY <1>0, <1>5 DEF FinishEdit
  <2>3. writer'.busy = FALSE
    BY <1>5 DEF FinishEdit
  <2>4. (here \/ disturbed)'
    BY <1>0, <1>5 DEF FinishEdit, AttendedWhenCalm
  <2>5. (\A a \in unrecorded : pc[a] = "over")'
    BY <1>c, <2>0
  <2>6. ~ disturbed' => (HalfWay(entry.budget) => OwedBy(entry.budget))'
    BY <1>0, <2>0, <2>2 DEF AttendedWhenCalm, HalfWay, OwedBy, Owes
  <2> QED BY <2>1, <2>3, <2>4, <2>5, <2>6 DEF AttendedWhenCalm
<1>6. CASE StartEdit
  <2>1. writer'.base.present /\ UNCHANGED <<entry, pc, next, unrecorded, here, disturbed>>
    BY <1>0, <1>6 DEF StartEdit, Readable, Entries, sessionVars
  <2> QED BY <1>0, <2>1 DEF AttendedWhenCalm, HalfWay, OwedBy, Owes
<1>7. CASE DeleteTodo
  <2>1. entry'.budget.status = "none" /\ UNCHANGED <<pc, unrecorded, here, disturbed, writer>>
    BY <1>7 DEF DeleteTodo, NoEntry, EmptyBudget, sessionVars
  <2> QED BY <1>0, <2>1 DEF AttendedWhenCalm, HalfWay
<1>8. CASE SwitchList
  BY <1>0, <1>8 DEF SwitchList, AttendedWhenCalm, HalfWay, sessionVars
<1>9. CASE Reload
  <2>1. \A a \in unrecorded' : pc'[a] = "over"
    BY <1>0, <1>c, <1>9 DEF Reload
  <2> QED BY <1>0, <1>9, <2>1 DEF Reload, AttendedWhenCalm, HalfWay
<1>10. ASSUME NEW a \in Attempts, ChainStep(a) PROVE AttendedWhenCalm'
  <2>1. UNCHANGED <<entry, writer, here, disturbed, pc, next, unrecorded>>
    BY <1>10 DEF ChainStep, Mine, Revert, sessionVars
  <2> QED BY <1>c, <2>1, StillOwed DEF Owes
<1>11. CASE DismissNotice \/ UNCHANGED vars
  <2>1. UNCHANGED <<entry, writer, here, disturbed, pc, next, unrecorded>>
    BY <1>11 DEF DismissNotice, vars, sessionVars
  <2> QED BY <1>c, <2>1, StillOwed DEF Owes
<1>12. CASE DelegateActs
  <2>1. UNCHANGED <<entry, writer, here, disturbed, pc, next, unrecorded>>
    BY <1>12 DEF DelegateActs, sessionVars
  <2> QED BY <1>c, <2>1, StillOwed DEF Owes
<1> QED BY <1>1, <1>2, <1>3, <1>4, <1>5, <1>6, <1>7, <1>8, <1>9, <1>10, <1>11, <1>12
       DEF Next, UserStarts, Around

-------------------------------------------------------------------------------
\* The invariant is inductive, and the properties follow

LEMMA InitIInv == Init => IInv
<1> SUFFICES ASSUME Init PROVE IInv
  OBVIOUS
<1>1. TypeOK
  BY InitTypeOK
<1>2. AllHonest
  BY StartsHonest DEF Init, AllHonest, NoEntry
<1>3. LocksOwnPots /\ ReleasesAreBacked /\ SentAfterAnnounced
  BY DEF Init, LocksOwnPots, ReleasesAreBacked, SentAfterAnnounced, Chain!PromiseInit,
     Chain!NoPot, Attempts
<1>4. OneLock
  BY DEF Init, OneLock, OneLockAtATime, Live, Attempts
<1>5. OneClaim
  BY DEF Init, OneClaim, Claims, Backed, NoEntry, EmptyBudget, Attempts
<1>6. PaidClaim
  BY DEF Init, PaidClaim, Chain!PromiseInit
<1>7. AttendedWhenCalm
  BY DEF Init, AttendedWhenCalm, HalfWay, NoEntry, EmptyBudget
<1> QED BY <1>1, <1>2, <1>3, <1>4, <1>5, <1>6, <1>7 DEF IInv

LEMMA TypeOKStep ==
  ASSUME IInv, [Next]_vars
  PROVE  TypeOK'
<1>1. CASE UNCHANGED vars
  BY <1>1 DEF vars, sessionVars, listVars, chainVars, historyVars, IInv, TypeOK,
     Chain!PromiseTypeOK
<1> QED BY <1>1, UserTypeOK, FlowTypeOK, ChainTypeOK, AroundTypeOK DEF Next, IInv

LEMMA Inductive == Spec => []IInv
<1>1. IInv /\ [Next]_vars => IInv'
  BY TypeOKStep, HonestStep, LocksOwnPotsStep, ReleasesAreBackedStep, SentAfterAnnouncedStep,
     OneLockStep, OneClaimStep, PaidClaimStep, AttendedStep DEF IInv
<1> QED BY <1>1, InitIInv, PTL DEF Spec

\* Every variable keeps its type, however many attempts there are.
THEOREM TypesHold == Spec => []TypeOK
<1>1. IInv => TypeOK
  BY DEF IInv
<1> QED BY <1>1, Inductive, PTL

\* No budget is shown as funded unless its escrow received money: what
\* handleLock reads back is what the todo says.
THEOREM FundedMeansPaidIn == Spec => []FundedWasPaidIn
<1>1. IInv => FundedWasPaidIn
  BY DEF IInv, AllHonest, Honest, Backed, FundedWasPaidIn
<1> QED BY <1>1, Inductive, PTL

\* No budget is shown as released unless the chain paid it out.
THEOREM ReleasedMeansPaid == Spec => []ReleasedWasPaid
<1>1. IInv => ReleasedWasPaid
  BY DEF IInv, AllHonest, Honest, ReleasedWasPaid
<1> QED BY <1>1, Inductive, PTL

\* The delegate is paid at most once, for any number of lock and release
\* attempts in any overlap: every claim names the one escrow a recorded lock
\* filled, and a pot is emptied once.
THEOREM DelegatePaidOnce == Spec => []PaidAtMostOnce
<1>1. IInv => PaidAtMostOnce
  BY DEF IInv, PaidClaim, PaidAtMostOnce
<1> QED BY <1>1, Inductive, PTL

\* At most one lock is under way, for any number of retries.
THEOREM LocksDoNotOverlap == Spec => []OneLockAtATime
<1>1. IInv => OneLockAtATime
  BY DEF IInv, OneLock
<1> QED BY <1>1, Inductive, PTL

\* Whatever is sent to the chain was written to the todo first.
THEOREM SentWasWritten == Spec => []WrittenBeforeSent
<1>1. IInv => WrittenBeforeSent
  BY DEF IInv, SentAfterAnnounced, WrittenBeforeSent
<1> QED BY <1>1, Inductive, PTL

\* A failed lock that names its transaction holds no money.
THEOREM FailedWithTxIsEmpty == Spec => []FailedWithTxHoldsNothing
<1>1. IInv => FailedWithTxHoldsNothing
  BY DEF IInv, AllHonest, Honest, FailedWithTxHoldsNothing
<1> QED BY <1>1, Inductive, PTL

\* A budget stays at `locking` or `releasing` with no attempt at work on its
\* escrow only after a reload, a switch of lists, a stale edit, or a write by an
\* attempt on that escrow that the list's storage refused, however many attempts
\* overlap and however the service and the chain fail them.
THEOREM NobodyLeavesHalfWay == Spec => []StuckOnlyIfDisturbed
<1>1. ASSUME IInv PROVE StuckOnlyIfDisturbed
  <2>1. HalfWay(entry.budget) => disturbed \/ OwedBy(entry.budget)
    BY <1>1 DEF IInv, AttendedWhenCalm
  <2>2. \A a \in Attempts : Owes(a) => Live(a) \/ a \in unrecorded
    BY DEF Owes, Live
  <2> QED BY <2>1, <2>2 DEF StuckOnlyIfDisturbed, HalfWay, OwedBy
<1> QED BY <1>1, Inductive, PTL
===============================================================================
