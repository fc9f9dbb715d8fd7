----------------------------- MODULE Delegation -----------------------------
(***************************************************************************)
(* One delegated todo between its owner and the delegates it was handed    *)
(* to, each with a replica of the list: delegation.js and the owner's and  *)
(* delegate's writes of db-actions.js.                                     *)
(*                                                                         *)
(* Only the owner writes the todo's entry. A delegate writes actions       *)
(* beside it, and every reader decides which of them count: those of the   *)
(* delegate the entry names now, no older than the entry's updatedAt. The  *)
(* field both sides change is `completed`; a rename differs only in the    *)
(* field. Each write takes a tick of the time of day.                      *)
(*                                                                         *)
(* Every write of the owner's reads the entry, awaits, and puts the whole  *)
(* entry back. Calls that overlap, a click and the budget flow in the      *)
(* background among them, write over what the others wrote meanwhile.      *)
(***************************************************************************)
EXTENDS Integers, FiniteSets

CONSTANTS
  Owner, Delegates,
  Calls,    \* writes of the owner's that may be under way at once
  Fast,     \* delegates whose clock is ahead of the others'
  Ahead,    \* and by how much
  Expiries, \* when a delegation may be set to expire
  MaxTime   \* bound on the time of day

ASSUME PeopleAssumption == Owner \notin Delegates /\ Fast \subseteq Delegates
ASSUME TimesAssumption ==
  Ahead \in Nat /\ MaxTime \in Nat \ {0} /\ Expiries \subseteq Nat

VARIABLES
  now,
  call,     \* what each of the owner's writes has read
  entry,    \* the todo's entry at each site
  actions,  \* the delegation actions at each site
  prompt    \* what a delegate is asked to confirm with the passkey

vars == <<now, call, entry, actions, prompt>>

Sites == {Owner} \cup Delegates
Times == 0..(MaxTime + Ahead)

\* `written` and `granted` are history: when the entry was written, and when the
\* delegation in it was last given.
Entries == [completed : BOOLEAN, delegate : Delegates, revoked : BOOLEAN,
            expiresAt : Expiries, holdsBudget : BOOLEAN,
            updatedAt : Times, written : Times, granted : Times]

Actions == [by : Delegates, done : BOOLEAN, performedAt : Times, written : Times]

NoPrompt == [open |-> FALSE]
Prompts == [open : {TRUE}, done : BOOLEAN, expiresAt : Expiries]

NoCall == [busy |-> FALSE]
UnderWay == [busy : {TRUE}, releases : BOOLEAN, base : Entries]

TypeOK ==
  /\ now \in 0..MaxTime
  /\ call \in [Calls -> {NoCall} \cup UnderWay]
  /\ entry \in [Sites -> Entries]
  /\ actions \in [Sites -> SUBSET Actions]
  /\ prompt \in [Delegates -> {NoPrompt} \cup Prompts]

\* Date.now() at each site
Clock(s) == IF s \in Fast THEN now + Ahead ELSE now

-----------------------------------------------------------------------------
\* delegation.js

isDelegationActiveFor(e, d, t) ==
  /\ e.delegate = d
  /\ ~ e.revoked
  /\ ~ (e.expiresAt < t)

\* The actions that count at a site at time t.
Surviving(s, t) ==
  {a \in actions[s] :
     /\ isDelegationActiveFor(entry[s], a.by, t)
     /\ a.performedAt >= entry[s].updatedAt}

\* applyDelegationActions: the survivors apply in performedAt order, so one of
\* the latest decides.
ShownAt(s, t) ==
  LET counting == Surviving(s, t)
  IN IF counting = {}
     THEN entry[s].completed
     ELSE (CHOOSE a \in counting : \A b \in counting : b.performedAt <= a.performedAt).done

Shown(s) == ShownAt(s, Clock(s))

-----------------------------------------------------------------------------
\* The owner's writes

Init ==
  \E d \in Delegates, expires \in Expiries :
    /\ now = 1
    /\ call = [c \in Calls |-> NoCall]
    /\ entry = [s \in Sites |->
                 [completed |-> FALSE, delegate |-> d, revoked |-> FALSE, expiresAt |-> expires,
                  holdsBudget |-> FALSE, updatedAt |-> 0, written |-> 0, granted |-> 0]]
    /\ actions = [s \in Sites |-> {}]
    /\ prompt = [p \in Delegates |-> NoPrompt]

MayWrite == now < MaxTime

Own == entry[Owner]

\* readTodoForWrite, after which the call awaits. Which write it is shows when
\* it puts the entry back, except that a release has checked what is on screen.
ReadForWrite(c) ==
  /\ ~ call[c].busy
  /\ \E releases \in BOOLEAN :
       /\ releases => Own.holdsBudget /\ Shown(Owner)
       /\ call' = [call EXCEPT ![c] = [busy |-> TRUE, releases |-> releases, base |-> Own]]
  /\ UNCHANGED <<now, entry, actions, prompt>>

\* `get` or `put` rejects: nothing is written.
GiveUp(c) ==
  /\ call[c].busy
  /\ call' = [call EXCEPT ![c] = NoCall]
  /\ UNCHANGED <<now, entry, actions, prompt>>

Plain(c) == call[c].busy /\ ~ call[c].releases

\* Whatever is there by now, the entry that was read is put back changed.
Put(c, e) ==
  /\ MayWrite
  /\ entry' = [entry EXCEPT ![Owner] = [e EXCEPT !.written = now]]
  /\ now' = now + 1
  /\ call' = [call EXCEPT ![c] = NoCall]
  /\ UNCHANGED <<actions, prompt>>

Touched(c) == [call[c].base EXCEPT !.updatedAt = Clock(Owner)]

\* Mutant: toggles the entry instead of what is on screen.
ToggleEntry(c) ==
  /\ Plain(c)
  /\ Put(c, [Touched(c) EXCEPT !.completed = ~ call[c].base.completed])

\* Mutant: a toggle leaves the time of the entry it read.
ToggleKeepingTime(c) ==
  /\ Plain(c)
  /\ Put(c, [call[c].base EXCEPT !.completed = ~ Shown(Owner)])

\* toggleTodoComplete: what is on screen after the read is turned.
Toggle(c) == Plain(c) /\ Put(c, [Touched(c) EXCEPT !.completed = ~ Shown(Owner)])

\* updateTodoText, updateTodoAssignee: the entry as it was read, with a new
\* updatedAt.
Rename(c) == Plain(c) /\ Put(c, Touched(c))

Given(c, d, expires) ==
  [call[c].base EXCEPT !.delegate = d, !.revoked = FALSE, !.expiresAt = expires, !.granted = now]

\* Mutant: a new delegation leaves updatedAt alone.
DelegateKeepingTime(c) ==
  /\ Plain(c) /\ ~ call[c].base.holdsBudget
  /\ \E d \in Delegates, expires \in Expiries : Put(c, Given(c, d, expires))

\* delegateTodo; the row does not offer it while a budget is locked for the
\* delegate.
Delegate(c) ==
  /\ Plain(c) /\ ~ call[c].base.holdsBudget
  /\ \E d \in Delegates, expires \in Expiries :
       Put(c, [Given(c, d, expires) EXCEPT !.updatedAt = Clock(Owner)])

\* revokeTodoDelegation; the row offers it for no delegation that is revoked.
Revoke(c) ==
  /\ Plain(c) /\ ~ call[c].base.revoked
  /\ Put(c, [Touched(c) EXCEPT !.revoked = TRUE])

\* Mutant: a budget's status moves updatedAt like any other write.
WriteBudgetNow(c) ==
  /\ Plain(c)
  /\ \E holds \in BOOLEAN : Put(c, [Touched(c) EXCEPT !.holdsBudget = holds])

\* setTodoBudget
WriteBudget(c) ==
  /\ Plain(c)
  /\ \E holds \in BOOLEAN : Put(c, [call[c].base EXCEPT !.holdsBudget = holds])

\* setTodoBudget with acceptCompletion: the release is starting.
AcceptCompletion(c) ==
  /\ call[c].busy /\ call[c].releases
  /\ Put(c, [Touched(c) EXCEPT !.completed = TRUE])

OwnerWrites(c) ==
  \/ Toggle(c) \/ Rename(c) \/ Delegate(c) \/ Revoke(c) \/ WriteBudget(c) \/ AcceptCompletion(c)

-----------------------------------------------------------------------------
\* The delegate's writes, and replication

\* The role is checked and the new state decided before the passkey is asked.
StartAction(d) ==
  /\ ~ prompt[d].open
  /\ isDelegationActiveFor(entry[d], d, Clock(d))
  /\ prompt' = [prompt EXCEPT ![d] = [open |-> TRUE, done |-> ~ Shown(d),
                                      expiresAt |-> entry[d].expiresAt]]
  /\ UNCHANGED <<now, call, entry, actions>>

\* buildDelegationAction
NewAction(d) ==
  [by |-> d, done |-> prompt[d].done, performedAt |-> Clock(d), written |-> now]

\* writeDelegationAction, after the confirmation. The controller refuses an
\* action written after the expiry it carries.
WriteAction(d) ==
  /\ prompt[d].open
  /\ MayWrite
  /\ ~ (prompt[d].expiresAt < Clock(d))
  /\ actions' = [actions EXCEPT ![d] = @ \cup {NewAction(d)}]
  /\ now' = now + 1
  /\ prompt' = [prompt EXCEPT ![d] = NoPrompt]
  /\ UNCHANGED <<call, entry>>

\* Cancelled, or refused.
DropAction(d) ==
  /\ prompt[d].open
  /\ prompt' = [prompt EXCEPT ![d] = NoPrompt]
  /\ UNCHANGED <<now, call, entry, actions>>

\* Site t receives all that site s has. The entry written last stands.
Replicate(s, t) ==
  /\ entry' = [entry EXCEPT ![t] = IF entry[s].written > @.written THEN entry[s] ELSE @]
  /\ actions' = [actions EXCEPT ![t] = @ \cup actions[s]]
  /\ UNCHANGED <<now, call, prompt>>

TimePasses ==
  /\ MayWrite
  /\ now' = now + 1
  /\ UNCHANGED <<call, entry, actions, prompt>>

Next ==
  \/ \E c \in Calls : ReadForWrite(c) \/ OwnerWrites(c) \/ GiveUp(c)
  \/ \E d \in Delegates : StartAction(d) \/ WriteAction(d) \/ DropAction(d)
  \/ \E s, t \in Sites : Replicate(s, t)
  \/ TimePasses

Spec == Init /\ [][Next]_vars

-----------------------------------------------------------------------------
\* Properties

\* README: "The owner's later write wins ... so an owner can re-open a todo a
\* delegate completed". The owner's click turns what the owner sees, whichever
\* actions are folded in and whatever was written between its read and its
\* write, unless an action by whoever the written entry lets act was stamped by
\* a clock that is ahead and is not older than the click: then the click does
\* nothing.
OwnerCanReopen ==
  [][\A c \in Calls :
       /\ Toggle(c)
       /\ \A a \in actions[Owner] :
            isDelegationActiveFor(entry'[Owner], a.by, Clock(Owner)) =>
              a.performedAt < Clock(Owner)
       => Shown(Owner)' = ~ Shown(Owner)]_vars

\* What counts was written under the delegation the reader sees: an action
\* undone by a revocation does not come back when the same delegate is given
\* the todo again, at any site and however late it gets there. An action of a
\* delegate whose clock is ahead may.
CountsUnderItsGrant ==
  \A s \in Sites : \A a \in Surviving(s, Clock(s)) :
    a.by \notin Fast => a.written >= entry[s].granted

\* A budget's status written over a newer toggle, rename, delegation or
\* revocation: it puts back the times from before.
TurnsBack(c) == WriteBudget(c) /\ call[c].base.updatedAt # Own.updatedAt

\* What has stopped counting for the owner, by a revocation, an expiry, a
\* hand-over or a later write, never counts again, whatever the owner does and
\* however the owner's writes overlap, but for one: a budget's status that was
\* read before a write that moved the entry's time and is put back after it.
\* A toggle or rename that puts back a delegation from before a revocation
\* gives the delegate the todo again, but not what the delegate did before.
UndoneStaysUndone ==
  [][\A a \in actions[Owner] :
       a.by \notin Fast /\ a \notin Surviving(Owner, Clock(Owner)) =>
         \/ a \notin Surviving(Owner, Clock(Owner))'
         \/ \E c \in Calls : TurnsBack(c)]_vars

\* Writing a budget's status leaves the delegate's completion as it is, unless
\* something else was written between its read and its write.
BudgetKeepsCompletion ==
  [][\A c \in Calls :
       WriteBudget(c) /\ call[c].base = Own =>
         Shown(Owner)' = ShownAt(Owner, Clock(Owner)')]_vars
=============================================================================
