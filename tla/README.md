# simple-todo in TLA+

simple-todo is a tutorial in ten chapters. Each chapter is an application of its own under
`src/apps/`, almost a copy of the one before with one idea more: a todo list on OrbitDB (`main`),
shared lists (`collab01`), meeting by QR code (`qr01`), passkey identities (`passkey01`), access
control (`acl01`), encrypted lists (`privacy01`), handing a single todo to somebody else
(`delegation01`), a confidential budget held by a smart contract (`escrow01`), invoices
(`invoice01`) and archives (`archived01`). These modules follow `escrow01`, which contains the todo
list, the registry and the delegation of the chapters before it and adds the part where a mistake
costs money. Three parts that other chapters have and `escrow01` has not, or has simpler, are taken from
there: the registry of lists and its move to another identity (`qr01`), invoices (`invoice01`) and
the archive (`archived01`). Paths below are relative to `src/apps/escrow01/` unless they start with `src/`; `lib/`
is `src/lib/` in there.

## The system

| Component | State it keeps | Operations | Talks to |
|---|---|---|---|
| Escrow contract (`contracts/src/ConfidentialTodoEscrow.sol`) | an escrow per creator and `todoRef`, encrypted amounts and who may read them | `lock`, `release`, `refund` | an ERC-7984 token |
| Budget service (`lib/budget-service-zama.js`, `lib/chain/`) | chain account, read key, decrypted amounts | `lock`, `release`, `readAmount`, account and read-key set-up | contract, bundler, FHE gateway, passkey |
| Budget flow (`lib/budget.js`, `lib/budget-flow.js`, `lib/budget-store.js`) | a `budget` in the todo's entry; the notice and the typed amount in memory | add, retry, release | todo actions, budget service |
| Todo actions (`lib/db-actions.js`, `lib/delegation.js`, `lib/delegated-write-auth.js`) | the entry of each todo and the delegate's actions beside it | add, toggle, rename, assign, delegate, revoke, delete, `setTodoBudget` | OrbitDB, the passkey |
| Todo view (`lib/db-actions.js`) | `todosStore`, the load under way, entries received meanwhile | `loadTodos`, `update` and `join` events, opening a list | OrbitDB events |
| Relay proof (`lib/db-actions.js`) | a replication status per todo | schedule, verify, give up | a relay's HTTP API |
| List registry (`src/apps/qr01/src/lib/list-registry.js`, `registry-handoff.js`, `p2p.js`) | the lists an identity knows, the handle of the registry's database, a buffer of entries on the move | remember, forget, drop, move to another identity, start, stop | a second OrbitDB database, `localStorage` |
| Chain accounts (`lib/budget-service-zama.js`, `lib/chain/account-directory.js`) | the account in `localStorage`, the creation under way, a public directory | ensure, look up, set up, publish | bundler, passkey, OrbitDB |
| Read keys (`lib/budget-store.js`, `lib/budget-service-zama.js`, `lib/chain/read-key-seal.js`) | a read key that runs out, its seal, decrypted amounts and the notices beside them | read, refresh the balance, unlock, renew | passkey, gateway |
| Keys, encryption (`lib/database-keys.js`, `lib/db-encryption.js`, ...) | derived keys | derive, seal, open | third-party libraries |
| Archive (`src/apps/archived01/src/lib/archive/archive.js`) | settings and a memory of what was shipped (`localStorage`), one watcher, one driver | unlock, enable, disable, choose a store, delete, restore | a storage service, the storage bridge's watcher |
| Invoices (`src/apps/invoice01/src/lib/invoice-actions.js`, `invoice/`, `InvoiceSection.svelte`) | invoices in the list; what the page shows of them, the form's draft | draft, issue, cancel, delete | OrbitDB |
| QR handover (`src/apps/qr01/src/lib/handover-protocol.js`) | a roster of peers | show, scan, hand over | WebRTC |

There is one thread and no transaction. Every `await` is a place where the user, another handler,
a replicated write or the end of the page may come between two steps. What makes this hard:

* **Money and the list are two systems.** The todo's entry says `locking`, `funded`, `releasing`,
  `released` or `failed`; the chain says what is so. A user operation lives on without the page
  that sent it.
* **Every write of a todo is read, await, put the whole entry back.** Two such writes overlap.
* **A confidential transfer from too small a balance succeeds and moves an encrypted 0.**
* **Who may do what is decided on read.** An action of a delegate counts or not depending on the
  delegation and the times in the entry a reader has, and replicas lag.
* **Loads overlap with events**, and requests for a further load are a flag in memory.
* **A relay may answer late, about another entry, or never.**
* **Calls that are not awaited share variables.** The archive's watcher and driver, the registry's
  handle and the stored read key are read at the start of a call and written after its awaits.
* **The page decides by what it shows.** An invoice's number, what may be edited or cancelled, and
  what is staged when an identity is left come from stores that are refilled some time after a write.

Correctness, per component: the contract never owes more than it holds and pays each escrow once,
in full; what a budget claims about money is so on chain, a delegate is paid once, and a failure
leaves a budget that can go on; nothing a delegate wrote comes back once it was undone; a page
that is quiet shows the list that is open; a green status is of the todo's latest entry; what the archive
remembers as shipped is in the store; a list that was recorded survives the move to another identity;
no invoice number is given out twice; no account that was paid for is forgotten; and what cannot be
read comes with the button that helps. The hazards behind these are listed in `PROJECT.json` with the lines where they bite.

## The modules

**`Escrow`** is the Solidity contract with the clock, the token's balances and the operator
permission it relies on. An amount is a number; that nobody on chain can compare it is in
`Transferred`, which moves all or 0. A revert is the action not being taken. `readers` is the
FHE access list set by `lock`. `TokenNext` holds what other holders do, direct payments to the
escrow included; `outside` records what a balance got other than through the escrow.

**`EscrowPromise`** is the abstract specification: a pot is filled once and emptied once, in full.
`Escrow` implements it under the mapping at its end (`ImplementsPromise`), and `BudgetFlow` uses
its actions as the chain.

**`BudgetFlow`** is one delegated todo's budget in the owner's session. An attempt is one call of
the lock or the release flow, and `pc` is where it stands:

| `pc` | in the code |
|---|---|
| `announce`, `announcing` | before and after the read in `setTodoBudget`, writing `locking` or `releasing` |
| `service` | `service.lock` / `service.release`: checks, encryption, passkey |
| `receipt` | waiting for the user operation's receipt |
| `reading` | `readEscrow`, `waitBlocks`, `decrypt` after a lock was mined |
| `report`, `reporting` | before and after the read in `setTodoBudget`, writing the outcome |
| `over`, `dead` | done, or cut off by a reload |

`op` is the operation an attempt sent; `Mine` and `Revert` act on it whether or not anyone still
waits. `WriteRefused` is a `setTodoBudget` that throws, before or after its read, because the todo is not in
the open list or because OrbitDB's `get` or `put` rejects: the attempt is over and the entry stays as it was.
An attempt whose outcome was refused that way is in `unrecorded`, a history variable. Around the flows,
`StartEdit`/`FinishEdit` are the other read-await-put writes of the todo (toggle, rename, delegation), and
the list may be switched, the todo deleted, the page reloaded. `overlay` is what the delegate's actions make
of `completed`.

**`Delegation`** is a todo, its owner and its delegates, each with a replica. Each write of the owner's is a
call that reads the entry (`ReadForWrite`, into `call[c].base`), awaits, and puts the whole entry back changed
(`Toggle`, `Rename`, `Delegate`, `Revoke`, `WriteBudget`, `AcceptCompletion`), or throws and writes
nothing (`GiveUp`). Several calls overlap: clicks, and the budget flow in the background. What a toggle turns
is what is on screen at the put, everything else is as it was read. A delegate's write
is two steps as well: the check and the passkey prompt (`StartAction`), then the entry (`WriteAction`).
`Surviving` and `ShownAt` are `applyDelegationActions`. `Replicate` hands everything one site has
to another, the entry written last standing. Delegates in `Fast` have clocks that are `Ahead`.

**`TodoView`** is `loadTodos` and what runs beside it. `phase` follows the promise in
`pendingTodosLoad` (`reading`, `read`, `annotating`), `requested` is `todosReloadRequested` and
`received` is `todoEntriesReceivedDuringLoad`. A list is one todo, known by how often its entry was
written and how many actions are folded into that entry. `missed` and `leftover` are history
variables that name the cases in which the view may be wrong.

**`RelayProof`** is the status of one todo and the verifications that write it: `Schedule` is
`scheduleRelayReplicationProof`, `Verify` the start of `verifyRelayReplication` (with no relay to ask it is
over at once), and the three `Answer` actions what its loop does with an answer. `mixed` is history: when a
verification last began, another was under way or its entry was not the latest any more.

**`Archive`** is the archive of one browser. A call of `archive.js` under way is a record with the
await it stands at:

| `pc` | in the code |
|---|---|
| `stop` | `await live.stop()` in `stopArchive` |
| `build`, `create` | `startArchive` before and after `backend = await buildBackend(...)` |
| `begun` | `await live.start()` |
| `off` | `disableArchive` before it writes the setting |
| `remove` | `deleteArchive` removing increments, up to the restart |
| `join`, `rebase` | `restoreArchive` reading and joining, and its end |

`live` and `backend` are the module's variables; a driver has a kind of store and, for the stores in
`Direct`, the list whose name it gives to what it ships (`ref`). `busy` is what the panel's buttons wait for, `asked`
its open question whether to delete. A watcher is the storage bridge's `createLiveBackup`, modelled
from how it is used: it begins from what `state.load` returns, ships what the list holds beyond
that, and hands the rest to `state.save`. A store keeps increments with the entries in them (`has`)
and those their heads reach (`reach`), the list they are of (`list`) and the list under whose name they went
up (`under`). The stores in `Direct` (Aleph) are listed and deleted from by
account; the others through the driver in `backend`. `stranded`, `overlapped` and `failed` are
history variables that name the cases in which a property does not hold.

**`Invoicing`** is the invoices of one list on the devices that issue in one series. `replica` is what a
device holds, the last write of a key standing (`Later`); `shown` is `invoicesStore`, the writes the page
read last. The page decides by `shown`: which rows it offers to edit, delete or cancel, and which number
is next (`nextInvoiceNumber`). `editing`, `draft` and `issuing` are the form, its draft, and a call of `issue`
that has saved the draft and awaits (`StartIssue`, then `IssueDraft` or `IssueFails`); what is issued is the
draft the page has *then*. `Refill` is `loadTodosSnapshot`, which may come late or never, and reads the
newest `Limit` keys. `stale` is history: a write was made from a page that did not show the list as it is.

**`ListRegistry`** is `qr01`'s registry and its move. Taking a passkey makes a new identity with a registry
of its own, so `restartP2P` stages the entries in `buffer`, drops the old registry, stops and starts the
stack, and the new session writes the buffer into its registry. `phase` is `up`, `dropping` (staged, the
drop awaited) or `stopped`; `identity` is the session's and `heading` the one being adopted; `handle` is the
module variable `registryDB`: none, this session's, or `dead` (a stopped session's). `opening` and `late` are
openings under way, of this session and of an earlier one. `call` holds one call of the user's and one of
the move's, at its await (`open`, `get`, `put`, or `hung` on a dead handle); `carrying` and `todo` are
`applyRegistryHandoff` and what it has not written; `lateClear` is the clearing of the buffer that outlives its
session. `rushed` is history: a registry was dropped, or an entry written, on an outdated reading. So is
`unstaged`: a registry was dropped though storage did not take the staged entries (`Stage`).

**`ChainAccount`** is the account of one passkey in several browser profiles, each with tabs. The tabs of a
profile share what is stored (`record`) and not the map `creating`; `running` is the creation in a tab's map,
which the calls of that page share:

| `pc` | in the code |
|---|---|
| `lookup` | `directory.lookup`, up to 3 s |
| `verify` | `isPasskeyAccount` of the account found |
| `setup`, `sent` | `chain.createAccount`, before and after the operation is sent |
| `seal` | the passkey's prompt to seal the read key, after which the record is saved |

`call` is what a caller of `ensureAccount` does: wait, then `directory.publish` with its read (`get`) and
write (`put`). `listening` are the sites that have the directory's database open, `replica` what each
holds; a look-up returns the latest entry of the one key (`Latest`, `Known`). Saving (`Store`) does not read
again what is stored, and a refusal goes unnoticed. `missed`, `abandoned` (cut off, or cleared), `unsaved`
(storage refused the record), `replaced` (another tab's was written over it) and `interrupted` are history
variables that name the exceptions.

**`ReadAccess`** is a read key, a sealed record of it, one amount and the balance. `stored` is the record in
`localStorage`, `opened` the key in memory, `sealing` the passkey's sealing key, whose prompt all callers
share. `shownKey` is `readKeyStore`, by which the notices choose their button, and `renewing` the flow
whose end re-enables it. `flow` holds calls of `unlockReadAccess` and `renewReadAccess`, `lock` a budget's lock
as far as it uses the key, `read` and `requests` the decryptions under way; each keeps the record it
read at its start. `passed` and `crossed` are history: an amount was passed by a renewal or a lock's opening;
a renewal passed a lock that had read the record before.

The MC modules give the constants names and the runs their symmetry. Operators commented `Mutant:` are plausible mistakes, each of which a property below
refutes when it stands in for the definition after it; `PROJECT.json` pairs them.

## What the runs check

| Run | Instance | Shows |
|---|---|---|
| `escrow` | two parties, one also the auditor, a `todoRef` each, supply 3, time to 3 | `Solvent`, `Accounted`, `TermsFixed`, `ImplementsPromise` |
| `budget` | three locks, two releases, three attempts at most, fair | `FundedWasPaidIn`, `ReleasedWasPaid`, `PaidAtMostOnce`, `WrittenBeforeSent`, `StuckOnlyIfDisturbed`, `FailedWithTxHoldsNothing`, `OneLockAtATime`, `StatusSettles` |
| `delegation` | an owner with two calls, two delegates, one two ticks ahead, time to 4, expiries within and beyond | `CountsUnderItsGrant`, `OwnerCanReopen`, `UndoneStaysUndone`, `BudgetKeepsCompletion` |
| `todo_view` | two lists, one delegated, four writes, two switches or joins, fair | `QuietViewIsCurrent`, `OpenListIsRead`, `LoadsEnd` |
| `relay_proof` | three verifications, two attempts each, four entries, fair | `ScheduledOnce`, `GreenIsOfTheEntry`, `PendingSettles` |
| `archive` | two lists, two stores (one of them `Direct`), two calls, two watchers, two entries, four deeds | `MemoryIsKept`, `QuietWatcherIsRight`, `QuietListIsArchived` |
| `invoicing` | two devices, three keys, a window of two, three writes | `NothingLostUnlessStale`, `CancelledIsTakenBack` |
| `list_registry` | two lists, one made here, an anonymous identity and a passkey's, two upsets, fair | `NothingLostUnlessRushed`, `MoveFinishes` |
| `chain_account` | two profiles, one with two tabs, a payer, one caller in each tab, two set-ups, two upsets, fair publishing | `AccountsAreHeld`, `TwoAccountsOnlyIfMissed`, `FoundUnlessInterrupted` |
| `read_access` | two read keys, two calls of the notices' buttons, one lock | `AmountHasItsButton`, `BalanceHasItsButton`, `OldKeyStaysAway` |

`TypeOK` is checked too by the runs of `TodoView`, `Archive`, `Invoicing`, `ListRegistry` and `ReadAccess`; that the types of
the others hold is proved alone. Deadlock is checked in `read_access` alone: every other model stops at its bounds or when the user
does nothing. The largest runs are `archive` (3.5 million distinct states), `delegation` (1.9), `list_registry` (1.7),
`chain_account` (1.0), `read_access`, `budget` and `invoicing` (0.6 to 0.7).

The bounds are constants that only guards read: `MaxTime` and `MaxMinted` in
`Escrow`, `MaxTime` and `Ahead` in `Delegation`, `MaxWrites` and `MaxNudges` (switches and joins) in
`TodoView`, `MaxWrites` in `RelayProof`, `MaxActs` (what the user does, a write included; not unlocking) in
`Archive`, `MaxWrites` in `Invoicing`, `MaxUpsets` in `ListRegistry` (restarts, crashes, failures) and in
`ChainAccount` (pages closed, profiles cleared, failures, refused saves, nodes behind), `MaxAccounts` there, and
the sets `Locks`, `Releases`, `Proofs` and `Keys` of attempts, each used once. `Calls` in `Delegation`, `Archive`
and `ChainAccount` is how many calls may be under way at once. A model whose attempts are used up takes no further action that needs one.

Why the bounds are enough to meet the interesting cases:

* *Escrow.* With a supply of 3 and amounts 1 and 2 a balance can be too small, and money paid out
  once can be locked again. Two `todoRef`s (one per creator) let one escrow's mistake eat the
  other's money. Three ticks pass a deadline of one.
* *Budget.* Two releases are a second click; a release overlaps nothing but the other one.
  Three locks are a lock, its retry and a double click on retry; while the third is there no edit is under way
  and the delegate is silent. The amount is 0 or 1, which is what the flow distinguishes. Locks and
  releases are interchangeable, but liveness is checked, so no symmetry is used; instead `MCSpec` starts the
  attempts of a kind in one order.
* *Delegation.* The delegation is there at the start, so four ticks hold an action, a revocation and a second
  delegation. Two calls of the owner's are the least that overlap, and they are
  interchangeable; `Ahead` = 2 dates an action past a whole write of the owner.
* *View.* Four writes and two switches leave and come back to a list in the middle of a load; a
  third list would behave as the second.
* *Relay.* Scheduling allows one verification, toggles any number: with three, a scheduled one
  overlaps two others.
* *Archive.* Four deeds are, for example, a write, a deletion, a reload and a write, or two writes
  with a switch and a restore between them. Two calls are the least that overlap, and two watchers
  the least of which one is left on. A browser starts with the archive on or off.
* *Invoices.* The list starts with two invoices, as long as the window that is read, so the third falls
  out of somebody's window. Three writes issue a draft and one more invoice, or draft, issue and
  overwrite a Storno; two devices number at once.
* *Registry.* Two upsets are a move and a crash in it, a move back, or a failing drop and a crash. Nothing is
  promised of a history that has `rushed`, so the run follows such histories no further (`Followed`).
* *Accounts.* Two profiles are the least that can differ and two tabs of one the least that can save over each
  other, two set-ups the least that can be one too many, two upsets close a page and clear its profile, or
  refuse a record and close the page. `account_published` has one tab and one upset, a page that is closed
  between the put and its replication.
* *Read keys.* One key that is there and one renewal, or two renewals of a browser that has none; two flows
  overlap only if the view is switched in between; the lock is a third caller. Keys and flows are
  interchangeable and symmetry is used.

### Fairness

* `BudgetFlow`: weak fairness of each attempt's next step. Every await in a flow resolves or throws:
  the receipt has `RECEIPT_TIMEOUT_MS` (`chain/sepolia-chain.js`), the passkey its own timeout, and
  reads of the list and the chain return or fail. Nothing is assumed of the user or the chain: the
  operation may never be mined.
* `RelayProof`: weak fairness of each verification's answer. A request is aborted after 30 s; that
  OrbitDB's `sync.stop` and `sync.start` in the same function return is assumed.
* `TodoView`: weak fairness of the load's next step: a read resolves or fails. `LoadsEnd` says that
  loads end once writes, switches and joins do, which the bounds on them amount to; an unending
  stream of events may keep a load going.
* `ListRegistry`: weak fairness of the opening of a registry, of the move's reads and writes, and of a start
  after a stop. Storage answers, unless the session it was asked in is gone, and a page that was closed is
  opened again. Nothing is assumed of the user's calls. `MoveFinishes` speaks of sessions that stay.
* `ChainAccount`: `chain_account` assumes only that the awaits of publishing end in a page that stays open and that
  sites that have the directory's database open connect (`PublishFairness`). That sites connect is libp2p's part,
  and without it nobody could find an account. `account_published` assumes more, so that what it refutes is
  not a system that stands still: every start asks for the account (`+page.svelte` and the budget store do), every await
  of a creation ends (the look-up and the receipt have time-outs, prompts end), an operation that was sent
  is mined in the end, and the user comes back (`StartFairness`).

## What the runs refute

These properties state what a comment or a text of the application says, and TLC finds the code
doing otherwise. Each is a finding in `PROJECT.json` with the quotation.

* `budget_lost_tx`: a lock is mined and cannot be decrypted; the failure names no transaction,
  and a retry locks a second amount. The first stays locked with nothing in the list naming it.
* `account_published`: budget-service-zama.js:223-224 and budget-store.js:100-102 say an account is published
  again at every start. `ensureAccount` returns at line 171 for an account this browser knows, before it
  publishes: an account whose first publishing failed, or whose page closed too early, is found by nobody.

## What else the models show

The properties name exceptions, and TLC finds each violated without them. What these exceptions are, and
what else was met while modelling:

* *Budget.* A reload or a list switch in the middle of a flow leaves `locking` or `releasing` for good, with
  no code to reconcile it (`StuckOnlyIfDisturbed`, `StatusSettles`). So does a `put` of the outcome that rejects
  (`unrecorded`): the flow leaves a notice, and the todo stays where it was. When the receipt of a release does not come
  in time the budget goes back to `funded` (budget.js:225) though the delegate is or will be paid, and trying
  again fails on the closed escrow for ever.
* *View.* `todosReloadRequested` set while authors are looked up is never read (db-actions.js:447-449; `missed`): a
  delegate's completion disappears from the page until the next load.
* *Relay.* A todo proven once stays green for entries the relay was never asked about, although
  the text beside it (i18n/en.json:152) speaks of "this exact OrbitDB entry". An older entry's verification that
  ends last turns it green as well (`mixed`).
* *Delegation.* An action stamped by a clock that is ahead of the owner's outlives the owner's click. A budget's
  status that was read before a revocation, a toggle or a rename and is put back after it restores the
  delegation and the times from before, so that actions which had stopped counting count again (`TurnsBack`),
  although db-actions.js:974-976 says of a revocation that the delegate's earlier actions stop applying. A toggle or
  rename does the same to the delegation, but not to the actions, since it moves `updatedAt`.
* *Invoices.* With a stale page TLC finds a number given out twice, on one device (two issues before the store
  is refilled, or a number outside the window) and on two, and an issued invoice written over or
  deleted as the draft it was shown as. A Storno names its invoice by number and marks every invoice of that
  number; two Stornos drafted on two devices can both be issued. `issue` uses the page's draft after its await,
  so what is issued is what was opened meanwhile. `reissueDuplicate` (invoice-actions.js:269) has no caller,
  and the section does not handle the row's `reissue`.
* *Registry.* Adopting another passkey while the last move runs stages over the buffer and loses what was
  not moved yet, and what is staged is the store, which may lag behind the registry that is dropped
  (`rushed`). When `localStorage` refuses the staged entries the registry is dropped nevertheless (`unstaged`);
  registry-handoff.js:36-37 calls that a migration that is skipped, "which loses the lists from the switcher". A restart for the relay setting passes no credential and moves the lists to the anonymous
  identity. A clearing that outlives its session can wipe newer staging, and an opening that does leaves a dead
  handle on which later calls never answer (`hung`).
* *Accounts.* A page closed at the passkey's prompt, or a receipt that comes too late, leaves an account on chain
  that nobody remembers (`abandoned`). A record that storage refuses is gone with the page (`unsaved`); if the
  account was published by then the next page finds it. Two tabs that set up at once save over each other, and one
  account is in no storage any more (`replaced`). Two devices can set up two accounts (`missed`), where
  docs/passkey-account.md ("the account address follows from the same public key, it is the same
  account") promises one and account-directory.js:4-7 does not.
* *Read keys.* A lock opens the key without asking unreadable amounts again, so they stay `locked`, and after
  a switch of the view without a button (`passed`). A decryption under way when the key is renewed ends as
  `expired` in the new key's time (`passed`). A lock that fails to open the old key writes the old record back
  over the new one (`crossed`).
* *Archive.* Switched off, another store chosen, and deleted: the increments of the store chosen before go,
  because the driver at hand is still its driver (archive.js:487-488, :861). Without any one of its
  exceptions `MemoryIsKept` is violated. Two starts that overlap can leave a watcher on, or ship to one store and
  remember for the other; if the list was switched while the first was under way, the driver of one list's
  name ships what the other holds (archive.js:387, :308), and the next look at the list by its name does not
  find it. A deletion of the whole account forgets the memory of the open list only,
  so the other lists' next increments lack what was deleted. A deletion that was refused in part
  leaves a chain with something missing that the newest increment does not show. A restore counts
  everything as shipped (archive.js:716), what it has just copied from other lists and what was
  written shortly before included.

## What is proved

TLAPS proves the following for every value of the constants that the named assumptions allow: any
accounts, any number of attempts, delegates, calls of the owner's, profiles and tabs, lists, stores, watchers, calls, verifications, identities and read keys, and no
bound on time or writes other than being a number. The assumptions say that constants are of their
kind, that the escrow is none of its accounts, that accounts and `todoRef`s are finitely many (a chain has
seen only so many, and a sum over infinitely many escrows is none), that devices are finitely many and
numbered (the order by which replicas settle two writes of one time), that locks and releases are different
attempts, that the owner is no delegate and that `None` stands for nothing else.

* `EscrowProofs`: `TypeCorrect` is inductive with one fact worth a lemma, that a transfer leaves no
  balance below 0 because what moves is at most what is there. `TermsAreFixed` follows action by
  action from the status guards. What is owed is a sum over all escrows, by a fold. Its theory comes first:
  for every finite set of keys there is one table of the sums over its subsets, since a smallest
  set without one, or with two, cannot be (`TablesExist`, `TablesAgree`); taking any key out takes out its
  amount (`SumTakesOut`), and the sum of two records of the escrows that differ at one key differs by
  what that key does (`SumsOneApart`). Then `Books` is inductive: the types, no amount where nothing was
  filed, `Solvent`, and `Accounted` for every account. From this: `AlwaysSolvent`, `EveryUnitIsAccountedFor`, and `KeepsPromise`,
  step by step: a lock fills its pot, a release or a refund empties it in full, everything else stutters.
* `BudgetFlowProofs`: the invariants do not stand alone, since what is written to the entry was
  decided several awaits earlier. `IInv` adds: every budget held anywhere (entry, attempt, rename)
  claims no more than the chain backs (`AllHonest`); a lock's pot is filled by its own operation only
  (`LocksOwnPots`); a release was started from a funded budget (`ReleasesAreBacked`); one lock at a
  time, and none once there is money (`OneLock`); all budgets that claim money name the same
  `todoRef` (`OneClaim`), which is also the only pot ever paid out (`PaidClaim`). The chain only goes
  forward, so a claim once backed stays backed. As long as nothing disturbs the session its list is open, and an
  attempt ends by writing an outcome, finds no todo to write to, or is in `unrecorded` (`AttendedWhenCalm`). From this:
  `FundedMeansPaidIn`, `ReleasedMeansPaid`, `DelegatePaidOnce`, `LocksDoNotOverlap`, `SentWasWritten`,
  `FailedWithTxIsEmpty`, `NobodyLeavesHalfWay`, `TypesHold`.
* `DelegationProofs`: `DelegationTimes` orders the times. An entry's `updatedAt` is no older than
  the delegation in it and lies in the past, at every site and in every call that has read one; the owner's entry
  is the latest there is; of what the owner and the owner's calls hold, entries of one time have one delegation;
  and an action of a delegate whose clock agrees says when it was written. Then `OnlyThePresentGrantCounts`,
  `OwnerReopens`, `UndoneForGood` (every write but a budget's moves `updatedAt` past what does not count);
  `BudgetWritesKeepCompletion` needs no clock at all.
* `CopyProofs`, first part (`Archive`): what is shipped next leaves out what counts as shipped, and that is decided in four
  places. So `IInv` says of every chain of a store and a list, unless it is out of step, that its memory, what its
  increments' heads reach, what a watcher has shipped and what a restore has read are all within what the store
  keeps under the list's name, that a watcher of the list remembers under a store if and only if it ships to it
  (`InStep`), and that all increments of the list are filed under its name (`FiledFits`); so a
  flush on top of what was shipped makes the chain complete (`ShipCompletes`), and a deletion that took something is
  either out of step or left nothing that anything goes by (`RemovalStaysInStep`). A call decides before an await
  what it does after it, so `Orderly` says, as long as no two calls overlapped, what a call at work goes by:
  it waits for the watcher that is on, none is on from then until it has made the new one, and the open list,
  the chosen store and the driver, with the name it ships under, are still those it started with (`WorkFits`); at rest the watcher is the right one
  (`AtRest`). `Shapes` has the types and where each kind of call can stand. From this: `ArchiveTypesHold`,
  `ShippedIsKept`, `WatcherIsRight`, `ListIsArchived`.
* `CopyProofs`, second part (`RelayProof`): `ScheduledOneAtATime` (inductive with `RelayTypeOK`),
  `RelayTypesHold`. What green stands for was asked several steps earlier, so `InOrder` follows it: as long as
  verifications do not mix, all that are under way ask about the latest entry that was asked about, and green is
  an answer about it; `Written` keeps what is asked about, and what the relay has, within what was written. From
  this: `GreenHolds`.
* `TodoViewProofs`: `TheOpenListIsRead`, from the types of the load's variables. What is shown was read many
  steps earlier, so `QuietInv` follows it: the events yet to be emitted end with the list's last write
  (`LastIsLatest`); hence an entry received when none is left to emit is the latest (`ReceivedIsLatest`); a
  snapshot over which nothing came in, and after which no read is owed, is the list (`SnapshotFits`); and so is the page between
  loads (`ShownFits`). From this: `AtRestTheViewIsCurrent`, `TypesHold`.
* `ListRegistryProofs`: a registry is dropped before its entries are written to the next one, so `IInv`
  says where they are meanwhile, unless an outdated reading was acted on or storage did not take the staged
  entries (`Spoilt`): what a move has written is in a registry, and the
  rest it takes from the buffer (`MoveFits`); its call is about an entry still to be written (`MoveCallFits`);
  the buffer is let go late only after all of it was written (`LateClearFits`); what is being dropped is
  in the buffer, and nothing else is going on (`DropFits`); a session that is stopped moves nothing
  (`StoppedFits`). From this: `ListsSurviveTheMove`, `TypesHold`.
* `AccessProofs`, first part (`ChainAccount`): an account is saved several awaits after it was set up, so `AccountIInv` adds to the types
  what a creation under way stands for: one that has sent its operation works on an account that was
  sent or made (`CreationsFit`); a call publishes only what is on chain (`CallsFit`); every operation sent is
  worked on by a tab or recorded, unless it was cut off or cleared, refused by storage or saved over
  (`EverySetUpIsHeld`); and as long as nothing was missed there is one set-up at most, so that a record saved
  over is the same one (`OneSetUpAtATime`). From this:
  `AccountTypesHold`, `AccountsHeld`, `TwoAccountsIfMissed`.
* `AccessProofs`, second part (`ReadAccess`): a record whose seal is shut has a key that is open nowhere and that no other seal
  opens (`SealsFit`); an amount or a balance that shows that the key is wanting is right about it, and a
  decryption under way began with the key that is stored, if that is open (`AmountFits`, `BalanceFits`);
  where the key can be unlocked no renewal is under way (`ReplacementFits`). From this:
  `AmountsHaveTheirButton`, `BalancesHaveTheirButton`, `OldKeysStayAway`, `TypesHold`.

* `InvoicingProofs`: a page shows what was there some time ago, so `IInv` speaks of every write there still is,
  in a replica or on a page (`InPlay`). `Books` holds however late the pages are: a number only on what is
  issued, an issued number among those given out, and what a Storno names among them too, with the invoice it names
  (`ValueOK`, `WriteOK`); a form that is open is of a draft with a key (`DraftOK`); a time and a device name
  one write, whose device has moved on at least to that time (`OneWriteATime`). Hence there is a newest write among
  those a page shows, and what `startCancellation` finds by a number is an invoice of that number. `Kept` holds while no write
  came from a late page: the last write of an issued invoice still has its number (`Stands`), on some device, and no two
  have one. Such a page shows every invoice issued anywhere (`IssuedIsShown`), so the next number is new, and
  what is edited, deleted or issued is none of them. From this: `TypesHold`, `NothingIsLost`, `CancelledHasItsStorno`.

Sums and largest elements of finite sets need induction, and the library's induction theorems take an operator as
a parameter. Both are had instead from the least number with a property, as a fact about sets of numbers
(`LeastNat`, from `WFMin`).

Only TLC checks liveness (`StatusSettles`, `PendingSettles`, `LoadsEnd`, `MoveFinishes`,
`FoundUnlessInterrupted`), since the provers know nothing of fairness and `ENABLED`. Every safety
property of every passing run has its theorem.

## Not modelled

* Overflow of `uint64` amounts and the encryption itself; an amount that a caller is not entitled to.
* A lock is read at its receipt's block: `waitBlocks` before decryption is one step with it.
* `refund` is in the contract and in `Escrow`; the application has no button for it, so `BudgetFlow`
  has no refund. A pot emptied by a refund sent by other means is therefore not in that model.
* `update` events come in the order of the log; which lists hold a delegated todo does not change
  while a page is open.
* Owner writes of one todo from two devices at once. One device's overlapping writes are modelled.
* A `put` that rejects after it has written: one that rejects is a write that did not happen.
* Each write takes a tick of its own, so two writes never carry the same time.
* Of the archive: who pays (`setArchiveOwner`, the authorization commands; a change of payer restarts
  the watcher as a change of store does, but keeps the memory), credits, `lockArchive`, which nothing
  calls, and saving a service's key, which restarts the watcher on the same store. A list is known by
  its address; that a restart on the same list is a new database object is not modelled. An increment is
  one step of the store; what `stop` and `rebase` of the third-party watcher do is taken from the
  comments where `archive.js` calls them. Unlocking that fails changes nothing.
* Of invoices: settings and customers (entries of their own; they use up the window of newest keys,
  for which the invoices alone stand), what a number or a period looks like, amounts, PDFs, and `list-vault.js`.
  One period, in which the counter alone tells numbers apart.
* Of the registry: names and dates of an entry, two restarts at once, and the registries of the other
  chapters. `escrow01`'s and `invoice01`'s merge with the store instead of the database and have no move (their
  `resetListRegistry` has no caller); `qr01`'s is the one with behaviour between its steps.
* Of accounts and read keys: how a key is derived and sealed (a seal opens or does not), the auditor's list, which
  only reads, and a renewal's revocation of the previous key, which is one operation with it.
* The QR handover: `handover-protocol.js` wraps and unwraps an envelope and retries a dial; the state that
  could go wrong is in the transport, a third-party library.
* Discovery, dialling and relay reservations: configuration behind libp2p's API. `ListRegistry` has of
  `p2p.js` the start, stop and restart, as far as the registry and the identity go.
* Database keys, entry and list encryption: cryptography. `privacy01`'s hand-out of wrapped keys has
  state of its own and is planned.
* The earlier chapters: each is a near-copy of the next with less in it, file by file (ten files
  named `db-actions.js`, ten named `p2p.js`). A model of the copy would be the same model. This is why the share of
  the repository's lines that definitions name stays small although most of the control that
  the last chapters share is in a module.
* Formatting, parsing, translations, rendering, tests, deployment, and the fake service used by tests and demos.

## Plan

Done, in this order: `EscrowPromise` and `Escrow`; `BudgetFlow` over the promise; `Delegation`;
`RelayProof`; `TodoView`; the proofs about them; `Archive`; `ReadAccess`, `ChainAccount`, `Invoicing`,
`ListRegistry`; the proofs about `ChainAccount`, `ListRegistry` and `ReadAccess`, of a page at rest and of a
budget nobody leaves half way; of the escrow's sums and of the promise it keeps; about `Invoicing`; and about `Archive`.

Next:

1. The hand-out of wrapped keys to the members of a list (`privacy01`), and `escrow01`'s own `rememberList`.
2. The payer of the archive, and storage mode and browser memory of `src/packages/todo`.
