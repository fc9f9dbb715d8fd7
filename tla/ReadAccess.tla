----------------------------- MODULE ReadAccess -----------------------------
(***************************************************************************)
(* Reading confidential amounts with a read key that runs out and is kept  *)
(* sealed (escrow01, budget-store.js and budget-service-zama.js): one      *)
(* session of a DID whose account is known, one amount, and the balance.   *)
(*                                                                         *)
(* A record is what localStorage holds: the read key and what became of    *)
(* its seal ("shut": sealed under another answer of the passkey).  Every   *)
(* call reads the record once, at its start, and uses it after its awaits. *)
(***************************************************************************)
EXTENDS Naturals

CONSTANTS
    Keys,   \* read keys, each delegated for 24 h
    NoKey,
    Flows,  \* calls of renewReadAccess and unlockReadAccess under way at once
    None

Record == [key : Keys \cup {NoKey}, seal : {"none", "opens", "shut"}]

ASSUME ReadAccessConstants == NoKey \notin Keys /\ None \notin Flows \cup Record

VARIABLES
    stored,   \* the record
    used,     \* the keys that were ever delegated
    expired,  \* those whose time is up
    opened,   \* the key open in memory
    sealing,  \* the sealing key: "none", "asked" (the shared prompt is open), "have"
    shownKey, \* readKeyStore: the state the notices go by
    renewing, \* the flow the mounted view waits for, its buttons disabled
    flow,     \* flow[f]: [pc, rec, seals]
    lock,     \* a lock under way, as far as it uses the read key: [pc, rec]
    amount,   \* the cached state of the amount, "none" when absent
    read,     \* the record an amount's decryption started with, or None
    balance,
    requests, \* balance requests under way: [rec, newest]
    passed,   \* history: a renewal or a lock's opening passed an amount by
    crossed   \* history: a renewal passed a lock that had read the record before

vars == <<stored, used, expired, opened, sealing, shownKey, renewing, flow, lock,
          amount, read, balance, requests, passed, crossed>>
keys == <<stored, used, expired, opened>>

Idle == [pc |-> "idle", rec |-> [key |-> NoKey, seal |-> "none"], seals |-> FALSE]
NoLock == [pc |-> "idle", rec |-> Idle.rec]
Unreadable == {"expired", "locked"}
Shown == {"none", "decrypting", "ready", "hidden"} \cup Unreadable
States == {"missing", "expired", "valid", "locked"}

TypeOK ==
    /\ stored \in Record
    /\ used \subseteq Keys /\ expired \subseteq used
    /\ {stored.key, opened} \subseteq used \cup {NoKey}
    /\ sealing \in {"none", "asked", "have"}
    /\ shownKey \in States
    /\ renewing \in Flows \cup {None}
    /\ flow \in [Flows -> [pc : {"idle", "unlock", "renew", "send"}, rec : Record, seals : BOOLEAN]]
    /\ lock \in [pc : {"idle", "checks", "key", "send"}, rec : Record]
    /\ amount \in Shown /\ (read # None) = (amount = "decrypting")
    /\ read \in Record \cup {None}
    /\ balance \in Shown \ {"none"}
    /\ requests \subseteq [rec : Record, newest : BOOLEAN]
    /\ (balance = "decrypting") => \E q \in requests : q.newest
    /\ passed \in BOOLEAN /\ crossed \in BOOLEAN

\* readKeyState with `open` in memory.
StateWith(rec, open) ==
    CASE rec.key = NoKey      -> "missing"
      [] rec.key \in expired  -> "expired"
      [] rec.key = open /\ rec.key # NoKey /\ rec.key \notin expired -> "valid"
      [] OTHER -> IF rec.seal # "none" THEN "locked" ELSE "missing"
State(rec) == StateWith(rec, opened)

\* The failure of requireReadKey as an amount shows it.
Failure(state) == IF state = "locked" THEN "locked" ELSE "expired"

\* A page that was just opened, with or without a key, and one in which the
\* account was just created, which asks for the balance.
Init ==
    /\ \E key \in Keys \cup {NoKey}, seal \in {"none", "opens", "shut"} :
        /\ key = NoKey => seal = "none"
        /\ stored = [key |-> key, seal |-> seal]
        /\ used = {key} \ {NoKey}
        /\ opened \in {NoKey} \cup (IF seal = "shut" THEN {} ELSE {key})
    /\ expired = {} /\ sealing = "none"
    /\ shownKey = State(stored)
    /\ renewing = None
    /\ flow = [f \in Flows |-> Idle] /\ lock = NoLock
    /\ amount = "none" /\ read = None
    /\ IF State(stored) = "valid"
       THEN requests = {[rec |-> stored, newest |-> TRUE]} /\ balance = "decrypting"
       ELSE requests = {} /\ balance = Failure(State(stored))
    /\ passed = FALSE /\ crossed = FALSE

-----------------------------------------------------------------------------
(***************************************************************************)
(* The balance: refreshBalance with rec read and `open` in memory.  A read *)
(* without a valid key fails before its first await; one with a valid key  *)
(* is under way, and the newest of those writes the balance.               *)
(***************************************************************************)
AskBalance(rec, open) ==
    LET valid == StateWith(rec, open) = "valid"
        older == {[q EXCEPT !.newest = FALSE] : q \in requests} IN
    /\ requests' = older \cup (IF valid THEN {[rec |-> rec, newest |-> TRUE]} ELSE {})
    /\ balance' = IF ~ valid THEN Failure(StateWith(rec, open))
                  ELSE IF balance = "ready" THEN "ready" ELSE "decrypting"

\* A read that fails for the key has the notices look at the key again.
Noticed(rec, open, before) ==
    IF StateWith(rec, open) = "valid" THEN before ELSE StateWith(rec, open)

RefreshBalance ==
    /\ AskBalance(stored, opened)
    /\ shownKey' = Noticed(stored, opened, shownKey)
    /\ UNCHANGED <<keys, sealing, renewing, flow, lock, amount, read, passed, crossed>>

\* What a decryption that began with rec may end in: it succeeds, fails for
\* another reason, or finds at its second check that rec's key does not do.
Outcomes(rec) ==
    {"ready", "hidden"} \cup (IF State(rec) = "valid" THEN {} ELSE {Failure(State(rec))})

NoticedAfter(outcome) == IF outcome \in Unreadable THEN State(stored) ELSE shownKey

\* Mutant: any request that ends writes the balance.
AnyWrites(q, outcome) == outcome

Writes(q, outcome) == IF q.newest THEN outcome ELSE balance

BalanceEnds(q) ==
    /\ requests' = requests \ {q}
    /\ \E outcome \in Outcomes(q.rec) :
        /\ balance' = Writes(q, outcome)
        /\ shownKey' = NoticedAfter(outcome)
    /\ UNCHANGED <<keys, sealing, renewing, flow, lock, amount, read, passed, crossed>>

-----------------------------------------------------------------------------
\* readAmount, asked for by a chip whose amount is absent.
ReadAmount ==
    /\ amount = "none"
    /\ amount' = IF State(stored) = "valid" THEN "decrypting" ELSE Failure(State(stored))
    /\ read' = IF State(stored) = "valid" THEN stored ELSE None
    /\ shownKey' = Noticed(stored, opened, shownKey)
    /\ passed' = FALSE
    /\ UNCHANGED <<keys, sealing, renewing, flow, lock, balance, requests, crossed>>

ReadEnds ==
    /\ read # None
    /\ read' = None
    /\ \E outcome \in Outcomes(read) :
        /\ amount' = outcome
        /\ shownKey' = NoticedAfter(outcome)
    /\ UNCHANGED <<keys, sealing, renewing, flow, lock, balance, requests, passed, crossed>>

\* Mutant: the balance alone is asked for again.
RereadBalance(rec, open) ==
    /\ amount' = amount
    /\ passed' = (read # None)
    /\ AskBalance(rec, open)

\* Mutant: every amount is forgotten, also one that is being decrypted.
RereadEverything(rec, open) ==
    /\ amount' = "none"
    /\ passed' = (read # None)
    /\ AskBalance(rec, open)

\* rereadUnreadable: amounts that showed as expired or locked are forgotten.
Reread(rec, open) ==
    /\ amount' = IF amount \in Unreadable THEN "none" ELSE amount
    /\ passed' = (read # None)
    /\ AskBalance(rec, open)

-----------------------------------------------------------------------------
(***************************************************************************)
(* unlockReadAccess and renewReadAccess, behind a notice's button.  Each   *)
(* view disables its own button; switching the view forgets that.          *)
(***************************************************************************)
Free(f) == flow[f].pc = "idle" /\ renewing = None
Done(f) ==
    /\ flow' = [flow EXCEPT ![f] = Idle]
    /\ renewing' = IF renewing = f THEN None ELSE renewing
Ask == sealing' = IF sealing = "none" THEN "asked" ELSE sealing

\* "Show amounts", for a key that is sealed ...
StartUnlock(f) ==
    /\ Free(f) /\ shownKey = "locked" /\ State(stored) = "locked"
    /\ flow' = [flow EXCEPT ![f] = [pc |-> "unlock", rec |-> stored, seals |-> FALSE]]
    /\ renewing' = f
    /\ Ask
    /\ UNCHANGED <<keys, shownKey, lock, amount, read, balance, requests, passed, crossed>>

\* ... for one that a lock has opened meanwhile ...
UnlockOpen(f) ==
    /\ Free(f) /\ shownKey = "locked" /\ State(stored) = "valid"
    /\ shownKey' = "valid"
    /\ Reread(stored, opened)
    /\ UNCHANGED <<keys, sealing, renewing, flow, lock, read, crossed>>

\* ... and for one that ran out or lost its seal: the notice is corrected.
UnlockTooLate(f) ==
    /\ Free(f) /\ shownKey = "locked" /\ State(stored) \in {"missing", "expired"}
    /\ shownKey' = State(stored)
    /\ UNCHANGED <<keys, sealing, renewing, flow, lock, amount, read, balance, requests, passed, crossed>>

\* The passkey has answered: the seal opens ...
Unlocked(f) ==
    /\ flow[f].pc = "unlock" /\ sealing = "have"
    /\ flow[f].rec.seal = "opens"
    /\ Done(f)
    /\ LET key == flow[f].rec.key IN
        /\ opened' = key
        /\ shownKey' = Noticed(stored, key, StateWith(flow[f].rec, key))
        /\ Reread(stored, key)
    /\ UNCHANGED <<stored, used, expired, sealing, lock, read, crossed>>

\* ... or it does not, and the record read before the prompt is saved without it.
Unsealed(rec) == [rec EXCEPT !.seal = "none"]

SealFails(f) ==
    /\ flow[f].pc = "unlock" /\ sealing = "have"
    /\ flow[f].rec.seal # "opens"
    /\ Done(f)
    /\ stored' = Unsealed(flow[f].rec)
    /\ shownKey' = StateWith(Unsealed(flow[f].rec), opened)
    /\ UNCHANGED <<used, expired, opened, sealing, lock, amount, read, balance, requests, passed, crossed>>

\* Mutant: renewing is offered for a sealed key too.
OfferedAlways == shownKey # "valid"

Offered == shownKey \in {"missing", "expired"}

StartRenewal(f) ==
    /\ Free(f) /\ Offered
    /\ flow' = [flow EXCEPT ![f] = [pc |-> "renew", rec |-> stored, seals |-> FALSE]]
    /\ renewing' = f
    /\ Ask
    /\ UNCHANGED <<keys, shownKey, lock, amount, read, balance, requests, passed, crossed>>

\* Who opens a seal with the same answer does so first: no network in between.
RenewalSends(f) ==
    /\ flow[f].pc = "renew" /\ sealing = "have"
    /\ lock.pc # "key" /\ \A g \in Flows : flow[g].pc # "unlock"
    /\ flow' = [flow EXCEPT ![f].pc = "send", ![f].seals = TRUE]
    /\ UNCHANGED <<keys, sealing, shownKey, renewing, lock, amount, read, balance, requests, passed, crossed>>

RenewalFails(f) ==
    /\ flow[f].pc = "send"
    /\ Done(f)
    /\ UNCHANGED <<keys, sealing, shownKey, lock, amount, read, balance, requests, passed, crossed>>

Renewed(f) ==
    /\ flow[f].pc = "send"
    /\ Done(f)
    /\ \E k \in Keys \ used :
        /\ used' = used \cup {k}
        /\ opened' = k
        /\ stored' = [key |-> k, seal |-> IF flow[f].seals THEN "opens" ELSE "none"]
        /\ Reread(stored', k)
    /\ shownKey' = "valid"
    /\ crossed' = (crossed \/ lock.pc \in {"checks", "key"})
    /\ UNCHANGED <<expired, sealing, lock, read>>

PasskeyAnswers ==
    /\ sealing = "asked" /\ sealing' = "have"
    /\ UNCHANGED <<keys, shownKey, renewing, flow, lock, amount, read, balance, requests, passed, crossed>>

\* The prompt is declined, or the passkey derives no key: who waited fails,
\* but a renewal goes on without a seal in the second case.
PasskeyRefuses(derives) ==
    /\ sealing = "asked" /\ sealing' = "none"
    /\ flow' = [f \in Flows |->
                  CASE flow[f].pc = "renew" /\ ~ derives -> [flow[f] EXCEPT !.pc = "send"]
                    [] flow[f].pc = "send"               -> flow[f]
                    [] OTHER                             -> Idle]
    /\ renewing' = IF renewing # None /\ flow'[renewing].pc = "idle" THEN None ELSE renewing
    /\ IF lock.pc = "key"
       THEN lock' = NoLock /\ AskBalance(stored, opened)
       ELSE UNCHANGED <<lock, balance, requests>>
    /\ shownKey' = IF lock.pc = "key" \/ \E f \in Flows : flow[f].pc = "unlock"
                   THEN State(stored) ELSE shownKey
    /\ UNCHANGED <<keys, amount, read, passed, crossed>>

-----------------------------------------------------------------------------
(***************************************************************************)
(* The lock of a budget reads the record, asks the chain, and opens the    *)
(* read key by itself.                                                     *)
(***************************************************************************)
StartLock ==
    /\ lock.pc = "idle"
    /\ lock' = [pc |-> "checks", rec |-> stored]
    /\ UNCHANGED <<keys, sealing, shownKey, renewing, flow, amount, read, balance, requests, passed, crossed>>

\* The key is open, or has to be asked for ...
LockGoesOn ==
    /\ lock.pc = "checks"
    /\ \/ State(lock.rec) = "valid" /\ lock' = [lock EXCEPT !.pc = "send"] /\ UNCHANGED sealing
       \/ State(lock.rec) = "locked" /\ lock' = [lock EXCEPT !.pc = "key"] /\ Ask
    /\ UNCHANGED <<keys, shownKey, renewing, flow, amount, read, balance, requests, passed, crossed>>

\* ... and opens ...
LockOpens ==
    /\ lock.pc = "key" /\ sealing = "have"
    /\ lock.rec.seal = "opens"
    /\ lock' = [lock EXCEPT !.pc = "send"]
    /\ opened' = lock.rec.key
    /\ passed' = (passed \/ amount \in Unreadable \/ read # None)
    /\ UNCHANGED <<stored, used, expired, sealing, shownKey, renewing, flow, amount, read, balance, requests, crossed>>

\* ... or does not.
LockCannotOpen ==
    /\ lock.pc = "key" /\ sealing = "have"
    /\ lock.rec.seal # "opens"
    /\ lock' = NoLock
    /\ stored' = Unsealed(lock.rec)
    /\ AskBalance(stored', opened)
    /\ shownKey' = Noticed(stored', opened, shownKey)
    /\ UNCHANGED <<used, expired, opened, sealing, renewing, flow, amount, read, passed, crossed>>

\* Whatever became of the lock, the balance is asked for again.
LockEnds ==
    /\ lock.pc \in {"checks", "send"}
    /\ lock' = NoLock
    /\ AskBalance(stored, opened)
    /\ shownKey' = Noticed(stored, opened, shownKey)
    /\ UNCHANGED <<keys, sealing, renewing, flow, amount, read, passed, crossed>>

-----------------------------------------------------------------------------
Expire(k) ==
    /\ k \in used \ expired
    /\ expired' = expired \cup {k}
    /\ UNCHANGED <<stored, used, opened, sealing, shownKey, renewing, flow, lock, amount, read, balance, requests, passed, crossed>>

\* To the auditor's view and back: the notices are mounted anew.
SwitchView ==
    /\ renewing' = None
    /\ shownKey' = State(stored)
    /\ UNCHANGED <<keys, sealing, flow, lock, amount, read, balance, requests, passed, crossed>>

Reload ==
    /\ opened' = NoKey /\ sealing' = "none" /\ renewing' = None
    /\ flow' = [f \in Flows |-> Idle] /\ lock' = NoLock
    /\ shownKey' = StateWith(stored, NoKey)
    /\ amount' = "none" /\ read' = None
    /\ requests' = {} /\ balance' = Failure(StateWith(stored, NoKey))
    /\ passed' = FALSE /\ crossed' = FALSE
    /\ UNCHANGED <<stored, used, expired>>

Next ==
    \/ RefreshBalance \/ \E q \in requests : BalanceEnds(q)
    \/ ReadAmount \/ ReadEnds
    \/ \E f \in Flows :
        \/ StartUnlock(f) \/ UnlockOpen(f) \/ UnlockTooLate(f) \/ Unlocked(f) \/ SealFails(f)
        \/ StartRenewal(f) \/ RenewalSends(f) \/ RenewalFails(f) \/ Renewed(f)
    \/ PasskeyAnswers \/ \E derives \in BOOLEAN : PasskeyRefuses(derives)
    \/ StartLock \/ LockGoesOn \/ LockOpens \/ LockCannotOpen \/ LockEnds
    \/ \E k \in Keys : Expire(k)
    \/ SwitchView \/ Reload

Spec == Init /\ [][Next]_vars

-----------------------------------------------------------------------------
(***************************************************************************)
(* Properties.                                                             *)
(***************************************************************************)

\* An amount that is not readable for want of the key comes with the notice
\* whose button makes it readable, unless its decryption was under way when
\* the key was renewed, or a lock opened the key without reading it again.
\* (unreadable, rereadUnreadable, and the notices' refreshReadKey.)
AmountHasItsButton ==
    amount \in Unreadable /\ ~ passed => shownKey # "valid"

\* So does the balance, whatever the order in which its requests end, once no
\* lock is under way.  (refreshBalance: the last request wins.)
BalanceHasItsButton ==
    balance \in Unreadable /\ lock.pc = "idle" => shownKey # "valid"

\* A read key, once replaced, is neither stored nor opened again, unless a
\* lock had read the record before the renewal.  (openReadKey saves the record
\* its caller read before the awaits.)
OldKeyStaysAway ==
    [][ /\ stored'.key # stored.key => stored'.key \notin used \/ crossed
        /\ opened' \notin {opened, NoKey} => opened' = stored'.key \/ crossed ]_vars
=============================================================================
