---------------------------- MODULE AccessProofs ----------------------------
(***************************************************************************)
(* How a person comes to their account on Sepolia and to the amounts on    *)
(* it, for any number of profiles, tabs, peers, set-ups, read keys and     *)
(* calls.  ChainAccount: accounts that were set up are held, and two       *)
(* profiles differ only if one missed the other's.  ReadAccess: what       *)
(* cannot be read comes with the button that helps, and a read key that    *)
(* was replaced stays away.                                                *)
(*                                                                         *)
(* The two have no state in common: the account is settled before amounts  *)
(* are read.                                                               *)
(***************************************************************************)
EXTENDS ChainAccount, ReadAccess, TLAPS

-----------------------------------------------------------------------------
\* The account

Creations == [pc : {"none", "lookup", "verify", "setup", "sent", "seal"},
              account : Accounts \cup {0}]
CallStates == [pc : {"idle", "waiting", "get", "put"}, account : made \cup {0}]

\* A tab waits for a's set-up operation, or is about to save a.
Working(t, a) == running[t].pc \in {"sent", "seal"} /\ running[t].account = a

Lost == abandoned \cup unsaved \cup replaced

(***************************************************************************)
(* A creation works on an account that was sent, so that what it saves is  *)
(* on chain, and a call publishes only that.  An account that no tab works *)
(* on is recorded or lost.  As long as nobody missed anything there is one *)
(* set-up at most: a record that is saved over is the same one.            *)
(***************************************************************************)
CreationsFit ==
    \A t \in Tabs :
        /\ running[t].pc \in {"sent", "seal"} =>
               running[t].account \in sent \cup made
        /\ running[t].pc = "seal" => running[t].account \in made
        /\ running[t].pc \in {"none", "lookup", "setup"} => running[t].account = 0

CallsFit ==
    \A t \in Tabs : \A c \in Calls :
        call[t][c].pc \in {"get", "put"} => call[t][c].account \in made

EverySetUpIsHeld ==
    \A a \in (sent \cup made) \ Lost : Recorded(a) \/ \E t \in Tabs : Working(t, a)

OneSetUpAtATime ==
    ~ missed =>
        /\ replaced = {}
        /\ \A a, b \in sent \cup made : a = b
        /\ \A t \in Tabs : running[t].pc = "setup" =>
               /\ sent \cup made = {}
               /\ \A u \in Tabs : running[u].pc = "setup" => u = t

AccountIInv == AccountTypeOK /\ CreationsFit /\ CallsFit /\ EverySetUpIsHeld /\ OneSetUpAtATime

-----------------------------------------------------------------------------
\* Creations and calls are typed; an account is never 0.

LEMMA AccountsAreNotZero ==
  ASSUME AccountTypeOK, NEW a \in sent \cup made
  PROVE  a \in Accounts /\ a # 0
BY ChainAccountConstants DEF AccountTypeOK, Accounts

LEMMA LatestIsHeld ==
  ASSUME AccountTypeOK, NEW s \in Sites, NEW e \in Latest(s)
  PROVE  e.time \in Nat /\ e.account \in made
BY DEF AccountTypeOK, Latest

LEMMA WrittenIsTyped ==
  ASSUME AccountTypeOK, NEW s \in Sites, NEW a \in made
  PROVE  Written(s, a) \in SUBSET [time : Nat, account : made]
<1> DEFINE before == IF replica[s] = {} THEN {0} ELSE {e.time : e \in Latest(s)}
<1>1. before \subseteq Nat
  BY LatestIsHeld
<1>2. {[time |-> t + 1, account |-> a] : t \in before} \subseteq [time : Nat, account : made]
  <2> HIDE DEF before
  <2> QED BY <1>1
<1>3. replica[s] \subseteq [time : Nat, account : made]
  BY DEF AccountTypeOK
<1> QED BY <1>2, <1>3 DEF Written

LEMMA ReleasedIsTyped ==
  ASSUME AccountTypeOK, NEW t \in Tabs, NEW then \in CallStates
  PROVE  [call EXCEPT ![t] = Released(t, then)] \in [Tabs -> [Calls -> CallStates]]
<1>1. call \in [Tabs -> [Calls -> CallStates]]
  BY DEF AccountTypeOK, CallStates
<1>2. Released(t, then) \in [Calls -> CallStates]
  BY <1>1 DEF Released
<1> QED BY <1>1, <1>2

LEMMA EndsFits ==
  ASSUME AccountIInv, NEW t \in Tabs, NEW then \in CallStates, Ends(t, then),
         then.pc \in {"get", "put"} => then.account \in made, made' = made
  PROVE  /\ call' \in [Tabs -> [Calls -> CallStates]]
         /\ running' \in [Tabs -> Creations]
         /\ CallsFit'
<1>1. call' = [call EXCEPT ![t] = Released(t, then)]
  BY DEF Ends
<1>2. call' \in [Tabs -> [Calls -> CallStates]]
  BY <1>1, ReleasedIsTyped DEF AccountIInv
<1>3. running' \in [Tabs -> Creations]
  BY DEF AccountIInv, AccountTypeOK, Creations, Ends, NoCreation
<1>4. ASSUME NEW u \in Tabs, NEW c \in Calls, call'[u][c].pc \in {"get", "put"}
      PROVE  call'[u][c].account \in made'
  <2>1. call'[u][c] = call[u][c] \/ call'[u][c] = then
    BY <1>1 DEF AccountIInv, AccountTypeOK, Released
  <2> QED BY <1>4, <2>1 DEF AccountIInv, CallsFit
<1> QED BY <1>2, <1>3, <1>4 DEF CallsFit

-----------------------------------------------------------------------------
\* The initial state

LEMMA InitAccountIInv == AccountInit => AccountIInv
<1> SUFFICES ASSUME AccountInit PROVE AccountIInv
  OBVIOUS
<1>1. AccountTypeOK
  <2>1. /\ page \in [Tabs -> BOOLEAN]
        /\ record \in [Profiles -> made \cup {0}]
    BY DEF AccountInit
  <2>2. call \in [Tabs -> [Calls -> CallStates]]
    BY DEF AccountInit, IdleCall, CallStates
  <2>3. running \in [Tabs -> Creations]
    BY DEF AccountInit, NoCreation, Creations
  <2>4. /\ listening \subseteq Sites
        /\ replica \in [Sites -> SUBSET [time : Nat, account : made]]
    BY DEF AccountInit, Sites
  <2>5. /\ sent \cup made \subseteq Accounts /\ sent \cap made = {}
        /\ upsets \in 0 .. MaxUpsets /\ abandoned \cup unsaved \cup replaced \subseteq Accounts
    BY ChainAccountConstants DEF AccountInit
  <2>6. missed \in BOOLEAN /\ interrupted \in BOOLEAN
    BY Zenon DEF AccountInit
  <2> QED BY <2>1, <2>2, <2>3, <2>4, <2>5, <2>6 DEF AccountTypeOK, Creations, CallStates
<1>2. CreationsFit /\ CallsFit
  BY DEF AccountInit, CreationsFit, CallsFit, NoCreation, IdleCall
<1>3. EverySetUpIsHeld
  BY DEF AccountInit, EverySetUpIsHeld
<1>4. OneSetUpAtATime
  BY DEF AccountInit, OneSetUpAtATime, NoCreation
<1> QED BY <1>1, <1>2, <1>3, <1>4 DEF AccountIInv

-----------------------------------------------------------------------------
\* A creation, from the call that starts it to the account it saves

\* A step that leaves what is stored and what is on chain alone, and every
\* creation that works on an account at work on it, loses none.
LEMMA HeldStays ==
  ASSUME EverySetUpIsHeld, record' = record, sent' = sent, made' = made,
         abandoned' = abandoned, unsaved' = unsaved, replaced' = replaced,
         \A t \in Tabs, a \in Accounts : Working(t, a) => Working(t, a)',
         sent \cup made \subseteq Accounts
  PROVE  EverySetUpIsHeld'
BY DEF EverySetUpIsHeld, Recorded, Lost

LEMMA EnsureKeeps ==
  ASSUME AccountIInv, NEW t \in Tabs, NEW c \in Calls, Ensure(t, c)
  PROVE  AccountIInv'
<1>1. /\ AccountTypeOK
      /\ UNCHANGED <<page, record, replica, sent, made, upsets, missed, abandoned, unsaved,
                     replaced, interrupted>>
  BY DEF AccountIInv, Ensure, chain, gone, history
<1>2. call' = [call EXCEPT ![t][c].pc = "waiting"] /\ listening' = listening \cup {t}
  BY DEF Ensure
<1>3. AccountTypeOK'
  <2>1. call' \in [Tabs -> [Calls -> CallStates]]
    <3>1. call \in [Tabs -> [Calls -> CallStates]]
      BY <1>1 DEF AccountTypeOK, CallStates
    <3>2. [call[t] EXCEPT ![c].pc = "waiting"] \in [Calls -> CallStates]
      BY <3>1 DEF CallStates
    <3> QED BY <1>2, <3>1, <3>2
  <2>2. running' \in [Tabs -> Creations]
    <3>1. running \in [Tabs -> Creations]
      BY <1>1 DEF AccountTypeOK, Creations
    <3>2. [running[t] EXCEPT !.pc = "lookup"] \in Creations
      BY <3>1 DEF Creations
    <3>3. [running EXCEPT ![t].pc = "lookup"] \in [Tabs -> Creations]
      BY <3>1, <3>2
    <3> QED BY <3>1, <3>3 DEF Ensure
  <2>3. listening' \subseteq Sites
    BY <1>1, <1>2 DEF AccountTypeOK, Sites
  <2>4. /\ call' \in [Tabs -> [Calls -> [pc : {"idle", "waiting", "get", "put"},
                                       account : made \cup {0}]]]
        /\ running' \in [Tabs -> [pc : {"none", "lookup", "verify", "setup", "sent", "seal"},
                                  account : Accounts \cup {0}]]
    BY <2>1, <2>2 DEF CallStates, Creations
  <2> QED BY <1>1, <2>3, <2>4 DEF AccountTypeOK
<1>4. CreationsFit'
  BY <1>1 DEF AccountIInv, AccountTypeOK, CreationsFit, Ensure, At
<1>5. CallsFit'
  BY <1>1, <1>2 DEF AccountIInv, AccountTypeOK, CallsFit
<1>6. EverySetUpIsHeld'
  <2>1. \A u \in Tabs, a \in Accounts : Working(u, a) => Working(u, a)'
    BY <1>1 DEF AccountIInv, AccountTypeOK, Working, Ensure, At
  <2> QED BY <1>1, <2>1, HeldStays DEF AccountIInv, AccountTypeOK
<1>7. OneSetUpAtATime'
  BY <1>1 DEF AccountIInv, AccountTypeOK, OneSetUpAtATime, Ensure, At
<1> QED BY <1>3, <1>4, <1>5, <1>6, <1>7 DEF AccountIInv

\* Steps of a creation that set the stage, and the account at most to one that
\* was found, leave records and calls alone.
LEMMA CallsStay ==
  ASSUME CallsFit, call' = call, made \subseteq made'
  PROVE  CallsFit'
BY DEF CallsFit

LEMMA LookupFindsKeeps ==
  ASSUME AccountIInv, NEW t \in Tabs, LookupFinds(t)
  PROVE  AccountIInv'
<1>1. PICK e \in Latest(t) :
        running' = [running EXCEPT ![t] = [pc |-> "verify", account |-> e.account]]
  BY DEF LookupFinds
<1>2. e.account \in Accounts
  BY LatestIsHeld, AccountsAreNotZero DEF AccountIInv, Sites
<1>3. AccountTypeOK'
  BY <1>1, <1>2 DEF AccountIInv, AccountTypeOK, LookupFinds, chain, history, gone
<1>4. CreationsFit'
  BY <1>1 DEF AccountIInv, AccountTypeOK, CreationsFit, LookupFinds, chain
<1>5. CallsFit'
  BY CallsStay DEF AccountIInv, LookupFinds, chain
<1>6. EverySetUpIsHeld'
  <2>1. \A u \in Tabs, a \in Accounts : Working(u, a) => Working(u, a)'
    BY <1>1 DEF AccountIInv, AccountTypeOK, Working, LookupFinds, At
  <2> QED BY <2>1, HeldStays DEF AccountIInv, AccountTypeOK, LookupFinds, chain, history, gone
<1>7. OneSetUpAtATime'
  BY <1>1 DEF AccountIInv, AccountTypeOK, OneSetUpAtATime, LookupFinds, chain, history, gone
<1> QED BY <1>3, <1>4, <1>5, <1>6, <1>7 DEF AccountIInv

LEMMA GoSetUpKeeps ==
  ASSUME AccountIInv, NEW t \in Tabs, GoSetUp(t)
  PROVE  AccountIInv'
<1>1. AccountTypeOK'
  <2>1. running' \in [Tabs -> Creations]
    <3>1. running \in [Tabs -> Creations]
      BY DEF AccountIInv, AccountTypeOK, Creations
    <3>2. [running[t] EXCEPT !.pc = "setup"] \in Creations
      BY <3>1 DEF Creations
    <3>3. [running EXCEPT ![t].pc = "setup"] \in [Tabs -> Creations]
      BY <3>1, <3>2
    <3> QED BY <3>3 DEF GoSetUp
  <2>2. missed' \in BOOLEAN
    BY Zenon DEF AccountIInv, AccountTypeOK, GoSetUp
  <2> QED BY <2>1, <2>2 DEF AccountIInv, AccountTypeOK, Creations, GoSetUp, chain, gone
<1>2. CreationsFit'
  BY DEF AccountIInv, AccountTypeOK, CreationsFit, GoSetUp, chain, At
<1>3. CallsFit'
  BY CallsStay DEF AccountIInv, GoSetUp, chain
<1>4. EverySetUpIsHeld'
  <2>1. \A u \in Tabs, a \in Accounts : Working(u, a) => Working(u, a)'
    BY DEF AccountIInv, AccountTypeOK, Working, GoSetUp, At
  <2> QED BY <2>1, HeldStays DEF AccountIInv, AccountTypeOK, GoSetUp, chain, gone
<1>5. OneSetUpAtATime'
  BY DEF AccountIInv, AccountTypeOK, OneSetUpAtATime, GoSetUp, chain, gone, At
<1> QED BY <1>1, <1>2, <1>3, <1>4, <1>5 DEF AccountIInv

LEMMA VerifyLagsKeeps ==
  ASSUME AccountIInv, NEW t \in Tabs, VerifyLags(t)
  PROVE  AccountIInv'
<1>1. AccountTypeOK'
  BY ChainAccountConstants DEF AccountIInv, AccountTypeOK, VerifyLags, chain, gone
<1>2. CreationsFit'
  BY DEF AccountIInv, AccountTypeOK, CreationsFit, VerifyLags, chain
<1>3. CallsFit'
  BY CallsStay DEF AccountIInv, VerifyLags, chain
<1>4. EverySetUpIsHeld'
  <2>1. \A u \in Tabs, a \in Accounts : Working(u, a) => Working(u, a)'
    BY DEF AccountIInv, AccountTypeOK, Working, VerifyLags, At
  <2> QED BY <2>1, HeldStays DEF AccountIInv, AccountTypeOK, VerifyLags, chain, gone
<1>5. OneSetUpAtATime'
  BY DEF OneSetUpAtATime, VerifyLags
<1> QED BY <1>1, <1>2, <1>3, <1>4, <1>5 DEF AccountIInv

LEMMA SendSetupKeeps ==
  ASSUME AccountIInv, NEW t \in Tabs, SendSetup(t)
  PROVE  AccountIInv'
<1>1. PICK a \in Accounts \ (sent \cup made) :
        /\ sent' = sent \cup {a}
        /\ running' = [running EXCEPT ![t] = [pc |-> "sent", account |-> a]]
  BY DEF SendSetup
<1>2. AccountTypeOK'
  BY <1>1 DEF AccountIInv, AccountTypeOK, SendSetup, history, gone
<1>3. CreationsFit'
  BY <1>1 DEF AccountIInv, AccountTypeOK, CreationsFit, SendSetup
<1>4. CallsFit'
  BY CallsStay DEF AccountIInv, SendSetup
<1>5. EverySetUpIsHeld'
  <2>1. Working(t, a)'
    BY <1>1 DEF AccountIInv, AccountTypeOK, Working
  <2>2. ASSUME NEW b \in sent \cup made, NEW u \in Tabs, Working(u, b)
        PROVE  Working(u, b)'
    BY <1>1, <2>2 DEF AccountIInv, AccountTypeOK, Working, SendSetup, At
  <2>3. \A b : Recorded(b) => Recorded(b)'
    BY DEF Recorded, SendSetup
  <2>4. Lost' = Lost /\ sent' \cup made' = sent \cup made \cup {a}
    BY <1>1 DEF Lost, SendSetup, history, gone
  <2> QED BY <2>1, <2>2, <2>3, <2>4 DEF AccountIInv, EverySetUpIsHeld
<1>6. OneSetUpAtATime'
  BY <1>1 DEF AccountIInv, AccountTypeOK, OneSetUpAtATime, SendSetup, history, gone, At
<1> QED BY <1>2, <1>3, <1>4, <1>5, <1>6 DEF AccountIInv

LEMMA ReceiptKeeps ==
  ASSUME AccountIInv, NEW t \in Tabs, Receipt(t)
  PROVE  AccountIInv'
<1>1. AccountTypeOK'
  BY DEF AccountIInv, AccountTypeOK, Receipt, chain, history, gone
<1>2. CreationsFit'
  BY DEF AccountIInv, AccountTypeOK, CreationsFit, Receipt, chain
<1>3. CallsFit'
  BY CallsStay DEF AccountIInv, Receipt, chain
<1>4. EverySetUpIsHeld'
  BY DEF AccountIInv, AccountTypeOK, EverySetUpIsHeld, Recorded, Working, Lost, Receipt,
         chain, history, gone, At
<1>5. OneSetUpAtATime'
  BY DEF AccountIInv, AccountTypeOK, OneSetUpAtATime, Receipt, chain, history, gone
<1> QED BY <1>1, <1>2, <1>3, <1>4, <1>5 DEF AccountIInv

\* What storage does with a record: it keeps it, and another tab's goes, or it
\* keeps nothing.
LEMMA StoreHolds ==
  ASSUME AccountTypeOK, NEW p \in Profiles, NEW a \in made, Store(p, a)
  PROVE  /\ record' \in [Profiles -> made \cup {0}]
         /\ upsets' \in 0 .. MaxUpsets
         /\ unsaved' \cup replaced' \subseteq Accounts
         /\ unsaved \cup replaced \subseteq unsaved' \cup replaced'
         /\ Recorded(a)' \/ a \in unsaved'
         /\ \A b \in made \cup sent : Recorded(b) => Recorded(b)' \/ b \in replaced'
         /\ (\A b \in made : b = a) => replaced' = replaced
<1>1. CASE /\ record' = [record EXCEPT ![p] = a]
           /\ replaced' = replaced \cup ({record[p]} \ {0, a})
           /\ UNCHANGED <<unsaved, upsets>>
  <2>1. record[p] \in made \cup {0} /\ a \in Accounts
    BY AccountsAreNotZero DEF AccountTypeOK
  <2>2. record[p] \in Accounts \cup {0}
    BY <2>1, AccountsAreNotZero
  <2>3. record' \in [Profiles -> made \cup {0}] /\ Recorded(a)'
    BY <1>1 DEF AccountTypeOK, Recorded
  <2>4. ASSUME NEW b \in made \cup sent, Recorded(b)
        PROVE  Recorded(b)' \/ b \in replaced'
    <3>1. PICK q \in Profiles : record[q] = b
      BY <2>4 DEF Recorded
    <3>2. CASE q # p
      BY <1>1, <3>1, <3>2 DEF AccountTypeOK, Recorded
    <3>3. CASE q = p
      BY <1>1, <2>3, <3>1, <3>3, AccountsAreNotZero
    <3> QED BY <3>2, <3>3
  <2> QED BY <1>1, <2>1, <2>2, <2>3, <2>4 DEF AccountTypeOK
<1>2. CASE /\ upsets < MaxUpsets /\ upsets' = upsets + 1
           /\ unsaved' = unsaved \cup {a}
           /\ UNCHANGED <<record, replaced>>
  BY <1>2, AccountsAreNotZero, ChainAccountConstants DEF AccountTypeOK, Recorded
<1> QED BY <1>1, <1>2 DEF Store

\* What ends a creation with a record: `seal` with the account that was set
\* up, `verify` with one that was found on chain.
LEMMA SaveKeeps ==
  ASSUME AccountIInv, NEW t \in Tabs, NEW a \in made, running[t].account = a, Save(t, a),
         UNCHANGED <<page, listening, replica, chain, missed, abandoned, interrupted>>
  PROVE  AccountIInv'
<1>1. PICK p \in Profiles : p = ProfileOf[t]
  BY ChainAccountConstants
<1>2. PICK then \in CallStates : then = [pc |-> "get", account |-> a]
  BY DEF CallStates
<1>3. Store(p, a) /\ Ends(t, then)
  BY <1>1, <1>2 DEF Save
<1>4. UNCHANGED <<sent, made>>
  BY DEF chain
<1>5. /\ call' \in [Tabs -> [Calls -> CallStates]]
      /\ running' \in [Tabs -> Creations]
      /\ CallsFit'
  BY <1>2, <1>3, <1>4, EndsFits
<1>6. running' = [running EXCEPT ![t] = NoCreation]
  BY <1>3 DEF Ends
<1>7. AccountTypeOK'
  BY <1>3, <1>4, <1>5, StoreHolds DEF AccountIInv, AccountTypeOK, CallStates, Creations
<1>8. CreationsFit'
  BY <1>4, <1>6 DEF AccountIInv, AccountTypeOK, CreationsFit, NoCreation
<1>9. EverySetUpIsHeld'
  <2>1. ASSUME NEW b \in (sent \cup made) \ Lost'
        PROVE  Recorded(b)' \/ \E u \in Tabs : Working(u, b)'
    <3>1. b \notin unsaved' \cup replaced' /\ b \in (sent \cup made) \ Lost
      BY <1>3, <2>1, StoreHolds DEF AccountIInv, Lost
    <3>2. CASE Recorded(b)
      BY <1>3, <3>1, <3>2, StoreHolds DEF AccountIInv
    <3>3. CASE \E u \in Tabs : Working(u, b)
      <4>1. PICK u \in Tabs : Working(u, b)
        BY <3>3
      <4>2. CASE u = t
        <5>1. b = a
          BY <4>1, <4>2 DEF Working
        <5> QED BY <1>3, <3>1, <5>1, StoreHolds DEF AccountIInv
      <4>3. CASE u # t
        BY <1>6, <4>1, <4>3 DEF AccountIInv, AccountTypeOK, Working
      <4> QED BY <4>2, <4>3
    <3> QED BY <3>1, <3>2, <3>3 DEF AccountIInv, EverySetUpIsHeld
  <2> QED BY <1>4, <2>1 DEF EverySetUpIsHeld
<1>10. OneSetUpAtATime'
  <2>1. ~ missed => replaced' = replaced
    BY <1>3, StoreHolds DEF AccountIInv, OneSetUpAtATime
  <2> QED BY <1>4, <1>6, <2>1 DEF AccountIInv, AccountTypeOK, OneSetUpAtATime, NoCreation
<1> QED BY <1>5, <1>7, <1>8, <1>9, <1>10 DEF AccountIInv

LEMMA FailKeeps ==
  ASSUME AccountIInv, NEW t \in Tabs, Fail(t)
  PROVE  AccountIInv'
<1>1. /\ UNCHANGED <<page, record, listening, replica, sent, made, missed, unsaved, replaced,
                     interrupted>>
      /\ running' = [running EXCEPT ![t] = NoCreation]
  BY DEF Fail, Ends, chain
<1>2. PICK then \in CallStates : then = IdleCall
  BY DEF IdleCall, CallStates
<1>3. Ends(t, then)
  BY <1>2 DEF Fail
<1>4. /\ call' \in [Tabs -> [Calls -> CallStates]]
      /\ running' \in [Tabs -> Creations]
      /\ CallsFit'
  BY <1>1, <1>2, <1>3, EndsFits DEF IdleCall
<1>5. AccountTypeOK'
  <2>1. abandoned' \subseteq Accounts
    BY AccountsAreNotZero DEF AccountIInv, AccountTypeOK, CreationsFit, Fail, At
  <2>2. upsets' \in 0 .. MaxUpsets
    BY ChainAccountConstants DEF AccountIInv, AccountTypeOK, Fail
  <2> QED BY <1>1, <1>4, <2>1, <2>2 DEF AccountIInv, AccountTypeOK, CallStates, Creations
<1>6. CreationsFit'
  BY <1>1 DEF AccountIInv, AccountTypeOK, CreationsFit, NoCreation
<1>7. EverySetUpIsHeld'
  <2>1. ASSUME NEW b \in (sent \cup made) \ Lost', NEW u \in Tabs, Working(u, b)
        PROVE  Working(u, b)'
    BY <1>1, <2>1 DEF AccountIInv, AccountTypeOK, Working, Lost, Fail, At
  <2>2. Lost \subseteq Lost' /\ \A b : Recorded(b)' <=> Recorded(b)
    BY <1>1 DEF Lost, Recorded, Fail
  <2> QED BY <1>1, <2>1, <2>2 DEF AccountIInv, EverySetUpIsHeld
<1>8. OneSetUpAtATime'
  BY <1>1 DEF AccountIInv, AccountTypeOK, OneSetUpAtATime, NoCreation
<1> QED BY <1>4, <1>5, <1>6, <1>7, <1>8 DEF AccountIInv

-----------------------------------------------------------------------------
\* Publishing, replication and opening a tab leave creations alone

LEMMA CreationsStay ==
  ASSUME AccountIInv, AccountTypeOK', CallsFit',
         UNCHANGED <<record, running, missed, unsaved, replaced, abandoned>>,
         sent' \cup made' = sent \cup made, made \subseteq made'
  PROVE  AccountIInv'
<1>1. CreationsFit' /\ OneSetUpAtATime'
  BY DEF AccountIInv, CreationsFit, OneSetUpAtATime
<1>2. EverySetUpIsHeld'
  BY DEF AccountIInv, EverySetUpIsHeld, Recorded, Working, Lost
<1> QED BY <1>1, <1>2 DEF AccountIInv

LEMMA PublishKeeps ==
  ASSUME AccountIInv, NEW t \in Tabs, NEW c \in Calls,
         PublishGet(t, c) \/ PublishPut(t, c) \/ PublishFails(t, c)
  PROVE  AccountIInv'
<1>1. UNCHANGED <<page, record, running, sent, made, missed, unsaved, replaced, abandoned>>
  BY DEF PublishGet, PublishPut, PublishFails, chain, history, gone
<1>2. PICK k \in {IdleCall, [call[t][c] EXCEPT !.pc = "put"]} : call' = [call EXCEPT ![t][c] = k]
  <2>1. call \in [Tabs -> [Calls -> CallStates]]
    BY DEF AccountIInv, AccountTypeOK, CallStates
  <2>2. [call EXCEPT ![t][c].pc = "put"] = [call EXCEPT ![t][c] = [call[t][c] EXCEPT !.pc = "put"]]
    BY <2>1
  <2> QED BY <2>2 DEF PublishGet, PublishPut, PublishFails
<1>3. k \in CallStates
  <2>1. call[t][c] \in CallStates
    BY DEF AccountIInv, AccountTypeOK, CallStates
  <2>2. [call[t][c] EXCEPT !.pc = "put"] \in CallStates
    BY <2>1 DEF CallStates
  <2>3. IdleCall \in CallStates
    BY DEF CallStates, IdleCall
  <2> QED BY <2>2, <2>3
<1>4. call' \in [Tabs -> [Calls -> CallStates]]
  <2>1. call \in [Tabs -> [Calls -> CallStates]]
    BY DEF AccountIInv, AccountTypeOK, CallStates
  <2>2. [call[t] EXCEPT ![c] = k] \in [Calls -> CallStates]
    BY <1>3, <2>1
  <2> QED BY <1>2, <2>1, <2>2
<1>5. k.pc \in {"get", "put"} => k.account \in made
  <2>1. call[t][c].pc \in {"get", "put"} /\ call[t][c] \in CallStates
    BY DEF AccountIInv, AccountTypeOK, CallStates, PublishGet, PublishPut, PublishFails
  <2> QED BY <2>1 DEF AccountIInv, CallsFit, IdleCall, CallStates
<1>6. CallsFit'
  BY <1>1, <1>2, <1>5 DEF AccountIInv, AccountTypeOK, CallsFit
<1>7. AccountTypeOK'
  <2>1. listening' \subseteq Sites
    BY DEF AccountIInv, AccountTypeOK, PublishGet, PublishPut, PublishFails, Sites
  <2>2. replica' \in [Sites -> SUBSET [time : Nat, account : made]]
    <3>1. CASE PublishPut(t, c)
      <4>1. PICK a \in made : a = call[t][c].account
        BY <3>1 DEF AccountIInv, CallsFit, PublishPut
      <4>2. Written(t, a) \in SUBSET [time : Nat, account : made]
        BY WrittenIsTyped DEF AccountIInv, Sites
      <4> QED BY <3>1, <4>1, <4>2 DEF AccountIInv, AccountTypeOK, PublishPut
    <3>2. CASE PublishGet(t, c) \/ PublishFails(t, c)
      BY <3>2 DEF AccountIInv, AccountTypeOK, PublishGet, PublishFails
    <3> QED BY <3>1, <3>2
  <2>3. upsets' \in 0 .. MaxUpsets
    BY ChainAccountConstants
       DEF AccountIInv, AccountTypeOK, PublishGet, PublishPut, PublishFails
  <2>4. interrupted' \in BOOLEAN
    <3>1. interrupted' = TRUE \/ interrupted' = interrupted
      BY DEF PublishGet, PublishPut, PublishFails, history
    <3> QED BY <3>1 DEF AccountIInv, AccountTypeOK
  <2> QED BY <1>1, <1>4, <2>1, <2>2, <2>3, <2>4 DEF AccountIInv, AccountTypeOK, CallStates
<1> QED BY <1>1, <1>6, <1>7, CreationsStay

LEMMA ReplicateKeeps ==
  ASSUME AccountIInv, NEW s \in Sites, NEW r \in Sites, Replicate(s, r)
  PROVE  AccountIInv'
<1>1. AccountTypeOK'
  BY DEF AccountIInv, AccountTypeOK, Replicate, chain, history, gone
<1>2. UNCHANGED <<record, running, call, sent, made, missed, unsaved, replaced, abandoned>>
  BY DEF Replicate, chain, history, gone
<1>3. CallsFit'
  BY <1>2, CallsStay DEF AccountIInv
<1> QED BY <1>1, <1>2, <1>3, CreationsStay

LEMMA MineKeeps ==
  ASSUME AccountIInv, NEW a \in Accounts, Mine(a)
  PROVE  AccountIInv'
<1>1. /\ sent' \cup made' = sent \cup made /\ made \subseteq made'
      /\ UNCHANGED <<page, record, running, call, missed, unsaved, replaced, abandoned>>
  BY DEF Mine, history, gone
<1>2. AccountTypeOK'
  <2>1. call' \in [Tabs -> [Calls -> [pc : {"idle", "waiting", "get", "put"},
                                      account : made' \cup {0}]]]
    BY <1>1 DEF AccountIInv, AccountTypeOK
  <2> QED BY <1>1, <2>1 DEF AccountIInv, AccountTypeOK, Mine, history
<1>3. CallsFit'
  BY <1>1, CallsStay DEF AccountIInv
<1> QED BY <1>1, <1>2, <1>3, CreationsStay

LEMMA OpenKeeps ==
  ASSUME AccountIInv, NEW t \in Tabs, Open(t)
  PROVE  AccountIInv'
<1>1. UNCHANGED <<record, running, call, listening, sent, made, upsets, missed, unsaved, replaced,
                  abandoned, interrupted>>
  BY DEF Open, chain, history, gone
<1>2. AccountTypeOK'
  <2>1. PICK S : S = UNION {replica[u] : u \in TabsOf(ProfileOf[t])}
    OBVIOUS
  <2>2. S \subseteq [time : Nat, account : made]
    BY <2>1 DEF AccountIInv, AccountTypeOK, TabsOf, Sites
  <2>3. replica' = [replica EXCEPT ![t] = S]
    BY <2>1 DEF Open
  <2>4. replica' \in [Sites -> SUBSET [time : Nat, account : made]]
    BY <2>2, <2>3 DEF AccountIInv, AccountTypeOK
  <2>5. page' \in [Tabs -> BOOLEAN]
    BY DEF AccountIInv, AccountTypeOK, Open
  <2> QED BY <1>1, <2>4, <2>5 DEF AccountIInv, AccountTypeOK
<1>3. CallsFit'
  BY <1>1, CallsStay DEF AccountIInv
<1> QED BY <1>1, <1>2, <1>3, CreationsStay

-----------------------------------------------------------------------------
\* Pages that go and profiles that are cleared

LEMMA CloseKeeps ==
  ASSUME AccountIInv, NEW t \in Tabs, Close(t)
  PROVE  AccountIInv'
<1>1. /\ UNCHANGED <<record, replica, sent, made, missed, unsaved, replaced>>
      /\ running' = [running EXCEPT ![t] = NoCreation]
      /\ call' = [call EXCEPT ![t] = [c \in Calls |-> IdleCall]]
  BY DEF Close, chain
<1>2. AccountTypeOK'
  <2>1. running' \in [Tabs -> Creations]
    BY <1>1 DEF AccountIInv, AccountTypeOK, Creations, NoCreation
  <2>2. call' \in [Tabs -> [Calls -> CallStates]]
    BY <1>1 DEF AccountIInv, AccountTypeOK, CallStates, IdleCall
  <2>3. abandoned' \subseteq Accounts
    BY AccountsAreNotZero DEF AccountIInv, AccountTypeOK, CreationsFit, Close, At
  <2>4. /\ upsets' \in 0 .. MaxUpsets /\ listening' \subseteq Sites
        /\ page' \in [Tabs -> BOOLEAN]
    BY ChainAccountConstants DEF AccountIInv, AccountTypeOK, Close
  <2>5. interrupted' \in BOOLEAN
    BY DEF Close
  <2> QED BY <1>1, <2>1, <2>2, <2>3, <2>4, <2>5
      DEF AccountIInv, AccountTypeOK, CallStates, Creations
<1>3. CreationsFit'
  BY <1>1 DEF AccountIInv, AccountTypeOK, CreationsFit, NoCreation
<1>4. CallsFit'
  BY <1>1 DEF AccountIInv, AccountTypeOK, CallsFit, IdleCall
<1>5. EverySetUpIsHeld'
  <2>1. ASSUME NEW b \in (sent \cup made) \ Lost', NEW u \in Tabs, Working(u, b)
        PROVE  Working(u, b)'
    BY <1>1, <2>1 DEF AccountIInv, AccountTypeOK, Working, Lost, Close, At
  <2>2. Lost \subseteq Lost' /\ \A b : Recorded(b)' <=> Recorded(b)
    BY <1>1 DEF Lost, Recorded, Close
  <2> QED BY <1>1, <2>1, <2>2 DEF AccountIInv, EverySetUpIsHeld
<1>6. OneSetUpAtATime'
  BY <1>1 DEF AccountIInv, AccountTypeOK, OneSetUpAtATime, NoCreation
<1> QED BY <1>2, <1>3, <1>4, <1>5, <1>6 DEF AccountIInv

LEMMA ClearKeeps ==
  ASSUME AccountIInv, NEW p \in Profiles, Clear(p)
  PROVE  AccountIInv'
<1>1. /\ UNCHANGED <<page, running, call, listening, sent, made, missed, unsaved, replaced,
                     interrupted>>
      /\ record' = [record EXCEPT ![p] = 0]
      /\ abandoned' = abandoned \cup ({record[p]} \ {0})
  BY DEF Clear, chain
<1>2. AccountTypeOK'
  <2>1. record' \in [Profiles -> made \cup {0}] /\ record[p] \in made \cup {0}
    BY <1>1 DEF AccountIInv, AccountTypeOK
  <2>2. abandoned' \subseteq Accounts
    BY <1>1, <2>1, AccountsAreNotZero DEF AccountIInv, AccountTypeOK
  <2>3. upsets' \in 0 .. MaxUpsets
    BY ChainAccountConstants DEF AccountIInv, AccountTypeOK, Clear
  <2>4. replica' \in [Sites -> SUBSET [time : Nat, account : made]]
    BY DEF AccountIInv, AccountTypeOK, Clear
  <2> QED BY <1>1, <2>1, <2>2, <2>3, <2>4 DEF AccountIInv, AccountTypeOK
<1>3. CreationsFit' /\ OneSetUpAtATime'
  BY <1>1 DEF AccountIInv, CreationsFit, OneSetUpAtATime
<1>4. CallsFit'
  BY <1>1, CallsStay DEF AccountIInv
<1>5. EverySetUpIsHeld'
  <2>1. ASSUME NEW b \in (sent \cup made) \ Lost', Recorded(b)
        PROVE  Recorded(b)'
    BY <1>1, <2>1, AccountsAreNotZero DEF AccountIInv, AccountTypeOK, Recorded, Lost
  <2>2. Lost \subseteq Lost' /\ \A t, b : Working(t, b)' <=> Working(t, b)
    BY <1>1 DEF Lost, Working
  <2> QED BY <1>1, <2>1, <2>2 DEF AccountIInv, EverySetUpIsHeld
<1> QED BY <1>2, <1>3, <1>4, <1>5 DEF AccountIInv

-----------------------------------------------------------------------------
\* The steps together

LEMMA StepAccountIInv == AccountIInv /\ [AccountNext]_accountVars => AccountIInv'
<1> SUFFICES ASSUME AccountIInv, [AccountNext]_accountVars PROVE AccountIInv'
  OBVIOUS
<1>1. CASE UNCHANGED accountVars
  BY <1>1 DEF AccountIInv, AccountTypeOK, CreationsFit, CallsFit, EverySetUpIsHeld, Recorded,
              Working, Lost, OneSetUpAtATime, accountVars
<1>2. ASSUME NEW t \in Tabs, Verify(t) PROVE AccountIInv'
  <2>1. PICK a \in made : a = running[t].account
    BY <1>2 DEF Verify
  <2> QED BY <1>2, <2>1, SaveKeeps DEF Verify
<1>3. ASSUME NEW t \in Tabs, Sealed(t) PROVE AccountIInv'
  <2>1. PICK a \in made : a = running[t].account
    BY <1>3 DEF AccountIInv, CreationsFit, Sealed, At
  <2> QED BY <1>3, <2>1, SaveKeeps DEF Sealed
<1>4. ASSUME NEW t \in Tabs, LookupTimesOut(t) PROVE AccountIInv'
  BY <1>4, GoSetUpKeeps DEF LookupTimesOut
<1> QED
  BY <1>1, <1>2, <1>3, <1>4, EnsureKeeps, LookupFindsKeeps, VerifyLagsKeeps,
     SendSetupKeeps, ReceiptKeeps, FailKeeps, PublishKeeps, ReplicateKeeps, MineKeeps,
     OpenKeeps, CloseKeeps, ClearKeeps
  DEF AccountNext

LEMMA AlwaysAccountIInv == AccountSpec => []AccountIInv
BY InitAccountIInv, StepAccountIInv, PTL DEF AccountSpec

-----------------------------------------------------------------------------
\* The results

\* Records, creations, calls and directory entries are well formed; an entry
\* never names an account that is not on chain (ensureAccount publishes only
\* what its set-up operation, or the chain, has confirmed).
THEOREM AccountTypesHold == AccountSpec => []AccountTypeOK
BY AlwaysAccountIInv, PTL DEF AccountIInv

\* No account is lost unless its set-up was cut off, the profile was cleared,
\* storage refused the record, or another tab of the profile saved its own over
\* it (ensureAccount, accounts.save).
THEOREM AccountsHeld == AccountSpec => []AccountsAreHeld
<1>1. AccountIInv => AccountsAreHeld
  BY DEF AccountIInv, EverySetUpIsHeld, Recorded, Working, Lost, AccountsAreHeld
<1> QED BY AlwaysAccountIInv, <1>1, PTL

\* Two profiles have different accounts, or a tab's account is saved over by
\* another tab's, only if a look in the directory, or a node asked, missed what
\* the other did (lookup before createAccount).
THEOREM TwoAccountsIfMissed == AccountSpec => []TwoAccountsOnlyIfMissed
<1>1. AccountIInv => TwoAccountsOnlyIfMissed
  BY DEF AccountIInv, AccountTypeOK, OneSetUpAtATime, TwoAccountsOnlyIfMissed
<1> QED BY AlwaysAccountIInv, <1>1, PTL

-----------------------------------------------------------------------------
\* Reading amounts

\* The records that a call may still write back.
Records == {stored, lock.rec} \cup {flow[f].rec : f \in Flows}

\* A key whose seal does not open is not open, and no record of it says that it
\* does; a call that waits for the sealing key works on a record that is sealed.
SealsFit ==
    /\ \A r \in Records : r.key # NoKey => r.key \in used
    /\ \A r \in Records : r.seal = "shut" =>
           /\ opened # r.key /\ r.key # NoKey
           /\ \A s \in Records : s.key = r.key => s.seal # "opens"
    /\ \A f \in Flows : flow[f].pc = "unlock" => flow[f].rec.seal # "none"
    /\ lock.pc = "key" => lock.rec.seal # "none"

\* The amount: while it shows that the key is wanting, it is; and a decryption
\* that nothing passed began with the key that is stored, if that is open.
AmountFits ==
    ~ passed =>
        /\ amount \in Unreadable => State(stored) # "valid" /\ shownKey # "valid"
        /\ read # None /\ State(stored) = "valid" => read.key = stored.key

\* The same of the balance and its newest request, once no lock is under way.
BalanceFits ==
    lock.pc = "idle" =>
        /\ balance \in Unreadable => State(stored) # "valid" /\ shownKey # "valid"
        /\ State(stored) = "valid" =>
               \A q \in requests : q.newest => q.rec.key = stored.key

\* A key is replaced only where it cannot be unlocked.
Lockable == State(stored) = "locked"
ReplacementFits ==
    ~ crossed =>
        /\ shownKey \in {"missing", "expired"} => ~ Lockable
        /\ \A f \in Flows :
               /\ flow[f].pc \in {"renew", "send"} => ~ Lockable
               /\ flow[f].pc = "unlock" => flow[f].rec.key = stored.key
               /\ flow[f].pc = "send" => \A g \in Flows : flow[g].pc # "unlock"
        /\ lock.pc \in {"checks", "key"} => lock.rec.key = stored.key

IInv == TypeOK /\ SealsFit /\ AmountFits /\ BalanceFits /\ ReplacementFits

-----------------------------------------------------------------------------
\* Types

LEMMA SendingTyped ==
  ASSUME NEW P, "send" \in P, NEW R, NEW r \in [pc : P, rec : R, seals : BOOLEAN],
         NEW seals \in BOOLEAN
  PROVE  [r EXCEPT !.pc = "send", !.seals = seals] \in [pc : P, rec : R, seals : BOOLEAN]
OBVIOUS

LEMMA StateTyped ==
  ASSUME NEW rec, NEW open
  PROVE  StateWith(rec, open) \in States
BY DEF StateWith, States

LEMMA BalanceTyped ==
  ASSUME TypeOK, NEW rec \in Record, NEW open, AskBalance(rec, open)
  PROVE  /\ requests' \subseteq [rec : Record, newest : BOOLEAN]
         /\ balance' \in Shown \ {"none"}
         /\ (balance' = "decrypting") => \E q \in requests' : q.newest
<1> DEFINE older == {[q EXCEPT !.newest = FALSE] : q \in requests}
<1>1. ASSUME NEW newest \in BOOLEAN, NEW q \in requests
      PROVE  [q EXCEPT !.newest = newest] \in [rec : Record, newest : BOOLEAN]
  BY DEF TypeOK
<1>2. TRUE \in BOOLEAN /\ FALSE \in BOOLEAN
  BY Zenon
<1>3. older \subseteq [rec : Record, newest : BOOLEAN]
  BY <1>1, <1>2, Zenon
<1>4. CASE StateWith(rec, open) = "valid"
  <2> DEFINE new == [rec |-> rec, newest |-> TRUE]
  <2>1. requests' = older \cup {new}
    BY <1>4 DEF AskBalance
  <2>2. balance' \in {"ready", "decrypting"}
    BY <1>4 DEF AskBalance
  <2>3. new \in [rec : Record, newest : BOOLEAN]
    BY <1>2
  <2>4. new.newest
    OBVIOUS
  <2>5. \E q \in requests' : q.newest
    BY <2>1, <2>4, Zenon
  <2>6. requests' \subseteq [rec : Record, newest : BOOLEAN]
    BY <1>3, <2>1, <2>3, Zenon
  <2> QED BY <2>2, <2>5, <2>6 DEF Shown
<1>5. CASE StateWith(rec, open) # "valid"
  <2>1. requests' = older /\ balance' = Failure(StateWith(rec, open))
    BY <1>5 DEF AskBalance
  <2> QED BY <1>3, <2>1 DEF Failure, Shown, Unreadable
<1> QED BY <1>4, <1>5

LEMMA InitTyped == Init => TypeOK
<1> SUFFICES ASSUME Init PROVE TypeOK
  OBVIOUS
<1>1. /\ stored \in Record /\ used \subseteq Keys
      /\ {stored.key, opened} \subseteq used \cup {NoKey}
  BY DEF Init, Record
<1>2. passed \in BOOLEAN /\ crossed \in BOOLEAN
  BY Zenon DEF Init
<1>3. Idle \in [pc : {"idle"}, rec : Record, seals : BOOLEAN]
  BY DEF Idle, Record
<1>4. shownKey \in States /\ expired = {} /\ sealing = "none" /\ renewing = None
  BY StateTyped DEF Init, State
<1>5. /\ flow \in [Flows -> [pc : {"idle", "unlock", "renew", "send"}, rec : Record, seals : BOOLEAN]]
      /\ lock \in [pc : {"idle", "checks", "key", "send"}, rec : Record]
  BY <1>3 DEF Init, NoLock
<1>6. amount = "none" /\ read = None
  BY DEF Init
<1>7. /\ requests \subseteq [rec : Record, newest : BOOLEAN]
      /\ balance \in Shown \ {"none"}
      /\ (balance = "decrypting") => \E q \in requests : q.newest
  <2>1. CASE State(stored) = "valid"
    <3>1. requests = {[rec |-> stored, newest |-> TRUE]} /\ balance = "decrypting"
      BY <2>1 DEF Init
    <3>2. TRUE \in BOOLEAN
      BY Zenon
    <3> QED BY <1>1, <3>1, <3>2 DEF Shown
  <2>2. CASE State(stored) # "valid"
    BY <2>2 DEF Init, Failure, Shown, Unreadable
  <2> QED BY <2>1, <2>2
<1> QED BY <1>1, <1>2, <1>4, <1>5, <1>6, <1>7 DEF TypeOK, Shown

LEMMA StepTyped ==
  ASSUME TypeOK, SealsFit, [Next]_vars
  PROVE  TypeOK'
<1> USE DEF keys, TypeOK, Record, States, Shown, Unreadable
<1>1. CASE UNCHANGED vars
  BY <1>1 DEF vars
<1>2. CASE RefreshBalance
  BY <1>2, BalanceTyped, StateTyped DEF RefreshBalance, Noticed
<1>3. ASSUME NEW q \in requests, BalanceEnds(q) PROVE TypeOK'
  BY <1>3 DEF BalanceEnds, State, StateWith, Failure, NoticedAfter, Outcomes, Writes
<1>4. CASE ReadAmount
  <2>1. shownKey' \in States
    BY <1>4, StateTyped DEF ReadAmount, Noticed
  <2>2. amount' \in Shown /\ read' \in Record \cup {None}
    BY <1>4 DEF ReadAmount, Failure
  <2>3. (read' # None) = (amount' = "decrypting")
    <3>1. CASE State(stored) = "valid"
      BY <1>4, <3>1, ReadAccessConstants DEF ReadAmount
    <3>2. CASE State(stored) # "valid"
      BY <1>4, <3>2 DEF ReadAmount, Failure
    <3> QED BY <3>1, <3>2
  <2>4. passed' \in BOOLEAN
    BY <1>4, Zenon DEF ReadAmount
  <2> QED BY <1>4, <2>1, <2>2, <2>3, <2>4 DEF ReadAmount
<1>5. CASE ReadEnds
  BY <1>5 DEF ReadEnds, State, StateWith, Failure, NoticedAfter, Outcomes
<1>6. ASSUME NEW f \in Flows, StartUnlock(f) PROVE TypeOK'
  BY <1>6 DEF StartUnlock, State, StateWith, Ask
<1>7. ASSUME NEW f \in Flows, UnlockOpen(f) PROVE TypeOK'
  <2>1. AskBalance(stored, opened)
    BY <1>7 DEF UnlockOpen, Reread
  <2> QED BY <1>7, <2>1, BalanceTyped DEF UnlockOpen, Reread
<1>8. ASSUME NEW f \in Flows, UnlockTooLate(f) PROVE TypeOK'
  BY <1>8 DEF UnlockTooLate, State, StateWith
<1>9. ASSUME NEW f \in Flows, Unlocked(f) PROVE TypeOK'
  <2>1. flow[f].rec.key \in used \cup {NoKey}
    BY <1>9 DEF Unlocked, SealsFit, Records
  <2>2. AskBalance(stored, flow[f].rec.key)
    BY <1>9 DEF Unlocked, Reread
  <2>3. shownKey' \in States
    BY <1>9, StateTyped DEF Unlocked, Noticed
  <2> QED BY <1>9, <2>1, <2>2, <2>3, BalanceTyped DEF Unlocked, Reread, Done, Idle
<1>10. ASSUME NEW f \in Flows, SealFails(f) PROVE TypeOK'
  BY <1>10 DEF SealFails, StateWith, Done, Idle, Unsealed, SealsFit, Records
<1>11. ASSUME NEW f \in Flows, StartRenewal(f) PROVE TypeOK'
  BY <1>11 DEF StartRenewal, Ask
<1>12. ASSUME NEW f \in Flows, RenewalSends(f) PROVE TypeOK'
  <2>1. flow' \in [Flows -> [pc : {"idle", "unlock", "renew", "send"}, rec : Record, seals : BOOLEAN]]
    <3>1. ASSUME NEW seals \in BOOLEAN
          PROVE  [flow[f] EXCEPT !.pc = "send", !.seals = seals] \in
                   [pc : {"idle", "unlock", "renew", "send"}, rec : Record, seals : BOOLEAN]
      <4>1. flow[f] \in [pc : {"idle", "unlock", "renew", "send"}, rec : Record, seals : BOOLEAN]
        OBVIOUS
      <4> QED BY <4>1, SendingTyped
    <3>2. TRUE \in BOOLEAN
      BY Zenon
    <3>3. flow' = [flow EXCEPT ![f] = [flow[f] EXCEPT !.pc = "send", !.seals = TRUE]]
      BY <1>12 DEF RenewalSends
    <3>4. [flow[f] EXCEPT !.pc = "send", !.seals = TRUE] \in
            [pc : {"idle", "unlock", "renew", "send"}, rec : Record, seals : BOOLEAN]
      BY <3>1, <3>2, Zenon
    <3> QED BY <3>3, <3>4
  <2> QED BY <1>12, <2>1 DEF RenewalSends
<1>13. ASSUME NEW f \in Flows, RenewalFails(f) PROVE TypeOK'
  BY <1>13 DEF RenewalFails, Done, Idle
<1>14. ASSUME NEW f \in Flows, Renewed(f) PROVE TypeOK'
  <2>1. PICK k \in Keys \ used :
          /\ used' = used \cup {k} /\ opened' = k
          /\ stored' = [key |-> k, seal |-> IF flow[f].seals THEN "opens" ELSE "none"]
          /\ Reread(stored', k)
    BY <1>14 DEF Renewed
  <2>2. stored' \in Record
    BY <2>1
  <2> QED BY <1>14, <2>1, <2>2, BalanceTyped DEF Renewed, Reread, Done, Idle
<1>15. CASE PasskeyAnswers
  BY <1>15 DEF PasskeyAnswers
<1>16. ASSUME NEW derives \in BOOLEAN, PasskeyRefuses(derives) PROVE TypeOK'
  <2>1. flow' \in [Flows -> [pc : {"idle", "unlock", "renew", "send"}, rec : Record, seals : BOOLEAN]]
    BY <1>16 DEF PasskeyRefuses, Idle
  <2>2. lock' \in [pc : {"idle", "checks", "key", "send"}, rec : Record]
    BY <1>16 DEF PasskeyRefuses, NoLock, Idle
  <2>3. shownKey' \in States
    BY <1>16, StateTyped DEF PasskeyRefuses, State
  <2>4. /\ requests' \subseteq [rec : Record, newest : BOOLEAN]
        /\ balance' \in Shown \ {"none"}
        /\ (balance' = "decrypting") => \E q \in requests' : q.newest
    BY <1>16, BalanceTyped DEF PasskeyRefuses
  <2>5. renewing' \in Flows \cup {None}
    BY <1>16 DEF PasskeyRefuses
  <2> QED BY <1>16, <2>1, <2>2, <2>3, <2>4, <2>5 DEF PasskeyRefuses
<1>17. CASE StartLock
  BY <1>17 DEF StartLock
<1>18. CASE LockGoesOn
  BY <1>18 DEF LockGoesOn, State, StateWith, Ask
<1>19. CASE LockOpens
  <2>1. lock.rec.key \in used \cup {NoKey}
    BY DEF SealsFit, Records
  <2>2. /\ lock' \in [pc : {"idle", "checks", "key", "send"}, rec : Record]
        /\ {stored.key, opened'} \subseteq used \cup {NoKey}
    BY <1>19, <2>1 DEF LockOpens
  <2>3. passed' \in BOOLEAN
    BY <1>19, Zenon DEF LockOpens
  <2> QED BY <1>19, <2>2, <2>3 DEF LockOpens
<1>20. CASE LockCannotOpen
  <2>1. stored' \in Record /\ stored'.key \in used \cup {NoKey}
    BY <1>20 DEF LockCannotOpen, Unsealed, SealsFit, Records
  <2>2. shownKey' \in States
    BY <1>20, StateTyped DEF LockCannotOpen, Noticed
  <2>3. AskBalance(stored', opened)
    BY <1>20 DEF LockCannotOpen
  <2> QED BY <1>20, <2>1, <2>2, <2>3, BalanceTyped DEF LockCannotOpen, NoLock, Idle
<1>21. CASE LockEnds
  <2>1. shownKey' \in States
    BY <1>21, StateTyped DEF LockEnds, Noticed
  <2> QED BY <1>21, <2>1, BalanceTyped DEF LockEnds, NoLock, Idle
<1>22. ASSUME NEW k \in Keys, Expire(k) PROVE TypeOK'
  BY <1>22 DEF Expire
<1>23. CASE SwitchView
  BY <1>23 DEF SwitchView, State, StateWith
<1>24. CASE Reload
  <2>1. StateWith(stored, NoKey) \in States
    BY DEF StateWith
  <2>2. shownKey' \in States /\ balance' \in Shown \ {"none", "decrypting"}
    BY <1>24, <2>1 DEF Reload, Failure
  <2>3. /\ flow' \in [Flows -> [pc : {"idle", "unlock", "renew", "send"}, rec : Record,
                                 seals : BOOLEAN]]
        /\ lock' \in [pc : {"idle", "checks", "key", "send"}, rec : Record]
    BY <1>24 DEF Reload, Idle, NoLock
  <2>4. requests' = {} /\ amount' = "none" /\ read' = None
        /\ passed' \in BOOLEAN /\ crossed' \in BOOLEAN
    BY <1>24, Zenon DEF Reload
  <2> QED BY <1>24, <2>2, <2>3, <2>4 DEF Reload
<1> QED
  BY <1>1, <1>2, <1>3, <1>4, <1>5, <1>6, <1>7, <1>8, <1>9, <1>10, <1>11,
     <1>12, <1>13, <1>14, <1>15, <1>16, <1>17, <1>18, <1>19, <1>20, <1>21,
     <1>22, <1>23, <1>24 DEF Next

-----------------------------------------------------------------------------
\* Seals: a key is opened only by a seal that opens, and a new key has no other
\* record.

LEMMA StepKeepsSeals ==
  ASSUME TypeOK, SealsFit, [Next]_vars
  PROVE  SealsFit'
<1> USE DEF keys, TypeOK, Record, Done, Idle, NoLock, Unsealed
<1>1. CASE UNCHANGED vars
  BY <1>1 DEF vars, SealsFit, Records
<1>2. CASE RefreshBalance
  BY <1>2 DEF RefreshBalance, SealsFit, Records
<1>3. ASSUME NEW q \in requests, BalanceEnds(q) PROVE SealsFit'
  BY <1>3 DEF BalanceEnds, SealsFit, Records
<1>4. CASE ReadAmount
  BY <1>4 DEF ReadAmount, SealsFit, Records
<1>5. CASE ReadEnds
  BY <1>5 DEF ReadEnds, SealsFit, Records
<1>6. ASSUME NEW f \in Flows, StartUnlock(f) PROVE SealsFit'
  BY <1>6 DEF StartUnlock, State, StateWith, SealsFit, Records
<1>7. ASSUME NEW f \in Flows, UnlockOpen(f) PROVE SealsFit'
  BY <1>7 DEF UnlockOpen, SealsFit, Records
<1>8. ASSUME NEW f \in Flows, UnlockTooLate(f) PROVE SealsFit'
  BY <1>8 DEF UnlockTooLate, SealsFit, Records
<1>9. ASSUME NEW f \in Flows, Unlocked(f) PROVE SealsFit'
  BY <1>9 DEF Unlocked, SealsFit, Records
<1>10. ASSUME NEW f \in Flows, SealFails(f) PROVE SealsFit'
  BY <1>10 DEF SealFails, SealsFit, Records
<1>11. ASSUME NEW f \in Flows, StartRenewal(f) PROVE SealsFit'
  BY <1>11 DEF StartRenewal, SealsFit, Records
<1>12. ASSUME NEW f \in Flows, RenewalSends(f) PROVE SealsFit'
  BY <1>12 DEF RenewalSends, SealsFit, Records
<1>13. ASSUME NEW f \in Flows, RenewalFails(f) PROVE SealsFit'
  BY <1>13 DEF RenewalFails, SealsFit, Records
<1>14. ASSUME NEW f \in Flows, Renewed(f) PROVE SealsFit'
  BY <1>14 DEF Renewed, SealsFit, Records
<1>15. CASE PasskeyAnswers
  BY <1>15 DEF PasskeyAnswers, SealsFit, Records
<1>16. ASSUME NEW derives \in BOOLEAN, PasskeyRefuses(derives) PROVE SealsFit'
  BY <1>16 DEF PasskeyRefuses, SealsFit, Records
<1>17. CASE StartLock
  BY <1>17 DEF StartLock, SealsFit, Records
<1>18. CASE LockGoesOn
  BY <1>18 DEF LockGoesOn, State, StateWith, SealsFit, Records
<1>19. CASE LockOpens
  BY <1>19 DEF LockOpens, SealsFit, Records
<1>20. CASE LockCannotOpen
  BY <1>20 DEF LockCannotOpen, SealsFit, Records
<1>21. CASE LockEnds
  BY <1>21 DEF LockEnds, SealsFit, Records
<1>22. ASSUME NEW k \in Keys, Expire(k) PROVE SealsFit'
  BY <1>22 DEF Expire, SealsFit, Records
<1>23. CASE SwitchView
  BY <1>23 DEF SwitchView, SealsFit, Records
<1>24. CASE Reload
  BY <1>24 DEF Reload, SealsFit, Records
<1> QED
    BY <1>1, <1>2, <1>3, <1>4, <1>5, <1>6, <1>7, <1>8, <1>9, <1>10, <1>11,
     <1>12, <1>13, <1>14, <1>15, <1>16, <1>17, <1>18, <1>19, <1>20, <1>21,
     <1>22, <1>23, <1>24 DEF Next

\* The amount: whatever makes the stored key valid asks for the amount again or
\* is counted as passing it.

LEMMA StepKeepsAmount ==
  ASSUME TypeOK, SealsFit, AmountFits, [Next]_vars
  PROVE  AmountFits'
<1> USE DEF keys, Unreadable, Failure, Noticed, NoticedAfter, Outcomes, Reread
<1>1. CASE UNCHANGED vars
  BY <1>1 DEF vars, AmountFits, State, StateWith
<1>2. CASE RefreshBalance
  BY <1>2 DEF RefreshBalance, AmountFits, State, StateWith
<1>3. ASSUME NEW q \in requests, BalanceEnds(q) PROVE AmountFits'
  BY <1>3 DEF BalanceEnds, AmountFits, State, StateWith
<1>4. CASE ReadAmount
  BY <1>4 DEF ReadAmount, AmountFits, State, StateWith
<1>5. CASE ReadEnds
  BY <1>5 DEF ReadEnds, AmountFits, State, StateWith
<1>6. ASSUME NEW f \in Flows, StartUnlock(f) PROVE AmountFits'
  BY <1>6 DEF StartUnlock, AmountFits, State, StateWith
<1>7. ASSUME NEW f \in Flows, UnlockOpen(f) PROVE AmountFits'
  BY <1>7 DEF UnlockOpen, AmountFits, State, StateWith
<1>8. ASSUME NEW f \in Flows, UnlockTooLate(f) PROVE AmountFits'
  BY <1>8 DEF UnlockTooLate, AmountFits, State, StateWith
<1>9. ASSUME NEW f \in Flows, Unlocked(f) PROVE AmountFits'
  BY <1>9 DEF Unlocked, AmountFits, State, StateWith
<1>10. ASSUME NEW f \in Flows, SealFails(f) PROVE AmountFits'
  <2>1. flow[f].rec \in Records /\ flow[f].rec.seal = "shut"
    BY <1>10 DEF SealFails, SealsFit, Records, TypeOK, Record
  <2>2. stored'.key # opened /\ opened' = opened
    BY <1>10, <2>1 DEF SealFails, SealsFit, Unsealed
  <2> QED BY <1>10, <2>2 DEF SealFails, AmountFits, State, StateWith, Unsealed
<1>11. ASSUME NEW f \in Flows, StartRenewal(f) PROVE AmountFits'
  BY <1>11 DEF StartRenewal, AmountFits, State, StateWith
<1>12. ASSUME NEW f \in Flows, RenewalSends(f) PROVE AmountFits'
  BY <1>12 DEF RenewalSends, AmountFits, State, StateWith
<1>13. ASSUME NEW f \in Flows, RenewalFails(f) PROVE AmountFits'
  BY <1>13 DEF RenewalFails, AmountFits, State, StateWith
<1>14. ASSUME NEW f \in Flows, Renewed(f) PROVE AmountFits'
  BY <1>14 DEF Renewed, AmountFits, State, StateWith
<1>15. CASE PasskeyAnswers
  BY <1>15 DEF PasskeyAnswers, AmountFits, State, StateWith
<1>16. ASSUME NEW derives \in BOOLEAN, PasskeyRefuses(derives) PROVE AmountFits'
  BY <1>16 DEF PasskeyRefuses, AmountFits, State, StateWith
<1>17. CASE StartLock
  BY <1>17 DEF StartLock, AmountFits, State, StateWith
<1>18. CASE LockGoesOn
  BY <1>18 DEF LockGoesOn, AmountFits, State, StateWith
<1>19. CASE LockOpens
  BY <1>19 DEF LockOpens, AmountFits, State, StateWith
<1>20. CASE LockCannotOpen
  <2>1. lock.rec \in Records /\ lock.rec.seal = "shut"
    BY <1>20 DEF LockCannotOpen, SealsFit, Records, TypeOK, Record
  <2>2. stored'.key # opened /\ opened' = opened
    BY <1>20, <2>1 DEF LockCannotOpen, SealsFit, Unsealed
  <2> QED BY <1>20, <2>2 DEF LockCannotOpen, AmountFits, State, StateWith
<1>21. CASE LockEnds
  BY <1>21 DEF LockEnds, AmountFits, State, StateWith
<1>22. ASSUME NEW k \in Keys, Expire(k) PROVE AmountFits'
  BY <1>22 DEF Expire, AmountFits, State, StateWith
<1>23. CASE SwitchView
  BY <1>23 DEF SwitchView, AmountFits, State, StateWith
<1>24. CASE Reload
  BY <1>24 DEF Reload, AmountFits, State, StateWith
<1> QED
    BY <1>1, <1>2, <1>3, <1>4, <1>5, <1>6, <1>7, <1>8, <1>9, <1>10, <1>11,
     <1>12, <1>13, <1>14, <1>15, <1>16, <1>17, <1>18, <1>19, <1>20, <1>21,
     <1>22, <1>23, <1>24 DEF Next

\* The balance: whatever makes the stored key valid, or ends a lock, asks anew.

LEMMA BalanceAsked ==
  ASSUME TypeOK, NEW rec, NEW open, AskBalance(rec, open), rec = stored', open = opened',
         expired' = expired, shownKey' = "valid" => StateWith(rec, open) = "valid"
  PROVE  BalanceFits'
<1>1. State(stored)' = StateWith(rec, open)
  BY DEF State, StateWith
<1>2. CASE StateWith(rec, open) = "valid"
  <2>1. balance' \notin Unreadable
    BY <1>2 DEF AskBalance, Unreadable
  <2>2. \A q \in requests' : q.newest => q.rec = stored'
    BY <1>2 DEF AskBalance, TypeOK
  <2> QED BY <2>1, <2>2 DEF BalanceFits, Unreadable
<1>3. CASE StateWith(rec, open) # "valid"
  BY <1>1, <1>3 DEF BalanceFits
<1> QED BY <1>2, <1>3

LEMMA StepKeepsBalance ==
  ASSUME TypeOK, SealsFit, BalanceFits, [Next]_vars
  PROVE  BalanceFits'
<1> USE DEF keys, Unreadable, Failure, Noticed, NoticedAfter, Outcomes, Reread, AskBalance, Writes, NoLock
<1>1. CASE UNCHANGED vars
  BY <1>1 DEF vars, BalanceFits, State, StateWith
<1>2. CASE RefreshBalance
  BY <1>2, BalanceAsked DEF RefreshBalance, Noticed
<1>3. ASSUME NEW q \in requests, BalanceEnds(q) PROVE BalanceFits'
  BY <1>3 DEF BalanceEnds, BalanceFits, State, StateWith
<1>4. CASE ReadAmount
  BY <1>4 DEF ReadAmount, BalanceFits, State, StateWith
<1>5. CASE ReadEnds
  BY <1>5 DEF ReadEnds, BalanceFits, State, StateWith
<1>6. ASSUME NEW f \in Flows, StartUnlock(f) PROVE BalanceFits'
  BY <1>6 DEF StartUnlock, BalanceFits, State, StateWith
<1>7. ASSUME NEW f \in Flows, UnlockOpen(f) PROVE BalanceFits'
  <2>1. AskBalance(stored, opened) /\ StateWith(stored, opened) = "valid"
    BY <1>7 DEF UnlockOpen, Reread, State
  <2> QED BY <1>7, <2>1, BalanceAsked DEF UnlockOpen
<1>8. ASSUME NEW f \in Flows, UnlockTooLate(f) PROVE BalanceFits'
  BY <1>8 DEF UnlockTooLate, BalanceFits, State, StateWith
<1>9. ASSUME NEW f \in Flows, Unlocked(f) PROVE BalanceFits'
  <2> DEFINE key == flow[f].rec.key
  <2>1. /\ AskBalance(stored, key) /\ opened' = key /\ UNCHANGED <<stored, expired>>
        /\ shownKey' = Noticed(stored, key, StateWith(flow[f].rec, key))
    BY <1>9 DEF Unlocked, Reread
  <2>2. shownKey' = "valid" => StateWith(stored, key) = "valid"
    BY <2>1 DEF Noticed
  <2> QED BY <2>1, <2>2, BalanceAsked
<1>10. ASSUME NEW f \in Flows, SealFails(f) PROVE BalanceFits'
  <2>1. flow[f].rec \in Records /\ flow[f].rec.seal = "shut"
    BY <1>10 DEF SealFails, SealsFit, Records, TypeOK, Record
  <2>2. stored'.key # opened /\ opened' = opened
    BY <1>10, <2>1 DEF SealFails, SealsFit, Unsealed
  <2> QED BY <1>10, <2>2 DEF SealFails, BalanceFits, State, StateWith, Unsealed
<1>11. ASSUME NEW f \in Flows, StartRenewal(f) PROVE BalanceFits'
  BY <1>11 DEF StartRenewal, BalanceFits, State, StateWith
<1>12. ASSUME NEW f \in Flows, RenewalSends(f) PROVE BalanceFits'
  BY <1>12 DEF RenewalSends, BalanceFits, State, StateWith
<1>13. ASSUME NEW f \in Flows, RenewalFails(f) PROVE BalanceFits'
  BY <1>13 DEF RenewalFails, BalanceFits, State, StateWith
<1>14. ASSUME NEW f \in Flows, Renewed(f) PROVE BalanceFits'
  <2>1. PICK k \in Keys \ used :
          /\ opened' = k
          /\ stored' = [key |-> k, seal |-> IF flow[f].seals THEN "opens" ELSE "none"]
          /\ Reread(stored', k)
    BY <1>14 DEF Renewed
  <2>2. StateWith(stored', k) = "valid"
    BY <2>1, ReadAccessConstants DEF StateWith, TypeOK
  <2> QED BY <1>14, <2>1, <2>2, BalanceAsked DEF Renewed, Reread
<1>15. CASE PasskeyAnswers
  BY <1>15 DEF PasskeyAnswers, BalanceFits, State, StateWith
<1>16. ASSUME NEW derives \in BOOLEAN, PasskeyRefuses(derives) PROVE BalanceFits'
  <2>1. UNCHANGED <<stored, opened, expired>>
    BY <1>16 DEF PasskeyRefuses
  <2>2. CASE lock.pc = "key"
    <3>1. AskBalance(stored, opened) /\ shownKey' = StateWith(stored, opened)
      BY <1>16, <2>2 DEF PasskeyRefuses, State
    <3> QED BY <2>1, <3>1, BalanceAsked
  <2>3. CASE lock.pc # "key"
    <3>1. UNCHANGED <<lock, balance, requests>> /\ shownKey' \in {shownKey, State(stored)}
      BY <1>16, <2>3 DEF PasskeyRefuses
    <3> QED BY <2>1, <3>1 DEF BalanceFits, State, StateWith
  <2> QED BY <2>2, <2>3
<1>17. CASE StartLock
  BY <1>17 DEF StartLock, BalanceFits, State, StateWith
<1>18. CASE LockGoesOn
  <2>1. lock'.pc # "idle"
    BY <1>18 DEF LockGoesOn, TypeOK
  <2> QED BY <2>1 DEF BalanceFits
<1>19. CASE LockOpens
  BY <1>19 DEF LockOpens, BalanceFits, State, StateWith
<1>20. CASE LockCannotOpen
  <2>1. /\ AskBalance(stored', opened) /\ UNCHANGED <<opened, expired>>
        /\ shownKey' = Noticed(stored', opened, shownKey)
    BY <1>20 DEF LockCannotOpen
  <2>2. shownKey' = "valid" => StateWith(stored', opened) = "valid"
    BY <2>1 DEF Noticed
  <2> QED BY <2>1, <2>2, BalanceAsked
<1>21. CASE LockEnds
  <2>1. /\ AskBalance(stored, opened) /\ UNCHANGED <<stored, opened, expired>>
        /\ shownKey' = Noticed(stored, opened, shownKey)
    BY <1>21 DEF LockEnds
  <2>2. shownKey' = "valid" => StateWith(stored, opened) = "valid"
    BY <2>1 DEF Noticed
  <2> QED BY <2>1, <2>2, BalanceAsked
<1>22. ASSUME NEW k \in Keys, Expire(k) PROVE BalanceFits'
  BY <1>22 DEF Expire, BalanceFits, State, StateWith
<1>23. CASE SwitchView
  BY <1>23 DEF SwitchView, BalanceFits, State, StateWith
<1>24. CASE Reload
  BY <1>24 DEF Reload, BalanceFits, State, StateWith
<1> QED
    BY <1>1, <1>2, <1>3, <1>4, <1>5, <1>6, <1>7, <1>8, <1>9, <1>10, <1>11,
     <1>12, <1>13, <1>14, <1>15, <1>16, <1>17, <1>18, <1>19, <1>20, <1>21,
     <1>22, <1>23, <1>24 DEF Next

\* Replacing a key: where the key can be unlocked no renewal is under way.

LEMMA StepKeepsReplacement ==
  ASSUME TypeOK, SealsFit, ReplacementFits, [Next]_vars
  PROVE  ReplacementFits'
<1> USE DEF keys, Failure, Noticed, NoticedAfter, Outcomes, Done, Idle, NoLock, Free, Offered, Unsealed
<1>1. CASE UNCHANGED vars
  BY <1>1 DEF vars, ReplacementFits, Lockable, State, StateWith
<1>2. CASE RefreshBalance
  BY <1>2 DEF RefreshBalance, ReplacementFits, Lockable, State, StateWith
<1>3. ASSUME NEW q \in requests, BalanceEnds(q) PROVE ReplacementFits'
  BY <1>3 DEF BalanceEnds, ReplacementFits, Lockable, State, StateWith
<1>4. CASE ReadAmount
  BY <1>4 DEF ReadAmount, ReplacementFits, Lockable, State, StateWith
<1>5. CASE ReadEnds
  BY <1>5 DEF ReadEnds, ReplacementFits, Lockable, State, StateWith
<1>6. ASSUME NEW f \in Flows, StartUnlock(f) PROVE ReplacementFits'
  BY <1>6 DEF StartUnlock, ReplacementFits, Lockable, State, StateWith
<1>7. ASSUME NEW f \in Flows, UnlockOpen(f) PROVE ReplacementFits'
  BY <1>7 DEF UnlockOpen, ReplacementFits, Lockable, State, StateWith
<1>8. ASSUME NEW f \in Flows, UnlockTooLate(f) PROVE ReplacementFits'
  BY <1>8 DEF UnlockTooLate, ReplacementFits, Lockable, State, StateWith
<1>9. ASSUME NEW f \in Flows, Unlocked(f) PROVE ReplacementFits'
  BY <1>9 DEF Unlocked, ReplacementFits, Lockable, State, StateWith
<1>10. ASSUME NEW f \in Flows, SealFails(f) PROVE ReplacementFits'
  BY <1>10 DEF SealFails, ReplacementFits, Lockable, State, StateWith
<1>11. ASSUME NEW f \in Flows, StartRenewal(f) PROVE ReplacementFits'
  BY <1>11 DEF StartRenewal, ReplacementFits, Lockable, State, StateWith
<1>12. ASSUME NEW f \in Flows, RenewalSends(f) PROVE ReplacementFits'
  BY <1>12 DEF RenewalSends, ReplacementFits, Lockable, State, StateWith, TypeOK
<1>13. ASSUME NEW f \in Flows, RenewalFails(f) PROVE ReplacementFits'
  BY <1>13 DEF RenewalFails, ReplacementFits, Lockable, State, StateWith
<1>14. ASSUME NEW f \in Flows, Renewed(f) PROVE ReplacementFits'
  <2>1. PICK k \in Keys \ used :
          opened' = k /\ stored' = [key |-> k, seal |-> IF flow[f].seals THEN "opens" ELSE "none"]
    BY <1>14 DEF Renewed
  <2>2. ~ Lockable'
    BY <2>1 DEF Lockable, State, StateWith
  <2>3. ~ crossed' => /\ ~ crossed /\ lock.pc \notin {"checks", "key"} /\ lock' = lock
                      /\ shownKey' = "valid"
    BY <1>14 DEF Renewed
  <2>4. ~ crossed => \A g \in Flows : flow'[g].pc # "unlock"
    BY <1>14 DEF Renewed, ReplacementFits, TypeOK, Done, Idle
  <2> QED BY <2>2, <2>3, <2>4 DEF ReplacementFits
<1>15. CASE PasskeyAnswers
  BY <1>15 DEF PasskeyAnswers, ReplacementFits, Lockable, State, StateWith
<1>16. ASSUME NEW derives \in BOOLEAN, PasskeyRefuses(derives) PROVE ReplacementFits'
  BY <1>16 DEF PasskeyRefuses, ReplacementFits, Lockable, State, StateWith
<1>17. CASE StartLock
  BY <1>17 DEF StartLock, ReplacementFits, Lockable, State, StateWith
<1>18. CASE LockGoesOn
  BY <1>18 DEF LockGoesOn, ReplacementFits, Lockable, State, StateWith, TypeOK
<1>19. CASE LockOpens
  BY <1>19 DEF LockOpens, ReplacementFits, Lockable, State, StateWith
<1>20. CASE LockCannotOpen
  BY <1>20 DEF LockCannotOpen, ReplacementFits, Lockable, State, StateWith
<1>21. CASE LockEnds
  BY <1>21 DEF LockEnds, ReplacementFits, Lockable, State, StateWith
<1>22. ASSUME NEW k \in Keys, Expire(k) PROVE ReplacementFits'
  BY <1>22 DEF Expire, ReplacementFits, Lockable, State, StateWith
<1>23. CASE SwitchView
  BY <1>23 DEF SwitchView, ReplacementFits, Lockable, State, StateWith
<1>24. CASE Reload
  BY <1>24 DEF Reload, ReplacementFits, Lockable, State, StateWith
<1> QED
    BY <1>1, <1>2, <1>3, <1>4, <1>5, <1>6, <1>7, <1>8, <1>9, <1>10, <1>11,
     <1>12, <1>13, <1>14, <1>15, <1>16, <1>17, <1>18, <1>19, <1>20, <1>21,
     <1>22, <1>23, <1>24 DEF Next

-----------------------------------------------------------------------------
\* A key that was replaced

\* What a step does to the key that is stored and the one that is open.
KeysStep ==
    /\ stored'.key # stored.key => stored'.key \notin used \/ crossed
    /\ opened' \notin {opened, NoKey} => opened' = stored'.key \/ crossed

LEMMA OldKeyStep ==
  ASSUME TypeOK, ReplacementFits, [Next]_vars
  PROVE  KeysStep
<1>1. CASE UNCHANGED <<stored, opened>>
  BY <1>1 DEF KeysStep
<1>2. ASSUME NEW f \in Flows, Unlocked(f) PROVE KeysStep
  BY <1>2 DEF Unlocked, ReplacementFits, KeysStep
<1>3. ASSUME NEW f \in Flows, SealFails(f) PROVE KeysStep
  BY <1>3 DEF SealFails, Unsealed, ReplacementFits, TypeOK, Record, KeysStep
<1>4. ASSUME NEW f \in Flows, Renewed(f) PROVE KeysStep
  <2>1. PICK k \in Keys \ used :
          opened' = k /\ stored' = [key |-> k, seal |-> IF flow[f].seals THEN "opens" ELSE "none"]
    BY <1>4 DEF Renewed
  <2> QED BY <2>1 DEF KeysStep
<1>5. CASE LockOpens
  BY <1>5 DEF LockOpens, ReplacementFits, KeysStep
<1>6. CASE LockCannotOpen
  BY <1>6 DEF LockCannotOpen, Unsealed, ReplacementFits, TypeOK, Record, KeysStep
<1>7. CASE Reload
  BY <1>7 DEF Reload, KeysStep
<1>8. ASSUME NEW q \in requests, BalanceEnds(q) PROVE UNCHANGED <<stored, opened>>
  BY <1>8 DEF BalanceEnds, keys
<1>9. ASSUME NEW f \in Flows,
             \/ StartUnlock(f) \/ UnlockOpen(f) \/ UnlockTooLate(f)
             \/ StartRenewal(f) \/ RenewalSends(f) \/ RenewalFails(f)
      PROVE  UNCHANGED <<stored, opened>>
  BY <1>9 DEF StartUnlock, UnlockOpen, UnlockTooLate, StartRenewal, RenewalSends, RenewalFails, keys
<1>10. ASSUME NEW derives \in BOOLEAN, PasskeyRefuses(derives) PROVE UNCHANGED <<stored, opened>>
  BY <1>10 DEF PasskeyRefuses, keys
<1>11. ASSUME NEW k \in Keys, Expire(k) PROVE UNCHANGED <<stored, opened>>
  BY <1>11 DEF Expire
<1>12. ASSUME \/ RefreshBalance \/ ReadAmount \/ ReadEnds \/ PasskeyAnswers
              \/ StartLock \/ LockGoesOn \/ LockEnds \/ SwitchView \/ UNCHANGED vars
       PROVE  UNCHANGED <<stored, opened>>
  BY <1>12 DEF RefreshBalance, ReadAmount, ReadEnds, PasskeyAnswers, StartLock, LockGoesOn,
     LockEnds, SwitchView, keys, vars
<1> QED
  BY <1>1, <1>2, <1>3, <1>4, <1>5, <1>6, <1>7, <1>8, <1>9, <1>10, <1>11, <1>12 DEF Next

-----------------------------------------------------------------------------
\* The invariant

LEMMA InitFits == Init => SealsFit /\ AmountFits /\ BalanceFits /\ ReplacementFits
<1> SUFFICES ASSUME Init PROVE SealsFit /\ AmountFits /\ BalanceFits /\ ReplacementFits
  OBVIOUS
<1>1. /\ lock.pc = "idle" /\ lock.rec = Idle.rec
      /\ \A f \in Flows : flow[f].pc = "idle" /\ flow[f].rec = Idle.rec
      /\ Idle.rec.key = NoKey /\ Idle.rec.seal = "none"
  BY DEF Init, Idle, NoLock
<1>2. SealsFit
  <2>1. stored.key # NoKey => stored.key \in used
    BY DEF Init
  <2>2. stored.seal = "shut" => stored.key # NoKey /\ opened # stored.key
    BY DEF Init
  <2> QED BY <1>1, <2>1, <2>2 DEF SealsFit, Records
<1>3. AmountFits
  BY DEF Init, AmountFits, Unreadable
<1>4. BalanceFits
  <2>1. CASE State(stored) = "valid"
    BY <2>1 DEF Init, BalanceFits, Unreadable
  <2>2. CASE State(stored) # "valid"
    BY <2>2 DEF Init, BalanceFits
  <2> QED BY <2>1, <2>2
<1>5. ReplacementFits
  <2>1. shownKey \in {"missing", "expired"} => ~ Lockable
    BY DEF Init, Lockable
  <2> QED BY <1>1, <2>1 DEF ReplacementFits
<1> QED BY <1>2, <1>3, <1>4, <1>5

LEMMA AlwaysIInv == Spec => []IInv
<1>1. Init => IInv
  BY InitTyped, InitFits DEF IInv
<1>2. IInv /\ [Next]_vars => IInv'
  BY StepTyped, StepKeepsSeals, StepKeepsAmount, StepKeepsBalance, StepKeepsReplacement DEF IInv
<1> QED BY <1>1, <1>2, PTL DEF Spec

\* Records, calls, amounts and requests are well formed, for any number of keys
\* and calls; a balance that is being decrypted has a newest request
\* (budget-store.js, budget-service-zama.js).
THEOREM TypesHold == Spec => []TypeOK
BY AlwaysIInv, PTL DEF IInv

\* An amount that cannot be read for want of the key comes with the notice whose
\* button helps, unless a renewal or a lock's opening passed it by (readAmount,
\* rereadUnreadable).
THEOREM AmountsHaveTheirButton == Spec => []AmountHasItsButton
<1>1. IInv => AmountHasItsButton
  BY DEF IInv, AmountFits, AmountHasItsButton
<1> QED BY AlwaysIInv, <1>1, PTL

\* So does the balance when no lock is under way, in whatever order its requests
\* end (refreshBalance).
THEOREM BalancesHaveTheirButton == Spec => []BalanceHasItsButton
<1>1. IInv => BalanceHasItsButton
  BY DEF IInv, BalanceFits, BalanceHasItsButton
<1> QED BY AlwaysIInv, <1>1, PTL

\* A read key that was replaced is neither stored nor opened again, unless a lock
\* had read the record before (openReadKey, renewReadKey).
THEOREM OldKeysStayAway == Spec => OldKeyStaysAway
<1>1. IInv /\ [Next]_vars => [KeysStep]_vars
  BY OldKeyStep DEF IInv
<1>2. OldKeyStaysAway <=> [][KeysStep]_vars
  BY DEF OldKeyStaysAway, KeysStep
<1> QED BY AlwaysIInv, <1>1, <1>2, PTL DEF Spec
=============================================================================
