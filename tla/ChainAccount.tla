---------------------------- MODULE ChainAccount ----------------------------
(***************************************************************************)
(* The account on Sepolia of one passkey that is used on several devices   *)
(* and in several tabs, and the directory in which others find it          *)
(* (escrow01, budget-service-zama.js, chain/account-store.js,              *)
(* chain/account-directory.js).                                            *)
(*                                                                         *)
(* An account is a random key's address that the passkey took over, so a   *)
(* second device learns of it only through the directory: a database that  *)
(* only the DID may write, read here for 3 s before a new account is set   *)
(* up.  An account is the number of its set-up operation.                  *)
(***************************************************************************)
EXTENDS Naturals

CONSTANTS
    Profiles,    \* the browser profiles, on one device or several, with the passkey
    Tabs,        \* the pages in which the application can be open
    ProfileOf,   \* the profile each tab is of
    Peers,       \* who looks the account up in order to pay it
    Calls,       \* callers of ensureAccount in one page: its start, a read
    MaxAccounts, \* bound: set-up operations
    MaxUpsets    \* bound: pages closed, profiles cleared, failures, nodes behind

ASSUME ChainAccountConstants ==
    /\ ProfileOf \in [Tabs -> Profiles]
    /\ Tabs \cap Peers = {}
    /\ MaxAccounts \in Nat /\ MaxUpsets \in Nat

VARIABLES
    page,      \* page[t]: the application is open in t
    record,    \* record[p]: the account in p's localStorage, 0 for none
    running,   \* running[t]: the creation in t's map `creating`, with its account
    call,      \* call[t][c]: what a call of ensureAccount is doing, with its account
    listening, \* the sites that have the directory's database open
    replica,   \* replica[s]: the directory's entries site s holds
    sent,      \* set-up operations sent and not mined
    made,      \* accounts on chain that hold the passkey
    upsets,
    missed,      \* history: a tab looked and could not see an account set up elsewhere
    abandoned,   \* history: accounts whose set-up was cut off, or whose record was cleared
    unsaved,     \* history: accounts whose record storage did not take
    replaced,    \* history: accounts whose record another tab's was written over
    interrupted  \* history: publishing failed, or the page went before a peer had the entry

accountVars == <<page, record, running, call, listening, replica, sent, made,
                 upsets, missed, abandoned, unsaved, replaced, interrupted>>
chain == <<sent, made>>
gone == <<abandoned, unsaved, replaced>>
history == <<missed, gone, interrupted>>

Sites == Tabs \cup Peers
Accounts == 1 .. MaxAccounts
NoCreation == [pc |-> "none", account |-> 0]
At(t, pc) == running[t].pc = pc
IdleCall == [pc |-> "idle", account |-> 0]

AccountTypeOK ==
    /\ page \in [Tabs -> BOOLEAN]
    /\ record \in [Profiles -> made \cup {0}]
    /\ running \in [Tabs -> [pc : {"none", "lookup", "verify", "setup", "sent", "seal"},
                             account : Accounts \cup {0}]]
    /\ call \in [Tabs -> [Calls -> [pc : {"idle", "waiting", "get", "put"},
                                    account : made \cup {0}]]]
    /\ listening \subseteq Sites
    /\ replica \in [Sites -> SUBSET [time : Nat, account : made]]
    /\ sent \cup made \subseteq Accounts /\ sent \cap made = {}
    /\ upsets \in 0 .. MaxUpsets
    /\ missed \in BOOLEAN /\ interrupted \in BOOLEAN
    /\ abandoned \cup unsaved \cup replaced \subseteq Accounts

AccountInit ==
    /\ page = [t \in Tabs |-> FALSE]
    /\ record = [p \in Profiles |-> 0]
    /\ running = [t \in Tabs |-> NoCreation]
    /\ call = [t \in Tabs |-> [c \in Calls |-> IdleCall]]
    /\ listening = Peers
    /\ replica = [s \in Sites |-> {}]
    /\ sent = {} /\ made = {} /\ upsets = 0
    /\ missed = FALSE /\ interrupted = FALSE
    /\ abandoned = {} /\ unsaved = {} /\ replaced = {}

\* The directory has one key, `account`; a key-value store shows its last
\* write, and all decide alike between equal times.
Later(e, f) ==
    \/ e.time > f.time
    \/ e.time = f.time /\ e.account >= f.account
Latest(s) == {e \in replica[s] : \A f \in replica[s] : Later(e, f)}

\* The entries once `account` is put after everything the site holds.
Written(s, account) ==
    LET before == IF replica[s] = {} THEN {0} ELSE {e.time : e \in Latest(s)}
    IN replica[s] \cup {[time |-> t + 1, account |-> account] : t \in before}

\* What the calls that wait for the creation do once it is over: publish what it
\* came to, or throw.
Released(t, then) == [c \in Calls |-> IF call[t][c].pc = "waiting" THEN then ELSE call[t][c]]

-----------------------------------------------------------------------------
(***************************************************************************)
(* ensureAccount.  An account this browser knows is returned at once, and  *)
(* the call ends there; otherwise the calls of one page share a creation.  *)
(* Tabs of one profile share what is stored and not the creation.          *)
(***************************************************************************)
Ensure(t, c) ==
    /\ page[t] /\ call[t][c].pc = "idle"
    /\ record[ProfileOf[t]] = 0
    /\ call' = [call EXCEPT ![t][c].pc = "waiting"]
    /\ running' = IF At(t, "none") THEN [running EXCEPT ![t].pc = "lookup"] ELSE running
    /\ listening' = listening \cup {t}
    /\ UNCHANGED <<page, record, replica, chain, upsets, history>>

\* directory.lookup finds an entry at once or by an `update` event ...
LookupFinds(t) ==
    /\ At(t, "lookup")
    /\ \E e \in Latest(t) :
        running' = [running EXCEPT ![t] = [pc |-> "verify", account |-> e.account]]
    /\ UNCHANGED <<page, record, call, listening, replica, chain, upsets, history>>

GoSetUp(t) ==
    /\ At(t, "lookup")
    /\ running' = [running EXCEPT ![t].pc = "setup"]
    /\ missed' = (missed \/ sent \cup made # {} \/ \E u \in Tabs \ {t} : At(u, "setup"))
    /\ UNCHANGED <<page, record, call, listening, replica, chain, upsets, gone, interrupted>>

\* Mutant: the timer gives up without reading again.
LookupGivesUp(t) ==
    /\ At(t, "lookup")
    /\ running' = [running EXCEPT ![t].pc = "setup"]
    /\ missed' = (missed \/ /\ replica[t] = {}
                            /\ sent \cup made # {} \/ \E u \in Tabs \ {t} : At(u, "setup"))
    /\ UNCHANGED <<page, record, call, listening, replica, chain, upsets, gone, interrupted>>

\* ... or reads once more when its 3 s are over, and finds nothing.
LookupTimesOut(t) == replica[t] = {} /\ GoSetUp(t)

Ends(t, then) ==
    /\ running' = [running EXCEPT ![t] = NoCreation]
    /\ call' = [call EXCEPT ![t] = Released(t, then)]

\* accounts.save, of which a refusal goes unnoticed. The creation began with no
\* record; one that is there by now is another tab's, and is not read again.
Store(p, a) ==
    \/ /\ record' = [record EXCEPT ![p] = a]
       /\ replaced' = replaced \cup ({record[p]} \ {0, a})
       /\ UNCHANGED <<unsaved, upsets>>
    \/ /\ upsets < MaxUpsets /\ upsets' = upsets + 1
       /\ unsaved' = unsaved \cup {a}
       /\ UNCHANGED <<record, replaced>>

\* Mutant: what was created is not published.
SaveUnpublished(t, a) == Store(ProfileOf[t], a) /\ Ends(t, IdleCall)

\* The record is saved and the creation is over; every waiting call publishes.
Save(t, a) == Store(ProfileOf[t], a) /\ Ends(t, [pc |-> "get", account |-> a])

\* isPasskeyAccount: the chain has the passkey at the published account ...
Verify(t) ==
    /\ At(t, "verify") /\ running[t].account \in made
    /\ Save(t, running[t].account)
    /\ UNCHANGED <<page, listening, replica, chain, missed, abandoned, interrupted>>

\* ... or a node that is behind does not show it yet, and a new one is set up.
VerifyLags(t) ==
    /\ At(t, "verify") /\ upsets < MaxUpsets
    /\ upsets' = upsets + 1
    /\ running' = [running EXCEPT ![t] = [pc |-> "setup", account |-> 0]]
    /\ missed' = TRUE
    /\ UNCHANGED <<page, record, call, listening, replica, chain, gone, interrupted>>

\* chain.createAccount: one sponsored operation under a set-up key ...
SendSetup(t) ==
    /\ At(t, "setup")
    /\ \E a \in Accounts \ (sent \cup made) :
        /\ \A b \in 1 .. a - 1 : b \in sent \cup made
        /\ sent' = sent \cup {a}
        /\ running' = [running EXCEPT ![t] = [pc |-> "sent", account |-> a]]
    /\ UNCHANGED <<page, record, call, listening, replica, made, upsets, history>>

\* ... mined whether or not anybody still waits for it ...
Mine(a) ==
    /\ a \in sent
    /\ sent' = sent \ {a} /\ made' = made \cup {a}
    /\ UNCHANGED <<page, record, running, call, listening, replica, upsets, history>>

\* ... and its receipt; then the passkey is asked to seal the read key ...
Receipt(t) ==
    /\ At(t, "sent") /\ running[t].account \in made
    /\ running' = [running EXCEPT ![t].pc = "seal"]
    /\ UNCHANGED <<page, record, call, listening, replica, chain, upsets, history>>

\* Mutant: a passkey that is not touched ends the creation.
SealedOrNot(t) ==
    /\ At(t, "seal")
    /\ \/ Save(t, running[t].account)
       \/ Ends(t, IdleCall) /\ UNCHANGED <<record, upsets, unsaved, replaced>>
    /\ UNCHANGED <<page, listening, replica, chain, missed, abandoned, interrupted>>

\* ... and, whatever the passkey answers, the record is saved.
Sealed(t) ==
    /\ At(t, "seal")
    /\ Save(t, running[t].account)
    /\ UNCHANGED <<page, listening, replica, chain, missed, abandoned, interrupted>>

\* OrbitDB, the RPC or the bundler fails, or the receipt does not come in time.
Fail(t) ==
    /\ running[t].pc \in {"lookup", "verify", "setup", "sent"} /\ upsets < MaxUpsets
    /\ upsets' = upsets + 1
    /\ Ends(t, IdleCall)
    /\ abandoned' = IF At(t, "sent") THEN abandoned \cup {running[t].account} ELSE abandoned
    /\ UNCHANGED <<page, record, listening, replica, chain, missed, unsaved, replaced, interrupted>>

-----------------------------------------------------------------------------
\* directory.publish, by each call that waited: nothing to do when the entry is there ...
PublishGet(t, c) ==
    /\ call[t][c].pc = "get"
    /\ listening' = listening \cup {t}
    /\ call' = IF \E e \in Latest(t) : e.account = call[t][c].account
               THEN [call EXCEPT ![t][c] = IdleCall]
               ELSE [call EXCEPT ![t][c].pc = "put"]
    /\ UNCHANGED <<page, record, running, replica, chain, upsets, history>>

\* ... or the put ...
PublishPut(t, c) ==
    /\ call[t][c].pc = "put"
    /\ replica' = [replica EXCEPT ![t] = Written(t, call[t][c].account)]
    /\ call' = [call EXCEPT ![t][c] = IdleCall]
    /\ UNCHANGED <<page, record, running, listening, chain, upsets, history>>

\* ... which may fail with no more than a warning.
PublishFails(t, c) ==
    /\ call[t][c].pc \in {"get", "put"} /\ upsets < MaxUpsets
    /\ upsets' = upsets + 1
    /\ call' = [call EXCEPT ![t][c] = IdleCall]
    /\ interrupted' = TRUE
    /\ UNCHANGED <<page, record, running, listening, replica, chain, missed, gone>>

\* Two sites that have the database open bring each other up to date.
Replicate(s, r) ==
    /\ s # r /\ s \in listening /\ r \in listening
    /\ ~ (replica[s] \subseteq replica[r])
    /\ replica' = [replica EXCEPT ![r] = @ \cup replica[s]]
    /\ UNCHANGED <<page, record, running, call, listening, chain, upsets, history>>

-----------------------------------------------------------------------------
TabsOf(p) == {t \in Tabs : ProfileOf[t] = p}

\* A tab begins with what its profile has stored.
Open(t) ==
    /\ ~ page[t]
    /\ page' = [page EXCEPT ![t] = TRUE]
    /\ replica' = [replica EXCEPT ![t] = UNION {replica[u] : u \in TabsOf(ProfileOf[t])}]
    /\ UNCHANGED <<record, running, call, listening, chain, upsets, history>>

\* A peer that looks the account up now is given this one: directory.lookup
\* returns what was written last.
Known(a) == \E q \in Peers : \E e \in Latest(q) : e.account = a

\* What would not be published any more if the tab went.
InHand(t) == {call[t][c].account : c \in Calls} \cup {e.account : e \in Latest(t)}

\* The page goes and its memory with it; storage stays, a sent operation too.
Close(t) ==
    /\ page[t] /\ upsets < MaxUpsets
    /\ page' = [page EXCEPT ![t] = FALSE]
    /\ running' = [running EXCEPT ![t] = NoCreation]
    /\ call' = [call EXCEPT ![t] = [c \in Calls |-> IdleCall]]
    /\ listening' = listening \ {t}
    /\ upsets' = upsets + 1
    /\ abandoned' = IF At(t, "sent") \/ At(t, "seal")
                    THEN abandoned \cup {running[t].account} ELSE abandoned
    /\ interrupted' = (interrupted \/ \E a \in InHand(t) \ {0} : ~ Known(a))
    /\ UNCHANGED <<record, replica, chain, missed, unsaved, replaced>>

\* The browser profile is cleared.
Clear(p) ==
    /\ \A t \in TabsOf(p) : ~ page[t]
    /\ upsets < MaxUpsets
    /\ record[p] # 0 \/ \E t \in TabsOf(p) : replica[t] # {}
    /\ record' = [record EXCEPT ![p] = 0]
    /\ replica' = [s \in Sites |-> IF s \in TabsOf(p) THEN {} ELSE replica[s]]
    /\ upsets' = upsets + 1
    /\ abandoned' = abandoned \cup ({record[p]} \ {0})
    /\ UNCHANGED <<page, running, call, listening, chain, missed, unsaved, replaced, interrupted>>

AccountNext ==
    \/ \E t \in Tabs :
        \/ Open(t) \/ Close(t)
        \/ LookupFinds(t) \/ LookupTimesOut(t) \/ Verify(t) \/ VerifyLags(t)
        \/ SendSetup(t) \/ Receipt(t) \/ Sealed(t) \/ Fail(t)
        \/ \E c \in Calls :
            Ensure(t, c) \/ PublishGet(t, c) \/ PublishPut(t, c) \/ PublishFails(t, c)
    \/ \E p \in Profiles : Clear(p)
    \/ \E a \in Accounts : Mine(a)
    \/ \E s, r \in Sites : Replicate(s, r)

AccountSpec == AccountInit /\ [][AccountNext]_accountVars

\* The user comes back to a profile in which no tab is open.
ComeBack(p) == (\A t \in TabsOf(p) : ~ page[t]) /\ \E t \in TabsOf(p) : Open(t)

\* The awaits of publishing end in a page that stays open, and sites that have
\* the database open connect.
PublishFairness ==
    /\ WF_call(\E t \in Tabs, c \in Calls : PublishGet(t, c) \/ PublishPut(t, c))
    /\ WF_replica(\E t \in Tabs, q \in Peers : Replicate(t, q))

\* Every start asks for the account and the awaits of a creation end, an
\* operation sent is mined in the end, and the user comes back.
StartFairness ==
    /\ \A p \in Profiles : WF_accountVars(ComeBack(p))
    /\ \A t \in Tabs :
        /\ WF_accountVars(\E c \in Calls : Ensure(t, c))
        /\ WF_accountVars(\/ LookupFinds(t) \/ LookupTimesOut(t) \/ Verify(t)
                   \/ SendSetup(t) \/ Receipt(t) \/ Sealed(t))
    /\ WF_accountVars(\E a \in Accounts : Mine(a))

AccountPublishSpec == AccountSpec /\ PublishFairness
AccountFairSpec == AccountPublishSpec /\ StartFairness

-----------------------------------------------------------------------------
(***************************************************************************)
(* Properties.                                                             *)
(***************************************************************************)

\* No account that was set up is lost: some profile remembers it or is about
\* to, unless its set-up was cut off, the profile was cleared, storage refused
\* the record, or another tab of the profile saved its own over it.
\* (ensureAccount: calls of one page share a creation, and a passkey that does
\* not seal the read key costs "never the account".)
AccountsAreHeld ==
    \A a \in made \ (abandoned \cup unsaved \cup replaced) :
        \/ \E p \in Profiles : record[p] = a
        \/ \E t \in Tabs : running[t].account = a

\* Two profiles have different accounts, or a tab's account is written over by
\* another tab's, only if one of them looked when the other's had not reached
\* it, or asked a node that was behind.
\* (ensureAccount: the lookup before a new account is set up.)
TwoAccountsOnlyIfMissed ==
    \/ missed
    \/ /\ replaced = {}
       /\ \A p, q \in Profiles : record[p] # 0 /\ record[q] # 0 => record[p] = record[q]

Recorded(a) == \E p \in Profiles : record[p] = a

\* Another of the passkey's accounts was published over this one.
Outdone(a) == missed /\ \E q \in Peers : \E e \in Latest(q) : e.account # a

\* Others find an account sooner or later, whether or not its record could be
\* saved, or another of the same passkey's that was published later, provided
\* that publishing did not fail and the page did not go before anybody had the
\* entry.  account-store.js on a record that is refused: "the next page finds
\* it again through the published profile".
\* (directory.publish in ensureAccount, accountOf of the one who pays.)
FoundUnlessInterrupted ==
    \A a \in Accounts :
        (Recorded(a) \/ \E t \in Tabs, c \in Calls : call[t][c].account = a)
            ~> (Known(a) \/ Outdone(a) \/ interrupted)

\* What budget-service-zama.js:223-224 and budget-store.js:101 say: published
\* after every start, so that a profile that did not replicate the first time
\* gets another chance. A profile whose pages are gone comes back.
PublishedAgain ==
    \A p \in Profiles, a \in Accounts :
        (record[p] = a /\ \A t \in TabsOf(p) : ~ page[t])
            ~> (record[p] # a \/ Known(a) \/ Outdone(a))
=============================================================================
