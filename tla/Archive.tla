------------------------------ MODULE Archive ------------------------------
(***************************************************************************)
(* The archive of archived01 (lib/archive/archive.js): a watcher ships what *)
(* is written to the open list, as increments, to a store outside the      *)
(* browser, and remembers per store and list what it has shipped.          *)
(*                                                                         *)
(* Switching it on and off, choosing a store, deleting, restoring and the  *)
(* list changing are calls with awaits in them. They share the module's    *)
(* variables `live` and `backend`, and several can be under way.           *)
(***************************************************************************)
EXTENDS Integers, FiniteSets, FiniteSetsExt

CONSTANTS
  Lists,
  Stores,
  Direct,     \* stores listed and deleted from by account (Aleph), not through `backend`
  Default,    \* the store a new browser starts with
  Home,       \* the list a browser opens first
  Entries,    \* what can be written
  Calls,      \* calls that can be under way at once
  Watchers,   \* watchers that can be on at once
  MaxActs,    \* bound on what the user does
  None

ASSUME StoresAssumption == Direct \subseteq Stores /\ Default \in Stores
ASSUME HomeAssumption == Home \in Lists
ASSUME MaxActsAssumption == MaxActs \in Nat
ASSUME NoneAssumption == None \notin Lists \cup Stores \cup Watchers

VARIABLES
  log,        \* what each list holds in this browser (IndexedDB)
  store,      \* the increments each store keeps
  memory,     \* stateKey: what each chain counts as shipped (localStorage)
  enabled, chosen,        \* the archive's settings (localStorage)
  open,       \* todoDBStore
  keys,       \* the archive is unlocked
  busy,       \* archiveStore.busy is not ''
  asked,      \* the panel shows the question whether to delete
  starting,   \* the page has (re)started and will unlock the archive itself
  live, backend,          \* the module's variables
  watcher,
  call,
  acts,       \* how often the user has acted
  stranded,   \* history: chains whose memory something has put out of step
  overlapped, \* history: a call began while another one worked on the watcher
  failed      \* history: the last start or deletion threw

durable == <<log, store, memory>>
settings == <<enabled, chosen>>
page == <<open, keys, starting, asked, acts>>
module == <<live, backend, watcher>>
vars == <<durable, settings, page, busy, module, call, stranded, overlapped, failed>>

Chains == Stores \X Lists

\* What an increment is of and the name it went up under; both are lists.
Increments == [list : Lists, under : Lists, at : Nat, has : SUBSET Entries, reach : SUBSET Entries]

\* Where a listing goes by account, the driver carries the name of the list it
\* was built for; elsewhere the watcher names what it ships.
Driver(k, l) == [kind |-> k, ref |-> IF k \in Direct THEN l ELSE None]
NoDriver == [kind |-> None, ref |-> None]

NoWatcher == [phase |-> "off", list |-> None, kind |-> None, store |-> None, under |-> None,
              shipped |-> {}]
NoCall == [op |-> "none", pc |-> "idle", list |-> None, kind |-> None,
           waits |-> None, whole |-> FALSE, back |-> {}]

TypeOK ==
  /\ log \in [Lists -> SUBSET Entries]
  /\ store \in [Stores -> SUBSET Increments]
  /\ memory \in [Chains -> (SUBSET Entries) \cup {None}]
  /\ enabled \in BOOLEAN /\ chosen \in Stores
  /\ open \in Lists /\ keys \in BOOLEAN /\ busy \in BOOLEAN /\ starting \in BOOLEAN /\ asked \in BOOLEAN
  /\ live \in Watchers \cup {None}
  /\ backend \in [kind : Stores \cup {None}, ref : Lists \cup {None}]
  /\ watcher \in [Watchers ->
       [phase : {"off", "loading", "on"}, list : Lists \cup {None},
        kind : Stores \cup {None}, store : Stores \cup {None}, under : Lists \cup {None},
        shipped : SUBSET Entries]]
  /\ call \in [Calls ->
       [op : {"none", "unlock", "start", "choose", "disable", "delete", "again", "restore"},
        pc : {"idle", "stop", "build", "create", "begun", "off", "remove", "join", "rebase"},
        list : Lists \cup {None}, kind : Stores \cup {None},
        waits : Watchers \cup {None}, whole : BOOLEAN, back : SUBSET Entries]]
  /\ acts \in 0..MaxActs
  /\ stranded \subseteq Chains
  /\ overlapped \in BOOLEAN /\ failed \in BOOLEAN
  /\ live # None => watcher[live].phase # "off"
  /\ \A c \in Calls : call[c].pc = "stop" => call[c].waits # None

Init ==
  /\ log = [l \in Lists |-> {}]
  /\ store = [k \in Stores |-> {}]
  /\ memory = [c \in Chains |-> None]
  /\ enabled \in BOOLEAN /\ chosen = Default
  /\ open = Home
  /\ keys = FALSE /\ busy = FALSE /\ starting = TRUE /\ asked = FALSE
  /\ live = None /\ backend = NoDriver
  /\ watcher = [w \in Watchers |-> NoWatcher]
  /\ call = [c \in Calls |-> NoCall]
  /\ acts = 0
  /\ stranded = {} /\ overlapped = FALSE /\ failed = FALSE

-----------------------------------------------------------------------------
\* What the store keeps of a chain

Filed(k, l) == {i \in store[k] : i.under = l}
Of(k, l) == {i \in Filed(k, l) : i.list = l}
Kept(k, l) == UNION {i.has : i \in Of(k, l)}
NextAt(k) == Max({i.at : i \in store[k]} \cup {0}) + 1
Newest(increments) == CHOOSE i \in increments : \A j \in increments : j.at <= i.at

On(w) == watcher[w].phase # "off"
Chain(w) == <<watcher[w].kind, watcher[w].list>>

-----------------------------------------------------------------------------
\* Calls and their awaits

\* What the user does is counted, so that it ends.
Act == acts < MaxActs /\ acts' = acts + 1

Idle(c) == call[c].op = "none"
AtWork(c) == call[c].op \notin {"none", "restore"}

\* A call begins.
Goes(r) ==
  /\ \E c \in Calls : Idle(c) /\ call' = [call EXCEPT ![c] = r]
  /\ overlapped' = (overlapped \/ (r.op # "restore" /\ \E c \in Calls : AtWork(c)))

\* Mutant: waits for a watcher there may not be.
StoppingNothing(r) == [r EXCEPT !.pc = "stop", !.waits = live]

\* stopArchive, up to its await: the call goes on as `r` once `live` has stopped.
Stopping(r) ==
  IF live = None THEN r ELSE [r EXCEPT !.pc = "stop", !.waits = live]

\* Mutant: leaves the watcher that is on.
StartUnstopped(op, l) ==
  IF live # None /\ watcher[live].list = l
    THEN [NoCall EXCEPT !.op = op, !.pc = "begun"]
    ELSE [NoCall EXCEPT !.op = op, !.pc = "build", !.list = l, !.kind = chosen]

\* startArchive for the list that is open, up to its first await. The store is
\* asked for after the old watcher has stopped.
Start(op, l) ==
  IF live # None /\ watcher[live].list = l
    THEN [NoCall EXCEPT !.op = op, !.pc = "begun"]
    ELSE Stopping([NoCall EXCEPT !.op = op, !.pc = "build", !.list = l, !.kind = chosen])

Ends(c) ==
  /\ call' = [call EXCEPT ![c] = NoCall]
  /\ busy' = (busy /\ call[c].op \notin {"unlock", "delete", "again", "restore"})

\* The watcher a call waited for has stopped. Whatever `live` is by now, it is
\* forgotten. chooseBackend calls startArchive only now.
Stopped(c) ==
  LET goesOn ==
        CASE call[c].op = "disable" -> [call[c] EXCEPT !.pc = "off"]
          [] call[c].op = "delete"  -> [call[c] EXCEPT !.pc = "remove"]
          [] call[c].op = "choose"  -> [call[c] EXCEPT !.pc = "build", !.list = open, !.kind = chosen]
          [] OTHER                  -> [call[c] EXCEPT !.pc = "build", !.kind = chosen]
  IN /\ call[c].pc = "stop"
     /\ watcher' = [watcher EXCEPT ![call[c].waits] = NoWatcher]
     /\ live' = None
     /\ call' = [call EXCEPT ![c] = [goesOn EXCEPT !.waits = None]]
     /\ UNCHANGED <<durable, settings, page, busy, backend, stranded, overlapped, failed>>

\* buildBackend: the result goes into the module's variable.
Build(c) ==
  /\ call[c].pc = "build"
  /\ backend' = Driver(call[c].kind, call[c].list)
  /\ call' = [call EXCEPT ![c].pc = "create"]
  /\ UNCHANGED <<durable, settings, page, busy, live, watcher, stranded, overlapped, failed>>

\* No key stored for the service, or the driver did not load.
BuildFails(c) ==
  /\ call[c].pc = "build"
  /\ Ends(c)
  /\ failed' = TRUE
  /\ UNCHANGED <<durable, settings, page, module, stranded, overlapped>>

\* createLiveBackup. It ships to the module's `backend` as it is now, under the
\* name that has; what it remembers goes under the list and the store the call
\* asked for. A watcher that another call has made `live` in between stays on.
Create(c) ==
  /\ call[c].pc = "create"
  /\ \E w \in Watchers :
       /\ ~ On(w)
       /\ \A other \in Calls : call[other].waits # w
       /\ watcher' = [watcher EXCEPT ![w] =
            [phase |-> "loading", list |-> call[c].list, kind |-> call[c].kind,
             store |-> backend.kind,
             under |-> IF backend.ref = None THEN call[c].list ELSE backend.ref,
             shipped |-> {}]]
       /\ live' = w
       /\ call' = [call EXCEPT ![c].pc = "begun", ![c].waits = w]
  /\ stranded' = IF backend = Driver(call[c].kind, call[c].list) THEN stranded
                 ELSE stranded \cup {call[c].kind, backend.kind} \X {call[c].list}
  /\ failed' = FALSE
  /\ UNCHANGED <<durable, settings, page, busy, backend, overlapped>>

\* live.start() is back.
Begun(c) ==
  /\ call[c].pc = "begun"
  /\ call[c].waits # None => watcher[call[c].waits].phase # "loading"
  /\ Ends(c)
  /\ UNCHANGED <<durable, settings, page, module, stranded, overlapped, failed>>

-----------------------------------------------------------------------------
\* The watcher

\* stateFromStore: what the newest increment's heads reach. The listing asks for
\* the list that is open and the store that is chosen; the increment is read
\* from `backend`, and says nothing if it is of another list.
FromStore(l) ==
  LET place == IF chosen \in Direct THEN chosen ELSE backend.kind
      listed == Filed(place, open)
  IN IF place = backend.kind /\ listed # {} /\ Newest(listed).list = l
       THEN Newest(listed).reach ELSE {}

\* Mutant: a device that remembers nothing counts the list as shipped.
LoadTrusting(w) ==
  LET known == IF memory[Chain(w)] # None THEN memory[Chain(w)] ELSE log[watcher[w].list]
  IN /\ watcher[w].phase = "loading"
     /\ watcher' = [watcher EXCEPT ![w].phase = "on", ![w].shipped = known]
     /\ UNCHANGED <<durable, settings, page, busy, live, backend, call, stranded, overlapped, failed>>

\* live.start: the state it begins from, `{}` when the store cannot be asked.
\* listArchive, which stateFromStore calls, ends with `busy` cleared.
Load(w) ==
  LET remembered == memory[Chain(w)] # None
      known == IF remembered THEN {memory[Chain(w)]} ELSE {FromStore(watcher[w].list), {}}
  IN /\ watcher[w].phase = "loading"
     /\ \E shipped \in known :
          watcher' = [watcher EXCEPT ![w].phase = "on", ![w].shipped = shipped]
     /\ busy' = (busy /\ remembered)
     /\ stranded' = IF remembered \/ backend.kind = watcher[w].kind THEN stranded
                    ELSE stranded \cup {Chain(w)}
     /\ UNCHANGED <<durable, settings, page, live, backend, call, overlapped, failed>>

Pending(w) == log[watcher[w].list] \ watcher[w].shipped

\* One flush: everything from the heads back to what was last shipped. A store
\* that cannot be reached delays it.
Ship(w) ==
  LET l == watcher[w].list
      k == watcher[w].store
  IN /\ watcher[w].phase = "on"
     /\ Pending(w) # {}
     /\ store' = [store EXCEPT ![k] = @ \cup
          {[list |-> l, under |-> watcher[w].under, at |-> NextAt(k),
            has |-> Pending(w), reach |-> log[l]]}]
     /\ watcher' = [watcher EXCEPT ![w].shipped = log[l]]
     /\ memory' = [memory EXCEPT ![Chain(w)] = log[l]]
     /\ UNCHANGED <<log, settings, page, busy, live, backend, call, stranded, overlapped, failed>>

-----------------------------------------------------------------------------
\* Switching on and off, choosing a store

\* unlockArchive, from the panel while there are no keys or by the page after a
\* (re)start. When the archive is off there is nothing to wait for.
Unlock ==
  /\ (~ keys /\ ~ busy) \/ starting
  /\ keys' = TRUE /\ starting' = FALSE
  /\ IF enabled
       THEN Goes(Start("unlock", open)) /\ busy' = TRUE
       ELSE busy' = FALSE /\ UNCHANGED <<call, overlapped>>
  /\ UNCHANGED <<durable, settings, open, asked, acts, module, stranded, failed>>

Enable ==
  /\ Act
  /\ keys /\ ~ enabled /\ ~ busy
  /\ enabled' = TRUE
  /\ Goes(Start("start", open))
  /\ UNCHANGED <<durable, chosen, open, keys, starting, asked, busy, module, stranded, failed>>

\* disableArchive: the setting is written after the watcher has stopped.
Disable ==
  /\ Act
  /\ keys /\ enabled /\ ~ busy
  /\ Goes(Stopping([NoCall EXCEPT !.op = "disable", !.pc = "off"]))
  /\ UNCHANGED <<durable, settings, open, keys, starting, asked, busy, module, stranded, failed>>

Disabled(c) ==
  /\ call[c].pc = "off"
  /\ enabled' = FALSE
  /\ Ends(c)
  /\ UNCHANGED <<durable, chosen, page, module, stranded, overlapped, failed>>

\* chooseBackend. Switched off, the choice is all; `backend` stays what it was.
ChooseBackend(k) ==
  /\ Act
  /\ k # chosen /\ ~ busy
  /\ chosen' = k
  /\ IF keys /\ enabled
       THEN Goes(Stopping([NoCall EXCEPT !.op = "choose", !.pc = "build", !.list = open, !.kind = k]))
       ELSE UNCHANGED <<call, overlapped>>
  /\ UNCHANGED <<durable, enabled, open, keys, starting, asked, busy, module, stranded, failed>>

-----------------------------------------------------------------------------
\* Deleting

\* The panel asks first.
AskDelete ==
  /\ Act
  /\ keys /\ ~ busy /\ ~ asked
  /\ asked' = TRUE
  /\ UNCHANGED <<durable, settings, open, keys, starting, busy, module, call,
                 stranded, overlapped, failed>>

\* deleteArchive, up to its await. The buttons of that question do not wait for
\* what else is under way by now.
Delete(whole) ==
  /\ keys /\ asked
  /\ asked' = FALSE
  /\ busy' = TRUE
  /\ Goes(Stopping([NoCall EXCEPT !.op = "delete", !.pc = "remove", !.list = open,
                                  !.kind = chosen, !.whole = whole]))
  /\ UNCHANGED <<durable, settings, open, keys, starting, acts, module, stranded, failed>>

\* Where a deletion removes: the driver at hand, if there is one.
PlaceOf(kind) == IF kind \in Direct \/ backend = NoDriver THEN kind ELSE backend.kind

\* What a deletion asks for. The store may refuse any of it.
Asked(c) ==
  {i \in store[PlaceOf(call[c].kind)] : call[c].whole \/ i.under = call[c].list}

Without(gone, kind) == [store EXCEPT ![PlaceOf(kind)] = @ \ gone]

\* A chain that lost increments is in step again only if nothing is left of it,
\* its memory is the one forgotten, and nothing under way counts on it.
Stranding(gone, kind, forgotten) ==
  LET place == PlaceOf(kind)
      clean(l) == /\ forgotten /\ kind = place /\ l = open
                  /\ Of(place, l) \subseteq gone
                  /\ \A w \in Watchers : On(w) => Chain(w) # <<place, l>>
                  /\ \A c \in Calls : call[c].pc = "rebase" => call[c].kind # place
  IN stranded \cup {<<place, l>> : l \in {m \in {i.list : i \in gone} : ~ clean(m)}}

\* Mutant: the memory of what was shipped outlives it.
ForgetNothing(kind) == memory

\* The memory of the list that is open by now, under the store asked for.
Forget(kind) == [memory EXCEPT ![<<kind, open>>] = None]

\* The increments are removed, and the watcher starts from nothing.
Remove(c) ==
  /\ call[c].pc = "remove"
  /\ memory' = Forget(call[c].kind)
  /\ \E gone \in SUBSET Asked(c) :
       /\ store' = Without(gone, call[c].kind)
       /\ stranded' = Stranding(gone, call[c].kind, TRUE)
  /\ IF enabled
       THEN call' = [call EXCEPT ![c] = Start("again", open)] /\ UNCHANGED busy
       ELSE Ends(c)
  /\ UNCHANGED <<log, settings, page, module, overlapped, failed>>

\* It throws part of the way: some are removed, nothing is forgotten and the
\* watcher stays off.
RemoveThrows(c) ==
  /\ call[c].pc = "remove"
  /\ UNCHANGED memory
  /\ \E gone \in SUBSET Asked(c) :
       /\ store' = Without(gone, call[c].kind)
       /\ stranded' = Stranding(gone, call[c].kind, FALSE)
  /\ Ends(c)
  /\ failed' = TRUE
  /\ UNCHANGED <<log, settings, page, module, overlapped>>

-----------------------------------------------------------------------------
\* Restoring

Restore ==
  /\ Act
  /\ keys /\ ~ busy
  /\ busy' = TRUE
  /\ Goes([NoCall EXCEPT !.op = "restore", !.pc = "join", !.list = open, !.kind = chosen])
  /\ UNCHANGED <<durable, settings, open, keys, starting, asked, module, stranded, failed>>

\* What can have been read: the chain of the list that was open, or all there is
\* when that is empty. A blob that cannot be read is skipped.
Readable(c) ==
  LET from == PlaceOf(call[c].kind)
      at == IF backend = NoDriver THEN call[c].kind ELSE backend.kind
      listed == IF Filed(from, call[c].list) # {} THEN Filed(from, call[c].list) ELSE store[from]
  IN IF from = at THEN SUBSET listed ELSE {{}}

\* Each list that was read of takes what it lacks ...
Back(read, m) == UNION {i.has : i \in {j \in read : j.list = m}}
Joined(read) == [m \in Lists |-> log[m] \cup Back(read, m)]

\* ... and what is of other lists is copied: written anew into this one.
Copies(read, l) == UNION {Joined(read)[m] : m \in {i.list : i \in read} \ {l}}
Taken(read, l, copied) == [Joined(read) EXCEPT ![l] = @ \cup copied]

Join(c) ==
  LET l == call[c].list
  IN /\ call[c].pc = "join"
     /\ \E read \in Readable(c) :
          /\ log' = Taken(read, l, Copies(read, l))
          /\ call' = [call EXCEPT ![c].pc = "rebase", ![c].kind = PlaceOf(call[c].kind),
                                  ![c].back = Back(read, l)]
     /\ UNCHANGED <<store, memory, settings, page, busy, module, stranded, overlapped, failed>>

\* The store cannot be asked, an entry cannot be joined, a todo cannot be
\* written: what was joined and copied before it threw stays.
RestoreFails(c) ==
  LET l == call[c].list
  IN /\ call[c].pc = "join"
     /\ \E read \in Readable(c) :
          \E copied \in SUBSET Copies(read, l) : log' = Taken(read, l, copied)
     /\ Ends(c)
     /\ UNCHANGED <<store, memory, settings, page, module, stranded, overlapped, failed>>

\* live.rebase: what is here now counts as shipped.
Rebase(c) ==
  LET l == watcher[live].list
      came == IF <<call[c].kind, call[c].list>> = Chain(live) THEN call[c].back ELSE {}
  IN /\ call[c].pc = "rebase"
     /\ IF live = None
          THEN UNCHANGED <<watcher, memory, stranded>>
          ELSE /\ watcher[live].phase = "on"
               /\ watcher' = [watcher EXCEPT ![live].shipped = log[l]]
               /\ memory' = [memory EXCEPT ![Chain(live)] = log[l]]
               /\ stranded' = IF log[l] \subseteq watcher[live].shipped \cup came THEN stranded
                              ELSE stranded \cup {Chain(live)}
     /\ Ends(c)
     /\ UNCHANGED <<log, store, settings, page, live, backend, overlapped, failed>>

-----------------------------------------------------------------------------
\* The list

Fresh == {e \in Entries : /\ \A l \in Lists : e \notin log[l]
                          /\ \A k \in Stores : \A i \in store[k] : e \notin i.has}

Write ==
  /\ Act
  /\ \E e \in Fresh : log' = [log EXCEPT ![open] = @ \cup {e}]
  /\ UNCHANGED <<store, memory, settings, open, keys, starting, asked, busy, module, call,
                 stranded, overlapped, failed>>

\* The list changes without a reload: the subscription starts the archive, and
\* the page may unlock it as well.
SwitchList(l) ==
  /\ Act
  /\ l # open
  /\ open' = l /\ starting' = TRUE
  /\ IF keys /\ enabled
       THEN Goes(Start("start", l))
       ELSE UNCHANGED <<call, overlapped>>
  /\ UNCHANGED <<durable, settings, keys, asked, busy, module, stranded, failed>>

\* The tab is closed and opened again; a wiped browser has only the passkey left.
Reload(wiped) ==
  /\ Act
  /\ open' \in Lists
  /\ keys' = FALSE /\ busy' = FALSE /\ starting' = TRUE /\ asked' = FALSE
  /\ live' = None /\ backend' = NoDriver
  /\ watcher' = [w \in Watchers |-> NoWatcher]
  /\ call' = [c \in Calls |-> NoCall]
  /\ overlapped' = FALSE /\ failed' = FALSE
  /\ IF wiped
       THEN /\ log' = [l \in Lists |-> {}]
            /\ memory' = [c \in Chains |-> None]
            /\ enabled' = FALSE /\ chosen' = Default
            /\ UNCHANGED <<store, stranded>>
       ELSE UNCHANGED <<durable, settings, stranded>>

-----------------------------------------------------------------------------
Step(c) ==
  \/ Stopped(c)
  \/ Build(c)
  \/ BuildFails(c)
  \/ Create(c)
  \/ Begun(c)
  \/ Disabled(c)
  \/ Remove(c)
  \/ RemoveThrows(c)
  \/ Join(c)
  \/ Rebase(c)
  \/ RestoreFails(c)

Next ==
  \/ Unlock
  \/ Enable
  \/ Disable
  \/ \E k \in Stores : ChooseBackend(k)
  \/ AskDelete
  \/ \E whole \in BOOLEAN : Delete(whole)
  \/ Restore
  \/ Write
  \/ \E l \in Lists : SwitchList(l)
  \/ \E wiped \in BOOLEAN : Reload(wiped)
  \/ \E c \in Calls : Step(c)
  \/ \E w \in Watchers : Load(w)
  \/ \E w \in Watchers : Ship(w)

Spec == Init /\ [][Next]_vars

-----------------------------------------------------------------------------
\* Properties

\* What a chain's memory counts as shipped is in the store, so that the next
\* increment leaves nothing out, whatever is switched, chosen, deleted and
\* restored in whatever order, except for the chains a deletion left something
\* of, a restore met with something unshipped, or two starts crossed on.
MemoryIsKept ==
  \A c \in Chains : \/ memory[c] = None
                    \/ memory[c] \subseteq Kept(c[1], c[2])
                    \/ c \in stranded

\* No call at work and none that overlapped: the watcher is the one of the open
\* list and the chosen store, it is on if the archive is, and no other is on.
QuietWatcherIsRight ==
  (~ overlapped /\ \A c \in Calls : ~ AtWork(c)) =>
    /\ \A w \in Watchers : On(w) => /\ enabled
                                    /\ w = live
                                    /\ watcher[w].list = open
                                    /\ watcher[w].kind = chosen
                                    /\ watcher[w].store = chosen
                                    /\ watcher[w].under = open
    /\ enabled /\ keys /\ ~ failed => live # None

\* When nothing is left to do, the chosen store has all of the open list,
\* whatever was interrupted, deleted, restored and chosen before, unless the
\* archive is off, the last start failed, calls overlapped or the chain is
\* out of step.
NothingLeft ==
  /\ \A c \in Calls : Idle(c)
  /\ \A w \in Watchers : On(w) => watcher[w].phase = "on" /\ Pending(w) = {}

QuietListIsArchived ==
  (NothingLeft /\ enabled /\ keys /\ ~ failed /\ ~ overlapped /\ <<chosen, open>> \notin stranded)
    => log[open] \subseteq Kept(chosen, open)
=============================================================================
