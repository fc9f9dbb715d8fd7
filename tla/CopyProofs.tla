----------------------------- MODULE CopyProofs -----------------------------
(***************************************************************************)
(* What holds of the two copies of a list outside the browser: the archive *)
(* its watcher ships, for any number of lists, stores, calls and watchers, *)
(* and the relay's, for any number of verifications and attempts.          *)
(***************************************************************************)
EXTENDS Archive, RelayProof, FiniteSetTheorems, WellFoundedInduction, TLAPS

\* The archive: its shapes, and the invariant

Starts == {"unlock", "start", "choose", "again"}

\* A call stands where its kind of call can stand, and knows the list and the
\* store it works on.
CallFits(r) ==
  /\ r.op = "none" <=> r.pc = "idle"
  /\ r.op = "restore" <=> r.pc \in {"join", "rebase"}
  /\ r.pc \in {"build", "create", "begun"} => r.op \in Starts
  /\ r.pc = "stop" => r.op # "none" /\ r.waits # None
  /\ r.pc = "off" => r.op = "disable"
  /\ r.pc = "remove" => r.op = "delete"
  /\ \/ r.op \in {"none", "disable"} \/ r.pc = "begun"
     \/ r.list \in Lists /\ r.kind \in Stores

CallType ==
  [op : {"none", "unlock", "start", "choose", "disable", "delete", "again", "restore"},
   pc : {"idle", "stop", "build", "create", "begun", "off", "remove", "join", "rebase"},
   list : Lists \cup {None}, kind : Stores \cup {None},
   waits : Watchers \cup {None}, whole : BOOLEAN, back : SUBSET Entries]

WatcherType ==
  [phase : {"off", "loading", "on"}, list : Lists \cup {None},
   kind : Stores \cup {None}, store : Stores \cup {None}, under : Lists \cup {None},
   shipped : SUBSET Entries]

DriverType == [kind : Stores \cup {None}, ref : Lists \cup {None}]

CallsFit ==
  /\ call \in [Calls -> CallType]
  /\ \A c \in Calls : CallFits(call[c])

WatchersFit ==
  /\ watcher \in [Watchers -> WatcherType]
  /\ live \in Watchers \cup {None}
  /\ live # None => On(live)
  /\ \A w \in Watchers : On(w) =>
       /\ watcher[w].list \in Lists /\ watcher[w].under \in Lists
       /\ watcher[w].kind \in Stores /\ watcher[w].store \in Stores

StoresFit ==
  /\ log \in [Lists -> SUBSET Entries]
  /\ store \in [Stores -> SUBSET Increments]
  /\ memory \in [Chains -> (SUBSET Entries) \cup {None}]
  /\ \A k \in Stores : IsFiniteSet(store[k])

PageFits ==
  /\ enabled \in BOOLEAN /\ chosen \in Stores /\ acts \in 0..MaxActs
  /\ open \in Lists /\ keys \in BOOLEAN /\ busy \in BOOLEAN /\ starting \in BOOLEAN
  /\ asked \in BOOLEAN /\ overlapped \in BOOLEAN /\ failed \in BOOLEAN

\* A driver that a call is about to use, or that a watcher may ask, is there.
BackendFits ==
  /\ backend \in DriverType /\ stranded \subseteq Chains
  /\ backend = NoDriver \/ backend.kind \in Stores
  /\ \A c \in Calls : call[c].pc = "create" => backend.kind \in Stores
  /\ \A w \in Watchers : On(w) => backend.kind \in Stores

\* The parts of the state fit together.
Shapes == CallsFit /\ WatchersFit /\ StoresFit /\ PageFits /\ BackendFits

\* All that counts as shipped of l to k, or will, is there under l's name: by the
\* memory, by the increments' heads, by a watcher and by what a restore has read.
FiledFits(k, l) == \A i \in store[k] : i.list = l => i.under = l

MemoryFits(k, l) == memory[<<k, l>>] = None \/ memory[<<k, l>>] \subseteq Kept(k, l)

HeadsFit(k, l) == \A i \in Of(k, l) : i.reach \subseteq Kept(k, l)

ShippingFits(k, l) ==
  \A w \in Watchers : On(w) /\ watcher[w].list = l =>
    /\ watcher[w].kind = k => watcher[w].shipped \subseteq Kept(k, l)
    /\ watcher[w].kind = k <=> watcher[w].store = k
    /\ watcher[w].store = k => watcher[w].under = l

RestoresFit(k, l) ==
  \A c \in Calls : call[c].pc = "rebase" /\ call[c].kind = k /\ call[c].list = l =>
    call[c].back \subseteq Kept(k, l)

InStep(k, l) ==
  FiledFits(k, l) /\ MemoryFits(k, l) /\ HeadsFit(k, l) /\ ShippingFits(k, l) /\ RestoresFit(k, l)

AllInStep == \A k \in Stores, l \in Lists : <<k, l>> \in stranded \/ InStep(k, l)

Right ==
  \A w \in Watchers : On(w) => /\ watcher[w].list = open
                               /\ watcher[w].kind = chosen
                               /\ watcher[w].store = chosen
                               /\ watcher[w].under = open

\* What a call at work goes by, as long as it is alone.
WorkFits(r) ==
  /\ keys
  /\ r.op \in Starts => enabled
  /\ r.pc = "stop" => r.waits = live
  /\ r.pc = "stop" /\ r.op \in Starts \ {"choose"} => r.list = open
  /\ r.pc \in {"build", "create", "off", "remove"} => live = None
  /\ r.pc \in {"build", "create"} => r.list = open /\ r.kind = chosen
  /\ r.pc = "create" => backend = Driver(chosen, open)
  /\ r.pc = "begun" => live # None /\ Right

Works(r) == r.op \notin {"none", "restore"}

OneOn == \A w \in Watchers : On(w) => w = live /\ enabled /\ keys

AtRest == Right /\ (enabled /\ keys /\ ~ failed => live # None)

Orderly ==
  ~ overlapped =>
    /\ \A a, b \in Calls : Works(call[a]) /\ Works(call[b]) => a = b
    /\ OneOn
    /\ \A c \in Calls : Works(call[c]) => WorkFits(call[c])
    /\ (\A c \in Calls : ~ Works(call[c])) => AtRest

IInv == Shapes /\ AllInStep /\ Orderly

-----------------------------------------------------------------------------
\* Newest increments

LEMMA LeastNat ==
  ASSUME NEW T \in SUBSET Nat, T # {}
  PROVE  \E n \in T : \A m \in T : n <= m
<1>1. PICK n \in T : \A m \in T : ~ (<<m, n>> \in OpToRel(<, Nat))
  BY NatLessThanWellFounded, WFMin
<1>2. \A m \in T : m \in Nat /\ n \in Nat
  OBVIOUS
<1>3. \A m \in T : ~ (m < n)
  BY <1>1, <1>2 DEF OpToRel
<1> QED BY <1>2, <1>3

\* The one that fewest are above: were one above it, fewer would be above that.
LEMMA GreatestOfFinite ==
  ASSUME NEW T \in SUBSET Nat, IsFiniteSet(T), T # {}
  PROVE  \E n \in T : \A m \in T : m <= n
<1> DEFINE Above(y) == {x \in T : x > y}
           Counts == {Cardinality(Above(n)) : n \in T}
<1>1. \A n \in T : IsFiniteSet(Above(n)) /\ Cardinality(Above(n)) \in Nat
  BY FS_Subset, FS_CardinalityType
<1>2. PICK c \in Counts : \A b \in Counts : c <= b
  <2>1. Counts \in SUBSET Nat /\ Counts # {}
    BY <1>1
  <2> HIDE DEF Counts
  <2> QED BY <2>1, LeastNat
<1>3. PICK n \in T : c = Cardinality(Above(n))
  BY <1>2
<1>4. ASSUME NEW m \in T, m > n PROVE FALSE
  <2>1. Above(m) \in SUBSET Above(n) /\ m \in Above(n) /\ m \notin Above(m)
    <3>1. \A x \in T : x \in Nat
      OBVIOUS
    <3>2. ASSUME NEW x \in T, x > m PROVE x > n
      BY <1>4, <3>1, <3>2
    <3>3. m > n /\ ~ (m > m)
      BY <1>4, <3>1
    <3> QED BY <3>2, <3>3
  <2>2. Cardinality(Above(m)) <= c /\ Cardinality(Above(m)) # c
    BY <1>1, <1>3, <2>1, FS_Subset
  <2>3. Cardinality(Above(m)) \in Counts
    OBVIOUS
  <2>4. c <= Cardinality(Above(m)) /\ c \in Nat /\ Cardinality(Above(m)) \in Nat
    BY <1>1, <1>2, <1>3, <2>3
  <2> QED BY <2>2, <2>4
<1>5. \A m \in T : m <= n
  BY <1>4
<1> QED BY <1>5

LEMMA TimesAreFinite ==
  ASSUME NEW T \in SUBSET Increments, IsFiniteSet(T)
  PROVE  IsFiniteSet({i.at : i \in T}) /\ {i.at : i \in T} \in SUBSET Nat
<1> DEFINE ats == {i.at : i \in T}
           f == [i \in T |-> i.at]
<1>1. f \in Surjection(T, ats)
  <2>1. f \in [T -> ats]
    OBVIOUS
  <2>2. \A a \in ats : \E i \in T : f[i] = a
    OBVIOUS
  <2> QED BY <2>1, <2>2 DEF Surjection
<1>2. IsFiniteSet(ats)
  <2> HIDE DEF f, ats
  <2> QED BY <1>1, FS_Surjection
<1>3. ats \in SUBSET Nat
  BY DEF Increments
<1> QED BY <1>2, <1>3

LEMMA NextAtIsNat ==
  ASSUME StoresFit, NEW k \in Stores
  PROVE  NextAt(k) \in Nat
<1> DEFINE ats == {i.at : i \in store[k]} \cup {0}
<1>1. ats \in SUBSET Nat /\ ats # {}
  BY DEF StoresFit, Increments
<1>2. IsFiniteSet({i.at : i \in store[k]})
  <2>1. store[k] \in SUBSET Increments /\ IsFiniteSet(store[k])
    BY DEF StoresFit
  <2> QED BY <2>1, TimesAreFinite
<1>3. IsFiniteSet(ats)
  BY <1>2, FS_AddElement
<1> HIDE DEF ats
<1>4. \E n \in ats : \A m \in ats : n >= m
  BY <1>1, <1>3, GreatestOfFinite
<1>5. Max(ats) \in Nat
  BY <1>1, <1>4 DEF Max
<1> QED BY <1>5 DEF NextAt, ats

LEMMA NewestIsThere ==
  ASSUME StoresFit, NEW k \in Stores, NEW S \in SUBSET store[k], S # {}
  PROVE  Newest(S) \in S /\ Newest(S).reach \subseteq Entries
<1> DEFINE ats == {i.at : i \in S}
<1>1. store[k] \subseteq Increments /\ IsFiniteSet(store[k])
  BY DEF StoresFit
<1>2. IsFiniteSet(S)
  BY <1>1, FS_Subset
<1>3. IsFiniteSet(ats)
  BY <1>1, <1>2, TimesAreFinite
<1>4. ats \in SUBSET Nat /\ ats # {}
  BY <1>1 DEF Increments
<1>5. PICK n \in ats : \A m \in ats : m <= n
  <2> HIDE DEF ats
  <2> QED BY <1>3, <1>4, GreatestOfFinite
<1>6. \E i \in S : \A j \in S : j.at <= i.at
  BY <1>5
<1>7. Newest(S) \in S
  BY <1>6 DEF Newest
<1> QED BY <1>1, <1>7 DEF Increments

-----------------------------------------------------------------------------
\* Calls that begin

\* What a call can be when it begins.
Begins(r) ==
  /\ r \in CallType /\ CallFits(r)
  /\ r.op # "none" /\ r.pc \notin {"create", "rebase"}

\* A start waits for the watcher that is on, builds when there is none, or is
\* done because that one is the list's.
StartsFor(r, l) ==
  /\ r.pc \in {"begun", "stop", "build"}
  /\ r.pc = "begun" => live # None /\ watcher[live].list = l
  /\ r.pc = "stop" => r.waits = live
  /\ r.pc = "build" => live = None
  /\ r.pc # "begun" => r.list = l /\ r.kind = chosen

LEMMA StartIs ==
  ASSUME NEW op \in Starts, NEW l \in Lists, WatchersFit, PageFits
  PROVE  Begins(Start(op, l)) /\ Start(op, l).op = op /\ StartsFor(Start(op, l), l)
<1> DEFINE new == [NoCall EXCEPT !.op = op, !.pc = "build", !.list = l, !.kind = chosen]
           done == [NoCall EXCEPT !.op = op, !.pc = "begun"]
           waiting == [new EXCEPT !.pc = "stop", !.waits = live]
<1>1. chosen \in Stores /\ live \in Watchers \cup {None}
  BY DEF WatchersFit, PageFits
<1>2. new \in CallType /\ done \in CallType
  BY <1>1 DEF CallType, NoCall, Starts
<1>3. CASE live # None /\ watcher[live].list = l
  <2>1. Start(op, l) = done
    BY <1>3 DEF Start
  <2> QED BY <1>2, <1>3, <2>1 DEF Begins, CallFits, StartsFor, Starts, NoCall
<1>4. CASE ~ (live # None /\ watcher[live].list = l) /\ live = None
  <2>1. Start(op, l) = new
    BY <1>4 DEF Start, Stopping
  <2> QED BY <1>1, <1>2, <1>4, <2>1 DEF Begins, CallFits, StartsFor, Starts, NoCall
<1>5. CASE ~ (live # None /\ watcher[live].list = l) /\ live # None
  <2>1. Start(op, l) = waiting
    BY <1>5 DEF Start, Stopping
  <2>2. waiting \in CallType
    BY <1>1, <1>2 DEF CallType
  <2> QED BY <1>1, <1>5, <2>1, <2>2 DEF Begins, CallFits, StartsFor, Starts, NoCall
<1> QED BY <1>3, <1>4, <1>5

LEMMA StopIs ==
  ASSUME WatchersFit, PageFits,
         NEW r \in CallType, r.op \in {"disable", "choose", "delete"}, CallFits(r),
         r.pc \in {"off", "build", "remove"}
  PROVE  /\ Begins(Stopping(r))
         /\ Stopping(r).op = r.op
         /\ Stopping(r).pc = "stop" => Stopping(r).waits = live
         /\ Stopping(r).pc # "stop" => live = None /\ Stopping(r) = r
<1>1. live \in Watchers \cup {None}
  BY DEF WatchersFit
<1>2. CASE live = None
  <2>1. Stopping(r) = r
    BY <1>2 DEF Stopping
  <2> QED BY <1>2, <2>1 DEF Begins, CallFits
<1>3. CASE live # None
  <2>1. Stopping(r) = [r EXCEPT !.pc = "stop", !.waits = live]
    BY <1>3 DEF Stopping
  <2>2. Stopping(r) \in CallType
    BY <1>1, <2>1 DEF CallType
  <2> QED BY <1>1, <1>3, <2>1, <2>2 DEF Begins, CallFits, Starts, CallType
<1> QED BY <1>2, <1>3

LEMMA GoesFits ==
  ASSUME CallsFit, NEW r, Begins(r), Goes(r)
  PROVE  CallsFit' /\ \A c \in Calls : call'[c] = call[c] \/ call'[c] = r
<1>1. PICK c \in Calls : call' = [call EXCEPT ![c] = r]
  BY DEF Goes
<1> QED BY <1>1 DEF CallsFit, Begins

LEMMA NoCallFits == NoCall \in CallType /\ CallFits(NoCall)
BY DEF NoCall, CallType, CallFits, Starts

LEMMA EndFits ==
  ASSUME CallsFit, NEW c \in Calls, call' = [call EXCEPT ![c] = NoCall]
  PROVE  CallsFit'
BY NoCallFits DEF CallsFit

-----------------------------------------------------------------------------
\* Shapes

LEMMA InitShapes == Init => Shapes
<1> SUFFICES ASSUME Init PROVE Shapes
  OBVIOUS
<1>1. CallsFit
  BY NoCallFits DEF Init, CallsFit
<1>2. WatchersFit
  BY DEF Init, WatchersFit, WatcherType, NoWatcher, On
<1>3. StoresFit
  <2>1. log \in [Lists -> SUBSET Entries] /\ store \in [Stores -> SUBSET Increments]
    BY DEF Init
  <2>2. memory \in [Chains -> (SUBSET Entries) \cup {None}]
    BY DEF Init
  <2>3. ASSUME NEW k \in Stores PROVE IsFiniteSet(store[k])
    BY FS_EmptySet DEF Init
  <2> QED BY <2>1, <2>2, <2>3 DEF StoresFit
<1>4. PageFits
  <2>1. enabled \in BOOLEAN /\ keys \in BOOLEAN /\ busy \in BOOLEAN /\ starting \in BOOLEAN
    BY Zenon DEF Init
  <2>2. asked \in BOOLEAN /\ overlapped \in BOOLEAN /\ failed \in BOOLEAN
    BY Zenon DEF Init
  <2>3. chosen \in Stores /\ open \in Lists
    BY StoresAssumption, HomeAssumption DEF Init
  <2>4. acts \in 0..MaxActs
    BY MaxActsAssumption DEF Init
  <2> QED BY <2>1, <2>2, <2>3, <2>4 DEF PageFits
<1>5. BackendFits
  BY DEF Init, BackendFits, On, NoCall, NoWatcher, NoDriver, DriverType
<1> QED BY <1>1, <1>2, <1>3, <1>4, <1>5 DEF Shapes

\* What a call that begins leaves as it was.
LEMMA BeginningKeepsShapes ==
  ASSUME Shapes, NEW r, Begins(r), Goes(r),
         UNCHANGED <<durable, module, stranded>>, PageFits'
  PROVE  Shapes'
<1>1. CallsFit' /\ \A c \in Calls : call'[c] = call[c] \/ call'[c] = r
  BY GoesFits DEF Shapes
<1>2. WatchersFit'
  BY DEF Shapes, WatchersFit, module, On
<1>3. StoresFit'
  BY DEF Shapes, StoresFit, durable
<1>4. BackendFits'
  BY <1>1 DEF Shapes, BackendFits, On, module, Begins
<1> QED BY <1>1, <1>2, <1>3, <1>4 DEF Shapes

\* The same when no call begins.
LEMMA PageKeepsShapes ==
  ASSUME Shapes, UNCHANGED <<durable, module, call, stranded>>, PageFits'
  PROVE  Shapes'
<1>1. CallsFit'
  BY DEF Shapes, CallsFit
<1>2. WatchersFit'
  BY DEF Shapes, WatchersFit, module, On
<1>3. StoresFit'
  BY DEF Shapes, StoresFit, durable
<1>4. BackendFits'
  BY DEF Shapes, BackendFits, On, module
<1> QED BY <1>1, <1>2, <1>3, <1>4 DEF Shapes

LEMMA ActFits == ASSUME acts \in 0..MaxActs, Act PROVE acts' \in 0..MaxActs
<1>1. acts \in Nat /\ acts < MaxActs /\ acts' = acts + 1
  BY DEF Act
<1> QED BY <1>1, MaxActsAssumption

LEMMA GoesOverlaps ==
  ASSUME NEW r, Goes(r), overlapped \in BOOLEAN PROVE overlapped' \in BOOLEAN
BY DEF Goes

LEMMA UnlockKeepsShapes == ASSUME Shapes, Unlock PROVE Shapes'
<1>1. PageFits /\ WatchersFit /\ open \in Lists /\ enabled \in BOOLEAN
  BY DEF Shapes, PageFits
<1>2. CASE enabled
  <2>1. PICK r : r = Start("unlock", open) /\ Goes(r)
    BY <1>2 DEF Unlock
  <2>2. Begins(r)
    BY <1>1, <2>1, StartIs DEF Starts
  <2>3. PageFits'
    BY <1>1, <1>2, <2>1, GoesOverlaps DEF Unlock, PageFits, settings
  <2> QED BY <2>1, <2>2, <2>3, BeginningKeepsShapes DEF Unlock
<1>3. CASE ~ enabled
  <2>1. PageFits'
    BY <1>1, <1>3 DEF Unlock, PageFits, settings
  <2> QED BY <1>3, <2>1, PageKeepsShapes DEF Unlock
<1> QED BY <1>2, <1>3

LEMMA EnableKeepsShapes == ASSUME Shapes, Enable PROVE Shapes'
<1>1. PageFits /\ WatchersFit /\ open \in Lists
  BY DEF Shapes, PageFits
<1>2. PICK r : r = Start("start", open) /\ Goes(r)
  BY DEF Enable
<1>3. Begins(r)
  BY <1>1, <1>2, StartIs DEF Starts
<1>4. PageFits'
  BY <1>1, <1>2, GoesOverlaps, ActFits DEF Enable, PageFits
<1> QED BY <1>2, <1>3, <1>4, BeginningKeepsShapes DEF Enable

LEMMA DisableKeepsShapes == ASSUME Shapes, Disable PROVE Shapes'
<1> DEFINE new == [NoCall EXCEPT !.op = "disable", !.pc = "off"]
<1>1. PageFits /\ WatchersFit
  BY DEF Shapes
<1>2. PICK r : r = Stopping(new) /\ Goes(r)
  BY DEF Disable
<1>3. new \in CallType /\ CallFits(new) /\ new.op = "disable" /\ new.pc = "off"
  BY DEF CallType, CallFits, NoCall, Starts
<1>4. Begins(r)
  <2> HIDE DEF new
  <2> QED BY <1>1, <1>2, <1>3, StopIs
<1>5. PageFits'
  BY <1>1, <1>2, GoesOverlaps, ActFits DEF Disable, PageFits, settings
<1> QED BY <1>2, <1>4, <1>5, BeginningKeepsShapes DEF Disable

LEMMA ChooseKeepsShapes ==
  ASSUME Shapes, NEW k \in Stores, ChooseBackend(k) PROVE Shapes'
<1> DEFINE new == [NoCall EXCEPT !.op = "choose", !.pc = "build", !.list = open, !.kind = k]
<1>1. PageFits /\ WatchersFit /\ open \in Lists /\ keys \in BOOLEAN /\ enabled \in BOOLEAN
  BY DEF Shapes, PageFits
<1>2. CASE keys /\ enabled
  <2>1. PICK r : r = Stopping(new) /\ Goes(r)
    BY <1>2 DEF ChooseBackend
  <2>2. new \in CallType /\ CallFits(new) /\ new.op = "choose" /\ new.pc = "build"
    BY <1>1 DEF CallType, CallFits, NoCall, Starts
  <2>3. Begins(r)
    <3> HIDE DEF new
    <3> QED BY <1>1, <2>1, <2>2, StopIs
  <2>4. PageFits'
    BY <1>1, <2>1, GoesOverlaps, ActFits DEF ChooseBackend, PageFits
  <2> QED BY <2>1, <2>3, <2>4, BeginningKeepsShapes DEF ChooseBackend
<1>3. CASE ~ (keys /\ enabled)
  <2>1. PageFits'
    BY <1>1, <1>3, ActFits DEF ChooseBackend, PageFits
  <2> QED BY <1>3, <2>1, PageKeepsShapes DEF ChooseBackend
<1> QED BY <1>2, <1>3

LEMMA AskKeepsShapes == ASSUME Shapes, AskDelete PROVE Shapes'
<1>1. PageFits'
  BY ActFits DEF Shapes, AskDelete, PageFits, settings
<1> QED BY <1>1, PageKeepsShapes DEF AskDelete

LEMMA DeleteKeepsShapes ==
  ASSUME Shapes, NEW whole \in BOOLEAN, Delete(whole) PROVE Shapes'
<1> DEFINE new == [NoCall EXCEPT !.op = "delete", !.pc = "remove", !.list = open,
                                 !.kind = chosen, !.whole = whole]
<1>1. PageFits /\ WatchersFit /\ open \in Lists /\ chosen \in Stores
  BY DEF Shapes, PageFits
<1>2. PICK r : r = Stopping(new) /\ Goes(r)
  BY DEF Delete
<1>3. new \in CallType /\ CallFits(new) /\ new.op = "delete" /\ new.pc = "remove"
  BY <1>1 DEF CallType, CallFits, NoCall, Starts
<1>4. Begins(r)
  <2> HIDE DEF new
  <2> QED BY <1>1, <1>2, <1>3, StopIs
<1>5. PageFits'
  BY <1>1, <1>2, GoesOverlaps DEF Delete, PageFits, settings
<1> QED BY <1>2, <1>4, <1>5, BeginningKeepsShapes DEF Delete

LEMMA RestoreKeepsShapes == ASSUME Shapes, Restore PROVE Shapes'
<1> DEFINE new == [NoCall EXCEPT !.op = "restore", !.pc = "join", !.list = open, !.kind = chosen]
<1>1. PageFits /\ open \in Lists /\ chosen \in Stores
  BY DEF Shapes, PageFits
<1>2. PICK r : r = new /\ Goes(r)
  BY DEF Restore
<1>3. Begins(r)
  BY <1>1, <1>2 DEF Begins, CallType, CallFits, NoCall, Starts
<1>4. PageFits'
  BY <1>1, <1>2, GoesOverlaps, ActFits DEF Restore, PageFits, settings
<1> QED BY <1>2, <1>3, <1>4, BeginningKeepsShapes DEF Restore

LEMMA SwitchKeepsShapes ==
  ASSUME Shapes, NEW l \in Lists, SwitchList(l) PROVE Shapes'
<1>1. PageFits /\ WatchersFit /\ keys \in BOOLEAN /\ enabled \in BOOLEAN
  BY DEF Shapes, PageFits
<1>2. CASE keys /\ enabled
  <2>1. PICK r : r = Start("start", l) /\ Goes(r)
    BY <1>2 DEF SwitchList
  <2>2. Begins(r)
    BY <1>1, <2>1, StartIs DEF Starts
  <2>3. PageFits'
    BY <1>1, <2>1, GoesOverlaps, ActFits DEF SwitchList, PageFits, settings
  <2> QED BY <2>1, <2>2, <2>3, BeginningKeepsShapes DEF SwitchList
<1>3. CASE ~ (keys /\ enabled)
  <2>1. PageFits'
    BY <1>1, <1>3, ActFits DEF SwitchList, PageFits, settings
  <2> QED BY <1>3, <2>1, PageKeepsShapes DEF SwitchList
<1> QED BY <1>2, <1>3

LEMMA WriteKeepsShapes == ASSUME Shapes, Write PROVE Shapes'
<1>1. PICK e \in Entries : log' = [log EXCEPT ![open] = @ \cup {e}]
  BY DEF Write, Fresh
<1>2. CallsFit'
  BY DEF Write, Shapes, CallsFit
<1>3. WatchersFit'
  BY DEF Write, Shapes, WatchersFit, module, On
<1>4. StoresFit'
  <2>1. log' \in [Lists -> SUBSET Entries]
    BY <1>1 DEF Shapes, StoresFit
  <2> QED BY <2>1 DEF Write, Shapes, StoresFit
<1>5. PageFits'
  BY ActFits DEF Write, Shapes, PageFits, settings
<1>6. BackendFits'
  BY DEF Write, Shapes, BackendFits, On, module
<1> QED BY <1>2, <1>3, <1>4, <1>5, <1>6 DEF Shapes

LEMMA ReloadKeepsShapes ==
  ASSUME Shapes, NEW wiped \in BOOLEAN, Reload(wiped) PROVE Shapes'
<1>1. CallsFit'
  BY NoCallFits DEF Reload, CallsFit
<1>2. WatchersFit'
  BY DEF Reload, WatchersFit, WatcherType, NoWatcher, On
<1>3. StoresFit'
  <2>1. CASE wiped
    <3>1. log' \in [Lists -> SUBSET Entries] /\ memory' \in [Chains -> (SUBSET Entries) \cup {None}]
      BY <2>1 DEF Reload
    <3> QED BY <2>1, <3>1 DEF Reload, Shapes, StoresFit
  <2>2. CASE ~ wiped
    BY <2>2 DEF Reload, Shapes, StoresFit, durable
  <2> QED BY <2>1, <2>2
<1>4. PageFits'
  BY ActFits, StoresAssumption DEF Reload, Shapes, PageFits, settings
<1>5. BackendFits'
  BY DEF Reload, Shapes, BackendFits, On, NoWatcher, NoCall, NoDriver, DriverType, durable
<1> QED BY <1>1, <1>2, <1>3, <1>4, <1>5 DEF Shapes

\* A call goes on, and nothing else of the call's own changes.
LEMMA CallGoesOn ==
  ASSUME CallsFit, NEW c \in Calls, NEW r \in CallType, CallFits(r),
         call' = [call EXCEPT ![c] = r]
  PROVE  CallsFit' /\ \A d \in Calls : call'[d] = IF d = c THEN r ELSE call[d]
BY DEF CallsFit

LEMMA EndsFits ==
  ASSUME Shapes, NEW c \in Calls, Ends(c)
  PROVE  /\ CallsFit'
         /\ busy' \in BOOLEAN
         /\ \A d \in Calls : call'[d] = IF d = c THEN NoCall ELSE call[d]
<1>1. call' = [call EXCEPT ![c] = NoCall]
  BY DEF Ends
<1>2. CallsFit' /\ \A d \in Calls : call'[d] = IF d = c THEN NoCall ELSE call[d]
  BY <1>1, NoCallFits, CallGoesOn DEF Shapes
<1>3. busy' \in BOOLEAN
  BY Zenon DEF Ends, Shapes, PageFits
<1> QED BY <1>2, <1>3

\* A call that ends leaves the page's other parts to the action.
LEMMA EndingKeepsShapes ==
  ASSUME Shapes, NEW c \in Calls, Ends(c), UNCHANGED <<durable, module, stranded>>, PageFits'
  PROVE  Shapes'
<1>1. CallsFit' /\ \A d \in Calls : call'[d] = IF d = c THEN NoCall ELSE call[d]
  BY EndsFits
<1>2. WatchersFit'
  BY DEF Shapes, WatchersFit, module, On
<1>3. StoresFit'
  BY DEF Shapes, StoresFit, durable
<1>4. BackendFits'
  BY <1>1 DEF Shapes, BackendFits, On, module, NoCall
<1> QED BY <1>1, <1>2, <1>3, <1>4 DEF Shapes

LEMMA EndingActions ==
  ASSUME Shapes, NEW c \in Calls, BuildFails(c) \/ Begun(c) \/ Disabled(c)
  PROVE  Shapes'
<1>1. Ends(c) /\ UNCHANGED <<durable, module, stranded>> /\ UNCHANGED <<page, chosen, overlapped>>
  BY DEF BuildFails, Begun, Disabled, settings
<1>2. enabled' \in BOOLEAN /\ failed' \in BOOLEAN
  BY Zenon DEF BuildFails, Begun, Disabled, settings, Shapes, PageFits
<1>3. PageFits'
  BY <1>1, <1>2, EndsFits DEF Shapes, PageFits, page
<1> QED BY <1>1, <1>3, EndingKeepsShapes

\* What a call is once the watcher it waited for has stopped.
WentOn(c) ==
  CASE call[c].op = "disable" -> [call[c] EXCEPT !.pc = "off", !.waits = None]
    [] call[c].op = "delete"  -> [call[c] EXCEPT !.pc = "remove", !.waits = None]
    [] call[c].op = "choose"  -> [call[c] EXCEPT !.pc = "build", !.list = open, !.kind = chosen,
                                                 !.waits = None]
    [] OTHER                  -> [call[c] EXCEPT !.pc = "build", !.kind = chosen, !.waits = None]

LEMMA WentOnIs ==
  ASSUME Shapes, NEW c \in Calls, Stopped(c)
  PROVE  /\ call' = [call EXCEPT ![c] = WentOn(c)]
         /\ WentOn(c) \in CallType /\ CallFits(WentOn(c))
         /\ WentOn(c).op = call[c].op
         /\ WentOn(c).pc \in {"off", "remove", "build"}
         /\ WentOn(c).pc = "build" =>
              /\ WentOn(c).op \in Starts
              /\ WentOn(c).kind = chosen
              /\ WentOn(c).list = IF call[c].op = "choose" THEN open ELSE call[c].list
<1>1. /\ call[c] \in CallType /\ CallFits(call[c]) /\ call[c].pc = "stop"
      /\ open \in Lists /\ chosen \in Stores
  BY DEF Shapes, CallsFit, PageFits, Stopped
<1>2. call[c].op \in {"unlock", "start", "choose", "disable", "delete", "again"}
  BY <1>1 DEF CallFits, CallType
<1>3. CASE call[c].op = "disable"
  <2>1. WentOn(c) = [call[c] EXCEPT !.pc = "off", !.waits = None]
    BY <1>3 DEF WentOn
  <2>2. call' = [call EXCEPT ![c] = WentOn(c)]
    BY <1>1, <1>3, <2>1 DEF Stopped, CallType
  <2> QED BY <1>1, <1>3, <2>1, <2>2 DEF CallType, CallFits, Starts
<1>4. CASE call[c].op = "delete"
  <2>1. WentOn(c) = [call[c] EXCEPT !.pc = "remove", !.waits = None]
    BY <1>4 DEF WentOn
  <2>2. call' = [call EXCEPT ![c] = WentOn(c)]
    BY <1>1, <1>4, <2>1 DEF Stopped, CallType
  <2> QED BY <1>1, <1>4, <2>1, <2>2 DEF CallType, CallFits, Starts
<1>5. CASE call[c].op = "choose"
  <2>1. WentOn(c) = [call[c] EXCEPT !.pc = "build", !.list = open, !.kind = chosen, !.waits = None]
    BY <1>5 DEF WentOn
  <2>2. call' = [call EXCEPT ![c] = WentOn(c)]
    BY <1>1, <1>5, <2>1 DEF Stopped, CallType
  <2>3. WentOn(c) \in CallType
    BY <1>1, <2>1 DEF CallType
  <2>4. /\ WentOn(c).op = "choose" /\ WentOn(c).pc = "build"
        /\ WentOn(c).list = open /\ WentOn(c).kind = chosen
    BY <1>1, <1>5, <2>1 DEF CallType
  <2> QED BY <1>1, <1>5, <2>2, <2>3, <2>4 DEF CallFits, Starts
<1>6. CASE call[c].op \in {"unlock", "start", "again"}
  <2>1. WentOn(c) = [call[c] EXCEPT !.pc = "build", !.kind = chosen, !.waits = None]
    BY <1>6 DEF WentOn
  <2>2. call' = [call EXCEPT ![c] = WentOn(c)]
    BY <1>1, <1>6, <2>1 DEF Stopped, CallType
  <2> QED BY <1>1, <1>6, <2>1, <2>2 DEF CallType, CallFits, Starts
<1> QED BY <1>2, <1>3, <1>4, <1>5, <1>6

LEMMA StoppedKeepsShapes == ASSUME Shapes, NEW c \in Calls, Stopped(c) PROVE Shapes'
<1>1. CallsFit' /\ \A d \in Calls : call'[d] = IF d = c THEN WentOn(c) ELSE call[d]
  <2>1. PICK r : r = WentOn(c)
    OBVIOUS
  <2>2. r \in CallType /\ CallFits(r) /\ call' = [call EXCEPT ![c] = r]
    BY <2>1, WentOnIs
  <2> QED BY <2>1, <2>2, CallGoesOn DEF Shapes
<1>2. WatchersFit'
  BY DEF Stopped, Shapes, WatchersFit, WatcherType, NoWatcher, On
<1>3. StoresFit'
  BY DEF Stopped, Shapes, StoresFit, durable
<1>4. PageFits'
  BY DEF Stopped, Shapes, PageFits, settings, page
<1>5. BackendFits'
  <2>1. UNCHANGED <<backend, stranded>>
    BY DEF Stopped
  <2>2. WentOn(c).pc # "create"
    BY WentOnIs
  <2>3. ASSUME NEW d \in Calls, call'[d].pc = "create" PROVE backend'.kind \in Stores
    BY <1>1, <2>1, <2>2, <2>3 DEF Shapes, BackendFits, On
  <2>4. \A w \in Watchers : On(w)' => On(w)
    BY DEF Stopped, Shapes, WatchersFit, NoWatcher, On
  <2> QED BY <2>1, <2>3, <2>4 DEF Shapes, BackendFits, On
<1> QED BY <1>1, <1>2, <1>3, <1>4, <1>5 DEF Shapes

LEMMA BuildKeepsShapes == ASSUME Shapes, NEW c \in Calls, Build(c) PROVE Shapes'
<1>1. /\ call[c] \in CallType /\ CallFits(call[c]) /\ call[c].pc = "build"
  BY DEF Shapes, CallsFit, Build
<1>2. call[c].op \in Starts /\ call[c].kind \in Stores
  BY <1>1 DEF CallFits, Starts
<1>3. PICK r : r = [call[c] EXCEPT !.pc = "create"]
  OBVIOUS
<1>4. r \in CallType /\ CallFits(r) /\ call' = [call EXCEPT ![c] = r]
  BY <1>1, <1>2, <1>3 DEF CallType, CallFits, Starts, Build
<1>5. CallsFit' /\ \A d \in Calls : call'[d] = IF d = c THEN r ELSE call[d]
  BY <1>4, CallGoesOn DEF Shapes
<1>6. WatchersFit'
  BY DEF Build, Shapes, WatchersFit, On
<1>7. StoresFit'
  BY DEF Build, Shapes, StoresFit, durable
<1>8. PageFits'
  BY DEF Build, Shapes, PageFits, settings, page
<1>9. BackendFits'
  <2>1. call[c].kind \in Stores /\ call[c].list \in Lists
    BY <1>1, <1>2 DEF CallFits, Starts
  <2>2. backend' \in DriverType /\ backend'.kind \in Stores
    BY <2>1 DEF Build, Driver, DriverType
  <2> QED BY <2>2 DEF Build, Shapes, BackendFits, On
<1> QED BY <1>5, <1>6, <1>7, <1>8, <1>9 DEF Shapes

LEMMA CreateKeepsShapes == ASSUME Shapes, NEW c \in Calls, Create(c) PROVE Shapes'
<1>1. /\ call[c] \in CallType /\ CallFits(call[c]) /\ call[c].pc = "create"
  BY DEF Shapes, CallsFit, Create
<1>2. call[c].op \in Starts /\ call[c].kind \in Stores /\ call[c].list \in Lists
  BY <1>1 DEF CallFits, Starts
<1>3. backend.kind \in Stores /\ backend.ref \in Lists \cup {None}
  BY <1>1 DEF Shapes, BackendFits, On, DriverType
<1>4. PICK w \in Watchers :
        /\ watcher' = [watcher EXCEPT ![w] =
             [phase |-> "loading", list |-> call[c].list, kind |-> call[c].kind,
              store |-> backend.kind,
              under |-> IF backend.ref = None THEN call[c].list ELSE backend.ref,
              shipped |-> {}]]
        /\ live' = w
        /\ call' = [call EXCEPT ![c].pc = "begun", ![c].waits = w]
  BY DEF Create
<1>5. PICK r : r = [call[c] EXCEPT !.pc = "begun", !.waits = w]
  OBVIOUS
<1>6. r \in CallType /\ CallFits(r) /\ call' = [call EXCEPT ![c] = r]
  BY <1>1, <1>2, <1>4, <1>5 DEF CallType, CallFits, Starts, Shapes, CallsFit
<1>7. CallsFit' /\ \A d \in Calls : call'[d] = IF d = c THEN r ELSE call[d]
  BY <1>6, CallGoesOn DEF Shapes
<1>8. WatchersFit'
  BY <1>2, <1>3, <1>4 DEF Shapes, WatchersFit, WatcherType, On
<1>9. StoresFit'
  BY DEF Create, Shapes, StoresFit, durable
<1>10. PageFits'
  BY DEF Create, Shapes, PageFits, settings, page
<1>11. BackendFits'
  BY <1>2, <1>3, <1>5, <1>7 DEF Create, Shapes, BackendFits, On, Chains
<1> QED BY <1>7, <1>8, <1>9, <1>10, <1>11 DEF Shapes

LEMMA PlaceIsStore ==
  ASSUME Shapes, NEW kind \in Stores PROVE PlaceOf(kind) \in Stores
BY DEF Shapes, BackendFits, On, PlaceOf

LEMMA WithoutFits ==
  ASSUME Shapes, NEW kind \in Stores, NEW gone, gone \subseteq store[PlaceOf(kind)],
         NEW forgotten, store' = Without(gone, kind), stranded' = Stranding(gone, kind, forgotten)
  PROVE  /\ store' \in [Stores -> SUBSET Increments]
         /\ \A k \in Stores : IsFiniteSet(store'[k])
         /\ \A k \in Stores : store'[k] = IF k = PlaceOf(kind) THEN store[k] \ gone ELSE store[k]
         /\ stranded' \subseteq Chains
<1>1. PlaceOf(kind) \in Stores /\ store \in [Stores -> SUBSET Increments]
  BY PlaceIsStore DEF Shapes, StoresFit
<1>2. \A k \in Stores : store'[k] = IF k = PlaceOf(kind) THEN store[k] \ gone ELSE store[k]
  BY <1>1 DEF Without
<1>3. store' \in [Stores -> SUBSET Increments]
  BY <1>1 DEF Without
<1>4. ASSUME NEW k \in Stores PROVE IsFiniteSet(store'[k])
  <2>1. store'[k] \in SUBSET store[k]
    BY <1>2
  <2>2. IsFiniteSet(store[k])
    BY DEF Shapes, StoresFit
  <2> QED BY <2>1, <2>2, FS_Subset
<1>5. stranded' \subseteq Chains
  <2>1. \A i \in gone : i.list \in Lists
    BY <1>1 DEF Increments
  <2>2. stranded \subseteq Chains
    BY DEF Shapes, BackendFits, On
  <2>3. stranded' \subseteq stranded \cup {<<PlaceOf(kind), l>> : l \in {i.list : i \in gone}}
    BY DEF Stranding
  <2> QED BY <1>1, <2>1, <2>2, <2>3 DEF Chains
<1> QED BY <1>2, <1>3, <1>4, <1>5

LEMMA RemoveKeepsShapes == ASSUME Shapes, NEW c \in Calls, Remove(c) PROVE Shapes'
<1>1. call[c] \in CallType /\ CallFits(call[c]) /\ call[c].pc = "remove"
  BY DEF Shapes, CallsFit, Remove
<1>2. call[c].kind \in Stores /\ open \in Lists
  BY <1>1 DEF CallFits, Shapes, PageFits
<1>3. PICK gone \in SUBSET Asked(c) :
        store' = Without(gone, call[c].kind) /\ stranded' = Stranding(gone, call[c].kind, TRUE)
  BY DEF Remove
<1>4. gone \subseteq store[PlaceOf(call[c].kind)]
  BY DEF Asked
<1>5. /\ store' \in [Stores -> SUBSET Increments]
      /\ \A k \in Stores : IsFiniteSet(store'[k])
      /\ stranded' \subseteq Chains
  BY <1>2, <1>3, <1>4, WithoutFits
<1>6. memory' \in [Chains -> (SUBSET Entries) \cup {None}] /\ log' = log
  BY DEF Remove, Forget, Shapes, StoresFit
<1>7. StoresFit'
  BY <1>5, <1>6 DEF Shapes, StoresFit
<1>8. WatchersFit'
  BY DEF Remove, Shapes, WatchersFit, module, On
<1>9. UNCHANGED <<page, settings, overlapped, failed, backend, watcher>>
  BY DEF Remove, module
<1>10. CASE enabled
  <2>1. PICK r : r = Start("again", open)
    OBVIOUS
  <2>2. call' = [call EXCEPT ![c] = r] /\ busy' = busy
    BY <1>10, <2>1 DEF Remove
  <2>3. Begins(r)
    BY <1>2, <2>1, StartIs DEF Starts, Shapes
  <2>4. CallsFit' /\ \A d \in Calls : call'[d] = IF d = c THEN r ELSE call[d]
    BY <2>2, <2>3, CallGoesOn DEF Shapes, Begins
  <2>5. PageFits'
    BY <1>9, <2>2 DEF Shapes, PageFits, page, settings
  <2>6. BackendFits'
    BY <1>5, <1>9, <2>3, <2>4 DEF Shapes, BackendFits, On, Begins
  <2> QED BY <1>7, <1>8, <2>4, <2>5, <2>6 DEF Shapes
<1>11. CASE ~ enabled
  <2>1. Ends(c)
    BY <1>11 DEF Remove
  <2>2. CallsFit' /\ busy' \in BOOLEAN /\ \A d \in Calls : call'[d] = IF d = c THEN NoCall ELSE call[d]
    BY <2>1, EndsFits
  <2>3. PageFits'
    BY <1>9, <2>2 DEF Shapes, PageFits, page, settings
  <2>4. BackendFits'
    BY <1>5, <1>9, <2>2 DEF Shapes, BackendFits, On, NoCall
  <2> QED BY <1>7, <1>8, <2>2, <2>3, <2>4 DEF Shapes
<1> QED BY <1>10, <1>11

LEMMA RemoveThrowsKeepsShapes == ASSUME Shapes, NEW c \in Calls, RemoveThrows(c) PROVE Shapes'
<1>1. call[c] \in CallType /\ CallFits(call[c]) /\ call[c].pc = "remove"
  BY DEF Shapes, CallsFit, RemoveThrows
<1>2. call[c].kind \in Stores
  BY <1>1 DEF CallFits
<1>3. PICK gone \in SUBSET Asked(c) :
        store' = Without(gone, call[c].kind) /\ stranded' = Stranding(gone, call[c].kind, FALSE)
  BY DEF RemoveThrows
<1>4. gone \subseteq store[PlaceOf(call[c].kind)]
  BY DEF Asked
<1>5. /\ store' \in [Stores -> SUBSET Increments]
      /\ \A k \in Stores : IsFiniteSet(store'[k])
      /\ stranded' \subseteq Chains
  BY <1>2, <1>3, <1>4, WithoutFits
<1>6. UNCHANGED <<memory, log, page, settings, module, overlapped>> /\ failed' = TRUE /\ Ends(c)
  BY DEF RemoveThrows
<1>7. StoresFit'
  BY <1>5, <1>6 DEF Shapes, StoresFit
<1>8. WatchersFit'
  BY <1>6 DEF Shapes, WatchersFit, module, On
<1>9. CallsFit' /\ busy' \in BOOLEAN /\ \A d \in Calls : call'[d] = IF d = c THEN NoCall ELSE call[d]
  BY <1>6, EndsFits
<1>10. PageFits'
  BY <1>6, <1>9 DEF Shapes, PageFits, page, settings
<1>11. BackendFits'
  BY <1>5, <1>6, <1>9 DEF Shapes, BackendFits, On, NoCall, module
<1> QED BY <1>7, <1>8, <1>9, <1>10, <1>11 DEF Shapes

LEMMA ReadIsThere ==
  ASSUME Shapes, NEW c \in Calls, call[c].pc = "join", NEW read \in Readable(c)
  PROVE  /\ call[c] \in CallType /\ CallFits(call[c])
         /\ call[c].list \in Lists /\ PlaceOf(call[c].kind) \in Stores
         /\ read \subseteq store[PlaceOf(call[c].kind)]
         /\ \A m : Back(read, m) \subseteq Entries
<1>1. call[c] \in CallType /\ CallFits(call[c])
  BY DEF Shapes, CallsFit
<1>2. call[c].list \in Lists /\ PlaceOf(call[c].kind) \in Stores
  BY <1>1, PlaceIsStore DEF CallFits
<1>3. read \subseteq store[PlaceOf(call[c].kind)]
  BY DEF Readable, Filed
<1>4. read \subseteq Increments
  BY <1>2, <1>3 DEF Shapes, StoresFit
<1>5. \A m : Back(read, m) \subseteq Entries
  BY <1>4 DEF Back, Increments
<1> QED BY <1>1, <1>2, <1>3, <1>5

LEMMA TakenFits ==
  ASSUME Shapes, NEW c \in Calls, call[c].pc = "join", NEW read \in Readable(c),
         NEW copied \in SUBSET Copies(read, call[c].list)
  PROVE  Taken(read, call[c].list, copied) \in [Lists -> SUBSET Entries]
<1>1. Joined(read) \in [Lists -> SUBSET Entries]
  BY ReadIsThere DEF Joined, Shapes, StoresFit
<1>2. \A i \in read : i.list \in Lists
  BY ReadIsThere DEF Shapes, StoresFit, Increments
<1>3. Copies(read, call[c].list) \subseteq Entries
  BY <1>1, <1>2 DEF Copies
<1> QED BY <1>1, <1>3 DEF Taken

LEMMA JoinKeepsShapes == ASSUME Shapes, NEW c \in Calls, Join(c) PROVE Shapes'
<1>1. PICK read \in Readable(c) :
        /\ log' = Taken(read, call[c].list, Copies(read, call[c].list))
        /\ call' = [call EXCEPT ![c].pc = "rebase", ![c].kind = PlaceOf(call[c].kind),
                                ![c].back = Back(read, call[c].list)]
  BY DEF Join
<1>2. call[c].pc = "join"
  BY DEF Join
<1>3. log' \in [Lists -> SUBSET Entries]
  BY <1>1, <1>2, TakenFits
<1>4. PICK r : r = [call[c] EXCEPT !.pc = "rebase", !.kind = PlaceOf(call[c].kind),
                                   !.back = Back(read, call[c].list)]
  OBVIOUS
<1>5. r \in CallType /\ CallFits(r) /\ call' = [call EXCEPT ![c] = r]
  <2>1. /\ call[c] \in CallType /\ CallFits(call[c]) /\ call[c].list \in Lists
        /\ PlaceOf(call[c].kind) \in Stores /\ Back(read, call[c].list) \subseteq Entries
    BY <1>2, ReadIsThere
  <2> QED BY <1>1, <1>2, <1>4, <2>1 DEF CallType, CallFits, Starts, Shapes, CallsFit
<1>6. CallsFit' /\ \A d \in Calls : call'[d] = IF d = c THEN r ELSE call[d]
  BY <1>5, CallGoesOn DEF Shapes
<1>7. WatchersFit'
  BY DEF Join, Shapes, WatchersFit, module, On
<1>8. StoresFit'
  BY <1>3 DEF Join, Shapes, StoresFit
<1>9. PageFits'
  BY DEF Join, Shapes, PageFits, page, settings
<1>10. BackendFits'
  <2>1. r.pc # "create"
    BY <1>2, <1>4, ReadIsThere DEF CallType
  <2> QED BY <1>6, <2>1 DEF Join, Shapes, BackendFits, On, module
<1> QED BY <1>6, <1>7, <1>8, <1>9, <1>10 DEF Shapes

LEMMA RestoreFailsKeepsShapes ==
  ASSUME Shapes, NEW c \in Calls, RestoreFails(c) PROVE Shapes'
<1>0. PICK read \in Readable(c) :
        \E copied \in SUBSET Copies(read, call[c].list) : log' = Taken(read, call[c].list, copied)
  BY DEF RestoreFails
<1>1. PICK copied \in SUBSET Copies(read, call[c].list) : log' = Taken(read, call[c].list, copied)
  BY <1>0
<1>2. call[c].pc = "join" /\ Ends(c)
  BY DEF RestoreFails
<1>3. log' \in [Lists -> SUBSET Entries]
  BY <1>1, <1>2, TakenFits
<1>4. CallsFit' /\ busy' \in BOOLEAN /\ \A d \in Calls : call'[d] = IF d = c THEN NoCall ELSE call[d]
  BY <1>2, EndsFits
<1>5. WatchersFit'
  BY DEF RestoreFails, Shapes, WatchersFit, module, On
<1>6. StoresFit'
  BY <1>3 DEF RestoreFails, Shapes, StoresFit
<1>7. PageFits'
  BY <1>4 DEF RestoreFails, Shapes, PageFits, page, settings
<1>8. BackendFits'
  BY <1>4 DEF RestoreFails, Shapes, BackendFits, On, module, NoCall
<1> QED BY <1>4, <1>5, <1>6, <1>7, <1>8 DEF Shapes

LEMMA RebaseKeepsShapes == ASSUME Shapes, NEW c \in Calls, Rebase(c) PROVE Shapes'
<1>1. /\ Ends(c)
      /\ UNCHANGED <<log, store, settings, page, live, backend, overlapped, failed>>
  BY DEF Rebase
<1>2. CallsFit' /\ busy' \in BOOLEAN /\ \A d \in Calls : call'[d] = IF d = c THEN NoCall ELSE call[d]
  BY <1>1, EndsFits
<1>3. PageFits'
  BY <1>1, <1>2 DEF Shapes, PageFits, page, settings
<1>4. CASE live = None
  <2>1. UNCHANGED <<watcher, memory, stranded>>
    BY <1>4 DEF Rebase
  <2>2. WatchersFit'
    BY <1>1, <2>1 DEF Shapes, WatchersFit, On
  <2>3. StoresFit'
    BY <1>1, <2>1 DEF Shapes, StoresFit
  <2>4. BackendFits'
    BY <1>1, <1>2, <2>1 DEF Shapes, BackendFits, On, NoCall
  <2> QED BY <1>2, <1>3, <2>2, <2>3, <2>4 DEF Shapes
<1>5. CASE live # None
  <2>1. /\ watcher' = [watcher EXCEPT ![live].shipped = log[watcher[live].list]]
        /\ memory' = [memory EXCEPT ![Chain(live)] = log[watcher[live].list]]
        /\ stranded' \in {stranded, stranded \cup {Chain(live)}}
    BY <1>5 DEF Rebase
  <2>2. /\ live \in Watchers /\ watcher[live].list \in Lists /\ watcher[live].kind \in Stores
        /\ watcher[live].store \in Stores /\ On(live)
    BY <1>5 DEF Shapes, WatchersFit
  <2>3. log[watcher[live].list] \in SUBSET Entries /\ Chain(live) \in Chains
    BY <2>2 DEF Shapes, StoresFit, Chain, Chains
  <2>4. WatchersFit'
    BY <1>1, <2>1, <2>2, <2>3 DEF Shapes, WatchersFit, WatcherType, On
  <2>5. StoresFit'
    BY <1>1, <2>1, <2>3 DEF Shapes, StoresFit
  <2>6. BackendFits'
    BY <1>1, <1>2, <2>1, <2>2, <2>3 DEF Shapes, BackendFits, On, NoCall
  <2> QED BY <1>2, <1>3, <2>4, <2>5, <2>6 DEF Shapes
<1> QED BY <1>4, <1>5

LEMMA ReachIsThere ==
  ASSUME Shapes, NEW l \in Lists, backend.kind \in Stores
  PROVE  \/ FromStore(l) = {}
         \/ \E i \in store[backend.kind] : i.list = l /\ FromStore(l) = i.reach
<1> DEFINE place == IF chosen \in Direct THEN chosen ELSE backend.kind
           listed == Filed(place, open)
<1>1. CASE place = backend.kind /\ listed # {} /\ Newest(listed).list = l
  <2>1. FromStore(l) = Newest(listed).reach
    BY <1>1 DEF FromStore
  <2>2. listed \in SUBSET store[backend.kind]
    BY <1>1 DEF Filed
  <2> HIDE DEF place, listed
  <2>3. Newest(listed) \in listed
    BY <1>1, <2>2, NewestIsThere DEF Shapes
  <2> QED BY <1>1, <2>1, <2>2, <2>3
<1>2. CASE ~ (place = backend.kind /\ listed # {} /\ Newest(listed).list = l)
  BY <1>2 DEF FromStore
<1> QED BY <1>1, <1>2

LEMMA ReachIsEntries ==
  ASSUME Shapes, NEW l \in Lists, backend.kind \in Stores PROVE FromStore(l) \subseteq Entries
<1>1. \A i \in store[backend.kind] : i.reach \subseteq Entries
  BY DEF Shapes, StoresFit, Increments
<1> QED BY <1>1, ReachIsThere

LEMMA LoadKeepsShapes == ASSUME Shapes, NEW w \in Watchers, Load(w) PROVE Shapes'
<1>1. On(w) /\ watcher[w].list \in Lists /\ watcher[w].kind \in Stores /\ backend.kind \in Stores
  BY DEF Load, Shapes, WatchersFit, BackendFits, On
<1>2. Chain(w) \in Chains
  BY <1>1 DEF Chain, Chains
<1> DEFINE remembered == memory[Chain(w)] # None
           known == IF remembered THEN {memory[Chain(w)]} ELSE {FromStore(watcher[w].list), {}}
<1>3. PICK s \in known :
        watcher' = [watcher EXCEPT ![w].phase = "on", ![w].shipped = s]
  BY DEF Load
<1>4. s \in SUBSET Entries
  <2>1. memory[Chain(w)] \in (SUBSET Entries) \cup {None}
    BY <1>2 DEF Shapes, StoresFit
  <2>2. FromStore(watcher[w].list) \subseteq Entries
    BY <1>1, ReachIsEntries
  <2> QED BY <2>1, <2>2
<1>5. CallsFit'
  BY DEF Load, Shapes, CallsFit
<1>6. WatchersFit'
  <2>1. watcher' \in [Watchers -> WatcherType]
    <3> HIDE DEF known, remembered
    <3>1. watcher[w] \in WatcherType /\ watcher \in [Watchers -> WatcherType]
      BY DEF Shapes, WatchersFit
    <3>2. [watcher[w] EXCEPT !.phase = "on", !.shipped = s] \in WatcherType
      BY <1>4, <3>1 DEF WatcherType
    <3>3. watcher' = [watcher EXCEPT ![w] = [watcher[w] EXCEPT !.phase = "on", !.shipped = s]]
      BY <1>3, <3>1
    <3> QED BY <3>1, <3>2, <3>3
  <2>2. live' = live
    BY DEF Load
  <2>3. \A v \in Watchers : /\ watcher'[v].phase # "off" <=> watcher[v].phase # "off"
                            /\ watcher'[v].list = watcher[v].list
                            /\ watcher'[v].kind = watcher[v].kind
                            /\ watcher'[v].store = watcher[v].store
                            /\ watcher'[v].under = watcher[v].under
    BY <1>1, <1>3 DEF Shapes, WatchersFit, WatcherType, On
  <2>4. live \in Watchers \cup {None} /\ (live # None => watcher[live].phase # "off")
    BY DEF Shapes, WatchersFit, On
  <2>5. ASSUME NEW v \in Watchers, On(v)'
        PROVE  /\ watcher'[v].list \in Lists /\ watcher'[v].under \in Lists
               /\ watcher'[v].kind \in Stores /\ watcher'[v].store \in Stores
    BY <2>3, <2>5 DEF Shapes, WatchersFit, On
  <2>6. live' # None => watcher'[live'].phase # "off"
    BY <2>2, <2>3, <2>4
  <2> QED BY <2>1, <2>2, <2>4, <2>5, <2>6 DEF WatchersFit, On
<1>7. StoresFit'
  BY DEF Load, Shapes, StoresFit, durable
<1>8. PageFits'
  <2>1. busy' \in BOOLEAN
    BY Zenon DEF Load, Shapes, PageFits
  <2>2. UNCHANGED <<settings, page, overlapped, failed>>
    BY DEF Load
  <2> QED BY <2>1, <2>2 DEF Shapes, PageFits, settings, page
<1>9. BackendFits'
  BY <1>1, <1>2, <1>3 DEF Load, Shapes, BackendFits, WatchersFit, On
<1> QED BY <1>5, <1>6, <1>7, <1>8, <1>9 DEF Shapes

\* The increment a flush writes.
Increment(w) ==
  [list |-> watcher[w].list, under |-> watcher[w].under, at |-> NextAt(watcher[w].store),
   has |-> Pending(w), reach |-> log[watcher[w].list]]

LEMMA ShipWrites ==
  ASSUME Shapes, NEW w \in Watchers, Ship(w)
  PROVE  /\ On(w) /\ watcher[w].list \in Lists /\ watcher[w].kind \in Stores
         /\ watcher[w].store \in Stores /\ Chain(w) \in Chains
         /\ Increment(w) \in Increments
         /\ store' = [store EXCEPT ![watcher[w].store] = @ \cup {Increment(w)}]
         /\ watcher' = [watcher EXCEPT ![w].shipped = log[watcher[w].list]]
         /\ memory' = [memory EXCEPT ![Chain(w)] = log[watcher[w].list]]
<1>1. /\ On(w) /\ watcher[w].list \in Lists /\ watcher[w].kind \in Stores
      /\ watcher[w].store \in Stores /\ watcher[w].under \in Lists
  BY DEF Ship, Shapes, WatchersFit, On
<1>2. Chain(w) \in Chains
  BY <1>1 DEF Chain, Chains
<1>3. NextAt(watcher[w].store) \in Nat
  BY <1>1, NextAtIsNat DEF Shapes
<1>4. log[watcher[w].list] \subseteq Entries /\ Pending(w) \subseteq Entries
  BY <1>1 DEF Shapes, StoresFit, Pending
<1>5. Increment(w) \in Increments
  BY <1>1, <1>3, <1>4 DEF Increment, Increments
<1>6. /\ store' = [store EXCEPT ![watcher[w].store] = @ \cup {Increment(w)}]
      /\ watcher' = [watcher EXCEPT ![w].shipped = log[watcher[w].list]]
      /\ memory' = [memory EXCEPT ![Chain(w)] = log[watcher[w].list]]
  BY DEF Ship, Increment
<1> QED BY <1>1, <1>2, <1>5, <1>6

LEMMA ShipKeepsShapes == ASSUME Shapes, NEW w \in Watchers, Ship(w) PROVE Shapes'
<1>1. /\ UNCHANGED <<log, settings, page, busy, live, backend, call, stranded, overlapped, failed>>
      /\ log[watcher[w].list] \in SUBSET Entries
  BY ShipWrites DEF Ship, Shapes, StoresFit
<1>2. CallsFit'
  BY <1>1 DEF Shapes, CallsFit
<1>3. WatchersFit'
  BY <1>1, ShipWrites DEF Shapes, WatchersFit, WatcherType, On
<1>4. StoresFit'
  <2>1. store' \in [Stores -> SUBSET Increments]
    BY ShipWrites DEF Shapes, StoresFit
  <2>2. memory' \in [Chains -> (SUBSET Entries) \cup {None}]
    BY <1>1, ShipWrites DEF Shapes, StoresFit
  <2>3. ASSUME NEW k \in Stores PROVE IsFiniteSet(store'[k])
    <3>1. store'[k] \in {store[k], store[k] \cup {Increment(w)}} /\ IsFiniteSet(store[k])
      BY ShipWrites DEF Shapes, StoresFit
    <3> QED BY <3>1, FS_AddElement
  <2> QED BY <1>1, <2>1, <2>2, <2>3 DEF Shapes, StoresFit
<1>5. PageFits'
  BY <1>1 DEF Shapes, PageFits, settings, page
<1>6. BackendFits'
  <2>1. \A v \in Watchers : On(v)' => On(v)
    BY ShipWrites DEF Shapes, WatchersFit, On
  <2> QED BY <1>1, <2>1 DEF Shapes, BackendFits, On
<1> QED BY <1>2, <1>3, <1>4, <1>5, <1>6 DEF Shapes

LEMMA NextShapes == ASSUME Shapes, [Next]_vars PROVE Shapes'
<1>1. CASE UNCHANGED vars
  <2>1. PageFits'
    BY <1>1 DEF Shapes, PageFits, vars, settings, page
  <2> QED BY <1>1, <2>1, PageKeepsShapes DEF vars
<1>2. ASSUME NEW c \in Calls, Step(c) PROVE Shapes'
  BY <1>2, StoppedKeepsShapes, BuildKeepsShapes, CreateKeepsShapes, EndingActions,
     RemoveKeepsShapes, RemoveThrowsKeepsShapes, JoinKeepsShapes, RebaseKeepsShapes,
     RestoreFailsKeepsShapes DEF Step
<1>3. CASE Next
  BY <1>2, <1>3, UnlockKeepsShapes, EnableKeepsShapes, DisableKeepsShapes, ChooseKeepsShapes,
     AskKeepsShapes, DeleteKeepsShapes, RestoreKeepsShapes, WriteKeepsShapes, SwitchKeepsShapes,
     ReloadKeepsShapes, LoadKeepsShapes, ShipKeepsShapes DEF Next
<1> QED BY <1>1, <1>3

-----------------------------------------------------------------------------
\* Chains in step

\* What a set of increments keeps of a list.
KeptIn(increments, l) ==
  UNION {i.has : i \in {j \in increments : j.list = l /\ j.under = l}}

LEMMA KeptIs ==
  ASSUME NEW k, NEW l
  PROVE  Kept(k, l) = KeptIn(store[k], l) /\ Kept(k, l)' = KeptIn(store'[k], l)
BY DEF Kept, Of, Filed, KeptIn

LEMMA OfIs ==
  ASSUME NEW k, NEW l
  PROVE  /\ Of(k, l) = {i \in store[k] : i.list = l /\ i.under = l}
         /\ Of(k, l)' = {i \in store'[k] : i.list = l /\ i.under = l}
BY DEF Of, Filed

LEMMA StoreStays ==
  ASSUME NEW k, NEW l, store' = store
  PROVE  /\ Kept(k, l)' = Kept(k, l) /\ Of(k, l)' = Of(k, l)
         /\ FiledFits(k, l) => FiledFits(k, l)'
<1>1. Kept(k, l)' = Kept(k, l)
  BY KeptIs
<1>2. Of(k, l)' = Of(k, l)
  BY Zenon DEF Of, Filed
<1>3. FiledFits(k, l) => FiledFits(k, l)'
  BY DEF FiledFits
<1> QED BY <1>1, <1>2, <1>3

LEMMA KeptInGrows ==
  ASSUME NEW s, NEW t, s \subseteq t, NEW l PROVE KeptIn(s, l) \subseteq KeptIn(t, l)
BY DEF KeptIn

LEMMA HasIsKept ==
  ASSUME NEW s, NEW i \in s, i.under = i.list PROVE i.has \subseteq KeptIn(s, i.list)
BY DEF KeptIn

\* The store, the memory and the reading of restores stay, and no watcher
\* counts on more.
LEMMA OthersStayInStep ==
  ASSUME AllInStep, UNCHANGED <<store, memory>>, stranded \subseteq stranded',
         \A w \in Watchers : watcher'[w] = watcher[w] \/ watcher'[w].phase = "off",
         \A c \in Calls : call'[c] = call[c] \/ call'[c].pc # "rebase"
  PROVE  AllInStep'
<1> SUFFICES ASSUME NEW k \in Stores, NEW l \in Lists, <<k, l>> \notin stranded'
             PROVE  InStep(k, l)'
  BY DEF AllInStep
<1>1. InStep(k, l)
  BY DEF AllInStep
<1>2. Kept(k, l)' = Kept(k, l) /\ Of(k, l)' = Of(k, l) /\ FiledFits(k, l)'
  BY <1>1, StoreStays DEF InStep
<1>3. MemoryFits(k, l)'
  BY <1>1, <1>2 DEF InStep, MemoryFits
<1>4. HeadsFit(k, l)'
  BY <1>1, <1>2 DEF InStep, HeadsFit
<1>5. ShippingFits(k, l)'
  BY <1>1, <1>2 DEF InStep, ShippingFits, On
<1>6. RestoresFit(k, l)'
  BY <1>1, <1>2 DEF InStep, RestoresFit
<1> QED BY <1>2, <1>3, <1>4, <1>5, <1>6 DEF InStep

LEMMA InitInStep == Init => AllInStep
<1> SUFFICES ASSUME Init, NEW k \in Stores, NEW l \in Lists PROVE InStep(k, l)
  BY DEF AllInStep
<1>1. MemoryFits(k, l)
  BY DEF Init, MemoryFits, Chains
<1>2. FiledFits(k, l) /\ HeadsFit(k, l)
  BY DEF Init, FiledFits, HeadsFit, Of, Filed
<1>3. ShippingFits(k, l)
  BY DEF Init, ShippingFits, On, NoWatcher
<1>4. RestoresFit(k, l)
  BY DEF Init, RestoresFit, NoCall
<1> QED BY <1>1, <1>2, <1>3, <1>4 DEF InStep

LEMMA PageStaysInStep ==
  ASSUME AllInStep, UNCHANGED <<store, memory, watcher, call, stranded>>
  PROVE  AllInStep'
BY OthersStayInStep

\* A call that ends counts on nothing any more.
LEMMA EndingStaysInStep ==
  ASSUME Shapes, AllInStep, NEW c \in Calls, Ends(c),
         UNCHANGED <<store, memory, watcher, stranded>>
  PROVE  AllInStep'
<1>1. \A d \in Calls : call'[d] = call[d] \/ call'[d].pc # "rebase"
  BY EndsFits DEF NoCall
<1> QED BY <1>1, OthersStayInStep

LEMMA StoppedStaysInStep ==
  ASSUME Shapes, AllInStep, NEW c \in Calls, Stopped(c) PROVE AllInStep'
<1>1. \A d \in Calls : call'[d] = call[d] \/ call'[d].pc # "rebase"
  BY WentOnIs DEF Shapes, CallsFit
<1>2. \A w \in Watchers : watcher'[w] = watcher[w] \/ watcher'[w].phase = "off"
  BY DEF Stopped, Shapes, WatchersFit, NoWatcher
<1>3. UNCHANGED <<store, memory, stranded>>
  BY DEF Stopped, durable
<1> QED BY <1>1, <1>2, <1>3, OthersStayInStep

LEMMA BuildStaysInStep ==
  ASSUME Shapes, AllInStep, NEW c \in Calls, Build(c) PROVE AllInStep'
<1>1. \A d \in Calls : call'[d] = call[d] \/ call'[d].pc # "rebase"
  BY DEF Build, Shapes, CallsFit, CallType
<1>2. UNCHANGED <<store, memory, watcher, stranded>>
  BY DEF Build, durable
<1> QED BY <1>1, <1>2, OthersStayInStep

\* The new watcher ships where it remembers, or two chains are out of step.
LEMMA CreateStaysInStep ==
  ASSUME Shapes, AllInStep, NEW c \in Calls, Create(c) PROVE AllInStep'
<1>1. \A d \in Calls : call'[d] = call[d] \/ call'[d].pc # "rebase"
  BY DEF Create, Shapes, CallsFit, CallType
<1>2. PICK w \in Watchers :
        watcher' = [watcher EXCEPT ![w] =
             [phase |-> "loading", list |-> call[c].list, kind |-> call[c].kind,
              store |-> backend.kind,
              under |-> IF backend.ref = None THEN call[c].list ELSE backend.ref,
              shipped |-> {}]]
  BY DEF Create
<1>3. /\ UNCHANGED <<store, memory>>
      /\ stranded' = IF backend = Driver(call[c].kind, call[c].list) THEN stranded
                     ELSE stranded \cup {call[c].kind, backend.kind} \X {call[c].list}
  BY DEF Create, durable
<1> SUFFICES ASSUME NEW k \in Stores, NEW l \in Lists, <<k, l>> \notin stranded'
             PROVE  InStep(k, l)'
  BY DEF AllInStep
<1>4. InStep(k, l)
  BY <1>3 DEF AllInStep
<1>5. Kept(k, l)' = Kept(k, l) /\ Of(k, l)' = Of(k, l) /\ FiledFits(k, l)'
  <2>1. store' = store
    BY <1>3
  <2> QED BY <1>4, <2>1, StoreStays DEF InStep
<1>6. MemoryFits(k, l)'
  BY <1>3, <1>4, <1>5 DEF InStep, MemoryFits
<1>7. HeadsFit(k, l)'
  BY <1>4, <1>5 DEF InStep, HeadsFit
<1>8. ShippingFits(k, l)'
  <2> SUFFICES ASSUME NEW v \in Watchers, watcher'[v].phase # "off", watcher'[v].list = l
               PROVE  /\ watcher'[v].kind = k => watcher'[v].shipped \subseteq Kept(k, l)
                      /\ watcher'[v].kind = k <=> watcher'[v].store = k
                      /\ watcher'[v].store = k => watcher'[v].under = l
    BY <1>5 DEF ShippingFits, On
  <2>1. CASE v # w
    <3>1. watcher'[v] = watcher[v]
      BY <1>2, <2>1 DEF Shapes, WatchersFit
    <3> QED BY <1>4, <3>1 DEF InStep, ShippingFits, On
  <2>2. CASE v = w
    <3>1. /\ watcher'[v].list = call[c].list /\ watcher'[v].kind = call[c].kind
          /\ watcher'[v].store = backend.kind /\ watcher'[v].shipped = {}
          /\ watcher'[v].under = IF backend.ref = None THEN call[c].list ELSE backend.ref
      BY <1>2, <2>2 DEF Shapes, WatchersFit
    <3>2. CASE backend = Driver(call[c].kind, call[c].list)
      <4>1. backend.kind = call[c].kind /\ backend.ref \in {None, call[c].list}
        BY <3>2 DEF Driver
      <4> QED BY <3>1, <4>1
    <3>3. CASE backend # Driver(call[c].kind, call[c].list)
      <4>1. k # call[c].kind /\ k # backend.kind
        BY <1>3, <3>1, <3>3
      <4> QED BY <3>1, <4>1
    <3> QED BY <3>2, <3>3
  <2> QED BY <2>1, <2>2
<1>9. RestoresFit(k, l)'
  BY <1>1, <1>4, <1>5 DEF InStep, RestoresFit
<1> QED BY <1>5, <1>6, <1>7, <1>8, <1>9 DEF InStep

\* A watcher that remembers goes on from there, one that does not from what the
\* increments reach, or from nothing.
LEMMA LoadStaysInStep ==
  ASSUME Shapes, AllInStep, NEW w \in Watchers, Load(w) PROVE AllInStep'
<1> DEFINE remembered == memory[Chain(w)] # None
           known == IF remembered THEN {memory[Chain(w)]} ELSE {FromStore(watcher[w].list), {}}
<1>1. PICK s \in known :
        watcher' = [watcher EXCEPT ![w].phase = "on", ![w].shipped = s]
  BY DEF Load
<1>2. /\ UNCHANGED <<store, memory>> /\ call' = call /\ stranded \subseteq stranded'
      /\ remembered \/ backend.kind = watcher[w].kind \/ Chain(w) \in stranded'
  BY DEF Load, durable
<1>3. On(w) /\ backend.kind \in Stores
  BY DEF Load, On, Shapes, BackendFits
<1> SUFFICES ASSUME NEW k \in Stores, NEW l \in Lists, <<k, l>> \notin stranded'
             PROVE  InStep(k, l)'
  BY DEF AllInStep
<1>4. InStep(k, l)
  BY <1>2 DEF AllInStep
<1>5. Kept(k, l)' = Kept(k, l) /\ Of(k, l)' = Of(k, l) /\ FiledFits(k, l)'
  <2>1. store' = store
    BY <1>2
  <2> QED BY <1>4, <2>1, StoreStays DEF InStep
<1>6. MemoryFits(k, l)'
  <2>1. memory' = memory
    BY <1>2
  <2> QED BY <1>4, <1>5, <2>1 DEF InStep, MemoryFits
<1>7. HeadsFit(k, l)'
  BY <1>4, <1>5 DEF InStep, HeadsFit
<1>8. ShippingFits(k, l)'
  <2> SUFFICES ASSUME NEW v \in Watchers, watcher'[v].phase # "off", watcher'[v].list = l
               PROVE  /\ watcher'[v].kind = k => watcher'[v].shipped \subseteq Kept(k, l)
                      /\ watcher'[v].kind = k <=> watcher'[v].store = k
                      /\ watcher'[v].store = k => watcher'[v].under = l
    BY <1>5 DEF ShippingFits, On
  <2>1. CASE v # w
    <3>1. watcher'[v] = watcher[v]
      BY <1>1, <2>1 DEF Shapes, WatchersFit
    <3> QED BY <1>4, <3>1 DEF InStep, ShippingFits, On
  <2>2. CASE v = w
    <3>1. /\ watcher'[v].list = watcher[w].list /\ watcher'[v].kind = watcher[w].kind
          /\ watcher'[v].store = watcher[w].store /\ watcher'[v].shipped = s
          /\ watcher'[v].under = watcher[w].under
      BY <1>1, <2>2 DEF Shapes, WatchersFit, WatcherType
    <3>2. /\ watcher[w].kind = k <=> watcher[w].store = k
          /\ watcher[w].store = k => watcher[w].under = l
      BY <1>3, <1>4, <3>1 DEF InStep, ShippingFits
    <3>3. ASSUME watcher[w].kind = k PROVE s \subseteq Kept(k, l)
      <4>1. Chain(w) = <<k, l>>
        BY <3>1, <3>3 DEF Chain
      <4>2. CASE remembered
        BY <1>1, <1>4, <4>1, <4>2 DEF InStep, MemoryFits
      <4>3. CASE ~ remembered /\ s = FromStore(l)
        <5>1. backend.kind = k
          BY <1>2, <3>3, <4>1, <4>3
        <5>2. s = {} \/ \E i \in store[k] : i.list = l /\ s = i.reach
          BY <1>3, <4>3, <5>1, ReachIsThere
        <5>3. \A i \in store[k] : i.list = l => i \in Of(k, l)
          BY <1>4, OfIs DEF InStep, FiledFits
        <5> QED BY <1>4, <5>2, <5>3 DEF InStep, HeadsFit
      <4>4. CASE ~ remembered /\ s = {}
        BY <4>4
      <4> QED BY <1>1, <3>1, <4>2, <4>3, <4>4
    <3> QED BY <3>1, <3>2, <3>3
  <2> QED BY <2>1, <2>2
<1>9. RestoresFit(k, l)'
  <2>1. call' = call
    BY <1>2
  <2> QED BY <1>4, <1>5, <2>1 DEF InStep, RestoresFit
<1> QED BY <1>5, <1>6, <1>7, <1>8, <1>9 DEF InStep

\* What is shipped comes on top of what was: together the list's log.
LEMMA ShipCompletes ==
  ASSUME Shapes, AllInStep, NEW w \in Watchers, Ship(w), NEW k \in Stores,
         <<k, watcher[w].list>> \notin stranded, watcher[w].kind = k \/ watcher[w].store = k
  PROVE  /\ watcher[w].kind = k /\ watcher[w].store = k
         /\ watcher[w].under = watcher[w].list
         /\ log[watcher[w].list] \subseteq Kept(k, watcher[w].list)'
<1> DEFINE l == watcher[w].list
<1>1. On(w) /\ l \in Lists
  BY ShipWrites
<1>2. InStep(k, l)
  BY <1>1 DEF AllInStep
<1>3. /\ watcher[w].kind = k /\ watcher[w].store = k /\ watcher[w].under = l
      /\ watcher[w].shipped \subseteq Kept(k, l)
  BY <1>1, <1>2 DEF InStep, ShippingFits
<1>4. store'[k] = store[k] \cup {Increment(w)}
  BY <1>3, ShipWrites DEF Shapes, StoresFit
<1>5. Kept(k, l) \subseteq KeptIn(store'[k], l)
  <2>1. store[k] \subseteq store'[k]
    BY <1>4
  <2> QED BY <2>1, KeptIs, KeptInGrows
<1>6. Pending(w) \subseteq KeptIn(store'[k], l)
  <2>1. /\ Increment(w) \in store'[k] /\ Increment(w).has = Pending(w)
        /\ Increment(w).list = l /\ Increment(w).under = l
    BY <1>3, <1>4 DEF Increment
  <2> QED BY <2>1, HasIsKept
<1>7. log[l] \subseteq KeptIn(store'[k], l)
  BY <1>3, <1>5, <1>6 DEF Pending
<1>8. Kept(k, l)' = KeptIn(store'[k], watcher'[w].list) /\ watcher'[w].list = l
  BY KeptIs, ShipWrites DEF Shapes, WatchersFit, WatcherType
<1> QED BY <1>3, <1>7, <1>8

LEMMA ShipStaysInStep ==
  ASSUME Shapes, AllInStep, NEW w \in Watchers, Ship(w) PROVE AllInStep'
<1>1. PICK m \in Lists : m = watcher[w].list
  BY ShipWrites
<1>2. call' = call /\ stranded' = stranded
  BY DEF Ship
<1>3. /\ \A k \in Stores : store'[k] = IF k = watcher[w].store THEN store[k] \cup {Increment(w)}
                                       ELSE store[k]
      /\ Increment(w).list = m /\ Increment(w).reach = log[m]
      /\ Increment(w).under = watcher[w].under
  <2>1. /\ Increment(w).list = m /\ Increment(w).reach = log[m]
        /\ Increment(w).under = watcher[w].under
    BY <1>1 DEF Increment
  <2>2. store \in [Stores -> SUBSET Increments]
    BY DEF Shapes, StoresFit
  <2>3. store' = [store EXCEPT ![watcher[w].store] = @ \cup {Increment(w)}]
    BY ShipWrites
  <2>4. \A k \in Stores : store'[k] = IF k = watcher[w].store THEN store[k] \cup {Increment(w)}
                                       ELSE store[k]
    BY <2>2, <2>3
  <2> QED BY <2>1, <2>4
<1>4. \A v \in Watchers : watcher'[v] = IF v = w THEN [watcher[w] EXCEPT !.shipped = log[m]]
                                        ELSE watcher[v]
  BY <1>1, ShipWrites DEF Shapes, WatchersFit
<1>5. \A c \in Chains : memory'[c] = IF c = Chain(w) THEN log[m] ELSE memory[c]
  BY <1>1, ShipWrites DEF Shapes, StoresFit
<1>6. watcher[w] \in WatcherType /\ On(w)
  BY ShipWrites DEF Shapes, WatchersFit
<1> SUFFICES ASSUME NEW k \in Stores, NEW l \in Lists, <<k, l>> \notin stranded'
             PROVE  InStep(k, l)'
  BY DEF AllInStep
<1>7. InStep(k, l)
  BY <1>2 DEF AllInStep
<1>8. Kept(k, l) \subseteq Kept(k, l)'
  <2>1. store[k] \subseteq store'[k]
    BY <1>3
  <2> QED BY <2>1, KeptIs, KeptInGrows
<1>9. ASSUME l = m, watcher[w].kind = k \/ watcher[w].store = k
      PROVE  /\ watcher[w].kind = k /\ watcher[w].store = k /\ watcher[w].under = l
             /\ log[m] \subseteq Kept(k, l)'
  <2>1. <<k, watcher[w].list>> \notin stranded
    BY <1>1, <1>2, <1>9
  <2>2. /\ watcher[w].kind = k /\ watcher[w].store = k
        /\ watcher[w].under = watcher[w].list
        /\ log[watcher[w].list] \subseteq Kept(k, watcher[w].list)'
    BY <1>9, <2>1, ShipCompletes
  <2>3. Kept(k, watcher[w].list)' = KeptIn(store'[k], m) /\ Kept(k, l)' = KeptIn(store'[k], m)
    BY <1>1, <1>4, <1>6, <1>9, KeptIs DEF WatcherType
  <2> QED BY <1>1, <1>9, <2>2, <2>3
<1>10. MemoryFits(k, l)'
  <2>1. <<k, l>> \in Chains
    BY DEF Chains
  <2>2. CASE <<k, l>> = Chain(w)
    <3>1. l = m /\ watcher[w].kind = k
      BY <1>1, <2>2 DEF Chain
    <3>2. memory'[<<k, l>>] = log[m]
      BY <1>5, <2>1, <2>2
    <3> QED BY <1>9, <3>1, <3>2 DEF MemoryFits
  <2>3. CASE <<k, l>> # Chain(w)
    <3>1. memory'[<<k, l>>] = memory[<<k, l>>]
      BY <1>5, <2>1, <2>3
    <3> QED BY <1>7, <1>8, <3>1 DEF InStep, MemoryFits
  <2> QED BY <2>2, <2>3
<1>11. HeadsFit(k, l)'
  <2> SUFFICES ASSUME NEW i \in store'[k], i.list = l, i.under = l
               PROVE  i.reach \subseteq Kept(k, l)'
    BY OfIs DEF HeadsFit
  <2>1. CASE i \in store[k]
    BY <1>7, <1>8, <2>1, OfIs DEF InStep, HeadsFit
  <2>2. CASE i \notin store[k]
    <3>1. k = watcher[w].store /\ i = Increment(w)
      BY <1>3, <2>2
    <3> QED BY <1>3, <1>9, <3>1
  <2> QED BY <2>1, <2>2
<1>12. ShippingFits(k, l)'
  <2> SUFFICES ASSUME NEW v \in Watchers, watcher'[v].phase # "off", watcher'[v].list = l
               PROVE  /\ watcher'[v].kind = k => watcher'[v].shipped \subseteq Kept(k, l)'
                      /\ watcher'[v].kind = k <=> watcher'[v].store = k
                      /\ watcher'[v].store = k => watcher'[v].under = l
    BY DEF ShippingFits, On
  <2>1. CASE v # w
    <3>1. watcher'[v] = watcher[v]
      BY <1>4, <2>1
    <3> QED BY <1>7, <1>8, <3>1 DEF InStep, ShippingFits, On
  <2>2. CASE v = w
    <3>1. /\ watcher'[v].list = m /\ watcher'[v].kind = watcher[w].kind
          /\ watcher'[v].store = watcher[w].store /\ watcher'[v].shipped = log[m]
          /\ watcher'[v].under = watcher[w].under
      BY <1>1, <1>4, <1>6, <2>2 DEF WatcherType
    <3> QED BY <1>9, <3>1
  <2> QED BY <2>1, <2>2
<1>13. RestoresFit(k, l)'
  BY <1>2, <1>7, <1>8 DEF InStep, RestoresFit
<1>14. FiledFits(k, l)'
  <2> SUFFICES ASSUME NEW i \in store'[k], i.list = l PROVE i.under = l
    BY DEF FiledFits
  <2>1. CASE i \in store[k]
    BY <1>7, <2>1 DEF InStep, FiledFits
  <2>2. CASE i \notin store[k]
    <3>1. k = watcher[w].store /\ i = Increment(w)
      BY <1>3, <2>2
    <3> QED BY <1>3, <1>9, <3>1
  <2> QED BY <2>1, <2>2
<1> QED BY <1>10, <1>11, <1>12, <1>13, <1>14 DEF InStep

\* A deletion counts a chain it took something of as out of step, unless all of
\* it went and nothing goes by it any more.
LEMMA RemovalStaysInStep ==
  ASSUME Shapes, AllInStep, NEW kind \in Stores, NEW gone, gone \subseteq store[PlaceOf(kind)],
         NEW forgotten \in BOOLEAN,
         store' = Without(gone, kind), stranded' = Stranding(gone, kind, forgotten),
         memory' = IF forgotten THEN Forget(kind) ELSE memory,
         watcher' = watcher, \A c \in Calls : call'[c] = call[c] \/ call'[c].pc # "rebase"
  PROVE  AllInStep'
<1> DEFINE place == PlaceOf(kind)
           clean(l) == /\ forgotten /\ kind = place /\ l = open
                       /\ Of(place, l) \subseteq gone
                       /\ \A w \in Watchers : On(w) => Chain(w) # <<place, l>>
                       /\ \A c \in Calls : call[c].pc = "rebase" => call[c].kind # place
<1>1. stranded' = stranded \cup {<<place, l>> : l \in {m \in {i.list : i \in gone} : ~ clean(m)}}
  BY DEF Stranding
<1>2. \A k \in Stores : store'[k] = IF k = place THEN store[k] \ gone ELSE store[k]
  BY WithoutFits
<1> HIDE DEF place
<1> SUFFICES ASSUME NEW k \in Stores, NEW l \in Lists, <<k, l>> \notin stranded'
             PROVE  InStep(k, l)'
  BY DEF AllInStep
<1>3. InStep(k, l)
  BY <1>1 DEF AllInStep
<1>4. memory'[<<k, l>>] \in {memory[<<k, l>>], None}
  BY DEF Forget, Shapes, StoresFit, Chains
<1>5. FiledFits(k, l)'
  <2>1. store'[k] \subseteq store[k]
    BY <1>2
  <2> QED BY <1>3, <2>1 DEF InStep, FiledFits
<1>6. CASE k # place \/ \A i \in gone : i.list # l
  <2>1. Of(k, l)' = Of(k, l)
    <3>1. {i \in store'[k] : i.list = l /\ i.under = l}
            = {i \in store[k] : i.list = l /\ i.under = l}
      BY <1>2, <1>6
    <3>2. Of(k, l) = {i \in store[k] : i.list = l /\ i.under = l}
      BY OfIs
    <3>3. Of(k, l)' = {i \in store'[k] : i.list = l /\ i.under = l}
      BY OfIs
    <3> QED BY Zenon, <3>1, <3>2, <3>3
  <2>2. Kept(k, l)' = Kept(k, l)
    BY <2>1 DEF Kept
  <2>3. MemoryFits(k, l)'
    BY <1>3, <1>4, <2>2 DEF InStep, MemoryFits
  <2>4. HeadsFit(k, l)'
    BY <1>3, <2>1, <2>2 DEF InStep, HeadsFit
  <2>5. ShippingFits(k, l)'
    BY <1>3, <2>2 DEF InStep, ShippingFits, On
  <2>6. RestoresFit(k, l)'
    BY <1>3, <2>2 DEF InStep, RestoresFit
  <2> QED BY <1>5, <2>3, <2>4, <2>5, <2>6 DEF InStep
<1>7. CASE k = place /\ \E i \in gone : i.list = l
  <2>1. clean(l)
    BY <1>1, <1>7
  <2> HIDE DEF clean
  <2>2. Of(k, l)' = {}
    <3>1. Of(place, l) \subseteq gone
      BY <2>1 DEF clean
    <3>2. \A i \in store[k] : i.list = l /\ i.under = l => i \in gone
      BY <1>7, <3>1, OfIs
    <3>3. {i \in store'[k] : i.list = l /\ i.under = l} = {}
      BY <1>2, <1>7, <3>2
    <3> QED BY <3>3, OfIs
  <2>3. MemoryFits(k, l)'
    <3>1. forgotten /\ kind = k /\ l = open
      BY <1>7, <2>1 DEF clean
    <3>2. memory'[<<k, l>>] = None
      BY <3>1 DEF Forget, Shapes, StoresFit, Chains
    <3> QED BY <3>2 DEF MemoryFits
  <2>4. HeadsFit(k, l)'
    BY <2>2 DEF HeadsFit
  <2>5. ShippingFits(k, l)'
    <3>1. \A w \in Watchers : On(w) => Chain(w) # <<place, l>>
      BY <2>1 DEF clean
    <3>2. \A w \in Watchers : On(w) /\ watcher[w].list = l => watcher[w].kind # k
      BY <1>7, <3>1 DEF Chain
    <3> QED BY <1>3, <3>2 DEF InStep, ShippingFits, On
  <2>6. RestoresFit(k, l)'
    BY <1>7, <2>1 DEF RestoresFit, clean
  <2> QED BY <1>5, <2>3, <2>4, <2>5, <2>6 DEF InStep
<1> QED BY <1>6, <1>7

LEMMA RemoveStaysInStep ==
  ASSUME Shapes, AllInStep, NEW c \in Calls, Remove(c) \/ RemoveThrows(c) PROVE AllInStep'
<1>1. call[c] \in CallType /\ CallFits(call[c]) /\ call[c].pc = "remove"
  BY DEF Shapes, CallsFit, Remove, RemoveThrows
<1>2. PICK kind \in Stores : kind = call[c].kind
  BY <1>1 DEF CallFits
<1>3. PICK gone \in SUBSET Asked(c), forgotten \in BOOLEAN :
        /\ store' = Without(gone, kind) /\ stranded' = Stranding(gone, kind, forgotten)
        /\ memory' = IF forgotten THEN Forget(kind) ELSE memory
  <2>1. CASE Remove(c)
    BY <1>2, <2>1 DEF Remove
  <2>2. CASE RemoveThrows(c)
    BY <1>2, <2>2 DEF RemoveThrows
  <2> QED BY <2>1, <2>2
<1>4. gone \subseteq store[PlaceOf(kind)]
  BY <1>2 DEF Asked
<1>5. watcher' = watcher
  BY DEF Remove, RemoveThrows, module
<1>6. \A d \in Calls : call'[d] = call[d] \/ call'[d].pc # "rebase"
  <2>1. CASE Ends(c)
    BY <2>1, EndsFits DEF NoCall
  <2>2. CASE call' = [call EXCEPT ![c] = Start("again", open)]
    <3>1. Start("again", open).pc # "rebase"
      BY StartIs DEF Begins, Starts, Shapes, PageFits
    <3> QED BY <2>2, <3>1 DEF Shapes, CallsFit
  <2> QED BY <2>1, <2>2 DEF Remove, RemoveThrows
<1> QED BY <1>3, <1>4, <1>5, <1>6, RemovalStaysInStep

\* What a restore reads is there.
LEMMA JoinStaysInStep ==
  ASSUME Shapes, AllInStep, NEW c \in Calls, Join(c) PROVE AllInStep'
<1>1. PICK read \in Readable(c) :
        call' = [call EXCEPT ![c].pc = "rebase", ![c].kind = PlaceOf(call[c].kind),
                             ![c].back = Back(read, call[c].list)]
  BY DEF Join
<1>2. PICK m \in Lists, from \in Stores, back \in SUBSET Entries :
        m = call[c].list /\ from = PlaceOf(call[c].kind) /\ back = Back(read, call[c].list)
  BY ReadIsThere DEF Join
<1>3. UNCHANGED <<store, memory, watcher, stranded>>
  BY DEF Join, module
<1>4. read \subseteq store[from]
  BY <1>2, ReadIsThere DEF Join
<1>5. /\ \A d \in Calls : d # c => call'[d] = call[d]
      /\ call'[c].list = m /\ call'[c].kind = from /\ call'[c].back = back
  BY <1>1, <1>2 DEF Shapes, CallsFit, CallType
<1> SUFFICES ASSUME NEW k \in Stores, NEW l \in Lists, <<k, l>> \notin stranded'
             PROVE  InStep(k, l)'
  BY DEF AllInStep
<1>6. InStep(k, l)
  BY <1>3 DEF AllInStep
<1>7. Kept(k, l)' = Kept(k, l) /\ Of(k, l)' = Of(k, l) /\ FiledFits(k, l)'
  BY <1>3, <1>6, StoreStays DEF InStep
<1>8. MemoryFits(k, l)'
  BY <1>3, <1>6, <1>7 DEF InStep, MemoryFits
<1>9. HeadsFit(k, l)'
  BY <1>6, <1>7 DEF InStep, HeadsFit
<1>10. ShippingFits(k, l)'
  BY <1>3, <1>6, <1>7 DEF InStep, ShippingFits, On
<1>11. RestoresFit(k, l)'
  <2> SUFFICES ASSUME NEW d \in Calls, call'[d].pc = "rebase", call'[d].kind = k,
                      call'[d].list = l
               PROVE  call'[d].back \subseteq Kept(k, l)
    BY <1>7 DEF RestoresFit
  <2>1. CASE d = c
    <3>1. m = l /\ from = k /\ call'[d].back = back
      BY <1>5, <2>1
    <3>2. \A i \in read : i.list = l => i.under = l
      BY <1>4, <1>6, <3>1 DEF InStep, FiledFits
    <3>3. back = KeptIn(read, l)
      BY <1>2, <3>1, <3>2 DEF Back, KeptIn
    <3>4. KeptIn(read, l) \subseteq KeptIn(store[k], l)
      BY <1>4, <3>1, KeptInGrows
    <3> QED BY <3>1, <3>3, <3>4, KeptIs
  <2>2. CASE d # c
    BY <1>5, <1>6, <2>2 DEF InStep, RestoresFit
  <2> QED BY <2>1, <2>2
<1> QED BY <1>7, <1>8, <1>9, <1>10, <1>11 DEF InStep

\* A rebase counts the list's log as shipped: it is, by what was shipped and what
\* the restore has read, or the chain is out of step.
LEMMA RebaseStaysInStep ==
  ASSUME Shapes, AllInStep, NEW c \in Calls, Rebase(c) PROVE AllInStep'
<1>1. Ends(c) /\ store' = store /\ live' = live /\ call[c].pc = "rebase"
  BY DEF Rebase
<1>2. \A d \in Calls : call'[d] = call[d] \/ call'[d].pc # "rebase"
  BY <1>1, EndsFits DEF NoCall
<1>3. CASE live = None
  <2>1. UNCHANGED <<watcher, memory, stranded>>
    BY <1>3 DEF Rebase
  <2> QED BY <1>1, <1>2, <2>1, OthersStayInStep
<1>4. CASE live # None
  <2>1. PICK w \in Watchers, m \in Lists : w = live /\ m = watcher[w].list /\ On(w)
    BY <1>4 DEF Shapes, WatchersFit
  <2>2. PICK came : came = IF <<call[c].kind, call[c].list>> = Chain(w) THEN call[c].back ELSE {}
    OBVIOUS
  <2>3. /\ watcher' = [watcher EXCEPT ![w].shipped = log[m]]
        /\ memory' = [memory EXCEPT ![Chain(w)] = log[m]]
        /\ stranded' = IF log[m] \subseteq watcher[w].shipped \cup came THEN stranded
                       ELSE stranded \cup {Chain(w)}
    BY <1>4, <2>1, <2>2 DEF Rebase
  <2>4. \A v \in Watchers : watcher'[v] = IF v = w THEN [watcher[w] EXCEPT !.shipped = log[m]]
                                          ELSE watcher[v]
    BY <2>3 DEF Shapes, WatchersFit
  <2>5. \A x \in Chains : memory'[x] = IF x = Chain(w) THEN log[m] ELSE memory[x]
    BY <2>3 DEF Shapes, StoresFit
  <2>6. watcher[w] \in WatcherType
    BY DEF Shapes, WatchersFit
  <2> SUFFICES ASSUME NEW k \in Stores, NEW l \in Lists, <<k, l>> \notin stranded'
               PROVE  InStep(k, l)'
    BY DEF AllInStep
  <2>7. InStep(k, l)
    BY <2>3 DEF AllInStep
  <2>8. Kept(k, l)' = Kept(k, l) /\ Of(k, l)' = Of(k, l) /\ FiledFits(k, l)'
    BY <1>1, <2>7, StoreStays DEF InStep
  <2>9. ASSUME watcher[w].kind = k, m = l PROVE log[m] \subseteq Kept(k, l)
    <3>1. Chain(w) = <<k, l>>
      BY <2>1, <2>9 DEF Chain
    <3>2. log[m] \subseteq watcher[w].shipped \cup came
      BY <2>3, <3>1
    <3>3. watcher[w].shipped \subseteq Kept(k, l)
      BY <2>1, <2>7, <2>9 DEF InStep, ShippingFits
    <3>4. came \subseteq Kept(k, l)
      BY <1>1, <2>2, <2>7, <3>1 DEF InStep, RestoresFit
    <3> QED BY <3>2, <3>3, <3>4
  <2>10. MemoryFits(k, l)'
    <3>1. <<k, l>> \in Chains
      BY DEF Chains
    <3>2. CASE <<k, l>> = Chain(w)
      <4>1. watcher[w].kind = k /\ m = l
        BY <2>1, <3>2 DEF Chain
      <4>2. memory'[<<k, l>>] = log[m]
        BY <2>5, <3>1, <3>2
      <4> QED BY <2>8, <2>9, <4>1, <4>2 DEF MemoryFits
    <3>3. CASE <<k, l>> # Chain(w)
      <4>1. memory'[<<k, l>>] = memory[<<k, l>>]
        BY <2>5, <3>1, <3>3
      <4> QED BY <2>7, <2>8, <4>1 DEF InStep, MemoryFits
    <3> QED BY <3>2, <3>3
  <2>11. HeadsFit(k, l)'
    BY <2>7, <2>8 DEF InStep, HeadsFit
  <2>12. ShippingFits(k, l)'
    <3> SUFFICES ASSUME NEW v \in Watchers, watcher'[v].phase # "off", watcher'[v].list = l
                 PROVE  /\ watcher'[v].kind = k => watcher'[v].shipped \subseteq Kept(k, l)
                        /\ watcher'[v].kind = k <=> watcher'[v].store = k
                        /\ watcher'[v].store = k => watcher'[v].under = l
      BY <2>8 DEF ShippingFits, On
    <3>1. CASE v # w
      <4>1. watcher'[v] = watcher[v]
        BY <2>4, <3>1
      <4> QED BY <2>7, <4>1 DEF InStep, ShippingFits, On
    <3>2. CASE v = w
      <4>1. /\ watcher'[v].list = m /\ watcher'[v].kind = watcher[w].kind
            /\ watcher'[v].store = watcher[w].store /\ watcher'[v].shipped = log[m]
            /\ watcher'[v].under = watcher[w].under
        BY <2>1, <2>4, <2>6, <3>2 DEF WatcherType
      <4>2. /\ watcher[w].kind = k <=> watcher[w].store = k
            /\ watcher[w].store = k => watcher[w].under = l
        BY <2>1, <2>7, <4>1 DEF InStep, ShippingFits
      <4> QED BY <2>9, <4>1, <4>2
    <3> QED BY <3>1, <3>2
  <2>13. RestoresFit(k, l)'
    BY <1>2, <2>7, <2>8 DEF InStep, RestoresFit
  <2> QED BY <2>8, <2>10, <2>11, <2>12, <2>13 DEF InStep
<1> QED BY <1>3, <1>4

\* After a reload only the memory, if it is still there, counts as shipped.
LEMMA ReloadStaysInStep ==
  ASSUME Shapes, AllInStep, NEW wiped \in BOOLEAN, Reload(wiped) PROVE AllInStep'
<1>1. /\ store' = store /\ stranded' = stranded
      /\ memory' = memory \/ memory' = [x \in Chains |-> None]
      /\ \A w \in Watchers : watcher'[w].phase = "off"
      /\ \A c \in Calls : call'[c].pc # "rebase"
  BY DEF Reload, durable, NoWatcher, NoCall
<1> SUFFICES ASSUME NEW k \in Stores, NEW l \in Lists, <<k, l>> \notin stranded'
             PROVE  InStep(k, l)'
  BY DEF AllInStep
<1>2. InStep(k, l)
  BY <1>1 DEF AllInStep
<1>3. Kept(k, l)' = Kept(k, l) /\ Of(k, l)' = Of(k, l) /\ FiledFits(k, l)'
  <2>1. store' = store
    BY <1>1
  <2> QED BY <1>2, <2>1, StoreStays DEF InStep
<1>4. memory'[<<k, l>>] \in {memory[<<k, l>>], None}
  BY <1>1 DEF Chains
<1>5. MemoryFits(k, l)'
  BY <1>2, <1>3, <1>4 DEF InStep, MemoryFits
<1>6. HeadsFit(k, l)'
  BY <1>2, <1>3 DEF InStep, HeadsFit
<1>7. ShippingFits(k, l)'
  BY <1>1 DEF ShippingFits, On
<1>8. RestoresFit(k, l)'
  BY <1>1 DEF RestoresFit
<1> QED BY <1>3, <1>5, <1>6, <1>7, <1>8 DEF InStep

\* What the user does puts no chain out of step.
LEMMA UserStaysInStep ==
  ASSUME Shapes, AllInStep,
         \/ Unlock \/ Enable \/ Disable \/ AskDelete \/ Restore \/ Write
         \/ \E k \in Stores : ChooseBackend(k)
         \/ \E whole \in BOOLEAN : Delete(whole)
         \/ \E l \in Lists : SwitchList(l)
  PROVE  AllInStep'
<1>1. UNCHANGED <<store, memory, watcher, stranded>>
  BY DEF Unlock, Enable, Disable, AskDelete, Restore, Write, ChooseBackend, Delete, SwitchList,
         durable, module
<1>2. PageFits /\ WatchersFit /\ open \in Lists /\ chosen \in Stores
  BY DEF Shapes, PageFits
<1>3. ASSUME NEW r, r.pc # "rebase", Goes(r) PROVE AllInStep'
  <2>1. \A c \in Calls : call'[c] = call[c] \/ call'[c].pc # "rebase"
    BY <1>3 DEF Goes, Shapes, CallsFit
  <2> QED BY <1>1, <2>1, OthersStayInStep
<1>4. ASSUME NEW op \in Starts, NEW l \in Lists, Goes(Start(op, l)) PROVE AllInStep'
  <2>1. Start(op, l).pc # "rebase"
    BY <1>2, StartIs DEF Begins
  <2> QED BY <1>3, <1>4, <2>1
<1>5. ASSUME NEW r \in CallType, r.pc # "rebase", Goes(Stopping(r)) PROVE AllInStep'
  <2>1. Stopping(r).pc # "rebase"
    BY <1>5 DEF Stopping, CallType
  <2> QED BY <1>3, <1>5, <2>1
<1>6. call' = call => AllInStep'
  BY <1>1, PageStaysInStep
<1>7. CASE Unlock
  <2>1. call' = call \/ Goes(Start("unlock", open))
    BY <1>7 DEF Unlock
  <2> QED BY <1>2, <1>4, <1>6, <2>1 DEF Starts
<1>8. CASE Enable
  BY <1>2, <1>4, <1>8 DEF Enable, Starts
<1>9. CASE Disable
  <2> DEFINE new == [NoCall EXCEPT !.op = "disable", !.pc = "off"]
  <2>1. Goes(Stopping(new)) /\ new \in CallType /\ new.pc # "rebase"
    BY <1>9 DEF Disable, CallType, NoCall
  <2> HIDE DEF new
  <2> QED BY <1>5, <2>1
<1>10. CASE AskDelete \/ Write
  BY <1>6, <1>10 DEF AskDelete, Write
<1>11. CASE Restore
  <2> DEFINE new == [NoCall EXCEPT !.op = "restore", !.pc = "join", !.list = open, !.kind = chosen]
  <2>1. Goes(new) /\ new.pc # "rebase"
    BY <1>11 DEF Restore, NoCall
  <2> HIDE DEF new
  <2> QED BY <1>3, <2>1
<1>12. ASSUME NEW k \in Stores, ChooseBackend(k) PROVE AllInStep'
  <2> DEFINE new == [NoCall EXCEPT !.op = "choose", !.pc = "build", !.list = open, !.kind = k]
  <2>1. (call' = call \/ Goes(Stopping(new))) /\ new \in CallType /\ new.pc # "rebase"
    BY <1>2, <1>12 DEF ChooseBackend, CallType, NoCall
  <2> HIDE DEF new
  <2> QED BY <1>5, <1>6, <2>1
<1>13. ASSUME NEW whole \in BOOLEAN, Delete(whole) PROVE AllInStep'
  <2> DEFINE new == [NoCall EXCEPT !.op = "delete", !.pc = "remove", !.list = open,
                                   !.kind = chosen, !.whole = whole]
  <2>1. Goes(Stopping(new)) /\ new \in CallType /\ new.pc # "rebase"
    BY <1>2, <1>13 DEF Delete, CallType, NoCall
  <2> HIDE DEF new
  <2> QED BY <1>5, <2>1
<1>14. ASSUME NEW l \in Lists, SwitchList(l) PROVE AllInStep'
  <2>1. call' = call \/ Goes(Start("start", l))
    BY <1>14 DEF SwitchList
  <2> QED BY <1>4, <1>6, <2>1 DEF Starts
<1> QED BY <1>7, <1>8, <1>9, <1>10, <1>11, <1>12, <1>13, <1>14

LEMMA NextInStep == ASSUME Shapes, AllInStep, [Next]_vars PROVE AllInStep'
<1>1. CASE UNCHANGED vars
  BY <1>1, PageStaysInStep DEF vars, durable, module
<1>2. ASSUME NEW c \in Calls, Step(c) PROVE AllInStep'
  <2>1. CASE BuildFails(c) \/ Begun(c) \/ Disabled(c) \/ RestoreFails(c)
    <3>1. Ends(c) /\ UNCHANGED <<store, memory, watcher, stranded>>
      BY <2>1 DEF BuildFails, Begun, Disabled, RestoreFails, durable, module
    <3> QED BY <3>1, EndingStaysInStep
  <2> QED BY <1>2, <2>1, StoppedStaysInStep, BuildStaysInStep, CreateStaysInStep,
             RemoveStaysInStep, JoinStaysInStep, RebaseStaysInStep DEF Step
<1>3. CASE Next
  BY <1>2, <1>3, UserStaysInStep, ReloadStaysInStep, LoadStaysInStep, ShipStaysInStep DEF Next
<1> QED BY <1>1, <1>3

-----------------------------------------------------------------------------
\* One call at a time

LEMMA NoneOn ==
  ASSUME OneOn, live = None \/ ~ enabled \/ ~ keys
  PROVE  \A w \in Watchers : watcher[w].phase = "off"
BY NoneAssumption DEF OneOn, On

\* A call that begins alone begins from rest, and is the only one at work.
LEMMA GoesAlone ==
  ASSUME Shapes, Orderly, NEW r, Works(r), Goes(r), ~ overlapped'
  PROVE  /\ OneOn /\ AtRest
         /\ \E c \in Calls : \A d \in Calls : IF d = c THEN call'[d] = r ELSE ~ Works(call'[d])
<1>1. ~ overlapped /\ \A c \in Calls : ~ Works(call[c])
  BY DEF Goes, Works, AtWork
<1>2. PICK c \in Calls : call' = [call EXCEPT ![c] = r]
  BY DEF Goes
<1>3. \A d \in Calls : IF d = c THEN call'[d] = r ELSE ~ Works(call'[d])
  BY <1>1, <1>2 DEF Shapes, CallsFit
<1>4. OneOn /\ AtRest
  BY <1>1 DEF Orderly
<1> QED BY <1>3, <1>4

LEMMA WorkerAlone ==
  ASSUME NEW c \in Calls, NEW r, Works(r),
         \A d \in Calls : IF d = c THEN call'[d] = r ELSE ~ Works(call'[d]),
         OneOn', WorkFits(r)'
  PROVE  Orderly'
<1>1. \A a, b \in Calls : Works(call'[a]) /\ Works(call'[b]) => a = b
  OBVIOUS
<1>2. ~ \A d \in Calls : ~ Works(call'[d])
  OBVIOUS
<1>3. ASSUME NEW d \in Calls, Works(call'[d]) PROVE WorkFits(call[d])'
  <2>1. call'[d] = r
    BY <1>3
  <2> QED BY <2>1 DEF WorkFits
<1> QED BY <1>1, <1>2, <1>3 DEF Orderly, Works

LEMMA GoesOrderly ==
  ASSUME Shapes, Orderly, NEW r, Works(r), Goes(r),
         ~ overlapped' /\ OneOn /\ AtRest => OneOn' /\ WorkFits(r)'
  PROVE  Orderly'
<1>1. CASE overlapped'
  BY <1>1 DEF Orderly
<1>2. CASE ~ overlapped'
  <2>1. /\ OneOn /\ AtRest
        /\ \E c \in Calls : \A d \in Calls : IF d = c THEN call'[d] = r ELSE ~ Works(call'[d])
    BY <1>2, GoesAlone
  <2> QED BY <1>2, <2>1, WorkerAlone
<1> QED BY <1>1, <1>2

\* The call that is at work goes on.
LEMMA WorkGoesOn ==
  ASSUME Shapes, Orderly, NEW c \in Calls, Works(call[c]), NEW r, Works(r),
         call' = [call EXCEPT ![c] = r], overlapped' = overlapped,
         OneOn /\ WorkFits(call[c]) => OneOn' /\ WorkFits(r)'
  PROVE  Orderly'
<1>1. CASE overlapped
  BY <1>1 DEF Orderly
<1>2. CASE ~ overlapped
  <2>1. OneOn /\ WorkFits(call[c]) /\ \A d \in Calls : Works(call[d]) => d = c
    BY <1>2 DEF Orderly
  <2>2. \A d \in Calls : IF d = c THEN call'[d] = r ELSE ~ Works(call'[d])
    BY <2>1 DEF Shapes, CallsFit
  <2> QED BY <2>1, <2>2, WorkerAlone
<1> QED BY <1>1, <1>2

\* The call that was at work ends.
LEMMA WorkEnds ==
  ASSUME Shapes, Orderly, NEW c \in Calls, Works(call[c]), Ends(c), overlapped' = overlapped,
         OneOn /\ WorkFits(call[c]) => OneOn' /\ AtRest'
  PROVE  Orderly'
<1>1. CASE overlapped
  BY <1>1 DEF Orderly
<1>2. CASE ~ overlapped
  <2>1. OneOn /\ WorkFits(call[c]) /\ \A d \in Calls : Works(call[d]) => d = c
    BY <1>2 DEF Orderly
  <2>2. \A d \in Calls : ~ Works(call'[d])
    BY <2>1, EndsFits DEF Works, NoCall
  <2> QED BY <2>1, <2>2 DEF Orderly
<1> QED BY <1>1, <1>2

\* No call at work has changed, nor anything one goes by.
LEMMA SameWork ==
  ASSUME Orderly, UNCHANGED <<settings, open, keys, live, backend, overlapped, failed>>,
         \A c \in Calls : call'[c] = call[c] \/ (~ Works(call[c]) /\ ~ Works(call'[c])),
         \A w \in Watchers : watcher'[w].phase # "off" =>
           /\ watcher[w].phase # "off" /\ watcher'[w].list = watcher[w].list
           /\ watcher'[w].kind = watcher[w].kind /\ watcher'[w].store = watcher[w].store
           /\ watcher'[w].under = watcher[w].under
  PROVE  Orderly'
<1> SUFFICES ASSUME ~ overlapped PROVE Orderly'
  BY DEF Orderly
<1>1. \A a, b \in Calls : Works(call'[a]) /\ Works(call'[b]) => a = b
  BY DEF Orderly
<1>2. OneOn'
  BY DEF Orderly, OneOn, On, settings
<1>3. Right => Right'
  BY DEF Right, On, settings
<1>4. ASSUME NEW c \in Calls, Works(call'[c]) PROVE WorkFits(call[c])'
  <2>1. call'[c] = call[c] /\ WorkFits(call[c])
    BY <1>4 DEF Orderly
  <2> QED BY <1>3, <2>1 DEF WorkFits, settings
<1>5. (\A c \in Calls : ~ Works(call'[c])) => AtRest'
  <2> SUFFICES ASSUME \A c \in Calls : ~ Works(call'[c]) PROVE AtRest'
    OBVIOUS
  <2>1. AtRest
    BY DEF Orderly
  <2> QED BY <1>3, <2>1 DEF AtRest, settings
<1> QED BY <1>1, <1>2, <1>4, <1>5 DEF Orderly, Works

LEMMA InitOrderly == Init => Orderly
<1> SUFFICES ASSUME Init PROVE Orderly
  OBVIOUS
<1>1. \A c \in Calls : ~ Works(call[c])
  BY DEF Init, NoCall, Works
<1>2. \A w \in Watchers : watcher[w].phase = "off"
  BY DEF Init, NoWatcher
<1>3. OneOn /\ Right
  BY <1>2 DEF OneOn, Right, On
<1>4. AtRest
  BY <1>3 DEF AtRest, Init
<1> QED BY <1>1, <1>3, <1>4 DEF Orderly

\* A start goes by what is open and chosen once it has begun.
LEMMA StartFits ==
  ASSUME NEW r, r.op \in Starts, NEW l, l = open', StartsFor(r, l), keys', enabled',
         live' = live, chosen' = chosen, r.pc = "begun" => Right'
  PROVE  WorkFits(r)'
BY DEF WorkFits, StartsFor

LEMMA UnlockStaysOrderly == ASSUME Shapes, Orderly, Unlock PROVE Orderly'
<1>1. /\ keys' = TRUE /\ UNCHANGED <<settings, open, module, failed>>
      /\ PageFits /\ WatchersFit /\ open \in Lists
  BY DEF Unlock, Shapes, PageFits
<1>2. CASE enabled
  <2>1. PICK r : r = Start("unlock", open) /\ Goes(r)
    BY <1>2 DEF Unlock
  <2>2. Begins(r) /\ r.op = "unlock" /\ StartsFor(r, open)
    BY <1>1, <2>1, StartIs DEF Starts
  <2>3. ASSUME OneOn, AtRest PROVE OneOn' /\ WorkFits(r)'
    <3>1. OneOn'
      BY <1>1, <2>3 DEF OneOn, On, settings, module
    <3>2. Right'
      BY <1>1, <2>3 DEF AtRest, Right, On, settings, module
    <3>3. PICK l : l = open
      OBVIOUS
    <3>4. StartsFor(r, l)
      BY <2>2, <3>3
    <3>5. WorkFits(r)'
      BY <1>1, <1>2, <2>2, <3>2, <3>3, <3>4, StartFits DEF settings, module, Starts
    <3> QED BY <3>1, <3>5
  <2> QED BY <2>1, <2>2, <2>3, GoesOrderly DEF Works
<1>3. CASE ~ enabled
  <2>1. UNCHANGED <<call, overlapped>>
    BY <1>3 DEF Unlock
  <2> SUFFICES ASSUME ~ overlapped PROVE Orderly'
    BY <2>1 DEF Orderly
  <2>2. OneOn'
    BY <1>1 DEF Orderly, OneOn, On, settings, module
  <2>3. Right => Right'
    BY <1>1 DEF Right, On, settings, module
  <2>4. ASSUME NEW c \in Calls, Works(call[c]) PROVE WorkFits(call[c])'
    BY <1>1, <2>1, <2>3, <2>4 DEF Orderly, WorkFits, settings, module
  <2>5. (\A c \in Calls : ~ Works(call[c])) => AtRest'
    BY <1>1, <1>3, <2>3 DEF Orderly, AtRest, settings
  <2> QED BY <2>1, <2>2, <2>4, <2>5 DEF Orderly
<1> QED BY <1>2, <1>3

LEMMA EnableStaysOrderly == ASSUME Shapes, Orderly, Enable PROVE Orderly'
<1>1. /\ enabled' = TRUE /\ keys = TRUE /\ UNCHANGED <<chosen, open, keys, module, failed>>
      /\ PageFits /\ WatchersFit /\ open \in Lists
  BY DEF Enable, Shapes, PageFits
<1>2. PICK r : r = Start("start", open) /\ Goes(r)
  BY DEF Enable
<1>3. Begins(r) /\ r.op = "start" /\ StartsFor(r, open)
  BY <1>1, <1>2, StartIs DEF Starts
<1>4. ASSUME OneOn, AtRest PROVE OneOn' /\ WorkFits(r)'
  <2>1. OneOn'
    BY <1>1, <1>4 DEF OneOn, On, module
  <2>2. Right'
    BY <1>1, <1>4 DEF AtRest, Right, On, module
  <2>3. PICK l : l = open
    OBVIOUS
  <2>4. StartsFor(r, l)
    BY <1>3, <2>3
  <2>5. WorkFits(r)'
    BY <1>1, <1>3, <2>2, <2>3, <2>4, StartFits DEF module, Starts
  <2> QED BY <2>1, <2>5
<1> QED BY <1>2, <1>3, <1>4, GoesOrderly DEF Works

LEMMA DisableStaysOrderly == ASSUME Shapes, Orderly, Disable PROVE Orderly'
<1> DEFINE new == [NoCall EXCEPT !.op = "disable", !.pc = "off"]
<1>1. /\ keys /\ UNCHANGED <<settings, open, keys, module, failed>> /\ PageFits /\ WatchersFit
  BY DEF Disable, Shapes
<1>2. PICK r : r = Stopping(new) /\ Goes(r)
  BY DEF Disable
<1>3. new \in CallType /\ CallFits(new) /\ new.op = "disable" /\ new.pc = "off"
  BY DEF CallType, CallFits, NoCall, Starts
<1>4. /\ r.op = "disable" /\ r.pc \in {"stop", "off"}
      /\ r.pc = "stop" => r.waits = live
      /\ r.pc # "stop" => live = None
  <2> HIDE DEF new
  <2>1. r.pc = "stop" \/ r = new
    BY <1>1, <1>2, <1>3, StopIs
  <2> QED BY <1>1, <1>2, <1>3, <2>1, StopIs
<1>5. ASSUME OneOn PROVE OneOn' /\ WorkFits(r)'
  <2>1. OneOn'
    BY <1>1, <1>5 DEF OneOn, On, settings, module
  <2>2. WorkFits(r)'
    BY <1>1, <1>4 DEF WorkFits, Starts, module
  <2> QED BY <2>1, <2>2
<1> QED BY <1>2, <1>4, <1>5, GoesOrderly DEF Works

LEMMA DeleteStaysOrderly ==
  ASSUME Shapes, Orderly, NEW whole \in BOOLEAN, Delete(whole) PROVE Orderly'
<1> DEFINE new == [NoCall EXCEPT !.op = "delete", !.pc = "remove", !.list = open,
                                 !.kind = chosen, !.whole = whole]
<1>1. /\ keys /\ UNCHANGED <<settings, open, keys, module, failed>> /\ PageFits /\ WatchersFit
      /\ open \in Lists /\ chosen \in Stores
  BY DEF Delete, Shapes, PageFits
<1>2. PICK r : r = Stopping(new) /\ Goes(r)
  BY DEF Delete
<1>3. new \in CallType /\ CallFits(new) /\ new.op = "delete" /\ new.pc = "remove"
  BY <1>1 DEF CallType, CallFits, NoCall, Starts
<1>4. /\ r.op = "delete" /\ r.pc \in {"stop", "remove"}
      /\ r.pc = "stop" => r.waits = live
      /\ r.pc # "stop" => live = None
  <2> HIDE DEF new
  <2>1. r.pc = "stop" \/ r = new
    BY <1>1, <1>2, <1>3, StopIs
  <2> QED BY <1>1, <1>2, <1>3, <2>1, StopIs
<1>5. ASSUME OneOn PROVE OneOn' /\ WorkFits(r)'
  <2>1. OneOn'
    BY <1>1, <1>5 DEF OneOn, On, settings, module
  <2>2. WorkFits(r)'
    BY <1>1, <1>4 DEF WorkFits, Starts, module
  <2> QED BY <2>1, <2>2
<1> QED BY <1>2, <1>4, <1>5, GoesOrderly DEF Works

\* With the archive off or locked no watcher is on, so that none is wrong when the
\* choice or the open list changes.
LEMMA NothingToStop ==
  ASSUME Shapes, Orderly, ~ (keys /\ enabled),
         UNCHANGED <<enabled, keys, live, watcher, backend, call, overlapped, failed>>
  PROVE  Orderly'
<1> SUFFICES ASSUME ~ overlapped PROVE Orderly'
  BY DEF Orderly
<1>1. \A w \in Watchers : watcher'[w].phase = "off"
  BY NoneOn DEF Orderly
<1>2. OneOn' /\ Right'
  BY <1>1 DEF OneOn, Right, On
<1>3. ASSUME NEW c \in Calls, Works(call[c]) PROVE WorkFits(call[c])'
  <2>1. WorkFits(call[c]) /\ CallFits(call[c])
    BY <1>3 DEF Orderly, Shapes, CallsFit
  <2>2. call[c].op \notin Starts
    BY <2>1 DEF WorkFits
  <2>3. call[c].pc \notin {"build", "create", "begun"}
    BY <2>1, <2>2 DEF CallFits
  <2> QED BY <2>1, <2>2, <2>3 DEF WorkFits
<1>4. (\A c \in Calls : ~ Works(call[c])) => AtRest'
  BY <1>2 DEF AtRest
<1> QED BY <1>2, <1>3, <1>4 DEF Orderly

LEMMA ChooseStaysOrderly ==
  ASSUME Shapes, Orderly, NEW k \in Stores, ChooseBackend(k) PROVE Orderly'
<1> DEFINE new == [NoCall EXCEPT !.op = "choose", !.pc = "build", !.list = open, !.kind = k]
<1>1. /\ chosen' = k /\ UNCHANGED <<enabled, open, keys, module, failed>>
      /\ PageFits /\ WatchersFit /\ open \in Lists
  BY DEF ChooseBackend, Shapes, PageFits
<1>2. CASE keys /\ enabled
  <2>1. PICK r : r = Stopping(new) /\ Goes(r)
    BY <1>2 DEF ChooseBackend
  <2>2. /\ new \in CallType /\ CallFits(new) /\ new.op = "choose" /\ new.pc = "build"
        /\ new.list = open /\ new.kind = k
    BY <1>1 DEF CallType, CallFits, NoCall, Starts
  <2>3. /\ r.op = "choose" /\ r.pc \in {"stop", "build"}
        /\ r.pc = "stop" => r.waits = live
        /\ r.pc # "stop" => live = None /\ r.list = open /\ r.kind = k
    <3> HIDE DEF new
    <3>1. r.pc = "stop" \/ r = new
      BY <1>1, <2>1, <2>2, StopIs
    <3> QED BY <1>1, <2>1, <2>2, <3>1, StopIs
  <2>4. ASSUME OneOn PROVE OneOn' /\ WorkFits(r)'
    <3>1. OneOn'
      BY <1>1, <2>4 DEF OneOn, On, module
    <3>2. WorkFits(r)'
      BY <1>1, <1>2, <2>3 DEF WorkFits, Starts, module
    <3> QED BY <3>1, <3>2
  <2> QED BY <2>1, <2>3, <2>4, GoesOrderly DEF Works
<1>3. CASE ~ (keys /\ enabled)
  <2>1. UNCHANGED <<call, overlapped>>
    BY <1>3 DEF ChooseBackend
  <2> QED BY <1>1, <1>3, <2>1, NothingToStop DEF module
<1> QED BY <1>2, <1>3

LEMMA SwitchStaysOrderly ==
  ASSUME Shapes, Orderly, NEW l \in Lists, SwitchList(l) PROVE Orderly'
<1>1. /\ open' = l /\ l # open /\ UNCHANGED <<settings, keys, module, failed>>
      /\ PageFits /\ WatchersFit
  BY DEF SwitchList, Shapes
<1>2. CASE keys /\ enabled
  <2>1. PICK r : r = Start("start", l) /\ Goes(r)
    BY <1>2 DEF SwitchList
  <2>2. Begins(r) /\ r.op = "start" /\ StartsFor(r, l)
    BY <1>1, <2>1, StartIs DEF Starts
  <2>3. ASSUME OneOn, AtRest PROVE OneOn' /\ WorkFits(r)'
    <3>1. OneOn'
      BY <1>1, <2>3 DEF OneOn, On, settings, module
    <3>2. r.pc # "begun"
      <4>1. live # None => live \in Watchers /\ watcher[live].phase # "off"
        BY DEF Shapes, WatchersFit, On
      <4> QED BY <1>1, <2>2, <2>3, <4>1 DEF AtRest, Right, On, StartsFor
    <3>3. WorkFits(r)'
      BY <1>1, <1>2, <2>2, <3>2, StartFits DEF settings, module, Starts
    <3> QED BY <3>1, <3>3
  <2> QED BY <2>1, <2>2, <2>3, GoesOrderly DEF Works
<1>3. CASE ~ (keys /\ enabled)
  <2>1. UNCHANGED <<call, overlapped>>
    BY <1>3 DEF SwitchList
  <2> QED BY <1>1, <1>3, <2>1, NothingToStop DEF module, settings
<1> QED BY <1>2, <1>3

\* The watcher that stops is the one that is on, so that none is on after.
LEMMA StoppedStaysOrderly ==
  ASSUME Shapes, Orderly, NEW c \in Calls, Stopped(c) PROVE Orderly'
<1>1. /\ live' = None /\ watcher' = [watcher EXCEPT ![call[c].waits] = NoWatcher]
      /\ UNCHANGED <<settings, open, keys, overlapped>> /\ call[c].pc = "stop"
  BY DEF Stopped, page
<1>2. PICK r : r = WentOn(c)
  OBVIOUS
<1>3. /\ call' = [call EXCEPT ![c] = r] /\ r.op = call[c].op
      /\ r.pc \in {"off", "remove", "build"}
      /\ r.pc = "build" =>
           /\ r.op \in Starts
           /\ r.kind = chosen
           /\ r.list = IF call[c].op = "choose" THEN open ELSE call[c].list
  BY <1>2, WentOnIs
<1>4. Works(call[c])
  BY <1>1 DEF Shapes, CallsFit, CallFits, Works
<1>5. ASSUME OneOn, WorkFits(call[c]) PROVE OneOn' /\ WorkFits(r)'
  <2>1. call[c].waits = live
    BY <1>1, <1>5 DEF WorkFits
  <2>2. \A w \in Watchers : watcher'[w].phase = "off"
    BY <1>1, <1>5, <2>1 DEF OneOn, On, Shapes, WatchersFit, NoWatcher
  <2>3. OneOn'
    BY <2>2 DEF OneOn, On
  <2>4. WorkFits(r)'
    BY <1>1, <1>3, <1>5 DEF WorkFits, settings
  <2> QED BY <2>3, <2>4
<1> QED BY <1>1, <1>3, <1>4, <1>5, WorkGoesOn DEF Works

LEMMA BuildStaysOrderly ==
  ASSUME Shapes, Orderly, NEW c \in Calls, Build(c) PROVE Orderly'
<1>1. /\ call[c].pc = "build" /\ backend' = Driver(call[c].kind, call[c].list)
      /\ UNCHANGED <<settings, open, keys, live, watcher, overlapped>>
  BY DEF Build, page
<1>2. PICK r : r = [call[c] EXCEPT !.pc = "create"]
  OBVIOUS
<1>3. call' = [call EXCEPT ![c] = r]
  BY <1>2 DEF Build, Shapes, CallsFit
<1>4. /\ r.op = call[c].op /\ r.pc = "create" /\ r.list = call[c].list /\ r.kind = call[c].kind
      /\ Works(call[c])
  BY <1>1, <1>2 DEF Shapes, CallsFit, CallFits, CallType, Works, Starts
<1>5. ASSUME OneOn, WorkFits(call[c]) PROVE OneOn' /\ WorkFits(r)'
  <2>1. OneOn'
    BY <1>1, <1>5 DEF OneOn, On, settings
  <2>2. WorkFits(r)'
    BY <1>1, <1>4, <1>5 DEF WorkFits, settings
  <2> QED BY <2>1, <2>2
<1> QED BY <1>1, <1>3, <1>4, <1>5, WorkGoesOn DEF Works

LEMMA CreateStaysOrderly ==
  ASSUME Shapes, Orderly, NEW c \in Calls, Create(c) PROVE Orderly'
<1>1. call[c].pc = "create" /\ UNCHANGED <<settings, open, keys, backend, overlapped>>
  BY DEF Create, page
<1>2. PICK w \in Watchers :
        /\ watcher' = [watcher EXCEPT ![w] =
             [phase |-> "loading", list |-> call[c].list, kind |-> call[c].kind,
              store |-> backend.kind,
              under |-> IF backend.ref = None THEN call[c].list ELSE backend.ref,
              shipped |-> {}]]
        /\ live' = w
        /\ call' = [call EXCEPT ![c].pc = "begun", ![c].waits = w]
  BY DEF Create
<1>3. PICK r : r = [call[c] EXCEPT !.pc = "begun", !.waits = w]
  OBVIOUS
<1>4. call' = [call EXCEPT ![c] = r]
  BY <1>2, <1>3 DEF Shapes, CallsFit
<1>5. r.op = call[c].op /\ r.pc = "begun" /\ call[c].op \in Starts
  BY <1>1, <1>3 DEF Shapes, CallsFit, CallFits, CallType
<1>6. ASSUME OneOn, WorkFits(call[c]) PROVE OneOn' /\ WorkFits(r)'
  <2>1. /\ live = None /\ keys /\ enabled /\ call[c].list = open
        /\ call[c].kind = chosen /\ backend = Driver(chosen, open)
    BY <1>1, <1>5, <1>6 DEF WorkFits
  <2>2. \A v \in Watchers : watcher[v].phase = "off"
    BY <1>6, <2>1, NoneOn
  <2>3. backend.kind = chosen /\ backend.ref \in {None, open}
    BY <2>1 DEF Driver
  <2>4. ASSUME NEW v \in Watchers, watcher'[v].phase # "off"
        PROVE  /\ v = w /\ watcher'[v].list = open /\ watcher'[v].kind = chosen
               /\ watcher'[v].store = chosen /\ watcher'[v].under = open
    BY <1>2, <2>1, <2>2, <2>3, <2>4 DEF Shapes, WatchersFit
  <2>5. OneOn'
    BY <1>1, <1>2, <2>1, <2>4 DEF OneOn, On, settings
  <2>6. Right'
    BY <1>1, <2>4 DEF Right, On, settings
  <2>7. WorkFits(r)'
    BY <1>1, <1>2, <1>5, <2>1, <2>6, NoneAssumption DEF WorkFits, settings
  <2> QED BY <2>5, <2>7
<1> QED BY <1>1, <1>4, <1>5, <1>6, WorkGoesOn DEF Works, Starts

LEMMA BuildFailsStaysOrderly ==
  ASSUME Shapes, Orderly, NEW c \in Calls, BuildFails(c) PROVE Orderly'
<1>1. /\ call[c].pc = "build" /\ Ends(c) /\ failed' = TRUE
      /\ UNCHANGED <<settings, open, keys, live, watcher, overlapped>>
  BY DEF BuildFails, page, module
<1>2. Works(call[c])
  BY <1>1 DEF Shapes, CallsFit, CallFits, Works
<1>3. ASSUME OneOn, WorkFits(call[c]) PROVE OneOn' /\ AtRest'
  <2>1. \A w \in Watchers : watcher[w].phase = "off"
    BY <1>1, <1>3, NoneOn DEF WorkFits
  <2>2. OneOn' /\ Right'
    BY <1>1, <2>1 DEF OneOn, Right, On
  <2> QED BY <1>1, <2>2 DEF AtRest
<1> QED BY <1>1, <1>2, <1>3, WorkEnds

LEMMA BegunStaysOrderly ==
  ASSUME Shapes, Orderly, NEW c \in Calls, Begun(c) PROVE Orderly'
<1>1. /\ call[c].pc = "begun" /\ Ends(c)
      /\ UNCHANGED <<settings, open, keys, live, watcher, overlapped>>
  BY DEF Begun, page, module
<1>2. Works(call[c])
  BY <1>1 DEF Shapes, CallsFit, CallFits, Works
<1>3. ASSUME OneOn, WorkFits(call[c]) PROVE OneOn' /\ AtRest'
  <2>1. OneOn'
    BY <1>1, <1>3 DEF OneOn, On, settings
  <2>2. live # None /\ Right
    BY <1>1, <1>3 DEF WorkFits
  <2>3. Right'
    BY <1>1, <2>2 DEF Right, On, settings
  <2> QED BY <1>1, <2>1, <2>2, <2>3 DEF AtRest
<1> QED BY <1>1, <1>2, <1>3, WorkEnds

LEMMA DisabledStaysOrderly ==
  ASSUME Shapes, Orderly, NEW c \in Calls, Disabled(c) PROVE Orderly'
<1>1. /\ call[c].pc = "off" /\ Ends(c) /\ enabled' = FALSE
      /\ UNCHANGED <<chosen, open, keys, live, watcher, overlapped>>
  BY DEF Disabled, page, module
<1>2. Works(call[c])
  BY <1>1 DEF Shapes, CallsFit, CallFits, Works
<1>3. ASSUME OneOn, WorkFits(call[c]) PROVE OneOn' /\ AtRest'
  <2>1. \A w \in Watchers : watcher[w].phase = "off"
    BY <1>1, <1>3, NoneOn DEF WorkFits
  <2>2. OneOn' /\ Right'
    BY <1>1, <2>1 DEF OneOn, Right, On
  <2> QED BY <1>1, <2>2 DEF AtRest
<1> QED BY <1>1, <1>2, <1>3, WorkEnds

LEMMA RemoveStaysOrderly ==
  ASSUME Shapes, Orderly, NEW c \in Calls, Remove(c) \/ RemoveThrows(c) PROVE Orderly'
<1>1. /\ call[c].pc = "remove"
      /\ UNCHANGED <<settings, open, keys, module, overlapped>>
  BY DEF Remove, RemoveThrows, page
<1>2. Works(call[c]) /\ open \in Lists /\ WatchersFit /\ PageFits
  BY <1>1 DEF Shapes, PageFits, CallsFit, CallFits, Works
<1>3. ASSUME OneOn, WorkFits(call[c])
      PROVE  keys /\ live = None /\ OneOn' /\ Right'
  <2>1. keys /\ live = None
    BY <1>1, <1>3 DEF WorkFits
  <2>2. \A w \in Watchers : watcher[w].phase = "off"
    BY <1>3, <2>1, NoneOn
  <2> QED BY <1>1, <2>1, <2>2 DEF OneOn, Right, On, module
<1>4. CASE Remove(c) /\ enabled
  <2>1. PICK r : r = Start("again", open)
    OBVIOUS
  <2>2. call' = [call EXCEPT ![c] = r]
    BY <1>4, <2>1 DEF Remove
  <2>3. r.op = "again" /\ StartsFor(r, open)
    BY <1>2, <2>1, StartIs DEF Starts
  <2>4. ASSUME OneOn, WorkFits(call[c]) PROVE OneOn' /\ WorkFits(r)'
    <3>1. keys /\ live = None /\ OneOn' /\ Right'
      BY <1>3, <2>4
    <3>2. PICK l : l = open
      OBVIOUS
    <3>3. StartsFor(r, l)
      BY <2>3, <3>2
    <3>4. WorkFits(r)'
      BY <1>1, <1>4, <2>3, <3>1, <3>2, <3>3, StartFits DEF Starts, settings, module
    <3> QED BY <3>1, <3>4
  <2> QED BY <1>1, <1>2, <2>2, <2>3, <2>4, WorkGoesOn DEF Works
<1>5. CASE RemoveThrows(c) \/ ~ enabled
  <2>1. Ends(c) /\ (~ enabled' \/ failed')
    BY <1>1, <1>5 DEF Remove, RemoveThrows, settings
  <2>2. ASSUME OneOn, WorkFits(call[c]) PROVE OneOn' /\ AtRest'
    BY <1>3, <2>1, <2>2 DEF AtRest
  <2> QED BY <1>1, <1>2, <2>1, <2>2, WorkEnds
<1> QED BY <1>4, <1>5

\* Restores, what the watcher does and what is written leave the order alone.
LEMMA OthersStayOrderly ==
  ASSUME Shapes, Orderly,
         \/ AskDelete \/ Write \/ Restore
         \/ \E c \in Calls : Join(c) \/ Rebase(c) \/ RestoreFails(c)
         \/ \E w \in Watchers : Load(w) \/ Ship(w)
  PROVE  Orderly'
<1>1. CASE AskDelete \/ Write
  <2>1. UNCHANGED <<settings, open, keys, live, backend, overlapped, failed, call, watcher>>
    BY <1>1 DEF AskDelete, Write, module
  <2> QED BY <2>1, SameWork
<1>2. CASE Restore
  <2> DEFINE new == [NoCall EXCEPT !.op = "restore", !.pc = "join", !.list = open, !.kind = chosen]
  <2>1. Goes(new) /\ new.op = "restore" /\ overlapped \in BOOLEAN
    BY <1>2 DEF Restore, NoCall, Shapes, PageFits
  <2>2. UNCHANGED <<settings, open, keys, live, backend, failed, watcher>>
    BY <1>2 DEF Restore, module
  <2> HIDE DEF new
  <2>3. overlapped' = overlapped
    BY <2>1 DEF Goes
  <2>4. \A c \in Calls : call'[c] = call[c] \/ (~ Works(call[c]) /\ ~ Works(call'[c]))
    BY <2>1 DEF Goes, Idle, Works, Shapes, CallsFit
  <2> QED BY <2>2, <2>3, <2>4, SameWork
<1>3. ASSUME NEW c \in Calls, Join(c) PROVE Orderly'
  <2>1. UNCHANGED <<settings, open, keys, live, backend, overlapped, failed, watcher>>
    BY <1>3 DEF Join, page, module
  <2>2. call[c].op = "restore"
    BY <1>3 DEF Join, Shapes, CallsFit, CallFits
  <2>3. \A d \in Calls : call'[d] = call[d] \/ (d = c /\ call'[c].op = "restore")
    <3>1. PICK read \in Readable(c) :
            call' = [call EXCEPT ![c].pc = "rebase", ![c].kind = PlaceOf(call[c].kind),
                                 ![c].back = Back(read, call[c].list)]
      BY <1>3 DEF Join
    <3> QED BY <2>2, <3>1 DEF Shapes, CallsFit, CallType
  <2>4. \A d \in Calls : call'[d] = call[d] \/ (~ Works(call[d]) /\ ~ Works(call'[d]))
    BY <2>2, <2>3 DEF Works
  <2> QED BY <2>1, <2>4, SameWork
<1>4. ASSUME NEW c \in Calls, Rebase(c) \/ RestoreFails(c) PROVE Orderly'
  <2>1. UNCHANGED <<settings, open, keys, live, backend, overlapped, failed>> /\ Ends(c)
    BY <1>4 DEF Rebase, RestoreFails, page, module
  <2>2. call[c].op = "restore"
    BY <1>4 DEF Rebase, RestoreFails, Shapes, CallsFit, CallFits
  <2>3. \A d \in Calls : call'[d] = call[d] \/ (~ Works(call[d]) /\ ~ Works(call'[d]))
    BY <2>1, <2>2, EndsFits DEF Works, NoCall
  <2>4. \A w \in Watchers :
          /\ watcher'[w].phase = watcher[w].phase /\ watcher'[w].list = watcher[w].list
          /\ watcher'[w].kind = watcher[w].kind /\ watcher'[w].store = watcher[w].store
          /\ watcher'[w].under = watcher[w].under
    <3>1. watcher' \in {watcher, [watcher EXCEPT ![live].shipped = log[watcher[live].list]]}
      BY <1>4 DEF Rebase, RestoreFails, module
    <3> QED BY <3>1 DEF Shapes, WatchersFit, WatcherType
  <2> QED BY <2>1, <2>3, <2>4, SameWork
<1>5. ASSUME NEW w \in Watchers, Load(w) \/ Ship(w) PROVE Orderly'
  <2>1. UNCHANGED <<settings, open, keys, live, backend, overlapped, failed, call>>
    BY <1>5 DEF Load, Ship, page
  <2>2. \A v \in Watchers :
          /\ watcher'[v].phase # "off" => watcher[v].phase # "off"
          /\ watcher'[v].list = watcher[v].list
          /\ watcher'[v].kind = watcher[v].kind /\ watcher'[v].store = watcher[v].store
          /\ watcher'[v].under = watcher[v].under
    <3>1. CASE Load(w)
      <4>1. watcher[w].phase = "loading"
        BY <3>1 DEF Load
      <4>2. PICK s : watcher' = [watcher EXCEPT ![w].phase = "on", ![w].shipped = s]
        BY <3>1 DEF Load
      <4> QED BY <4>1, <4>2 DEF Shapes, WatchersFit, WatcherType
    <3>2. CASE Ship(w)
      BY <3>2, ShipWrites DEF Shapes, WatchersFit, WatcherType
    <3> QED BY <1>5, <3>1, <3>2
  <2> QED BY <2>1, <2>2, SameWork
<1> QED BY <1>1, <1>2, <1>3, <1>4, <1>5

LEMMA ReloadStaysOrderly ==
  ASSUME NEW wiped \in BOOLEAN, Reload(wiped) PROVE Orderly'
<1>1. /\ keys' = FALSE
      /\ \A w \in Watchers : watcher'[w].phase = "off"
      /\ \A c \in Calls : ~ Works(call'[c])
  BY DEF Reload, NoWatcher, NoCall, Works
<1>2. OneOn' /\ Right'
  BY <1>1 DEF OneOn, Right, On
<1>3. AtRest'
  BY <1>1, <1>2 DEF AtRest
<1> QED BY <1>1, <1>2, <1>3 DEF Orderly

LEMMA NextOrderly == ASSUME Shapes, Orderly, [Next]_vars PROVE Orderly'
<1>1. CASE UNCHANGED vars
  BY <1>1, SameWork DEF vars, page, module
<1>2. ASSUME NEW c \in Calls, Step(c) PROVE Orderly'
  BY <1>2, StoppedStaysOrderly, BuildStaysOrderly, CreateStaysOrderly, BuildFailsStaysOrderly,
     BegunStaysOrderly, DisabledStaysOrderly, RemoveStaysOrderly, OthersStayOrderly DEF Step
<1>3. CASE Next
  BY <1>2, <1>3, UnlockStaysOrderly, EnableStaysOrderly, DisableStaysOrderly, ChooseStaysOrderly,
     DeleteStaysOrderly, SwitchStaysOrderly, ReloadStaysOrderly, OthersStayOrderly DEF Next
<1> QED BY <1>1, <1>3

-----------------------------------------------------------------------------
LEMMA AlwaysIInv == Spec => []IInv
<1>1. Init => IInv
  BY InitShapes, InitInStep, InitOrderly DEF IInv
<1>2. IInv /\ [Next]_vars => IInv'
  BY NextShapes, NextInStep, NextOrderly DEF IInv
<1> QED BY <1>1, <1>2, PTL DEF Spec

\* Every state of the archive is of its type.
THEOREM ArchiveTypesHold == Spec => []TypeOK
<1>1. IInv => TypeOK
  <2> SUFFICES ASSUME IInv PROVE TypeOK
    OBVIOUS
  <2>1. /\ log \in [Lists -> SUBSET Entries] /\ store \in [Stores -> SUBSET Increments]
        /\ memory \in [Chains -> (SUBSET Entries) \cup {None}]
    BY DEF IInv, Shapes, StoresFit
  <2>2. /\ enabled \in BOOLEAN /\ chosen \in Stores /\ acts \in 0..MaxActs
        /\ open \in Lists /\ keys \in BOOLEAN /\ busy \in BOOLEAN /\ starting \in BOOLEAN
        /\ asked \in BOOLEAN /\ overlapped \in BOOLEAN /\ failed \in BOOLEAN
    BY Zenon DEF IInv, Shapes, PageFits
  <2>3. /\ watcher \in [Watchers -> WatcherType] /\ live \in Watchers \cup {None}
        /\ live # None => watcher[live].phase # "off"
    BY DEF IInv, Shapes, WatchersFit, On
  <2>4. /\ call \in [Calls -> CallType]
        /\ \A c \in Calls : call[c].pc = "stop" => call[c].waits # None
    BY DEF IInv, Shapes, CallsFit, CallFits
  <2>5. backend \in DriverType /\ stranded \subseteq Chains
    BY DEF IInv, Shapes, BackendFits
  <2> QED BY Zenon, <2>1, <2>2, <2>3, <2>4, <2>5 DEF TypeOK, WatcherType, CallType, DriverType
<1> QED BY <1>1, AlwaysIInv, PTL

\* Whatever is switched, chosen, deleted and restored in whatever order, what a
\* chain's memory counts as shipped is in its store, unless the chain was put out
\* of step.
THEOREM ShippedIsKept == Spec => []MemoryIsKept
<1>1. IInv => MemoryIsKept
  <2> SUFFICES ASSUME IInv, NEW x \in Chains
               PROVE  memory[x] = None \/ memory[x] \subseteq Kept(x[1], x[2]) \/ x \in stranded
    BY DEF MemoryIsKept
  <2>1. PICK k \in Stores, l \in Lists : x = <<k, l>>
    BY DEF Chains
  <2>2. <<k, l>> \in stranded \/ MemoryFits(k, l)
    BY DEF IInv, AllInStep, InStep
  <2>3. x[1] = k /\ x[2] = l
    BY <2>1
  <2> QED BY <2>1, <2>2, <2>3 DEF MemoryFits
<1> QED BY <1>1, AlwaysIInv, PTL

\* Calls that did not overlap leave one watcher on, the open list's and the chosen
\* store's, and none when the archive is off.
THEOREM WatcherIsRight == Spec => []QuietWatcherIsRight
<1>1. IInv => QuietWatcherIsRight
  <2> SUFFICES ASSUME IInv, ~ overlapped, \A c \in Calls : ~ AtWork(c)
               PROVE  /\ \A w \in Watchers : On(w) => /\ enabled
                                                      /\ w = live
                                                      /\ watcher[w].list = open
                                                      /\ watcher[w].kind = chosen
                                                      /\ watcher[w].store = chosen
                                                      /\ watcher[w].under = open
                      /\ enabled /\ keys /\ ~ failed => live # None
    BY DEF QuietWatcherIsRight
  <2>1. \A c \in Calls : ~ Works(call[c])
    BY DEF AtWork, Works
  <2>2. OneOn /\ AtRest
    BY <2>1 DEF IInv, Orderly
  <2> QED BY <2>2 DEF OneOn, AtRest, Right
<1> QED BY <1>1, AlwaysIInv, PTL

\* When nothing is left to do the chosen store has all of the open list, unless the
\* archive is off, failed to start, was called twice at once or is out of step.
THEOREM ListIsArchived == Spec => []QuietListIsArchived
<1>1. IInv => QuietListIsArchived
  <2> SUFFICES ASSUME IInv, NothingLeft, enabled, keys, ~ failed, ~ overlapped,
                      <<chosen, open>> \notin stranded
               PROVE  log[open] \subseteq Kept(chosen, open)
    BY DEF QuietListIsArchived
  <2>1. \A c \in Calls : ~ Works(call[c])
    BY DEF NothingLeft, Idle, Works
  <2>2. OneOn /\ AtRest
    BY <2>1 DEF IInv, Orderly
  <2>3. PICK w \in Watchers : w = live /\ On(w)
    BY <2>2 DEF AtRest, IInv, Shapes, WatchersFit
  <2>4. watcher[w].list = open /\ watcher[w].kind = chosen /\ Pending(w) = {}
    BY <2>2, <2>3 DEF AtRest, Right, NothingLeft
  <2>5. PICK k \in Stores, l \in Lists : k = chosen /\ l = open
    BY DEF IInv, Shapes, PageFits
  <2>6. ShippingFits(k, l)
    BY <2>5 DEF IInv, AllInStep, InStep
  <2>7. watcher[w].shipped \subseteq Kept(k, l)
    BY <2>3, <2>4, <2>5, <2>6 DEF ShippingFits
  <2>8. log[l] \subseteq watcher[w].shipped
    BY <2>4, <2>5 DEF Pending
  <2> QED BY <2>5, <2>7, <2>8
<1> QED BY <1>1, AlwaysIInv, PTL

-----------------------------------------------------------------------------
\* The relay's copy

Stages == {"unused", "asking", "over"}

Verification == [stage : Stages, hash : 0..MaxWrites, attempt : 0..Attempts, scheduled : BOOLEAN]

Running(p) == Asking(p) /\ proof[p].scheduled

\* The parts of the state the status and the verifications depend on.
StatusTypeOK ==
  /\ status \in {"unknown", "pending", "pinned", "unavailable"}
  /\ inFlight \in BOOLEAN
  /\ proof \in [Proofs -> Verification]
  /\ mixed \in BOOLEAN

ListTypeOK ==
  /\ entry \in 0..MaxWrites /\ head \in 0..MaxWrites /\ relay \in 0..MaxWrites
  /\ owed \subseteq 1..MaxWrites

LEMMA TypeParts ==
  /\ RelayTypeOK <=> ListTypeOK /\ StatusTypeOK
  /\ RelayTypeOK' <=> ListTypeOK' /\ StatusTypeOK'
BY DEF RelayTypeOK, ListTypeOK, StatusTypeOK, Verification, Stages

-----------------------------------------------------------------------------
\* Scheduling is single, and the mark says who runs

\* Verify's two outcomes, of a verification that begins.
Began(p, hash, scheduled, stage, attempt) ==
  proof' = [proof EXCEPT ![p] = [stage |-> stage, hash |-> hash, attempt |-> attempt,
                                 scheduled |-> scheduled]]

LEMMA BeganFits ==
  ASSUME StatusTypeOK, NEW p \in Proofs, NEW hash \in 0..MaxWrites, NEW scheduled \in BOOLEAN,
         NEW stage \in Stages, NEW attempt \in 0..Attempts,
         Began(p, hash, scheduled, stage, attempt)
  PROVE  /\ proof' \in [Proofs -> Verification]
         /\ \A q \in Proofs : q # p => proof'[q] = proof[q]
         /\ proof'[p].stage = stage /\ proof'[p].scheduled = scheduled /\ proof'[p].hash = hash
<1>1. [stage |-> stage, hash |-> hash, attempt |-> attempt, scheduled |-> scheduled]
        \in Verification
  BY DEF Verification
<1> QED BY <1>1 DEF Began, StatusTypeOK

LEMMA VerifyBegins ==
  ASSUME StatusTypeOK,
         NEW p \in Proofs, NEW hash \in 0..MaxWrites, NEW scheduled \in BOOLEAN,
         Verify(p, hash, scheduled)
  PROVE  /\ proof' \in [Proofs -> Verification]
         /\ \A q \in Proofs : q # p => proof'[q] = proof[q]
         /\ proof[p].stage = "unused"
         /\ proof'[p].scheduled = scheduled /\ proof'[p].hash = hash
         /\ mixed' = (hash # entry' \/ \E q \in Proofs : Asking(q))
         /\ \/ status' = "pending" /\ inFlight' = (inFlight \/ scheduled)
               /\ proof'[p].stage = "asking"
            \/ status' = "unavailable" /\ inFlight' = inFlight /\ proof'[p].stage = "over"
<1>1. 0 \in 0..Attempts /\ 1 \in 0..Attempts /\ "asking" \in Stages /\ "over" \in Stages
  BY CountsAssumption DEF Stages
<1>2. CASE Began(p, hash, scheduled, "asking", 1) /\ status' = "pending"
           /\ inFlight' = (inFlight \/ scheduled)
  BY <1>1, <1>2, BeganFits DEF Verify, Begin
<1>3. CASE Began(p, hash, scheduled, "over", 0) /\ status' = "unavailable"
           /\ inFlight' = inFlight
  BY <1>1, <1>3, BeganFits DEF Verify, Begin
<1> QED BY <1>2, <1>3 DEF Verify, Begin, Began

LEMMA VerifyKeeps ==
  ASSUME StatusTypeOK, ScheduledOnce,
         NEW p \in Proofs, NEW hash \in 0..MaxWrites, NEW scheduled \in BOOLEAN,
         scheduled => ~ inFlight,
         Verify(p, hash, scheduled)
  PROVE  StatusTypeOK' /\ ScheduledOnce'
<1>1. \A q \in Proofs : q # p => proof'[q] = proof[q]
  BY VerifyBegins
<1>2. StatusTypeOK'
  BY VerifyBegins DEF StatusTypeOK
<1>3. proof'[p].scheduled = scheduled /\ proof[p].stage = "unused"
  BY VerifyBegins
<1>4. CASE inFlight' = (inFlight \/ scheduled) /\ proof'[p].stage = "asking"
  <2>1. \A q \in Proofs : Running(q)' <=> IF q = p THEN scheduled ELSE Running(q)
    BY <1>1, <1>3, <1>4 DEF Running, Asking
  <2> QED BY <1>2, <1>4, <2>1 DEF ScheduledOnce, Running, Asking
<1>5. CASE inFlight' = inFlight /\ proof'[p].stage = "over"
  <2>1. \A q \in Proofs : Running(q)' => Running(q)
    BY <1>1, <1>5 DEF Running, Asking
  <2> QED BY <1>2, <1>5, <2>1 DEF ScheduledOnce, Running, Asking
<1> QED BY <1>2, <1>4, <1>5, VerifyBegins

LEMMA ScheduleKeeps ==
  ASSUME StatusTypeOK, ScheduledOnce, NEW hash \in 0..MaxWrites, Schedule(hash)
  PROVE  StatusTypeOK' /\ ScheduledOnce'
<1>1. CASE MaySkip
  BY <1>1 DEF Schedule, StatusTypeOK, ScheduledOnce, Asking
<1>2. CASE ~ MaySkip
  BY <1>2, VerifyKeeps DEF Schedule, MaySkip
<1> QED BY <1>1, <1>2

LEMMA EndKeeps ==
  ASSUME StatusTypeOK, ScheduledOnce, NEW p \in Proofs, Asking(p), End(p)
  PROVE  /\ inFlight' \in BOOLEAN /\ mixed' \in BOOLEAN
         /\ proof' \in [Proofs -> Verification]
         /\ ScheduledOnce'
<1>1. proof' \in [Proofs -> Verification] /\ proof[p].scheduled \in BOOLEAN
  BY DEF End, StatusTypeOK, Verification, Stages
<1>2. \A q \in Proofs : Running(q)' <=> Running(q) /\ q # p
  BY DEF End, Running, StatusTypeOK, Verification, Asking
<1>3. inFlight' <=> inFlight /\ ~ proof[p].scheduled
  BY DEF End
<1>4. ScheduledOnce'
  BY <1>2, <1>3 DEF ScheduledOnce, Running, Asking
<1>5. mixed' = mixed /\ mixed \in BOOLEAN
  BY DEF End, StatusTypeOK
<1> QED BY <1>1, <1>4, <1>5 DEF End, StatusTypeOK

LEMMA PutKeeps ==
  ASSUME RelayTypeOK, ScheduledOnce, Put, owed' \subseteq 1..MaxWrites
  PROVE  RelayTypeOK' /\ ScheduledOnce'
<1>1. head + 1 \in 0..MaxWrites
  BY CountsAssumption DEF RelayTypeOK, Put, MayWrite
<1>2. StatusTypeOK' /\ ScheduledOnce'
  BY <1>1, TypeParts, ScheduleKeeps DEF Put
<1> QED BY <1>1, <1>2, TypeParts DEF Put, ListTypeOK

LEMMA RelayInitKeeps == RelayInit => RelayTypeOK /\ ScheduledOnce
<1> SUFFICES ASSUME RelayInit PROVE RelayTypeOK /\ ScheduledOnce
  OBVIOUS
<1>1. Unused \in Verification
  BY CountsAssumption DEF Unused, Verification, Stages
<1>2. ListTypeOK /\ StatusTypeOK
  <2>1. ListTypeOK
    BY CountsAssumption DEF RelayInit, ListTypeOK
  <2>2. StatusTypeOK
    BY <1>1 DEF RelayInit, StatusTypeOK
  <2> QED BY <2>1, <2>2
<1>3. ScheduledOnce
  BY DEF RelayInit, Unused, ScheduledOnce, Asking
<1> QED BY <1>2, <1>3, TypeParts

LEMMA AnswerKeeps ==
  ASSUME RelayTypeOK, ScheduledOnce, NEW p \in Proofs, Answer(p)
  PROVE  RelayTypeOK' /\ ScheduledOnce'
<1> USE TypeParts DEF ListTypeOK
<1>1. CASE AnswerProves(p)
  BY <1>1, EndKeeps DEF AnswerProves, StatusTypeOK
<1>2. CASE AnswerDiffers(p)
  <2>1. CASE proof[p].attempt < Attempts
    <3>1. proof' \in [Proofs -> Verification]
      BY <1>2, <2>1, CountsAssumption DEF AnswerDiffers, StatusTypeOK, Verification
    <3>2. \A q \in Proofs : Running(q)' <=> Running(q)
      BY <1>2, <2>1 DEF AnswerDiffers, StatusTypeOK, Running, Verification, Asking
    <3> QED BY <1>2, <2>1, <3>1, <3>2 DEF AnswerDiffers, StatusTypeOK, ScheduledOnce, Running, Asking
  <2>2. CASE ~ (proof[p].attempt < Attempts)
    BY <1>2, <2>2, EndKeeps DEF AnswerDiffers, StatusTypeOK
  <2> QED BY <2>1, <2>2
<1>3. CASE RequestFails(p)
  BY <1>3, EndKeeps DEF RequestFails, StatusTypeOK
<1> QED BY <1>1, <1>2, <1>3 DEF Answer

LEMMA RelayStepKeeps == RelayTypeOK /\ ScheduledOnce /\ [RelayNext]_relayVars => (RelayTypeOK /\ ScheduledOnce)'
<1> SUFFICES ASSUME RelayTypeOK, ScheduledOnce, [RelayNext]_relayVars PROVE RelayTypeOK' /\ ScheduledOnce'
  OBVIOUS
<1>1. CASE AddTodo
  BY <1>1, PutKeeps DEF AddTodo, RelayTypeOK
<1>2. CASE WriteTodo
  BY <1>2, PutKeeps DEF WriteTodo, RelayTypeOK
<1>3. CASE Toggle
  <2>1. owed' \subseteq 1..MaxWrites
    BY <1>3, CountsAssumption DEF Toggle, Put, MayWrite, RelayTypeOK
  <2> QED BY <1>3, <2>1, PutKeeps DEF Toggle
<1>4. CASE VerifyToggle
  <2>1. PICK hash \in owed, p \in Proofs :
          owed' = owed \ {hash} /\ Verify(p, hash, FALSE)
    BY <1>4 DEF VerifyToggle
  <2>2. hash \in 0..MaxWrites
    BY <2>1 DEF RelayTypeOK
  <2>3. StatusTypeOK' /\ ScheduledOnce'
    BY <2>1, <2>2, TypeParts, VerifyKeeps
  <2> QED BY <1>4, <2>1, <2>3, TypeParts DEF VerifyToggle, ListTypeOK
<1>5. CASE DeleteTodo
  BY <1>5, CountsAssumption DEF DeleteTodo, MayWrite, RelayTypeOK, ScheduledOnce, Asking
<1>6. CASE WriteAnotherTodo
  BY <1>6, CountsAssumption DEF WriteAnotherTodo, MayWrite, RelayTypeOK, ScheduledOnce, Asking
<1>7. CASE RelayReplicates
  BY <1>7, CountsAssumption DEF RelayReplicates, RelayTypeOK, ScheduledOnce, Asking
<1>8. ASSUME NEW p \in Proofs, Answer(p) PROVE RelayTypeOK' /\ ScheduledOnce'
  BY <1>8, AnswerKeeps
<1>9. CASE UNCHANGED relayVars
  BY <1>9 DEF relayVars, RelayTypeOK, ScheduledOnce, Asking
<1> QED BY <1>1, <1>2, <1>3, <1>4, <1>5, <1>6, <1>7, <1>8, <1>9 DEF RelayNext

LEMMA RelayHolds == RelaySpec => [](RelayTypeOK /\ ScheduledOnce)
BY RelayInitKeeps, RelayStepKeeps, PTL DEF RelaySpec

-----------------------------------------------------------------------------
\* What green stands for

AskedAbout == {proof[p].hash : p \in Proofs}

\* If the verification that began last was alone and asked about the latest
\* entry, all that are under way ask about it, and green is about it.
InOrder ==
  ~ mixed /\ entry \in AskedAbout =>
    /\ \A p \in Proofs : Asking(p) => proof[p].hash >= entry
    /\ status = "pinned" => relay >= entry

\* Nobody asks about an entry that is not written yet.
Written ==
  /\ entry <= head /\ relay <= head
  /\ \A hash \in owed : hash <= head
  /\ \A hash \in AskedAbout : hash <= head

GreenInv == Written /\ InOrder

LEMMA GreenFacts ==
  ASSUME RelayTypeOK
  PROVE  /\ entry \in Nat /\ head \in Nat /\ relay \in Nat
         /\ \A hash \in owed : hash \in Nat
         /\ \A hash \in AskedAbout : hash \in Nat
         /\ \A p \in Proofs : proof[p].hash \in Nat /\ proof[p].hash \in AskedAbout
         /\ StatusTypeOK
<1>1. ListTypeOK /\ StatusTypeOK
  BY TypeParts
<1>2. \A p \in Proofs : proof[p].hash \in Nat
  BY <1>1 DEF StatusTypeOK, Verification
<1>3. \A p \in Proofs : proof[p].hash \in AskedAbout
  BY DEF AskedAbout
<1>4. \A hash \in AskedAbout : hash \in Nat
  BY <1>2 DEF AskedAbout
<1> QED BY <1>1, <1>2, <1>3, <1>4, CountsAssumption DEF ListTypeOK

\* A verification that begins alone for the latest entry is the only one.
LEMMA VerifyInOrder ==
  ASSUME RelayTypeOK, NEW p \in Proofs, NEW hash \in 0..MaxWrites, NEW scheduled \in BOOLEAN,
         Verify(p, hash, scheduled), entry' \in Nat
  PROVE  /\ InOrder'
         /\ AskedAbout' \subseteq AskedAbout \cup {hash}
<1>1. StatusTypeOK
  BY GreenFacts
<1>2. /\ \A q \in Proofs : q # p => proof'[q] = proof[q]
      /\ proof'[p].hash = hash
      /\ mixed' = (hash # entry' \/ \E q \in Proofs : Asking(q))
      /\ status' # "pinned"
  BY <1>1, VerifyBegins
<1>3. ASSUME ~ mixed', NEW q \in Proofs, Asking(q)'
      PROVE  proof'[q].hash >= entry'
  <2>1. q = p
    BY <1>2, <1>3 DEF Asking
  <2>2. hash = entry'
    BY <1>2, <1>3
  <2>3. proof'[q].hash = entry'
    BY <1>2, <2>1, <2>2
  <2> QED BY <2>3
<1>4. InOrder'
  BY <1>2, <1>3 DEF InOrder
<1>5. AskedAbout' \subseteq AskedAbout \cup {hash}
  BY <1>2 DEF AskedAbout
<1> QED BY <1>4, <1>5

LEMMA PutInOrder ==
  ASSUME RelayTypeOK, GreenInv, Put, owed' \subseteq owed \cup {head + 1}
  PROVE  GreenInv'
<1>1. head' = head + 1 /\ entry' = head + 1 /\ relay' = relay /\ head + 1 \in 0..MaxWrites
  BY CountsAssumption DEF Put, MayWrite, RelayTypeOK
<1>2. CASE MaySkip
  <2>1. AskedAbout' = AskedAbout
    BY <1>2 DEF Put, Schedule, AskedAbout
  <2>2. entry' \notin AskedAbout'
    BY <1>1, <2>1, GreenFacts DEF GreenInv, Written
  <2>3. InOrder'
    BY <2>2 DEF InOrder
  <2>4. \A hash \in AskedAbout : hash <= head' /\ hash \in Nat
    BY <1>1, GreenFacts DEF GreenInv, Written
  <2>5. Written'
    BY <1>1, <2>1, <2>4, GreenFacts DEF GreenInv, Written
  <2> QED BY <2>3, <2>5 DEF GreenInv
<1>3. CASE ~ MaySkip
  <2>1. PICK p \in Proofs : Verify(p, head + 1, TRUE)
    BY <1>3 DEF Put, Schedule
  <2>2. InOrder' /\ AskedAbout' \subseteq AskedAbout \cup {head + 1}
    <3>1. entry' \in Nat
      BY <1>1, GreenFacts
    <3> QED BY <1>1, <2>1, <3>1, VerifyInOrder
  <2>3. \A hash \in AskedAbout \cup {head + 1} : hash <= head'
    BY <1>1, GreenFacts DEF GreenInv, Written
  <2>4. Written'
    BY <1>1, <2>2, <2>3, GreenFacts DEF GreenInv, Written
  <2> QED BY <2>2, <2>4 DEF GreenInv
<1> QED BY <1>2, <1>3

\* A verification that ends or asks again asks about what it did before.
LEMMA AnswerInOrder ==
  ASSUME RelayTypeOK, GreenInv, NEW p \in Proofs, Answer(p)
  PROVE  GreenInv'
<1>1. /\ Asking(p) /\ entry' = entry /\ head' = head /\ relay' = relay /\ owed' = owed
      /\ mixed' = mixed
      /\ \A q \in Proofs : proof'[q].hash = proof[q].hash
      /\ \A q \in Proofs : Asking(q)' => Asking(q)
  <2>1. /\ Asking(p) /\ UNCHANGED <<entry, head, relay, owed>> /\ mixed' = mixed
        /\ \/ proof' = [proof EXCEPT ![p].stage = "over"]
           \/ proof' = [proof EXCEPT ![p].attempt = @ + 1]
    BY DEF Answer, AnswerProves, AnswerDiffers, RequestFails, End
  <2>2. proof \in [Proofs -> Verification]
    BY GreenFacts DEF StatusTypeOK
  <2> QED BY <2>1, <2>2 DEF Asking, Verification
<1>2. AskedAbout' = AskedAbout
  BY <1>1 DEF AskedAbout
<1>3. Written'
  BY <1>1, <1>2 DEF GreenInv, Written
<1>4. status' = "pinned" => status = "pinned" \/ relay = proof[p].hash
  BY DEF Answer, AnswerProves, AnswerDiffers, RequestFails, Proven
<1>5. InOrder'
  <2> SUFFICES ASSUME ~ mixed, entry \in AskedAbout
               PROVE  /\ \A q \in Proofs : Asking(q)' => proof[q].hash >= entry
                      /\ status' = "pinned" => relay >= entry
    BY <1>1, <1>2 DEF InOrder
  <2>1. /\ \A q \in Proofs : Asking(q) => proof[q].hash >= entry
        /\ status = "pinned" => relay >= entry
    BY DEF GreenInv, InOrder
  <2> QED BY <1>1, <1>4, <2>1
<1> QED BY <1>3, <1>5 DEF GreenInv

LEMMA GreenInit == RelayInit => GreenInv
<1> SUFFICES ASSUME RelayInit PROVE GreenInv
  OBVIOUS
<1>1. \A p \in Proofs : proof[p].hash = 0 /\ ~ Asking(p)
  BY DEF RelayInit, Unused, Asking
<1> QED BY <1>1 DEF RelayInit, GreenInv, Written, InOrder, AskedAbout

LEMMA GreenStep ==
  ASSUME RelayTypeOK, GreenInv, [RelayNext]_relayVars
  PROVE  GreenInv'
<1>1. CASE AddTodo \/ WriteTodo \/ Toggle
  BY <1>1, PutInOrder DEF AddTodo, WriteTodo, Toggle
<1>2. CASE VerifyToggle
  <2>1. PICK hash \in owed, p \in Proofs :
          owed' = owed \ {hash} /\ Verify(p, hash, FALSE)
    BY <1>2 DEF VerifyToggle
  <2>2. UNCHANGED <<entry, head, relay>> /\ hash \in 0..MaxWrites
    BY <1>2, <2>1 DEF VerifyToggle, RelayTypeOK
  <2>3. InOrder' /\ AskedAbout' \subseteq AskedAbout \cup {hash}
    BY <2>1, <2>2, VerifyInOrder, GreenFacts
  <2>4. Written'
    BY <2>1, <2>2, <2>3 DEF GreenInv, Written
  <2> QED BY <2>3, <2>4 DEF GreenInv
<1>3. CASE DeleteTodo
  <2>1. /\ entry' = 0 /\ head' = head + 1 /\ status' = "unknown"
        /\ UNCHANGED <<relay, owed, proof>>
    BY <1>3 DEF DeleteTodo
  <2>2. AskedAbout' = AskedAbout
    BY <2>1 DEF AskedAbout
  <2>3. \A hash \in owed \cup AskedAbout : hash \in Nat /\ hash <= head
    BY GreenFacts DEF GreenInv, Written
  <2>4. Written'
    BY <2>1, <2>2, <2>3, GreenFacts DEF GreenInv, Written
  <2>5. InOrder'
    BY <2>1, GreenFacts DEF InOrder
  <2> QED BY <2>4, <2>5 DEF GreenInv
<1>4. CASE WriteAnotherTodo
  <2>1. /\ head' = head + 1
        /\ UNCHANGED <<entry, relay, owed, status, proof, mixed>>
    BY <1>4 DEF WriteAnotherTodo
  <2>2. AskedAbout' = AskedAbout
    BY <2>1 DEF AskedAbout
  <2>3. \A hash \in owed \cup AskedAbout : hash \in Nat /\ hash <= head
    BY GreenFacts DEF GreenInv, Written
  <2>4. Written'
    BY <2>1, <2>2, <2>3, GreenFacts DEF GreenInv, Written
  <2>5. InOrder'
    BY <2>1, <2>2 DEF GreenInv, InOrder, Asking
  <2> QED BY <2>4, <2>5 DEF GreenInv
<1>5. CASE RelayReplicates
  <2>1. /\ relay' > relay /\ relay' <= head /\ relay' \in Nat
        /\ UNCHANGED <<entry, head, owed, status, proof, mixed>>
    BY <1>5, GreenFacts DEF RelayReplicates
  <2>2. AskedAbout' = AskedAbout
    BY <2>1 DEF AskedAbout
  <2>3. Written'
    BY <2>1, <2>2 DEF GreenInv, Written
  <2>4. InOrder'
    BY <2>1, <2>2, GreenFacts DEF GreenInv, InOrder, Asking
  <2> QED BY <2>3, <2>4 DEF GreenInv
<1>6. ASSUME NEW p \in Proofs, Answer(p) PROVE GreenInv'
  BY <1>6, AnswerInOrder
<1>7. CASE UNCHANGED relayVars
  BY <1>7 DEF relayVars, GreenInv, Written, InOrder, AskedAbout, Asking
<1> QED BY <1>1, <1>2, <1>3, <1>4, <1>5, <1>6, <1>7 DEF RelayNext

-----------------------------------------------------------------------------
\* The status is always one the row describes, and every verification is well
\* formed.
THEOREM RelayTypesHold == RelaySpec => []RelayTypeOK
BY RelayHolds, PTL

\* Whatever overlaps, the relay is asked by at most one scheduled verification
\* of the todo, and relayProofsInFlight is set as long as it runs.
THEOREM ScheduledOneAtATime == RelaySpec => []ScheduledOnce
BY RelayHolds, PTL

\* Green stands for the todo's latest entry, unless nobody asked about that one
\* or the verification that began last was not alone or not about it.
THEOREM GreenHolds == RelaySpec => []GreenIsOfTheEntry
<1>1. GreenInv => GreenIsOfTheEntry
  BY DEF GreenInv, InOrder, AskedAbout, GreenIsOfTheEntry
<1>2. RelayTypeOK /\ GreenInv /\ [RelayNext]_relayVars => GreenInv'
  BY GreenStep
<1> QED BY <1>1, <1>2, GreenInit, RelayTypesHold, PTL DEF RelaySpec
=============================================================================
