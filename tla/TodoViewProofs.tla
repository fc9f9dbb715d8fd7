--------------------------- MODULE TodoViewProofs ---------------------------
(***************************************************************************)
(* What holds of the page's loads for any number of lists, of writes to    *)
(* them and of switches between them.                                      *)
(*                                                                         *)
(* What is shown at the end was read many steps before. QuietInv follows   *)
(* it through a load: what has yet to be emitted ends with the list's last *)
(* write (LastIsLatest), so an entry received with nothing left to emit is *)
(* the latest one (ReceivedIsLatest), and a snapshot with neither anything *)
(* received over it nor a further read to come is the list (SnapshotFits). *)
(***************************************************************************)
EXTENDS TodoView, SequenceTheorems, TLAPS

\* The part of the type invariant the loads depend on.
LoadTypeOK ==
  /\ active \in Lists
  /\ reading \in Lists
  /\ phase \in {"idle", "reading", "read", "annotating"}
  /\ requested \in BOOLEAN

LEMMA RoundKeeps ==
  ASSUME LoadTypeOK, NEW again \in BOOLEAN, NextRound(again), UNCHANGED active
  PROVE  LoadTypeOK' /\ OpenListIsRead'
BY DEF LoadTypeOK, NextRound, BeginRead, OpenListIsRead

\* Asking for a load of the list that is open after the step.
LEMMA LoadKeeps ==
  ASSUME LoadTypeOK, OpenListIsRead, NEW list \in Lists, LoadTodos(list), active' = list
  PROVE  LoadTypeOK' /\ OpenListIsRead'
<1>1. CASE phase = "idle"
  BY <1>1 DEF LoadTypeOK, LoadTodos, BeginRead, OpenListIsRead
<1>2. CASE phase # "idle"
  BY <1>2 DEF LoadTypeOK, LoadTodos, OpenListIsRead
<1> QED BY <1>1, <1>2

LEMMA UpdatedKeeps ==
  ASSUME LoadTypeOK, OpenListIsRead, NEW l \in Lists, Updated(l)
  PROVE  LoadTypeOK' /\ OpenListIsRead'
<1>1. UNCHANGED active
  BY DEF Updated, UnheardEvent, EntryUpdated, ActionUpdated, Emit
<1>2. UNCHANGED loadVars \/ LoadTodos(active)
  BY DEF Updated, UnheardEvent, EntryUpdated, ActionUpdated
<1>3. CASE UNCHANGED loadVars
  BY <1>1, <1>3 DEF loadVars, LoadTypeOK, OpenListIsRead
<1>4. CASE LoadTodos(active)
  BY <1>1, <1>4, LoadKeeps DEF LoadTypeOK
<1> QED BY <1>2, <1>3, <1>4

LEMMA LoadStepKeeps ==
  ASSUME LoadTypeOK, OpenListIsRead, LoadStep
  PROVE  LoadTypeOK' /\ OpenListIsRead'
<1>1. CASE ReadSnapshot
  BY <1>1 DEF ReadSnapshot, LoadTypeOK, OpenListIsRead
<1>2. CASE FinishSnapshot
  <2>1. (requested \/ Received \cap Delegated # {}) \in BOOLEAN
    BY DEF LoadTypeOK
  <2> QED BY <1>2, <2>1, RoundKeeps DEF FinishSnapshot
<1>3. CASE AbandonSnapshot
  BY <1>3, RoundKeeps DEF AbandonSnapshot, LoadTypeOK
<1>4. CASE ReadFails
  BY <1>4, RoundKeeps DEF ReadFails, LoadTypeOK
<1>5. CASE EndAnnotating
  BY <1>5 DEF EndAnnotating, LoadTypeOK, OpenListIsRead
<1> QED BY <1>1, <1>2, <1>3, <1>4, <1>5 DEF LoadStep

LEMMA InitKeeps == Init => LoadTypeOK /\ OpenListIsRead
BY ListsAssumption DEF Init, LoadTypeOK, OpenListIsRead

LEMMA StepKeeps ==
  LoadTypeOK /\ OpenListIsRead /\ [Next]_vars => LoadTypeOK' /\ OpenListIsRead'
<1> SUFFICES ASSUME LoadTypeOK, OpenListIsRead, [Next]_vars
             PROVE  LoadTypeOK' /\ OpenListIsRead'
  OBVIOUS
<1>1. CASE LoadStep
  BY <1>1, LoadStepKeeps
<1>2. ASSUME NEW l \in Lists, WriteEntry(l) \/ WriteAction(l)
      PROVE  LoadTypeOK' /\ OpenListIsRead'
  BY <1>2 DEF WriteEntry, WriteAction, loadVars, LoadTypeOK, OpenListIsRead
<1>3. ASSUME NEW l \in Lists, Updated(l) PROVE LoadTypeOK' /\ OpenListIsRead'
  BY <1>3, UpdatedKeeps
<1>4. ASSUME NEW l \in Lists, PeerJoined(l) PROVE LoadTypeOK' /\ OpenListIsRead'
  BY <1>4, LoadKeeps DEF PeerJoined, LoadTypeOK
<1>5. ASSUME NEW l \in Lists, OpenList(l) PROVE LoadTypeOK' /\ OpenListIsRead'
  BY <1>5, LoadKeeps DEF OpenList
<1>6. CASE UNCHANGED vars
  BY <1>6 DEF vars, loadVars, LoadTypeOK, OpenListIsRead
<1> QED BY <1>1, <1>2, <1>3, <1>4, <1>5, <1>6 DEF Next

-----------------------------------------------------------------------------
\* The view

\* A list's entry has been written no more often than all lists together.
Counted == \A l \in Lists : log[l].entry <= writes /\ log[l].acts <= writes

\* Without a delegate there are no actions, and the last event is of the last
\* entry.
LastIsLatest ==
  \A l \in Lists \ Delegated :
    /\ log[l].acts = 0
    /\ \A i \in 1..Len(events[l]) : events[l][i] # Action
    /\ events[l] # <<>> => events[l][Len(events[l])] = log[l].entry

\* What is received is of lists that were opened; between loads nothing is, and
\* of a list whose events are all out it is the latest.
ReceivedIsLatest ==
  /\ active \in observed
  /\ Received \subseteq observed
  /\ ~ leftover =>
       /\ phase \in {"idle", "annotating"} => Received = {}
       /\ \A l \in Lists \ Delegated :
            received[l] # 0 /\ events[l] = <<>> => received[l] = log[l].entry

\* A snapshot that will be shown as it is, is the list.
SnapshotFits ==
  phase = "read" /\ reading = active /\ ~ leftover /\ ~ requested
    /\ received[active] = 0 /\ events[active] = <<>>
  => snapshot = log[active]

\* Between loads the page shows no other list, and this one once its events
\* are out.
ShownFits ==
  phase \in {"idle", "annotating"} /\ ~ missed =>
    /\ \A l \in Lists : l # active => shown[l] = Nothing
    /\ events[active] = <<>> => shown[active] = log[active]

QuietInv ==
  /\ TypeOK
  /\ Counted
  /\ OpenListIsRead
  /\ LastIsLatest
  /\ ReceivedIsLatest
  /\ SnapshotFits
  /\ ShownFits

-----------------------------------------------------------------------------
\* Types

LEMMA NothingIsATodo == Nothing \in Todos
BY BoundsAssumption DEF Nothing, Todos

LEMMA LoadTyped ==
  ASSUME TypeOK, NEW list \in Lists, LoadTodos(list)
  PROVE  /\ phase' \in {"idle", "reading", "read", "annotating"}
         /\ reading' \in Lists /\ snapshot' \in Todos /\ requested' \in BOOLEAN
BY DEF LoadTodos, BeginRead, TypeOK

LEMMA RoundTyped ==
  ASSUME TypeOK, NEW again, NextRound(again)
  PROVE  /\ phase' \in {"idle", "reading", "read", "annotating"}
         /\ reading' \in Lists /\ snapshot' \in Todos /\ requested' \in BOOLEAN
BY DEF NextRound, BeginRead, TypeOK

LEMMA WriteTyped ==
  ASSUME TypeOK, Counted, NEW l \in Lists, WriteEntry(l) \/ WriteAction(l)
  PROVE  TypeOK' /\ Counted'
<1>1. /\ log \in [Lists -> Todos] /\ events \in [Lists -> Seq(0..MaxWrites)]
      /\ log[l].entry \in Nat /\ log[l].acts \in Nat
      /\ writes \in 0..MaxWrites /\ MaxWrites \in Nat /\ writes < MaxWrites
      /\ log[l].entry <= writes /\ log[l].acts <= writes
  <2>1. /\ log \in [Lists -> Todos] /\ events \in [Lists -> Seq(0..MaxWrites)]
        /\ writes \in 0..MaxWrites /\ MaxWrites \in Nat
    BY BoundsAssumption DEF TypeOK
  <2>2. log[l].entry <= writes /\ log[l].acts <= writes
    BY DEF Counted
  <2>3. writes < MaxWrites
    BY DEF WriteEntry, WriteAction, MayWrite
  <2>4. log[l].entry \in Nat /\ log[l].acts \in Nat
    BY <2>1 DEF Todos
  <2> QED BY <2>1, <2>2, <2>3, <2>4
<1>2. PICK t \in Todos, e \in 0..MaxWrites :
        /\ log' = [log EXCEPT ![l] = t]
        /\ t.entry <= writes + 1 /\ t.acts <= writes + 1
        /\ events' = [events EXCEPT ![l] = Append(@, e)]
  <2>1. CASE WriteEntry(l)
    <3>1. PICK kept \in {0, log[l].acts} :
            log' = [log EXCEPT ![l] = [entry |-> log[l].entry + 1, acts |-> kept]]
      BY <2>1 DEF WriteEntry
    <3> DEFINE t == [entry |-> log[l].entry + 1, acts |-> kept]
    <3>2. t \in Todos /\ t.entry <= writes + 1 /\ t.acts <= writes + 1 /\ t.entry \in 0..MaxWrites
      BY <1>1 DEF Todos
    <3>3. events' = [events EXCEPT ![l] = Append(@, t.entry)]
      BY <1>1, <2>1, <3>1 DEF WriteEntry
    <3> QED BY <3>1, <3>2, <3>3
  <2>2. CASE WriteAction(l)
    <3> DEFINE t == [entry |-> log[l].entry, acts |-> log[l].acts + 1]
    <3>1. t \in Todos /\ t.entry <= writes + 1 /\ t.acts <= writes + 1 /\ Action \in 0..MaxWrites
      BY <1>1 DEF Todos, Action
    <3>2. log' = [log EXCEPT ![l].acts = @ + 1] /\ events' = [events EXCEPT ![l] = Append(@, Action)]
      BY <2>2 DEF WriteAction
    <3>3. [log[l] EXCEPT !.acts = @ + 1] = t
      <4>1. log[l] \in Todos
        BY <1>1
      <4> QED BY <4>1 DEF Todos
    <3>4. log' = [log EXCEPT ![l] = t]
      BY <1>1, <3>2, <3>3
    <3> QED BY <3>1, <3>2, <3>4
  <2> QED BY <2>1, <2>2
<1>3. writes' = writes + 1 /\ writes' \in 0..MaxWrites
  BY <1>1 DEF WriteEntry, WriteAction
<1>4. log' \in [Lists -> Todos]
  BY <1>1, <1>2
<1>5. events' \in [Lists -> Seq(0..MaxWrites)]
  <2>1. Append(events[l], e) \in Seq(0..MaxWrites)
    BY <1>1, <1>2, AppendProperties
  <2> QED BY <1>1, <1>2, <2>1
<1>6. Counted'
  <2> SUFFICES ASSUME NEW k \in Lists PROVE log'[k].entry <= writes + 1 /\ log'[k].acts <= writes + 1
    BY <1>3 DEF Counted
  <2>1. CASE k = l
    BY <1>1, <1>2, <2>1
  <2>2. CASE k # l
    <3>1. log'[k] = log[k] /\ log[k].entry \in Nat /\ log[k].acts \in Nat
      BY <1>1, <1>2, <2>2 DEF Todos
    <3> QED BY <1>1, <3>1 DEF Counted
  <2> QED BY <2>1, <2>2
<1> QED BY <1>3, <1>4, <1>5, <1>6 DEF WriteEntry, WriteAction, TypeOK, loadVars

LEMMA EmitTyped ==
  ASSUME TypeOK, NEW l \in Lists, Emit(l)
  PROVE  /\ Head(events[l]) \in 0..MaxWrites
         /\ events' \in [Lists -> Seq(0..MaxWrites)]
<1>1. events[l] \in Seq(0..MaxWrites) /\ events[l] # <<>>
  BY DEF TypeOK, Emit
<1>2. Head(events[l]) \in 0..MaxWrites /\ Tail(events[l]) \in Seq(0..MaxWrites)
  BY <1>1, HeadTailProperties
<1> QED BY <1>2 DEF Emit, TypeOK

LEMMA UpdatedTyped ==
  ASSUME TypeOK, NEW l \in Lists, Updated(l)
  PROVE  TypeOK'
<1>0. Emit(l)
  BY DEF Updated, UnheardEvent, EntryUpdated, ActionUpdated
<1>1. CASE UnheardEvent(l)
  BY <1>0, <1>1, EmitTyped DEF UnheardEvent, Emit, TypeOK, loadVars
<1>2. CASE EntryUpdated(l)
  <2>1. shown' \in [Lists -> Todos] /\ received' \in [Lists -> 0..MaxWrites]
    <3>1. Head(events[l]) \in 0..MaxWrites /\ 0 \in 0..MaxWrites
      BY <1>0, EmitTyped, BoundsAssumption
    <3>2. [entry |-> Head(events[l]), acts |-> 0] \in Todos
      BY <3>1 DEF Todos
    <3> QED BY <1>2, <3>1, <3>2 DEF EntryUpdated, Track, TypeOK
  <2>2. /\ phase' \in {"idle", "reading", "read", "annotating"}
        /\ reading' \in Lists /\ snapshot' \in Todos /\ requested' \in BOOLEAN
    <3>1. active \in Lists /\ (LoadTodos(active) \/ UNCHANGED loadVars)
      BY <1>2 DEF EntryUpdated, TypeOK
    <3>2. CASE LoadTodos(active)
      BY <3>1, <3>2, LoadTyped
    <3>3. CASE UNCHANGED loadVars
      BY <3>3 DEF TypeOK, loadVars
    <3> QED BY <3>1, <3>2, <3>3
  <2>3. missed' \in BOOLEAN /\ leftover' \in BOOLEAN
    BY <1>2 DEF EntryUpdated, TypeOK
  <2> QED BY <1>0, <2>1, <2>2, <2>3, EmitTyped DEF Emit, TypeOK
<1>3. CASE ActionUpdated(l)
  <2>1. missed' \in BOOLEAN
    BY <1>3 DEF ActionUpdated, TypeOK
  <2>2. /\ phase' \in {"idle", "reading", "read", "annotating"}
        /\ reading' \in Lists /\ snapshot' \in Todos /\ requested' \in BOOLEAN
    BY <1>3, LoadTyped DEF ActionUpdated, TypeOK
  <2> QED BY <1>0, <1>3, <2>1, <2>2, EmitTyped DEF ActionUpdated, Emit, TypeOK
<1> QED BY <1>1, <1>2, <1>3 DEF Updated

LEMMA LoadStepTyped ==
  ASSUME TypeOK, LoadStep
  PROVE  TypeOK'
<1>1. CASE ReadSnapshot
  BY <1>1 DEF ReadSnapshot, TypeOK, logVars
<1>2. CASE FinishSnapshot
  <2>1. shown' \in [Lists -> Todos]
    <3>1. 0 \in 0..MaxWrites /\ received \in [Lists -> 0..MaxWrites] /\ snapshot \in Todos
      BY BoundsAssumption DEF TypeOK
    <3>2. \A l \in Lists : [entry |-> received[l], acts |-> 0] \in Todos
      BY <3>1 DEF Todos
    <3> QED BY <1>2, <3>1, <3>2, NothingIsATodo DEF FinishSnapshot, ShowSnapshot
  <2>2. received' \in [Lists -> 0..MaxWrites]
    BY <1>2, BoundsAssumption DEF FinishSnapshot, ForgetReceived
  <2>3. missed' \in BOOLEAN /\ leftover' \in BOOLEAN
    BY <1>2 DEF FinishSnapshot
  <2> QED BY <1>2, <2>1, <2>2, <2>3, RoundTyped DEF FinishSnapshot, TypeOK, logVars
<1>3. CASE AbandonSnapshot
  BY <1>3, RoundTyped DEF AbandonSnapshot, TypeOK, logVars
<1>4. CASE ReadFails
  BY <1>4, RoundTyped DEF ReadFails, TypeOK, logVars
<1>5. CASE EndAnnotating
  BY <1>5 DEF EndAnnotating, TypeOK, logVars
<1> QED BY <1>1, <1>2, <1>3, <1>4, <1>5 DEF LoadStep

LEMMA StepTyped ==
  ASSUME TypeOK, Counted, [Next]_vars
  PROVE  TypeOK' /\ Counted'
<1>1. CASE LoadStep
  <2>1. UNCHANGED <<log, writes>>
    BY <1>1 DEF LoadStep, ReadSnapshot, FinishSnapshot, AbandonSnapshot, ReadFails, EndAnnotating,
       logVars
  <2> QED BY <1>1, <2>1, LoadStepTyped DEF Counted
<1>2. ASSUME NEW l \in Lists, WriteEntry(l) \/ WriteAction(l) PROVE TypeOK' /\ Counted'
  BY <1>2, WriteTyped
<1>3. ASSUME NEW l \in Lists, Updated(l) PROVE TypeOK' /\ Counted'
  <2>1. UNCHANGED <<log, writes>>
    BY <1>3 DEF Updated, UnheardEvent, EntryUpdated, ActionUpdated, Emit
  <2> QED BY <1>3, <2>1, UpdatedTyped DEF Counted
<1>4. ASSUME NEW l \in Lists, PeerJoined(l) PROVE TypeOK' /\ Counted'
  <2>1. active \in Lists /\ nudges' \in 0..MaxNudges
    BY <1>4, BoundsAssumption DEF PeerJoined, MayNudge, TypeOK
  <2> QED BY <1>4, <2>1, LoadTyped DEF PeerJoined, TypeOK, Counted, logVars
<1>5. ASSUME NEW l \in Lists, OpenList(l) PROVE TypeOK' /\ Counted'
  <2>1. nudges' \in 0..MaxNudges
    BY <1>5, BoundsAssumption DEF OpenList, MayNudge, TypeOK
  <2> QED BY <1>5, <2>1, LoadTyped DEF OpenList, TypeOK, Counted, logVars
<1>6. CASE UNCHANGED vars
  BY <1>6 DEF vars, logVars, loadVars, TypeOK, Counted
<1> QED BY <1>1, <1>2, <1>3, <1>4, <1>5, <1>6 DEF Next

-----------------------------------------------------------------------------
\* Steps of the view

Fits == LastIsLatest /\ ReceivedIsLatest /\ SnapshotFits /\ ShownFits

\* A load that is asked for begins, or is owed once more.
LEMMA LoadAsked ==
  ASSUME NEW list, LoadTodos(list)
  PROVE  /\ phase = "idle" => phase' = "reading"
         /\ phase # "idle" => phase' = phase /\ requested' /\ UNCHANGED <<reading, snapshot>>
BY DEF LoadTodos, BeginRead

\* What a write adds to a list is the last of its events.
LEMMA WriteKeepsFits ==
  ASSUME QuietInv, NEW l \in Lists, WriteEntry(l) \/ WriteAction(l)
  PROVE  Fits'
<1>1. /\ log \in [Lists -> Todos] /\ events \in [Lists -> Seq(0..MaxWrites)]
      /\ log' \in [Lists -> Todos] /\ active \in Lists
      /\ log[l].entry \in Nat
  <2>1. log' \in [Lists -> Todos]
    BY WriteTyped DEF QuietInv, TypeOK
  <2>2. log \in [Lists -> Todos] /\ events \in [Lists -> Seq(0..MaxWrites)] /\ active \in Lists
    BY DEF QuietInv, TypeOK
  <2>3. log[l].entry \in Nat
    BY <2>2 DEF Todos
  <2> QED BY <2>1, <2>2, <2>3
<1>2. PICK e \in 0..MaxWrites, t \in Todos :
        /\ log' = [log EXCEPT ![l] = t] /\ events' = [events EXCEPT ![l] = Append(@, e)]
        /\ l \notin Delegated => t.acts = 0 /\ e = t.entry /\ e # Action
  <2>1. CASE WriteEntry(l)
    <3>1. PICK kept \in {0, log[l].acts} :
            log' = [log EXCEPT ![l] = [entry |-> log[l].entry + 1, acts |-> kept]]
      BY <2>1 DEF WriteEntry
    <3> DEFINE t == [entry |-> log[l].entry + 1, acts |-> kept]
    <3>2. t = log'[l] /\ t \in Todos /\ t.entry \in 0..MaxWrites /\ t.entry # Action
      BY <1>1, <3>1 DEF Todos, Action
    <3>3. events' = [events EXCEPT ![l] = Append(@, t.entry)]
      BY <2>1, <3>2 DEF WriteEntry
    <3>4. l \notin Delegated => t.acts = 0
      BY DEF QuietInv, LastIsLatest
    <3> QED BY <3>1, <3>2, <3>3, <3>4
  <2>2. CASE WriteAction(l)
    <3>1. /\ l \in Delegated /\ log' = [log EXCEPT ![l].acts = @ + 1]
          /\ events' = [events EXCEPT ![l] = Append(@, Action)]
      BY <2>2 DEF WriteAction
    <3>2. log' = [log EXCEPT ![l] = log'[l]] /\ log'[l] \in Todos
      <4>1. \A k \in Lists : k # l => log'[k] = log[k]
        BY <1>1, <3>1
      <4> QED BY <1>1, <4>1
    <3>3. Action \in 0..MaxWrites
      BY BoundsAssumption DEF Action
    <3> QED BY <3>1, <3>2, <3>3
  <2> QED BY <2>1, <2>2
<1>3. /\ events'[l] # <<>> /\ Len(events'[l]) = Len(events[l]) + 1 /\ Len(events[l]) \in Nat
      /\ \A i \in 1..Len(events[l]) : events'[l][i] = events[l][i]
      /\ events'[l][Len(events[l]) + 1] = e
  <2>1. events[l] \in Seq(0..MaxWrites) /\ events'[l] = Append(events[l], e)
    BY <1>1, <1>2
  <2>2. Len(events[l]) \in Nat
    BY <2>1
  <2>3. /\ Append(events[l], e) # <<>>
        /\ Len(Append(events[l], e)) = Len(events[l]) + 1
        /\ \A i \in 1..Len(events[l]) : Append(events[l], e)[i] = events[l][i]
        /\ Append(events[l], e)[Len(events[l]) + 1] = e
    <3>1. events[l] \in Seq(0..MaxWrites)
      BY <2>1
    <3>2. \A S : \A s \in Seq(S), x \in S :
            /\ Append(s, x) # <<>> /\ Len(Append(s, x)) = Len(s) + 1
            /\ \A i \in 1..Len(s) : Append(s, x)[i] = s[i]
            /\ Append(s, x)[Len(s) + 1] = x
      BY AppendProperties
    <3> QED BY <3>1, <3>2
  <2> QED BY <2>1, <2>2, <2>3
<1>4. \A k \in Lists : k # l => log'[k] = log[k] /\ events'[k] = events[k]
  BY <1>1, <1>2
<1>5. UNCHANGED <<shown, active, observed, phase, reading, snapshot, requested, received, missed,
                 leftover>>
  BY DEF WriteEntry, WriteAction, loadVars
<1>6. LastIsLatest'
  <2> SUFFICES ASSUME NEW k \in Lists \ Delegated
               PROVE  /\ log'[k].acts = 0
                      /\ \A i \in 1..Len(events'[k]) : events'[k][i] # Action
                      /\ events'[k] # <<>> => events'[k][Len(events'[k])] = log'[k].entry
    BY DEF LastIsLatest
  <2>1. CASE k = l
    <3>1. log'[l] = t /\ t.acts = 0 /\ e = t.entry /\ e # Action
      BY <1>1, <1>2, <2>1
    <3>2. \A i \in 1..Len(events[l]) : events[l][i] # Action
      BY <2>1 DEF QuietInv, LastIsLatest
    <3>3. \A i \in 1..Len(events'[l]) : i \in 1..Len(events[l]) \/ i = Len(events[l]) + 1
      BY <1>3
    <3> QED BY <1>3, <2>1, <3>1, <3>2, <3>3
  <2>2. CASE k # l
    BY <1>4, <2>2 DEF QuietInv, LastIsLatest
  <2> QED BY <2>1, <2>2
<1>7. ReceivedIsLatest'
  BY <1>3, <1>4, <1>5 DEF QuietInv, ReceivedIsLatest, Received
<1>8. SnapshotFits' /\ ShownFits'
  BY <1>1, <1>3, <1>4, <1>5 DEF QuietInv, SnapshotFits, ShownFits
<1> QED BY <1>6, <1>7, <1>8 DEF Fits

\* The event that is emitted last, of a list without a delegate, brings what the
\* list holds.
LEMMA EmitKeepsLast ==
  ASSUME QuietInv, NEW l \in Lists, Emit(l)
  PROVE  /\ LastIsLatest'
         /\ \A k \in Lists : k # l => events'[k] = events[k]
         /\ l \notin Delegated => Head(events[l]) # Action
         /\ l \notin Delegated => (events'[l] = <<>> => Head(events[l]) = log[l].entry)
<1>1. /\ events \in [Lists -> Seq(0..MaxWrites)] /\ events[l] \in Seq(0..MaxWrites)
      /\ events[l] # <<>> /\ events' = [events EXCEPT ![l] = Tail(@)] /\ log' = log
  BY DEF QuietInv, TypeOK, Emit
<1>2. /\ events'[l] = Tail(events[l]) /\ Len(events[l]) \in Nat \ {0}
      /\ Len(Tail(events[l])) = Len(events[l]) - 1
      /\ \A i \in 1..Len(Tail(events[l])) : Tail(events[l])[i] = events[l][i + 1]
      /\ Head(events[l]) = events[l][1]
      /\ Tail(events[l]) \in Seq(0..MaxWrites)
  <2>1. Len(events[l]) \in Nat \ {0}
    BY <1>1, EmptySeq
  <2>2. Head(events[l]) = events[l][1]
    BY <1>1
  <2> QED BY <1>1, <2>1, <2>2, HeadTailProperties
<1>3. \A k \in Lists : k # l => events'[k] = events[k]
  BY <1>1
<1>4. ASSUME l \notin Delegated
      PROVE  /\ Head(events[l]) # Action
             /\ events'[l] = <<>> => Head(events[l]) = log[l].entry
             /\ \A i \in 1..Len(events'[l]) : events'[l][i] # Action
             /\ events'[l] # <<>> => events'[l][Len(events'[l])] = log[l].entry
  <2>1. /\ \A i \in 1..Len(events[l]) : events[l][i] # Action
        /\ events[l][Len(events[l])] = log[l].entry
    BY <1>1, <1>4 DEF QuietInv, LastIsLatest
  <2>2. Head(events[l]) # Action
    BY <1>2, <2>1
  <2>3. events'[l] = <<>> => Head(events[l]) = log[l].entry
    <3> SUFFICES ASSUME events'[l] = <<>> PROVE Head(events[l]) = log[l].entry
      OBVIOUS
    <3>1. PICK rest : rest = events'[l] /\ Len(rest) = Len(events[l]) - 1
      BY <1>2, Zenon
    <3>2. Len(rest) = 0
      BY <3>1
    <3>3. Len(events[l]) = 1
      BY <1>2, <3>1, <3>2
    <3> QED BY <1>2, <2>1, <3>3
  <2>4. \A i \in 1..Len(events'[l]) : events'[l][i] # Action
    BY <1>2, <2>1
  <2>5. events'[l] # <<>> => events'[l][Len(events'[l])] = log[l].entry
    <3>1. events'[l] # <<>> => Len(events'[l]) # 0
      BY <1>2, EmptySeq
    <3>2. events'[l] # <<>> => Len(events'[l]) \in 1..Len(Tail(events[l]))
      BY <1>2, <3>1
    <3> QED BY <1>2, <2>1, <3>2
  <2> QED BY <2>2, <2>3, <2>4, <2>5
<1>5. LastIsLatest'
  BY <1>1, <1>3, <1>4 DEF QuietInv, LastIsLatest
<1> QED BY <1>3, <1>4, <1>5

\* An entry that is emitted is kept for the load under way, or is shown.
LEMMA EntryKeepsFits ==
  ASSUME QuietInv, NEW l \in Lists, EntryUpdated(l)
  PROVE  Fits'
<1> DEFINE e == Head(events[l])
<1>1. /\ log \in [Lists -> Todos] /\ shown \in [Lists -> Todos] /\ active \in Lists
      /\ received \in [Lists -> 0..MaxWrites]
      /\ phase \in {"idle", "reading", "read", "annotating"}
      /\ LastIsLatest /\ ReceivedIsLatest /\ SnapshotFits /\ ShownFits
  BY DEF QuietInv, TypeOK
<1>2. /\ Emit(l) /\ l \in observed /\ e # 0
      /\ received' = Track(l, e)
      /\ shown' = [shown EXCEPT ![l] = [entry |-> e, acts |-> 0]]
      /\ UNCHANGED <<log, active, observed>>
  BY DEF EntryUpdated, Emit, Action
<1>3. /\ LastIsLatest'
      /\ \A k \in Lists : k # l => events'[k] = events[k]
      /\ l \notin Delegated => (events'[l] = <<>> => e = log[l].entry)
  <2>1. Emit(l)
    BY <1>2
  <2> QED BY <2>1, EmitKeepsLast
<1>4. ~ leftover' => ~ leftover /\ phase # "annotating"
  BY DEF EntryUpdated
<1>5. IF l \in Delegated THEN LoadTodos(active) ELSE UNCHANGED loadVars
  BY DEF EntryUpdated
<1>6. ReceivedIsLatest'
  <2>1. Received' \subseteq observed'
    BY <1>1, <1>2 DEF Track, Received, ReceivedIsLatest
  <2>2. ASSUME ~ leftover', phase' \in {"idle", "annotating"} PROVE Received' = {}
    <3>1. phase = "idle"
      BY <1>4, <1>5, <2>2, LoadAsked DEF loadVars
    <3> QED BY <1>1, <1>2, <1>4, <2>2, <3>1 DEF Track, Received, ReceivedIsLatest
  <2>3. ASSUME ~ leftover', NEW k \in Lists \ Delegated, received'[k] # 0, events'[k] = <<>>
        PROVE  received'[k] = log'[k].entry
    <3>1. CASE k = l /\ phase # "idle"
      BY <1>1, <1>2, <1>3, <2>3, <3>1 DEF Track
    <3>2. CASE phase = "idle"
      <4>1. Received = {} /\ received' = received
        BY <1>1, <1>2, <1>4, <2>3, <3>2 DEF Track, ReceivedIsLatest
      <4> QED BY <2>3, <4>1 DEF Received
    <3>3. CASE k # l
      BY <1>1, <1>2, <1>3, <1>4, <2>3, <3>3 DEF Track, ReceivedIsLatest
    <3> QED BY <3>1, <3>2, <3>3
  <2> QED BY <1>1, <1>2, <2>1, <2>2, <2>3 DEF ReceivedIsLatest
<1>7. SnapshotFits'
  <2> SUFFICES ASSUME phase' = "read", reading' = active, ~ leftover', ~ requested',
                      received'[active] = 0, events'[active] = <<>>
               PROVE  snapshot' = log[active]
    BY <1>2 DEF SnapshotFits
  <2>1. l \notin Delegated /\ UNCHANGED loadVars
    BY <1>5, LoadAsked
  <2>2. received'[l] = e
    BY <1>1, <1>2, <2>1 DEF Track, loadVars
  <2>3. active # l
    BY <1>2, <2>2
  <2>4. received[active] = 0 /\ events[active] = <<>>
    BY <1>1, <1>2, <1>3, <2>3 DEF Track
  <2> QED BY <1>1, <1>4, <2>1, <2>4 DEF SnapshotFits, loadVars
<1>8. ShownFits'
  <2> SUFFICES ASSUME phase' \in {"idle", "annotating"}, ~ missed'
               PROVE  /\ \A k \in Lists : k # active => shown'[k] = Nothing
                      /\ events'[active] = <<>> => shown'[active] = log[active]
    BY <1>2 DEF ShownFits
  <2>1. ~ missed /\ l = active /\ ~ (l \in Delegated /\ phase = "annotating")
    BY DEF EntryUpdated, AsksTooLate
  <2>2. l \notin Delegated
    BY <1>1, <1>5, <2>1, LoadAsked
  <2>3. UNCHANGED phase
    BY <1>5, <2>2 DEF loadVars
  <2>4. \A k \in Lists : k # active => shown'[k] = Nothing
    BY <1>1, <1>2, <2>1, <2>3 DEF ShownFits
  <2>5. ASSUME events'[active] = <<>> PROVE shown'[active] = log[active]
    <3>1. e = log[l].entry /\ log[l].acts = 0
      BY <1>1, <1>3, <2>1, <2>2, <2>5 DEF LastIsLatest
    <3>2. log[l] = [entry |-> log[l].entry, acts |-> log[l].acts]
      BY <1>1 DEF Todos
    <3> QED BY <1>1, <1>2, <2>1, <3>1, <3>2
  <2> QED BY <2>4, <2>5
<1> QED BY <1>3, <1>6, <1>7, <1>8 DEF Fits

\* A delegate's action has the list read again; an event nobody hears is of a
\* list that was never opened.
LEMMA OtherEventsKeepFits ==
  ASSUME QuietInv, NEW l \in Lists, ActionUpdated(l) \/ UnheardEvent(l)
  PROVE  Fits'
<1>1. /\ active \in Lists /\ received \in [Lists -> 0..MaxWrites]
      /\ phase \in {"idle", "reading", "read", "annotating"}
      /\ ReceivedIsLatest /\ SnapshotFits /\ ShownFits
  BY DEF QuietInv, TypeOK
<1>2. /\ Emit(l)
      /\ UNCHANGED <<log, active, observed, shown, received, leftover>>
  BY DEF ActionUpdated, UnheardEvent, Emit
<1>3. /\ LastIsLatest'
      /\ \A k \in Lists : k # l => events'[k] = events[k]
      /\ l \notin Delegated => Head(events[l]) # Action
  <2>1. Emit(l)
    BY <1>2
  <2> QED BY <2>1, EmitKeepsLast
<1>4. CASE ActionUpdated(l)
  <2>1. l \in Delegated /\ LoadTodos(active)
    BY <1>3, <1>4 DEF ActionUpdated
  <2>2. phase' \in {"idle", "annotating"} => phase = "annotating"
    BY <1>1, <2>1, LoadAsked
  <2>3. ReceivedIsLatest'
    BY <1>1, <1>2, <1>3, <2>1, <2>2 DEF ReceivedIsLatest, Received
  <2>4. SnapshotFits'
    BY <2>1, LoadAsked DEF SnapshotFits
  <2>5. ASSUME phase' \in {"idle", "annotating"}, ~ missed'
        PROVE  ~ missed /\ l # active
    BY <1>4, <2>2, <2>5 DEF ActionUpdated, AsksTooLate
  <2>6. ShownFits'
    BY <1>1, <1>2, <1>3, <2>2, <2>5 DEF ShownFits
  <2> QED BY <1>3, <2>3, <2>4, <2>6 DEF Fits
<1>5. CASE UnheardEvent(l)
  <2>1. l \notin observed /\ UNCHANGED <<loadVars, missed>>
    BY <1>5 DEF UnheardEvent
  <2>2. l # active /\ received[l] = 0
    BY <1>1, <2>1 DEF ReceivedIsLatest, Received
  <2>3. ReceivedIsLatest'
    BY <1>1, <1>2, <1>3, <2>1, <2>2 DEF ReceivedIsLatest, Received, loadVars
  <2>4. SnapshotFits' /\ ShownFits'
    BY <1>1, <1>2, <1>3, <2>1, <2>2 DEF SnapshotFits, ShownFits, loadVars
  <2> QED BY <1>3, <2>3, <2>4 DEF Fits
<1> QED BY <1>4, <1>5

\* What a load ends with is what the list holds, or it reads again.
LEMMA LoadStepKeepsFits ==
  ASSUME QuietInv, LoadStep
  PROVE  Fits'
<1>1. /\ active \in Lists /\ received \in [Lists -> 0..MaxWrites] /\ log \in [Lists -> Todos]
      /\ phase \in {"idle", "reading", "read", "annotating"}
      /\ LastIsLatest /\ ReceivedIsLatest /\ SnapshotFits /\ ShownFits /\ OpenListIsRead
  BY DEF QuietInv, TypeOK
<1>2. UNCHANGED <<log, events, active, observed>>
  BY DEF LoadStep, ReadSnapshot, FinishSnapshot, AbandonSnapshot, ReadFails, EndAnnotating, logVars
<1>3. LastIsLatest'
  BY <1>1, <1>2 DEF LastIsLatest
<1>4. CASE ReadSnapshot
  <2>1. /\ phase' = "read" /\ snapshot' = log[reading]
        /\ UNCHANGED <<reading, received, leftover>>
    BY <1>4 DEF ReadSnapshot
  <2> QED BY <1>1, <1>2, <1>3, <2>1 DEF Fits, ReceivedIsLatest, Received, SnapshotFits, ShownFits
<1>5. CASE FinishSnapshot
  <2> DEFINE again == requested \/ Received \cap Delegated # {}
  <2>1. /\ phase = "read" /\ reading = active /\ NextRound(again)
        /\ shown' = ShowSnapshot /\ received' = ForgetReceived
        /\ missed' = (leftover \/ ~ Received \subseteq {active})
    BY <1>5 DEF FinishSnapshot
  <2>2. phase' \in {"reading", "annotating"} /\ (phase' = "annotating" => ~ again)
    BY <2>1 DEF NextRound, BeginRead
  <2>3. ReceivedIsLatest'
    BY <1>1, <1>2, <2>1 DEF ReceivedIsLatest, Received, ForgetReceived
  <2>4. SnapshotFits'
    BY <2>2 DEF SnapshotFits
  <2>5. ASSUME phase' = "annotating", ~ missed'
        PROVE  /\ \A k \in Lists : k # active => shown'[k] = Nothing
               /\ events[active] = <<>> => shown'[active] = log[active]
    <3>1. ~ leftover /\ Received \subseteq {active} /\ ~ requested /\ Received \cap Delegated = {}
      BY <2>1, <2>2, <2>5
    <3>2. \A k \in Lists : k # active => shown'[k] = Nothing
      BY <2>1, <3>1 DEF ShowSnapshot
    <3>3. ASSUME events[active] = <<>>, active \in Received PROVE shown'[active] = log[active]
      <4>1. active \notin Delegated /\ received[active] = log[active].entry /\ log[active].acts = 0
        BY <1>1, <3>1, <3>3 DEF ReceivedIsLatest, LastIsLatest, Received
      <4>2. log[active] = [entry |-> log[active].entry, acts |-> log[active].acts]
        BY <1>1 DEF Todos
      <4> QED BY <1>1, <2>1, <3>3, <4>1, <4>2 DEF ShowSnapshot
    <3>4. ASSUME events[active] = <<>>, active \notin Received PROVE shown'[active] = log[active]
      <4>1. received[active] = 0
        BY <1>1, <3>4 DEF Received
      <4> QED BY <1>1, <2>1, <3>1, <3>4, <4>1 DEF ShowSnapshot, SnapshotFits
    <3> QED BY <3>2, <3>3, <3>4
  <2>6. ShownFits'
    BY <1>2, <2>2, <2>5 DEF ShownFits
  <2> QED BY <1>3, <2>3, <2>4, <2>6 DEF Fits
<1>6. CASE AbandonSnapshot \/ ReadFails
  <2>1. /\ phase' \in {"reading", "annotating"}
        /\ phase' = "annotating" => missed'
    BY <1>1, <1>6 DEF AbandonSnapshot, ReadFails, NextRound, BeginRead, OpenListIsRead
  <2>2. /\ UNCHANGED received
        /\ ~ leftover' => ~ leftover /\ Received = {}
    BY <1>6 DEF AbandonSnapshot, ReadFails
  <2>3. ReceivedIsLatest'
    BY <1>1, <1>2, <2>2 DEF ReceivedIsLatest, Received
  <2> QED BY <1>3, <2>1, <2>3 DEF Fits, SnapshotFits, ShownFits
<1>7. CASE EndAnnotating
  <2>1. /\ phase = "annotating" /\ phase' = "idle"
        /\ UNCHANGED <<shown, received, missed, leftover>>
    BY <1>7 DEF EndAnnotating
  <2> QED BY <1>1, <1>2, <1>3, <2>1 DEF Fits, ReceivedIsLatest, Received, SnapshotFits, ShownFits
<1> QED BY <1>4, <1>5, <1>6, <1>7 DEF LoadStep

\* A peer that joins and a list that is opened ask for a load.
LEMMA NudgesKeepFits ==
  ASSUME QuietInv, NEW l \in Lists, PeerJoined(l) \/ OpenList(l)
  PROVE  Fits'
<1>1. /\ active \in Lists
      /\ phase \in {"idle", "reading", "read", "annotating"}
      /\ LastIsLatest /\ ReceivedIsLatest /\ SnapshotFits /\ ShownFits
  BY DEF QuietInv, TypeOK
<1>2. /\ UNCHANGED <<log, events, shown, received, leftover>>
      /\ LoadTodos(active') /\ observed \subseteq observed' /\ active' \in observed'
      /\ active' # active => (phase = "annotating" => missed')
      /\ ~ missed' => ~ missed
  <2>1. CASE PeerJoined(l)
    BY <1>1, <2>1 DEF PeerJoined, logVars, ReceivedIsLatest
  <2>2. CASE OpenList(l)
    BY <2>2 DEF OpenList, logVars, AsksTooLate
  <2> QED BY <2>1, <2>2
<1>3. LastIsLatest'
  BY <1>1, <1>2 DEF LastIsLatest
<1>4. /\ phase' = "read" => requested'
      /\ phase' \in {"idle", "annotating"} => phase = "annotating" /\ phase' = "annotating"
  BY <1>1, <1>2, LoadAsked
<1>5. ReceivedIsLatest'
  BY <1>1, <1>2, <1>4 DEF ReceivedIsLatest, Received
<1>6. SnapshotFits' /\ ShownFits'
  BY <1>1, <1>2, <1>4 DEF SnapshotFits, ShownFits
<1> QED BY <1>3, <1>5, <1>6 DEF Fits

LEMMA StepKeepsFits ==
  ASSUME QuietInv, [Next]_vars
  PROVE  Fits'
<1>1. CASE UNCHANGED vars
  BY <1>1 DEF vars, logVars, loadVars, QuietInv, Fits, LastIsLatest, ReceivedIsLatest, Received,
     SnapshotFits, ShownFits
<1> QED BY <1>1, LoadStepKeepsFits, WriteKeepsFits, EntryKeepsFits, OtherEventsKeepFits,
           NudgesKeepFits DEF Next, Updated

LEMMA InitQuiet == Init => QuietInv
<1> SUFFICES ASSUME Init PROVE QuietInv
  OBVIOUS
<1>1. TypeOK
  <2>1. <<>> \in Seq(0..MaxWrites) /\ 0 \in 0..MaxWrites /\ 0 \in 0..MaxNudges
    BY BoundsAssumption, EmptySeq
  <2> QED BY <2>1, NothingIsATodo, ListsAssumption DEF Init, TypeOK
<1>2. Counted /\ OpenListIsRead
  BY DEF Init, Counted, Nothing, OpenListIsRead
<1>3. LastIsLatest
  <2>1. \A l \in Lists : log[l].acts = 0 /\ events[l] = <<>> /\ Len(events[l]) = 0
    BY EmptySeq DEF Init, Nothing
  <2>2. \A i \in 1..0 : FALSE
    OBVIOUS
  <2> QED BY <2>1, <2>2 DEF LastIsLatest
<1>4. ReceivedIsLatest /\ SnapshotFits /\ ShownFits
  BY DEF Init, ReceivedIsLatest, Received, SnapshotFits, ShownFits
<1> QED BY <1>1, <1>2, <1>3, <1>4 DEF QuietInv

LEMMA AlwaysQuietInv == Spec => []QuietInv
<1>1. QuietInv /\ [Next]_vars => QuietInv'
  <2>1. QuietInv => LoadTypeOK /\ OpenListIsRead
    BY DEF QuietInv, TypeOK, LoadTypeOK
  <2> QED BY <2>1, StepTyped, StepKeeps, StepKeepsFits DEF QuietInv, Fits
<1> QED BY <1>1, InitQuiet, PTL DEF Spec

\* The lists, the view and the load are well formed, for any number of lists,
\* writes and switches (db-actions.js).
THEOREM TypesHold == Spec => []TypeOK
<1>1. QuietInv => TypeOK
  BY DEF QuietInv
<1> QED BY <1>1, AlwaysQuietInv, PTL

\* However loads, events, writes and switches overlap, a page at rest shows the
\* open list, unless something it needed was dropped (loadTodos,
\* applyTodoEntry, loadTodosSnapshot).
THEOREM AtRestTheViewIsCurrent == Spec => []QuietViewIsCurrent
<1>1. QuietInv => QuietViewIsCurrent
  <2> SUFFICES ASSUME QuietInv, phase = "idle", events[active] = <<>>, ~ missed
               PROVE  shown = Current
    BY DEF QuietViewIsCurrent
  <2>1. shown \in [Lists -> Todos]
    BY DEF QuietInv, TypeOK
  <2>2. \A l \in Lists : shown[l] = IF l = active THEN log[l] ELSE Nothing
    BY DEF QuietInv, ShownFits
  <2> QED BY <2>1, <2>2 DEF Current
<1> QED BY <1>1, AlwaysQuietInv, PTL

-----------------------------------------------------------------------------
\* However often the user switches lists under a load, and whatever fails, the
\* load does not end with a read of a list that is no longer open.
THEOREM TheOpenListIsRead == Spec => []OpenListIsRead
BY InitKeeps, StepKeeps, PTL DEF Spec
=============================================================================
