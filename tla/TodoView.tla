------------------------------ MODULE TodoView ------------------------------
(***************************************************************************)
(* What the page shows of the open list: loadTodos, loadTodosSnapshot,     *)
(* applyTodoEntry and setupDatabaseListeners of db-actions.js.             *)
(*                                                                         *)
(* The view is fed in two ways that overlap: a load reads the whole list   *)
(* over many awaits and replaces the view, and every `update` event of a   *)
(* list that was ever opened patches it in place. Each list has one todo,  *)
(* known by how often its entry was written and how many of a delegate's   *)
(* actions are folded into that entry.                                     *)
(***************************************************************************)
EXTENDS Naturals, Sequences

CONSTANTS
  Lists,
  Shared,     \* the list the app starts on
  Delegated,  \* the lists whose todo is delegated
  ReadsMayFail,
  MaxWrites,  \* bound on the writes to all lists
  MaxNudges   \* bound on list switches and peers joining

ASSUME ListsAssumption == Shared \in Lists /\ Delegated \subseteq Lists
ASSUME BoundsAssumption == ReadsMayFail \in BOOLEAN /\ MaxWrites \in Nat /\ MaxNudges \in Nat

VARIABLES
  log,       \* what each list holds
  events,    \* update events the database has yet to emit
  shown,     \* todosStore
  active,    \* todoDBStore
  observed,  \* observedDatabases
  phase,     \* pendingTodosLoad, and how far it has come
  reading,   \* the list that load reads
  snapshot,  \* and what it has read
  requested, \* todosReloadRequested
  received,  \* todoEntriesReceivedDuringLoad: the last entry of each list
  writes, nudges,
  missed,    \* history: something the view needed was dropped since it was last right
  leftover   \* history: `received` holds an entry from before this load

logVars == <<log, events, writes>>
loadVars == <<phase, reading, snapshot, requested>>
vars == <<logVars, shown, active, observed, loadVars, received, nudges, missed, leftover>>

Todos == [entry : 0..MaxWrites, acts : 0..MaxWrites]
Nothing == [entry |-> 0, acts |-> 0]

\* A delegate's action comes with no entry of the todo.
Action == 0

TypeOK ==
  /\ log \in [Lists -> Todos]
  /\ events \in [Lists -> Seq(0..MaxWrites)]
  /\ shown \in [Lists -> Todos]
  /\ active \in Lists
  /\ observed \subseteq Lists
  /\ phase \in {"idle", "reading", "read", "annotating"}
  /\ reading \in Lists
  /\ snapshot \in Todos
  /\ requested \in BOOLEAN
  /\ received \in [Lists -> 0..MaxWrites]
  /\ writes \in 0..MaxWrites
  /\ nudges \in 0..MaxNudges
  /\ missed \in BOOLEAN
  /\ leftover \in BOOLEAN

\* initializeDatabase has set the shared list, hung up its listeners and
\* called loadTodos.
Init ==
  /\ log = [l \in Lists |-> Nothing]
  /\ events = [l \in Lists |-> <<>>]
  /\ shown = [l \in Lists |-> Nothing]
  /\ active = Shared
  /\ observed = {Shared}
  /\ phase = "reading"
  /\ reading = Shared
  /\ snapshot = Nothing
  /\ requested = FALSE
  /\ received = [l \in Lists |-> 0]
  /\ writes = 0
  /\ nudges = 0
  /\ missed = FALSE
  /\ leftover = FALSE

-----------------------------------------------------------------------------
\* loadTodos

BeginRead(list) ==
  /\ phase' = "reading"
  /\ requested' = FALSE
  /\ reading' = list
  /\ UNCHANGED snapshot

\* Mutant: a load under way is taken to be good enough.
LoadTodosOnce(list) ==
  IF phase = "idle" THEN BeginRead(list) ELSE UNCHANGED loadVars

\* A load under way is asked to read again instead of a second one starting.
LoadTodos(list) ==
  IF phase = "idle"
  THEN BeginRead(list)
  ELSE requested' = TRUE /\ UNCHANGED <<phase, reading, snapshot>>

\* Once the last snapshot is in, nobody looks at the request any more.
AsksTooLate == phase = "annotating"

\* The list is read as it was at some moment of the read.
ReadSnapshot ==
  /\ phase = "reading"
  /\ snapshot' = log[reading]
  /\ phase' = "read"
  /\ UNCHANGED <<logVars, shown, active, observed, reading, requested, received, nudges,
                 missed, leftover>>

\* The end of one round of the do-while.
NextRound(again) ==
  IF again
  THEN BeginRead(active)
  ELSE /\ phase' = "annotating"
       /\ requested' = FALSE
       /\ UNCHANGED <<reading, snapshot>>

Received == {l \in Lists : received[l] # 0}

\* Mutant: a replayed entry is shown without its delegate's part at all.
ShowSnapshotBare ==
  [l \in Lists |-> IF l \in Received THEN [entry |-> received[l]]
                   ELSE IF l = reading THEN snapshot
                   ELSE Nothing]

\* The snapshot, and over it the entries that came in meanwhile.
ShowSnapshot ==
  [l \in Lists |-> IF l \in Received THEN [entry |-> received[l], acts |-> 0]
                   ELSE IF l = reading THEN snapshot
                   ELSE Nothing]

\* Mutant: an entry replayed over the snapshot is noted as received again.
ReplayTracked == received

ForgetReceived == [l \in Lists |-> 0]

\* Replaying a delegated todo asks for another read, which finds nothing left
\* to replay.
FinishSnapshot ==
  /\ phase = "read"
  /\ reading = active
  /\ shown' = ShowSnapshot
  /\ received' = ForgetReceived
  /\ NextRound(requested \/ Received \cap Delegated # {})
  /\ missed' = (leftover \/ ~ Received \subseteq {active})
  /\ leftover' = FALSE
  /\ UNCHANGED <<logVars, active, observed, nudges>>

\* Another list was opened meanwhile; the snapshot is dropped.
AbandonSnapshot ==
  /\ phase = "read"
  /\ reading # active
  /\ NextRound(requested)
  /\ leftover' = (leftover \/ Received # {})
  /\ UNCHANGED <<logVars, shown, active, observed, received, nudges, missed>>

\* Reading fails; the view stays as it was.
ReadFails ==
  /\ ReadsMayFail
  /\ phase = "reading"
  /\ NextRound(requested)
  /\ missed' = TRUE
  /\ leftover' = (leftover \/ Received # {})
  /\ UNCHANGED <<logVars, shown, active, observed, received, nudges>>

\* annotateTodoAuthors has looked up every todo's author, one await each.
EndAnnotating ==
  /\ phase = "annotating"
  /\ phase' = "idle"
  /\ UNCHANGED <<logVars, shown, active, observed, reading, snapshot, requested, received,
                 nudges, missed, leftover>>

-----------------------------------------------------------------------------
\* The lists themselves: own writes and what replicates in

MayWrite == writes < MaxWrites

\* The todo is written, dropping the delegate's actions (its updatedAt moved) or
\* not (a budget's did not).
WriteEntry(l) ==
  /\ MayWrite
  /\ \E kept \in {0, log[l].acts} :
       log' = [log EXCEPT ![l] = [entry |-> @.entry + 1, acts |-> kept]]
  /\ events' = [events EXCEPT ![l] = Append(@, log'[l].entry)]
  /\ writes' = writes + 1
  /\ UNCHANGED <<shown, active, observed, loadVars, received, nudges, missed, leftover>>

WriteAction(l) ==
  /\ MayWrite
  /\ l \in Delegated /\ log[l].entry # 0
  /\ log' = [log EXCEPT ![l].acts = @ + 1]
  /\ events' = [events EXCEPT ![l] = Append(@, Action)]
  /\ writes' = writes + 1
  /\ UNCHANGED <<shown, active, observed, loadVars, received, nudges, missed, leftover>>

\* The event is emitted; nobody listens to a list that was never opened.
Emit(l) ==
  /\ events[l] # <<>>
  /\ events' = [events EXCEPT ![l] = Tail(@)]
  /\ UNCHANGED <<log, writes, active, observed, nudges>>

UnheardEvent(l) ==
  /\ Emit(l)
  /\ l \notin observed
  /\ UNCHANGED <<shown, loadVars, received, missed, leftover>>

\* Mutant: entries are not kept for the replay.
TrackNothing(l, e) == received

\* applyTodoEntry keeps the entry for the load under way.
Track(l, e) == IF phase = "idle" THEN received ELSE [received EXCEPT ![l] = e]

\* applyTodoEntry puts the bare entry into the view, whatever list is open. If
\* the todo is delegated, only a re-read brings the delegate's part back.
EntryUpdated(l) ==
  LET e == Head(events[l])
  IN /\ Emit(l)
     /\ l \in observed
     /\ e # Action
     /\ received' = Track(l, e)
     /\ leftover' = (leftover \/ phase = "annotating")
     /\ shown' = [shown EXCEPT ![l] = [entry |-> e, acts |-> 0]]
     /\ missed' = (missed \/ l # active \/ (l \in Delegated /\ AsksTooLate))
     /\ IF l \in Delegated THEN LoadTodos(active) ELSE UNCHANGED loadVars

ActionUpdated(l) ==
  /\ Emit(l)
  /\ l \in observed
  /\ Head(events[l]) = Action
  /\ LoadTodos(active)
  /\ missed' = (missed \/ (l = active /\ AsksTooLate))
  /\ UNCHANGED <<shown, received, leftover>>

-----------------------------------------------------------------------------
\* setupDatabaseListeners' join, and opening another list

MayNudge == nudges < MaxNudges

PeerJoined(l) ==
  /\ MayNudge
  /\ l \in observed
  /\ LoadTodos(active)
  /\ nudges' = nudges + 1
  /\ UNCHANGED <<logVars, shown, active, observed, received, missed, leftover>>

\* loadTodoDatabase and createPrivateTodoList. The listeners of the list left
\* behind stay.
OpenList(l) ==
  /\ MayNudge
  /\ l # active
  /\ active' = l
  /\ observed' = observed \cup {l}
  /\ LoadTodos(l)
  /\ missed' = (missed \/ AsksTooLate)
  /\ nudges' = nudges + 1
  /\ UNCHANGED <<logVars, shown, received, leftover>>

-----------------------------------------------------------------------------
LoadStep == ReadSnapshot \/ FinishSnapshot \/ AbandonSnapshot \/ ReadFails \/ EndAnnotating

Updated(l) == UnheardEvent(l) \/ EntryUpdated(l) \/ ActionUpdated(l)

Next ==
  \/ LoadStep
  \/ \E l \in Lists : WriteEntry(l) \/ WriteAction(l) \/ Updated(l) \/ PeerJoined(l) \/ OpenList(l)

Spec == Init /\ [][Next]_vars

\* A read resolves or fails, and so does every look-up of an author.
FairSpec == Spec /\ WF_vars(LoadStep)

-----------------------------------------------------------------------------
\* Properties

\* What the page should show: the open list's todo, and nothing else.
Current == [l \in Lists |-> IF l = active THEN log[l] ELSE Nothing]

\* Once a load is over and every event of the open list has been emitted, the
\* page shows the open list: snapshots and events overlap in any order without
\* an older state winning. The exceptions are named by `missed`: a request made
\* after the last snapshot, a failed read, an entry of another list, and an
\* entry left over from an earlier load.
QuietViewIsCurrent ==
  phase = "idle" /\ events[active] = <<>> /\ ~ missed => shown = Current

\* A read of a list that is no longer open never ends the load: a further read
\* is always owed.
OpenListIsRead ==
  phase \in {"reading", "read"} /\ reading # active => requested

\* Loads end. Replaying an entry may ask for a further read, which must not
\* find it again.
LoadsEnd == phase # "idle" ~> phase = "idle"
=============================================================================
