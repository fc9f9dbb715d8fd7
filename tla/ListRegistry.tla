---------------------------- MODULE ListRegistry ----------------------------
(***************************************************************************)
(* The registry of lists of one browser, and the move of its entries when  *)
(* the browser takes another identity: qr01's list-registry.js,            *)
(* registry-handoff.js and the restart in p2p.js.                          *)
(*                                                                         *)
(* A registry's name follows from a signature, so each identity has its    *)
(* own.  Taking a passkey therefore carries the entries over: they are     *)
(* staged in a buffer in the browser's storage, the old registry is        *)
(* dropped, the whole stack is stopped and started, and the new session    *)
(* writes the buffer into its registry and lets it go.  All of this awaits *)
(* storage, while the page is in use and may be closed at any moment.      *)
(***************************************************************************)
EXTENDS Naturals

CONSTANTS
  Lists,
  Own,         \* those that were made here; the others are somebody else's
  Identities,
  Anonymous,   \* the identity every start begins with: a passkey needs a click
  MaxUpsets    \* bound on restarts, crashes and failures

ASSUME IdentitiesAssumption == Anonymous \in Identities
ASSUME ListsAssumption == Own \subseteq Lists /\ Lists # {}
ASSUME UpsetsAssumption == MaxUpsets \in Nat

VARIABLES
  registry,  \* the registries, as they are kept
  buffer,    \* the staged entries, as they are kept
  phase,     \* "up", "dropping" (staged, the old registry is going), "stopped"
  identity,  \* of the session; of the next one when stopped
  heading,   \* the identity that is being adopted
  handle,    \* registryDB: none, this session's, or one that was stopped
  opening,   \* whether this session's registry is being opened
  late,      \* whether an earlier session's registry is being opened
  store,     \* listRegistryStore
  call,      \* the user's call of rememberList or forgetList, and the move's
  carrying,  \* whether applyRegistryHandoff runs
  todo,      \* the staged entries it has not written yet
  lateClear, \* an earlier session's applyRegistryHandoff still has to clear
  upsets,
  kept,      \* history: what the user recorded and did not forget
  rushed,    \* history: a registry was dropped, or an entry written, on an outdated reading
  unstaged   \* history: a registry was dropped though storage did not take its entries

disk == <<registry, buffer>>
session == <<phase, identity, heading>>
open == <<handle, opening, late>>
move == <<carrying, todo, lateClear>>
history == <<kept, rushed, unstaged>>
vars == <<disk, session, open, store, call, move, upsets, history>>

\* A list that is not in a registry; one that was opened; one's own.
Entries == {"absent", "guest", "owner"}
Nothing == [l \in Lists |-> "absent"]

Callers == {"user", "move"}
Calls == [step : {"idle", "open", "get", "put", "hung"},
          list : Lists, entry : Entries, known : Entries]
noCall == [step |-> "idle", list |-> CHOOSE l \in Lists : TRUE,
           entry |-> "absent", known |-> "absent"]

TypeOK ==
  /\ registry \in [Identities -> [Lists -> Entries]]
  /\ buffer \in [Lists -> Entries]
  /\ phase \in {"up", "dropping", "stopped"}
  /\ identity \in Identities
  /\ heading \in Identities
  /\ handle \in {"none", "live", "dead"}
  /\ opening \in BOOLEAN
  /\ late \in BOOLEAN
  /\ store \in [Lists -> Entries]
  /\ call \in [Callers -> Calls]
  /\ carrying \in BOOLEAN
  /\ todo \in [Lists -> Entries]
  /\ lateClear \in BOOLEAN
  /\ upsets \in 0..MaxUpsets
  /\ kept \in [Lists -> Entries]
  /\ rushed \in BOOLEAN
  /\ unstaged \in BOOLEAN

Init ==
  /\ registry = [i \in Identities |-> Nothing]
  /\ buffer = Nothing
  /\ phase = "stopped"
  /\ identity = Anonymous
  /\ heading = Anonymous
  /\ handle = "none"
  /\ opening = FALSE
  /\ late = FALSE
  /\ store = Nothing
  /\ call = [c \in Callers |-> noCall]
  /\ carrying = FALSE
  /\ todo = Nothing
  /\ lateClear = FALSE
  /\ upsets = 0
  /\ kept = Nothing
  /\ rushed = FALSE
  /\ unstaged = FALSE

Upset == upsets < MaxUpsets /\ upsets' = upsets + 1
Running == phase \in {"up", "dropping"}

-----------------------------------------------------------------------------
\* rememberList and forgetList

\* forgetList, an entry of "absent", reads nothing first.
Opened(c) == [c EXCEPT !.step = IF c.entry = "absent" THEN "put" ELSE "get"]

\* openListRegistry hands out the handle there is, whatever became of it, and
\* opens the registry when there is none.
Begin(p, l, entry) ==
  LET c == [noCall EXCEPT !.list = l, !.entry = entry]
  IN /\ call[p].step = "idle"
     /\ call' = [call EXCEPT ![p] =
          CASE handle = "none" -> [c EXCEPT !.step = "open"]
            [] handle = "live" -> Opened(c)
            [] handle = "dead" -> [c EXCEPT !.step = "hung"]]
     /\ opening' = (opening \/ handle = "none")

\* A list is recorded as one's own where it is made, and by address afterwards.
UserCalls(l, entry) ==
  /\ Running
  /\ entry = "owner" => l \in Own
  /\ Begin("user", l, entry)
  /\ UNCHANGED <<disk, session, handle, late, store, move, upsets, history>>

OpenDone ==
  /\ opening /\ Running
  /\ opening' = FALSE
  /\ handle' = "live"
  /\ call' = [p \in Callers |-> IF call[p].step = "open" THEN Opened(call[p]) ELSE call[p]]
  /\ UNCHANGED <<disk, session, late, store, move, upsets, history>>

\* An earlier session's registry, once open, is taken for this session's; or it
\* no longer opens.
LateOpen ==
  /\ late
  /\ late' = FALSE
  /\ handle' \in {handle, "dead"}
  /\ UNCHANGED <<disk, session, opening, store, call, move, upsets, history>>

Get(p) ==
  /\ call[p].step = "get"
  /\ call' = [call EXCEPT ![p].step = "put", ![p].known = registry[identity][call[p].list]]
  /\ UNCHANGED <<disk, session, open, store, move, upsets, history>>

\* Mutant: writes the address where the role belongs.
MergedSwapped(c) == c.list

\* What is written: a list that is one's own stays so.
Merged(c) == IF c.entry # "absent" /\ c.known = "owner" THEN "owner" ELSE c.entry

Put(p) ==
  LET c == call[p]
      value == Merged(c)
  IN /\ c.step = "put"
     /\ registry' = [registry EXCEPT ![identity][c.list] = value]
     /\ call' = [call EXCEPT ![p] = noCall]
     /\ IF p = "move"
        THEN /\ todo' = [todo EXCEPT ![c.list] = "absent"]
             /\ kept' = kept
        ELSE /\ kept' = [kept EXCEPT ![c.list] =
                          IF @ = "owner" /\ value # "absent" THEN @ ELSE value]
             /\ todo' = todo
     /\ rushed' = (rushed \/ phase = "dropping"
                     \/ (c.entry # "absent" /\ c.known # registry[identity][c.list]))
     /\ UNCHANGED <<buffer, session, open, store, carrying, lateClear, upsets, unstaged>>

\* refreshRegistry, after each write and on each update: some time later.
Refresh ==
  /\ handle = "live"
  /\ store' = registry[identity]
  /\ UNCHANGED <<disk, session, open, call, move, upsets, history>>

\* A call throws.  The move gives up, and its buffer stays.
CallFails(p) ==
  /\ Upset
  /\ call[p].step # "idle"
  /\ call' = [call EXCEPT ![p] = noCall]
  /\ IF p = "move" THEN carrying' = FALSE /\ todo' = Nothing
                   ELSE UNCHANGED <<carrying, todo>>
  /\ UNCHANGED <<disk, session, open, store, lateClear, history>>

-----------------------------------------------------------------------------
\* applyRegistryHandoff

\* Mutant: moves only what is one's own.
MoveOwnCalls ==
  /\ carrying
  /\ \E l \in Lists : todo[l] = "owner" /\ Begin("move", l, todo[l])
  /\ UNCHANGED <<disk, session, handle, late, store, move, upsets, history>>

MoveCalls ==
  /\ carrying
  /\ \E l \in Lists : todo[l] # "absent" /\ Begin("move", l, todo[l])
  /\ UNCHANGED <<disk, session, handle, late, store, move, upsets, history>>

ClearBuffer ==
  /\ carrying /\ todo = Nothing
  /\ buffer' = Nothing
  /\ carrying' = FALSE
  /\ UNCHANGED <<registry, session, open, store, call, todo, lateClear, upsets, history>>

\* The same after the session it belongs to.
ClearLate ==
  /\ lateClear
  /\ buffer' = Nothing
  /\ lateClear' = FALSE
  /\ UNCHANGED <<registry, session, open, store, call, carrying, todo, upsets, history>>

-----------------------------------------------------------------------------
\* The session: restartP2P, stopP2P, initializeP2P

\* stopP2P.  Of the calls under way nothing comes any more, unless it is the
\* clearing of the buffer; an opening that is under way goes on.
Stop(next) ==
  /\ phase' = "stopped"
  /\ identity' = next
  /\ heading' = next
  /\ handle' = "none"
  /\ late' = (late \/ opening)
  /\ opening' = FALSE
  /\ store' = Nothing
  /\ call' = [c \in Callers |-> noCall]
  /\ lateClear' = (lateClear \/ (carrying /\ todo = Nothing))
  /\ carrying' = FALSE
  /\ todo' = Nothing

\* What is staged is not what there is, or something is still being written.
Rushing ==
  \/ store # registry[identity]
  \/ buffer # Nothing
  \/ carrying \/ lateClear
  \/ call["user"].step # "idle"

\* Mutant: drops the registry before its entries are staged.
DropFirst(i) ==
  /\ phase = "up"
  /\ Upset
  /\ IF store = Nothing
     THEN Stop(i) /\ UNCHANGED <<disk, history>>
     ELSE /\ registry' = [registry EXCEPT ![identity] = Nothing]
          /\ phase' = "dropping"
          /\ heading' = i
          /\ rushed' = (rushed \/ Rushing)
          /\ UNCHANGED <<buffer, identity, open, store, call, move, kept, unstaged>>

\* stageRegistryHandoff; that storage refuses goes unnoticed.
Stage ==
  \/ buffer' = store /\ UNCHANGED unstaged
  \/ unstaged' = TRUE /\ UNCHANGED buffer

\* restartP2P with a credential, or with none: a switch of the relay setting
\* names the anonymous identity.
Adopt(i) ==
  /\ phase = "up"
  /\ Upset
  /\ IF store = Nothing
     THEN Stop(i) /\ UNCHANGED <<disk, history>>
     ELSE /\ Stage
          /\ phase' = "dropping"
          /\ heading' = i
          /\ rushed' = (rushed \/ Rushing)
          /\ UNCHANGED <<registry, identity, open, store, call, move, kept>>

DropDone ==
  /\ phase = "dropping"
  /\ handle = "live"
  /\ registry' = [registry EXCEPT ![identity] = Nothing]
  /\ Stop(heading)
  /\ UNCHANGED <<buffer, upsets, history>>

\* The old registry stays.
DropFails ==
  /\ phase = "dropping"
  /\ Upset
  /\ Stop(heading)
  /\ UNCHANGED <<disk, history>>

\* restartP2P for another list or other storage: the identity is kept.
Restart ==
  /\ phase = "up"
  /\ Upset
  /\ Stop(identity)
  /\ UNCHANGED <<disk, history>>

\* initializeP2P.  One that fails changes nothing here, and may be tried again.
Start ==
  /\ phase = "stopped"
  /\ phase' = "up"
  /\ opening' = (handle = "none")
  /\ carrying' = (buffer # Nothing)
  /\ todo' = buffer
  /\ UNCHANGED <<disk, identity, heading, handle, late, store, call, lateClear, upsets, history>>

\* The page is closed or reloaded: what is in memory is gone.
Crash ==
  /\ Upset
  /\ phase' = "stopped"
  /\ identity' = Anonymous
  /\ heading' = Anonymous
  /\ handle' = "none"
  /\ opening' = FALSE
  /\ late' = FALSE
  /\ store' = Nothing
  /\ call' = [c \in Callers |-> noCall]
  /\ carrying' = FALSE
  /\ todo' = Nothing
  /\ lateClear' = FALSE
  /\ UNCHANGED <<disk, history>>

Step ==
  \/ OpenDone \/ LateOpen \/ Refresh \/ MoveCalls \/ ClearBuffer \/ ClearLate
  \/ DropDone \/ Start
  \/ \E p \in Callers : Get(p) \/ Put(p)

Next ==
  \/ Step
  \/ \E l \in Lists, entry \in Entries : UserCalls(l, entry)
  \/ \E p \in Callers : CallFails(p)
  \/ \E i \in Identities : Adopt(i)
  \/ DropFails \/ Restart \/ Crash

Spec == Init /\ [][Next]_vars

\* What storage was asked for it answers, unless the session has gone, and a
\* page that was closed is opened again.
Fairness ==
  /\ WF_vars(OpenDone)
  /\ WF_vars(MoveCalls)
  /\ WF_vars(ClearBuffer)
  /\ WF_vars(Start)
  /\ WF_vars(Get("move"))
  /\ WF_vars(Put("move"))

FairSpec == Spec /\ Fairness

-----------------------------------------------------------------------------
\* Properties

Worth == [absent |-> 0, guest |-> 1, owner |-> 2]

\* A list is in the buffer or in a registry, and as one's own if it was.
Safe(l) ==
  \/ Worth[buffer[l]] >= Worth[kept[l]]
  \/ \E i \in Identities : Worth[registry[i][l]] >= Worth[kept[l]]

\* restartP2P: "An interruption anywhere in the middle leaves the buffer on disk,
\* and the next start finishes the job." No list is lost, wherever the page is
\* closed and whatever fails, but for two cases. Storage did not take the staged
\* entries, and the registry is dropped all the same. Or what was staged was not
\* all there is: the switcher had not caught up with the registry, an earlier
\* move was unfinished, or a call of the user's was under way, then or while the
\* registry was going, or wrote over an entry that had changed since it was read.
NothingLostUnlessRushed == rushed \/ unstaged \/ \A l \in Lists : Safe(l)

\* A move that was interrupted is finished by a session that stays, unless a
\* call of it has failed or was handed a registry that is gone.
Staying ==
  /\ phase = "up"
  /\ buffer # Nothing => carrying /\ call["move"].step # "hung"

MoveFinishes == <>[]Staying => <>[](buffer = Nothing)
=============================================================================
