----------------------------- MODULE RelayProof -----------------------------
(***************************************************************************)
(* The relay's replication status of one todo: scheduleRelayReplication-   *)
(* Proof and verifyRelayReplication of db-actions.js, and the writes that  *)
(* call them.                                                              *)
(*                                                                         *)
(* A verification asks the relay, a few times over, whether the last       *)
(* record it holds is one given entry. Several run at once: an `update`    *)
(* event schedules one unless one is in flight, and a toggle or a change   *)
(* of assignee starts its own. All of them write the same status.          *)
(* Entries of the list are numbered in the order they were written.        *)
(***************************************************************************)
EXTENDS Naturals

CONSTANTS
  Proofs,     \* calls of verifyRelayReplication
  MaxWrites,  \* bound on the entries of the list
  Attempts    \* RELAY_PROOF_ATTEMPTS

ASSUME CountsAssumption == MaxWrites \in Nat /\ Attempts \in Nat \ {0}

VARIABLES
  entry,      \* the todo's latest entry; 0 while there is none
  head,       \* the list's latest entry, of whichever todo
  relay,      \* the last record the relay holds
  owed,       \* entries a toggle has put and will verify itself
  status,     \* todoReplicationStatusStore, of this todo
  inFlight,   \* relayProofsInFlight has this todo
  proof,      \* the verifications
  mixed       \* history: when a verification last began, another was under way
              \* or the entry it asks about was not the latest any more

relayVars == <<entry, head, relay, owed, status, inFlight, proof, mixed>>

Unused == [stage |-> "unused", hash |-> 0, attempt |-> 0, scheduled |-> FALSE]

RelayTypeOK ==
  /\ entry \in 0..MaxWrites
  /\ head \in 0..MaxWrites
  /\ relay \in 0..MaxWrites
  /\ owed \subseteq 1..MaxWrites
  /\ status \in {"unknown", "pending", "pinned", "unavailable"}
  /\ inFlight \in BOOLEAN
  /\ proof \in [Proofs -> [stage : {"unused", "asking", "over"}, hash : 0..MaxWrites,
                           attempt : 0..Attempts, scheduled : BOOLEAN]]
  /\ mixed \in BOOLEAN

RelayInit ==
  /\ entry = 0
  /\ head = 0
  /\ relay = 0
  /\ owed = {}
  /\ status = "unknown"
  /\ inFlight = FALSE
  /\ proof = [p \in Proofs |-> Unused]
  /\ mixed = FALSE

-----------------------------------------------------------------------------
\* Starting a verification

Asking(p) == proof[p].stage = "asking"

\* With a relay to ask the first request goes out; without one the answer is
\* there at once.
Begin(p, hash, scheduled, shown) ==
  /\ proof[p].stage = "unused"
  /\ \/ /\ proof' = [proof EXCEPT ![p] = [stage |-> "asking", hash |-> hash, attempt |-> 1,
                                          scheduled |-> scheduled]]
        /\ status' = shown
        /\ inFlight' = (inFlight \/ scheduled)
     \/ /\ proof' = [proof EXCEPT ![p] = [stage |-> "over", hash |-> hash, attempt |-> 0,
                                          scheduled |-> scheduled]]
        /\ status' = "unavailable"
        /\ UNCHANGED inFlight
  /\ mixed' = (hash # entry' \/ \E q \in Proofs : Asking(q))

\* Mutant: a todo that is green stays so while it is asked about.
VerifyInGreen(p, hash, scheduled) ==
  Begin(p, hash, scheduled, IF status = "pinned" THEN "pinned" ELSE "pending")

Verify(p, hash, scheduled) == Begin(p, hash, scheduled, "pending")

\* Mutant: does not ask whether one is in flight.
MaySkipNever == status = "pinned"

MaySkip == inFlight \/ status = "pinned"

\* scheduleRelayReplicationProof
Schedule(hash) ==
  IF MaySkip
  THEN UNCHANGED <<proof, status, inFlight, mixed>>
  ELSE \E p \in Proofs : Verify(p, hash, TRUE)

-----------------------------------------------------------------------------
\* The writes

MayWrite == head < MaxWrites

Put ==
  /\ MayWrite
  /\ head' = head + 1
  /\ entry' = head + 1
  /\ Schedule(head + 1)
  /\ UNCHANGED <<relay>>

\* addTodo, and the entry's `update` event.
AddTodo ==
  /\ head = 0
  /\ Put
  /\ UNCHANGED owed

\* A rename, a budget, a delegation, or the other side's write replicating in.
WriteTodo ==
  /\ entry # 0
  /\ Put
  /\ UNCHANGED owed

\* toggleTodoComplete and updateTodoAssignee.
Toggle ==
  /\ entry # 0
  /\ Put
  /\ owed' = owed \cup {head + 1}

\* Their own verification, once the put has resolved.
VerifyToggle ==
  \E hash \in owed :
    /\ owed' = owed \ {hash}
    /\ UNCHANGED <<entry, head, relay>>
    /\ \E p \in Proofs : Verify(p, hash, FALSE)

DeleteTodo ==
  /\ entry # 0
  /\ MayWrite
  /\ head' = head + 1
  /\ entry' = 0
  /\ status' = "unknown"
  /\ UNCHANGED <<relay, owed, inFlight, proof, mixed>>

WriteAnotherTodo ==
  /\ entry # 0
  /\ MayWrite
  /\ head' = head + 1
  /\ UNCHANGED <<entry, relay, owed, status, inFlight, proof, mixed>>

-----------------------------------------------------------------------------
\* The relay, and what its answers do

RelayReplicates ==
  /\ relay < head
  /\ relay' \in (relay + 1)..head
  /\ UNCHANGED <<entry, head, owed, status, inFlight, proof, mixed>>

End(p) ==
  /\ proof' = [proof EXCEPT ![p].stage = "over"]
  /\ inFlight' = (inFlight /\ ~ proof[p].scheduled)
  /\ UNCHANGED mixed

Proven(p) == relay = proof[p].hash

AnswerProves(p) ==
  /\ Asking(p)
  /\ Proven(p)
  /\ status' = "pinned"
  /\ End(p)
  /\ UNCHANGED <<entry, head, relay, owed>>

AnswerDiffers(p) ==
  /\ Asking(p)
  /\ ~ Proven(p)
  /\ IF proof[p].attempt < Attempts
     THEN /\ proof' = [proof EXCEPT ![p].attempt = @ + 1]
          /\ UNCHANGED <<status, inFlight, mixed>>
     ELSE status' = "unavailable" /\ End(p)
  /\ UNCHANGED <<entry, head, relay, owed>>

\* Mutant: the error is logged and nothing else.
RequestFailsQuietly(p) ==
  /\ Asking(p)
  /\ End(p)
  /\ UNCHANGED <<entry, head, relay, owed, status>>

\* The request is refused, cannot be read or is aborted after 30 s.
RequestFails(p) ==
  /\ Asking(p)
  /\ status' = "unavailable"
  /\ End(p)
  /\ UNCHANGED <<entry, head, relay, owed>>

Answer(p) == AnswerProves(p) \/ AnswerDiffers(p) \/ RequestFails(p)

RelayNext ==
  \/ AddTodo \/ WriteTodo \/ Toggle \/ VerifyToggle \/ DeleteTodo \/ WriteAnotherTodo
  \/ RelayReplicates
  \/ \E p \in Proofs : Answer(p)

RelaySpec == RelayInit /\ [][RelayNext]_relayVars

\* Every request is answered or aborted.
RelayFairSpec == RelaySpec /\ \A p \in Proofs : WF_relayVars(Answer(p))

-----------------------------------------------------------------------------
\* Properties

\* The row says of green: "The relay confirmed that this exact OrbitDB entry was
\* replicated" (i18n/en.json). The relay has the todo's latest entry, except where
\* nobody asked about that entry, because the todo was green or being verified
\* when it was written, and where verifications of several entries overlapped
\* or began out of order, so that an older one's answer came last.
GreenIsOfTheEntry ==
  status = "pinned" =>
    \/ relay >= entry
    \/ entry \notin {proof[p].hash : p \in Proofs}
    \/ mixed

\* However many writes and events overlap, scheduling asks the relay about the
\* todo once at a time, and the mark that says so outlives no verification.
ScheduledOnce ==
  \A p, q \in Proofs :
    LET running(r) == Asking(r) /\ proof[r].scheduled
    IN /\ running(p) => inFlight
       /\ running(p) /\ running(q) => p = q

\* A status of `pending` does not stay: whichever verification ends, its
\* outcome is written.
PendingSettles == status = "pending" ~> status # "pending"
=============================================================================
