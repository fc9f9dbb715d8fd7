------------------------- MODULE ListRegistryProofs -------------------------
(***************************************************************************)
(* For any number of lists, identities and upsets: a list that the user    *)
(* recorded is in the buffer or in a registry, unless a registry was       *)
(* dropped, or an entry written, on an outdated reading, or a registry was *)
(* dropped though storage did not take the entries staged from it.         *)
(***************************************************************************)
EXTENDS ListRegistry, TLAPS

\* Some registry has the list at its worth.
InARegistry(l) == \E i \in Identities : Worth[registry[i][l]] >= Worth[kept[l]]

\* What a move has written is in a registry; the rest it takes from the buffer.
MoveFits ==
  carrying =>
    \A l \in Lists : todo[l] = "absent" \/ todo[l] # buffer[l] => InARegistry(l)

\* A call of the move is about an entry that is still to be written.
MoveCallFits ==
  LET c == call["move"]
  IN c.step # "idle" => carrying /\ c.entry # "absent" /\ c.entry = todo[c.list]

\* The buffer is let go late only after everything in it was written.
LateClearFits == lateClear => \A l \in Lists : InARegistry(l)

\* What is being dropped is in the buffer, and nothing else is going on.
DropFits ==
  phase = "dropping" => buffer = registry[identity] /\ ~ carrying /\ ~ lateClear

StoppedFits == phase = "stopped" => ~ carrying

Fits ==
  /\ \A l \in Lists : Safe(l)
  /\ MoveFits
  /\ MoveCallFits
  /\ LateClearFits
  /\ DropFits
  /\ StoppedFits

Spoilt == rushed \/ unstaged

IInv == TypeOK /\ (Spoilt \/ Fits)

-----------------------------------------------------------------------------
\* What calls become is a call.

LEMMA NoCallIsACall == noCall \in Calls
<1>1. (CHOOSE l \in Lists : TRUE) \in Lists
  BY ListsAssumption
<1> QED BY <1>1 DEF noCall, Calls, Entries

LEMMA NothingIsTyped == Nothing \in [Lists -> Entries]
BY DEF Nothing, Entries

LEMMA OpenedIsACall ==
  ASSUME NEW c \in Calls
  PROVE  /\ Opened(c) \in Calls
         /\ Opened(c).list = c.list
         /\ Opened(c).entry = c.entry
         /\ Opened(c).step \in {"put", "get"}
BY DEF Opened, Calls

\* A call that begins is about the list and the entry it was given.
LEMMA BegunIsACall ==
  ASSUME TypeOK, NEW p \in Callers, NEW l \in Lists, NEW entry \in Entries,
         Begin(p, l, entry)
  PROVE  /\ call' \in [Callers -> Calls]
         /\ opening' \in BOOLEAN
         /\ call'[p].list = l
         /\ call'[p].entry = entry
         /\ \A q \in Callers \ {p} : call'[q] = call[q]
<1> DEFINE c == [noCall EXCEPT !.list = l, !.entry = entry]
<1>1. c \in Calls /\ c.list = l /\ c.entry = entry
  BY NoCallIsACall DEF Calls
<1> HIDE DEF c
<1>2. \E new \in Calls : new.list = l /\ new.entry = entry /\ call' = [call EXCEPT ![p] = new]
  <2>1. CASE handle = "none"
    <3>1. [c EXCEPT !.step = "open"] \in Calls
      BY <1>1 DEF Calls
    <3>2. call' = [call EXCEPT ![p] = [c EXCEPT !.step = "open"]]
      BY <2>1 DEF Begin, c
    <3> QED BY <1>1, <3>1, <3>2 DEF Calls
  <2>2. CASE handle = "live"
    <3>1. call' = [call EXCEPT ![p] = Opened(c)]
      BY <2>2 DEF Begin, c
    <3> QED BY <1>1, <3>1, OpenedIsACall
  <2>3. CASE handle = "dead"
    <3>1. [c EXCEPT !.step = "hung"] \in Calls
      BY <1>1 DEF Calls
    <3>2. call' = [call EXCEPT ![p] = [c EXCEPT !.step = "hung"]]
      BY <2>3 DEF Begin, c
    <3> QED BY <1>1, <3>1, <3>2 DEF Calls
  <2> QED BY <2>1, <2>2, <2>3 DEF TypeOK
<1>3. opening' \in BOOLEAN
  BY DEF Begin, TypeOK
<1> QED BY <1>2, <1>3 DEF TypeOK

LEMMA MergedIsAnEntry ==
  ASSUME NEW c \in Calls
  PROVE  Merged(c) \in Entries /\ (c.entry # "absent" => Merged(c) # "absent")
BY DEF Merged, Calls, Entries

-----------------------------------------------------------------------------
\* Types

LEMMA InitTyped == Init => TypeOK
<1> SUFFICES ASSUME Init PROVE TypeOK
  OBVIOUS
<1>1. /\ opening \in BOOLEAN /\ late \in BOOLEAN
      /\ carrying \in BOOLEAN /\ lateClear \in BOOLEAN /\ rushed \in BOOLEAN
      /\ unstaged \in BOOLEAN
  BY Zenon DEF Init
<1>2. upsets \in 0..MaxUpsets
  BY UpsetsAssumption DEF Init
<1>3. registry \in [Identities -> [Lists -> Entries]] /\ call \in [Callers -> Calls]
  BY NoCallIsACall, NothingIsTyped DEF Init
<1> QED BY <1>1, <1>2, <1>3, NothingIsTyped, IdentitiesAssumption DEF Init, TypeOK

LEMMA StopTyped ==
  ASSUME TypeOK, NEW next \in Identities, Stop(next)
  PROVE  /\ phase' \in {"up", "dropping", "stopped"}
         /\ identity' \in Identities /\ heading' \in Identities
         /\ handle' \in {"none", "live", "dead"}
         /\ opening' \in BOOLEAN /\ late' \in BOOLEAN
         /\ store' \in [Lists -> Entries]
         /\ call' \in [Callers -> Calls]
         /\ carrying' \in BOOLEAN /\ todo' \in [Lists -> Entries] /\ lateClear' \in BOOLEAN
<1>1. late' \in BOOLEAN
  BY DEF Stop, TypeOK
<1>2. lateClear' \in BOOLEAN
  BY Zenon DEF Stop, TypeOK
<1> QED BY <1>1, <1>2, NoCallIsACall, NothingIsTyped DEF Stop

LEMMA UpsetTyped == TypeOK /\ Upset => upsets' \in 0..MaxUpsets
BY UpsetsAssumption DEF TypeOK, Upset

LEMMA PutTyped ==
  ASSUME TypeOK, NEW p \in Callers, Put(p)
  PROVE  TypeOK'
<1> DEFINE c == call[p]
<1>1. c \in Calls
  BY DEF TypeOK
<1>2. Merged(c) \in Entries /\ c.list \in Lists /\ "absent" \in Entries
  BY <1>1, MergedIsAnEntry DEF Calls, Entries
<1>3. registry' \in [Identities -> [Lists -> Entries]]
  BY <1>2 DEF Put, TypeOK
<1>4. call' \in [Callers -> Calls]
  BY NoCallIsACall DEF Put, TypeOK
<1>5. todo' \in [Lists -> Entries]
  BY <1>2 DEF Put, TypeOK
<1>6. kept' \in [Lists -> Entries]
  <2>1. CASE p = "move"
    BY <2>1 DEF Put, TypeOK
  <2>2. CASE p # "move"
    BY <2>2, <1>2 DEF Put, TypeOK
  <2> QED BY <2>1, <2>2
<1>7. rushed' \in BOOLEAN
  BY DEF Put, TypeOK
<1> QED BY <1>3, <1>4, <1>5, <1>6, <1>7 DEF Put, TypeOK, session, open

LEMMA StepTyped ==
  ASSUME TypeOK, [Next]_vars
  PROVE  TypeOK'
<1> USE DEF session, open, move, disk, history
<1>1. CASE UNCHANGED vars
  BY <1>1 DEF TypeOK, vars
<1>2. ASSUME NEW l \in Lists, NEW entry \in Entries, UserCalls(l, entry)
      PROVE  TypeOK'
  <2>1. call' \in [Callers -> Calls] /\ opening' \in BOOLEAN
    BY <1>2, BegunIsACall DEF UserCalls, Callers
  <2> QED BY <1>2, <2>1 DEF UserCalls, TypeOK
<1>3. CASE OpenDone
  <2>1. call' \in [Callers -> Calls]
    BY <1>3, OpenedIsACall DEF OpenDone, TypeOK
  <2> QED BY <1>3, <2>1 DEF OpenDone, TypeOK
<1>4. CASE LateOpen
  BY <1>4 DEF LateOpen, TypeOK
<1>5. ASSUME NEW p \in Callers, Get(p)
      PROVE  TypeOK'
  <2>1. call[p].list \in Lists /\ registry[identity][call[p].list] \in Entries
    BY DEF TypeOK, Calls
  <2> DEFINE c == [call[p] EXCEPT !.step = "put", !.known = registry[identity][call[p].list]]
  <2>3. call[p] \in Calls /\ call \in [Callers -> Calls]
    BY DEF TypeOK
  <2>4. c \in Calls
    BY <2>1, <2>3 DEF Calls
  <2>5. call' = [call EXCEPT ![p] = c]
    BY <1>5, <2>3 DEF Get
  <2>2. call' \in [Callers -> Calls]
    <3> HIDE DEF c
    <3> QED BY <2>3, <2>4, <2>5
  <2> QED BY <1>5, <2>2 DEF Get, TypeOK
<1>6. ASSUME NEW p \in Callers, Put(p)
      PROVE  TypeOK'
  BY <1>6, PutTyped
<1>7. CASE Refresh
  BY <1>7 DEF Refresh, TypeOK
<1>8. ASSUME NEW p \in Callers, CallFails(p)
      PROVE  TypeOK'
  <2>1. upsets' \in 0..MaxUpsets
    BY <1>8, UpsetTyped DEF CallFails
  <2>2. carrying' \in BOOLEAN /\ todo' \in [Lists -> Entries]
    BY <1>8, NothingIsTyped DEF CallFails, TypeOK
  <2> QED BY <1>8, <2>1, <2>2, NoCallIsACall DEF CallFails, TypeOK
<1>9. CASE MoveCalls
  <2>1. PICK l \in Lists : todo[l] # "absent" /\ Begin("move", l, todo[l])
    BY <1>9 DEF MoveCalls
  <2>2. call' \in [Callers -> Calls] /\ opening' \in BOOLEAN
    BY <2>1, BegunIsACall DEF TypeOK, Callers
  <2> QED BY <1>9, <2>2 DEF MoveCalls, TypeOK
<1>10. CASE ClearBuffer
  BY <1>10, NothingIsTyped DEF ClearBuffer, TypeOK
<1>11. CASE ClearLate
  BY <1>11, NothingIsTyped DEF ClearLate, TypeOK
<1>12. ASSUME NEW i \in Identities, Adopt(i)
       PROVE  TypeOK'
  <2>1. upsets' \in 0..MaxUpsets
    BY <1>12, UpsetTyped DEF Adopt
  <2>2. CASE store = Nothing
    <3>1. Stop(i) /\ UNCHANGED <<registry, buffer, kept, rushed, unstaged>>
      BY <1>12, <2>2 DEF Adopt
    <3> QED BY <2>1, <3>1, StopTyped DEF TypeOK
  <2>3. CASE store # Nothing
    <3>1. rushed' \in BOOLEAN
      BY <1>12, <2>3, Zenon DEF Adopt, TypeOK, Rushing
    <3>2. buffer' \in [Lists -> Entries] /\ unstaged' \in BOOLEAN
      BY <1>12, <2>3 DEF Adopt, Stage, TypeOK
    <3> QED BY <1>12, <2>1, <2>3, <3>1, <3>2 DEF Adopt, TypeOK
  <2> QED BY <2>2, <2>3
<1>13. CASE DropDone
  <2>1. heading \in Identities
    BY DEF TypeOK
  <2> QED BY <1>13, <2>1, StopTyped, NothingIsTyped DEF DropDone, TypeOK
<1>14. CASE DropFails
  <2>1. heading \in Identities /\ upsets' \in 0..MaxUpsets
    BY <1>14, UpsetTyped DEF TypeOK, DropFails
  <2> QED BY <1>14, <2>1, StopTyped DEF DropFails, TypeOK
<1>15. CASE Restart
  <2>1. identity \in Identities /\ upsets' \in 0..MaxUpsets
    BY <1>15, UpsetTyped DEF TypeOK, Restart
  <2> QED BY <1>15, <2>1, StopTyped DEF Restart, TypeOK
<1>16. CASE Start
  <2>1. carrying' \in BOOLEAN /\ opening' \in BOOLEAN
    BY <1>16 DEF Start
  <2> QED BY <1>16, <2>1 DEF Start, TypeOK
<1>17. CASE Crash
  <2>1. upsets' \in 0..MaxUpsets
    BY <1>17, UpsetTyped DEF Crash
  <2> QED BY <1>17, <2>1, NoCallIsACall, NothingIsTyped, IdentitiesAssumption DEF Crash, TypeOK
<1> QED
  BY <1>1, <1>2, <1>3, <1>4, <1>5, <1>6, <1>7, <1>8, <1>9, <1>10, <1>11, <1>12, <1>13,
     <1>14, <1>15, <1>16, <1>17 DEF Next, Step

-----------------------------------------------------------------------------
\* What an entry is worth

LEMMA WorthOfEntries ==
  /\ Worth["absent"] = 0
  /\ Worth["guest"] = 1
  /\ Worth["owner"] = 2
BY DEF Worth

LEMMA WorthIsANumber == \A x \in Entries : Worth[x] \in 0..2
BY WorthOfEntries DEF Entries

\* What is not forgotten never becomes worth less than it was or than was asked.
LEMMA MergedIsWorth ==
  ASSUME NEW c \in Calls, c.entry # "absent"
  PROVE  Worth[Merged(c)] >= Worth[c.entry] /\ Worth[Merged(c)] >= Worth[c.known]
BY WorthOfEntries DEF Merged, Calls, Entries

-----------------------------------------------------------------------------
\* A step keeps what is safe

LEMMA InitFits == Init => Fits
<1> SUFFICES ASSUME Init PROVE Fits
  OBVIOUS
<1>1. ASSUME NEW l \in Lists
      PROVE  Safe(l)
  <2>1. buffer[l] = "absent" /\ kept[l] = "absent"
    BY DEF Init, Nothing
  <2>2. Worth["absent"] >= Worth["absent"]
    BY WorthOfEntries
  <2> QED BY <2>1, <2>2 DEF Safe
<1>2. MoveFits /\ LateClearFits /\ DropFits /\ StoppedFits
  BY DEF Init, MoveFits, LateClearFits, DropFits, StoppedFits
<1>3. call["move"].step = "idle"
  BY DEF Init, noCall, Callers
<1> QED BY <1>1, <1>2, <1>3 DEF Fits, MoveCallFits

\* Only the calls go on.
LEMMA CallsKeepFits ==
  ASSUME Fits, MoveCallFits',
         UNCHANGED <<registry, buffer, phase, identity, carrying, todo, lateClear, kept>>
  PROVE  Fits'
BY DEF Fits, Safe, MoveFits, LateClearFits, DropFits, StoppedFits, InARegistry

\* A call of the move that goes on is about the same.
LEMMA MoveCallGoesOn ==
  ASSUME MoveCallFits, UNCHANGED <<carrying, todo>>,
         call'["move"].step # "idle" =>
           /\ call["move"].step # "idle"
           /\ call'["move"].entry = call["move"].entry
           /\ call'["move"].list = call["move"].list
  PROVE  MoveCallFits'
BY DEF MoveCallFits

\* What a write that has not rushed leaves behind: the list it is about is
\* forgotten, or no worse in the registry than it was and than was asked for.
LEMMA WriteGrows ==
  ASSUME TypeOK, NEW p \in Callers, Put(p), ~ rushed', call[p].entry # "absent"
  PROVE  LET l == call[p].list
         IN /\ Worth[registry'[identity][l]] >= Worth[registry[identity][l]]
            /\ Worth[registry'[identity][l]] >= Worth[call[p].entry]
<1> DEFINE c == call[p]
<1>1. c \in Calls /\ c.list \in Lists
  BY DEF TypeOK, Calls
<1>2. c.known = registry[identity][c.list]
  BY DEF Put
<1>3. registry'[identity][c.list] = Merged(c)
  BY <1>1 DEF Put, TypeOK
<1> QED BY <1>1, <1>2, <1>3, MergedIsWorth

LEMMA WriteKeepsInARegistry ==
  ASSUME TypeOK, NEW p \in Callers, Put(p), ~ rushed', NEW l \in Lists, InARegistry(l),
         p = "move" => call["move"].entry # "absent"
  PROVE  InARegistry(l)'
<1> DEFINE c == call[p]
<1>1. c \in Calls /\ c.list \in Lists /\ identity \in Identities
  BY DEF TypeOK, Calls
<1>2. PICK i \in Identities : Worth[registry[i][l]] >= Worth[kept[l]]
  BY DEF InARegistry
<1>3. \A j \in Identities, m \in Lists :
        /\ registry[j][m] \in Entries /\ registry'[j][m] \in Entries
        /\ kept[m] \in Entries /\ kept'[m] \in Entries
  BY PutTyped DEF TypeOK
<1>4. \A x \in Entries : Worth[x] \in 0..2
  BY WorthIsANumber
<1>5. CASE l # c.list
  <2>1. registry'[i][l] = registry[i][l] /\ kept'[l] = kept[l]
    BY <1>5, <1>1 DEF Put, TypeOK
  <2> QED BY <2>1, <1>2 DEF InARegistry
<1>6. CASE l = c.list /\ c.entry = "absent"
  <2>1. kept'[l] = "absent"
    <3>1. p # "move" /\ Merged(c) = "absent"
      BY <1>6 DEF Merged
    <3> QED BY <3>1, <1>6 DEF Put, TypeOK
  <2>2. Worth[kept'[l]] = 0
    BY <2>1, WorthOfEntries
  <2> QED BY <1>1, <1>3, <1>4, <2>2 DEF InARegistry
<1>7. CASE l = c.list /\ c.entry # "absent"
  <2>1. Worth[registry'[identity][l]] >= Worth[registry[identity][l]]
    BY <1>7, WriteGrows
  <2>2. \A j \in Identities : Worth[registry'[j][l]] >= Worth[registry[j][l]]
    <3>1. \A j \in Identities \ {identity} : registry'[j][l] = registry[j][l]
      BY <1>1 DEF Put, TypeOK
    <3> QED BY <2>1, <3>1, <1>3, <1>4
  <2>3. CASE kept'[l] = kept[l]
    BY <2>2, <2>3, <1>2, <1>3, <1>4 DEF InARegistry
  <2>4. CASE kept'[l] # kept[l]
    <3>1. kept'[l] = registry'[identity][l]
      BY <1>1, <1>7, <2>4 DEF Put, TypeOK
    <3> QED BY <3>1, <1>1, <1>3, <1>4 DEF InARegistry
  <2> QED BY <2>3, <2>4
<1> QED BY <1>5, <1>6, <1>7

LEMMA WriteKeepsFits ==
  ASSUME TypeOK, Fits, NEW p \in Callers, Put(p), ~ rushed'
  PROVE  Fits'
<1> DEFINE c == call[p]
<1>1. /\ c \in Calls /\ c.list \in Lists /\ identity \in Identities
      /\ \A l \in Lists : buffer[l] \in Entries /\ kept[l] \in Entries
      /\ \A l \in Lists : registry[identity][l] \in Entries /\ registry'[identity][l] \in Entries
  BY PutTyped DEF TypeOK, Calls
<1>2. p = "move" =>
        carrying /\ c.entry # "absent" /\ c.entry = todo[c.list]
  BY DEF Fits, MoveCallFits, Put
<1>3. \A l \in Lists : InARegistry(l) => InARegistry(l)'
  BY <1>2, WriteKeepsInARegistry
<1>4. buffer' = buffer /\ carrying' = carrying /\ lateClear' = lateClear
      /\ phase' = phase /\ phase # "dropping"
  BY DEF Put, session
<1>5. ASSUME NEW l \in Lists
      PROVE  Safe(l)'
  <2>1. CASE InARegistry(l)
    BY <2>1, <1>3 DEF InARegistry, Safe
  <2>2. CASE Worth[buffer[l]] >= Worth[kept[l]] /\ kept'[l] = kept[l]
    BY <2>2, <1>4 DEF Safe
  <2>3. CASE Worth[buffer[l]] >= Worth[kept[l]] /\ kept'[l] # kept[l]
    <3>1. p # "move" /\ l = c.list /\ kept'[l] = registry'[identity][l]
      BY <2>3, <1>1 DEF Put, TypeOK
    <3> QED BY <3>1, <1>1, WorthIsANumber DEF Safe
  <2> QED BY <2>1, <2>2, <2>3 DEF Fits, Safe, InARegistry
<1>6. MoveFits'
  <2> SUFFICES ASSUME carrying', NEW l \in Lists, todo'[l] = "absent" \/ todo'[l] # buffer'[l]
               PROVE  InARegistry(l)'
    BY DEF MoveFits
  <2>1. CASE todo'[l] = todo[l]
    BY <2>1, <1>3, <1>4 DEF Fits, MoveFits
  <2>2. CASE todo'[l] # todo[l]
    <3>1. p = "move" /\ l = c.list
      BY <2>2 DEF Put, TypeOK
    <3>2. CASE c.entry = buffer[l] /\ ~ InARegistry(l)
      <4>1. Worth[buffer[l]] >= Worth[kept[l]]
        BY <3>2 DEF Fits, Safe, InARegistry
      <4>2. Worth[registry'[identity][l]] >= Worth[buffer[l]]
        BY <3>1, <3>2, <1>2, WriteGrows
      <4>3. kept'[l] = kept[l]
        BY <3>1 DEF Put
      <4> QED BY <4>1, <4>2, <4>3, <1>1, WorthIsANumber DEF InARegistry, Put, session
    <3>3. CASE c.entry # buffer[l] \/ InARegistry(l)
      BY <3>1, <3>3, <1>2, <1>3 DEF Fits, MoveFits
    <3> QED BY <3>2, <3>3
  <2> QED BY <2>1, <2>2
<1>7. MoveCallFits'
  <2>1. CASE p = "move"
    <3>1. call'["move"].step = "idle"
      BY <2>1 DEF Put, TypeOK, noCall
    <3> QED BY <3>1 DEF MoveCallFits
  <2>2. CASE p # "move"
    <3>1. call'["move"] = call["move"] /\ todo' = todo
      BY <2>2 DEF Put, TypeOK, Callers
    <3> QED BY <3>1, <1>4 DEF Fits, MoveCallFits
  <2> QED BY <2>1, <2>2
<1>8. LateClearFits'
  BY <1>3, <1>4 DEF Fits, LateClearFits
<1>9. DropFits' /\ StoppedFits'
  BY <1>4 DEF Fits, DropFits, StoppedFits
<1> QED BY <1>5, <1>6, <1>7, <1>8, <1>9 DEF Fits

\* The session ends; what is dropped with it is in the buffer.
LEMMA StopKeepsFits ==
  ASSUME TypeOK, Fits, NEW next \in Identities, Stop(next), UNCHANGED <<disk, kept>>
  PROVE  Fits'
<1>1. UNCHANGED <<registry, buffer, kept>>
  BY DEF disk
<1>2. \A l \in Lists : Safe(l)' /\ (InARegistry(l) => InARegistry(l)')
  BY <1>1 DEF Fits, Safe, InARegistry
<1>3. call'["move"].step = "idle"
  BY DEF Stop, Callers, noCall
<1>4. ~ carrying' /\ phase' = "stopped"
  BY DEF Stop
<1>5. LateClearFits'
  <2>1. CASE lateClear
    BY <2>1, <1>2 DEF Fits, LateClearFits
  <2>2. CASE carrying /\ todo = Nothing
    <3>1. \A l \in Lists : InARegistry(l)
      BY <2>2 DEF Fits, MoveFits, Nothing
    <3> QED BY <3>1, <1>2 DEF LateClearFits
  <2>3. CASE ~ lateClear /\ ~ (carrying /\ todo = Nothing)
    BY <2>3 DEF Stop, LateClearFits
  <2> QED BY <2>1, <2>2, <2>3
<1> QED
  BY <1>2, <1>3, <1>4, <1>5 DEF Fits, MoveFits, MoveCallFits, DropFits, StoppedFits

LEMMA DropKeepsFits ==
  ASSUME TypeOK, Fits, DropDone, kept' = kept
  PROVE  Fits'
<1>1. /\ buffer = registry[identity] /\ ~ carrying /\ ~ lateClear
      /\ buffer' = buffer
  BY DEF Fits, DropFits, DropDone
<1>2. Stop(heading)
  BY DEF DropDone
<1>3. call'["move"].step = "idle"
  BY <1>2 DEF Stop, Callers, noCall
<1>4. ASSUME NEW l \in Lists
      PROVE  Safe(l)'
  <2>1. CASE Worth[buffer[l]] >= Worth[kept[l]]
    BY <2>1, <1>1 DEF Safe
  <2>2. ASSUME NEW i \in Identities, Worth[registry[i][l]] >= Worth[kept[l]]
        PROVE  Safe(l)'
    <3>1. CASE i = identity
      BY <2>2, <3>1, <1>1 DEF Safe
    <3>2. CASE i # identity
      <4>1. registry'[i] = registry[i]
        BY <3>2 DEF DropDone, TypeOK
      <4> QED BY <4>1, <2>2 DEF Safe
    <3> QED BY <3>1, <3>2
  <2> QED BY <2>1, <2>2 DEF Fits, Safe
<1>5. ~ carrying' /\ ~ lateClear' /\ phase' = "stopped"
  BY <1>1, <1>2 DEF Stop
<1> QED
  BY <1>3, <1>4, <1>5 DEF Fits, MoveFits, MoveCallFits, LateClearFits, DropFits, StoppedFits

LEMMA AdoptKeepsFits ==
  ASSUME TypeOK, Fits, NEW i \in Identities, Adopt(i), ~ Spoilt'
  PROVE  Fits'
<1>1. CASE store = Nothing
  <2>1. Stop(i) /\ UNCHANGED <<disk, kept>>
    BY <1>1 DEF Adopt, history
  <2> QED BY <2>1, StopKeepsFits
<1>2. CASE store # Nothing
  <2>1. /\ phase' = "dropping" /\ buffer' = store
        /\ UNCHANGED <<registry, identity, call, carrying, todo, lateClear, kept>>
        /\ ~ Rushing
    BY <1>2 DEF Adopt, Stage, Spoilt, move
  <2>2. store = registry[identity] /\ buffer = Nothing /\ ~ carrying /\ ~ lateClear
    BY <2>1 DEF Rushing
  <2>3. \A l \in Lists : InARegistry(l)
    <3> SUFFICES ASSUME NEW l \in Lists PROVE InARegistry(l)
      OBVIOUS
    <3>1. Worth[buffer[l]] = 0
      BY <2>2, WorthOfEntries DEF Nothing
    <3>2. kept[l] \in Entries /\ Anonymous \in Identities /\ registry[Anonymous][l] \in Entries
      BY IdentitiesAssumption DEF TypeOK
    <3>3. Worth[registry[Anonymous][l]] >= Worth[buffer[l]]
      BY <3>1, <3>2, WorthIsANumber
    <3> QED BY <3>1, <3>2, <3>3, WorthIsANumber DEF Fits, Safe, InARegistry
  <2>4. \A l \in Lists : Safe(l)' /\ InARegistry(l)'
    BY <2>1, <2>3 DEF Safe, InARegistry
  <2>5. MoveCallFits'
    BY <2>1 DEF Fits, MoveCallFits
  <2> QED BY <2>1, <2>2, <2>4, <2>5
          DEF Fits, MoveFits, LateClearFits, DropFits, StoppedFits
<1> QED BY <1>1, <1>2

\* The buffer goes once everything in it is in a registry.
LEMMA ClearKeepsFits ==
  ASSUME TypeOK, Fits, ClearBuffer \/ ClearLate
  PROVE  Fits'
<1>1. \A l \in Lists : InARegistry(l)
  <2>1. CASE ClearBuffer
    BY <2>1 DEF ClearBuffer, Fits, MoveFits, Nothing
  <2>2. CASE ClearLate
    BY <2>2 DEF ClearLate, Fits, LateClearFits
  <2> QED BY <2>1, <2>2
<1>2. UNCHANGED <<registry, kept, phase, identity, call, todo>>
  BY DEF ClearBuffer, ClearLate, session, history
<1>3. \A l \in Lists : Safe(l)' /\ InARegistry(l)'
  BY <1>1, <1>2 DEF Safe, InARegistry
<1>4. phase # "dropping"
  BY DEF ClearBuffer, ClearLate, Fits, DropFits
<1>5. MoveCallFits' /\ StoppedFits'
  <2>1. CASE ClearBuffer
    <3>1. call["move"].list \in Lists
      BY DEF TypeOK, Calls, Callers
    <3>2. call["move"].step = "idle"
      BY <2>1, <3>1 DEF ClearBuffer, Fits, MoveCallFits, Nothing
    <3> QED BY <2>1, <3>2, <1>2 DEF ClearBuffer, MoveCallFits, StoppedFits
  <2>2. CASE ClearLate
    BY <2>2, <1>2 DEF ClearLate, Fits, MoveCallFits, StoppedFits
  <2> QED BY <2>1, <2>2
<1> QED
  BY <1>2, <1>3, <1>4, <1>5 DEF Fits, MoveFits, LateClearFits, DropFits

LEMMA StartKeepsFits ==
  ASSUME TypeOK, Fits, Start
  PROVE  Fits'
<1>1. /\ phase' = "up" /\ todo' = buffer
      /\ UNCHANGED <<registry, buffer, identity, call, lateClear, kept>>
  BY DEF Start, disk, history
<1>2. \A l \in Lists : Safe(l)' /\ (InARegistry(l) => InARegistry(l)')
  BY <1>1 DEF Fits, Safe, InARegistry
<1>3. MoveFits'
  <2> SUFFICES ASSUME NEW l \in Lists, buffer[l] = "absent" PROVE InARegistry(l)'
    BY <1>1 DEF MoveFits
  <2>1. kept[l] \in Entries /\ Anonymous \in Identities /\ registry[Anonymous][l] \in Entries
    BY IdentitiesAssumption DEF TypeOK
  <2>2. Worth[buffer[l]] = 0
    BY WorthOfEntries
  <2>3. InARegistry(l)
    BY <2>1, <2>2, WorthIsANumber DEF Fits, Safe, InARegistry
  <2> QED BY <2>3, <1>2
<1>4. call["move"].step = "idle"
  BY DEF Fits, MoveCallFits, StoppedFits, Start
<1> QED
  BY <1>1, <1>2, <1>3, <1>4
     DEF Fits, MoveCallFits, LateClearFits, DropFits, StoppedFits

LEMMA CrashKeepsFits ==
  ASSUME Fits, Crash
  PROVE  Fits'
<1>1. UNCHANGED <<registry, buffer, kept>> /\ ~ carrying' /\ ~ lateClear' /\ phase' = "stopped"
  BY DEF Crash, disk, history
<1>2. call'["move"].step = "idle"
  BY DEF Crash, Callers, noCall
<1> QED
  BY <1>1, <1>2
     DEF Fits, Safe, MoveFits, MoveCallFits, LateClearFits, DropFits, StoppedFits

LEMMA MoveCallsKeepsFits ==
  ASSUME TypeOK, Fits, MoveCalls
  PROVE  Fits'
<1>1. PICK l \in Lists : todo[l] # "absent" /\ Begin("move", l, todo[l])
  BY DEF MoveCalls
<1>2. call'["move"].list = l /\ call'["move"].entry = todo[l]
  BY <1>1, BegunIsACall DEF TypeOK, Callers
<1>3. MoveCallFits'
  BY <1>1, <1>2 DEF MoveCalls, MoveCallFits, move
<1> QED BY <1>3, CallsKeepFits DEF MoveCalls, disk, session, move, history

LEMMA CallFailsKeepsFits ==
  ASSUME TypeOK, Fits, NEW p \in Callers, CallFails(p)
  PROVE  Fits'
<1>1. UNCHANGED <<registry, buffer, phase, identity, lateClear, kept>>
  BY DEF CallFails, disk, session, history
<1>2. CASE p = "move"
  <2>1. ~ carrying' /\ call'["move"].step = "idle"
    BY <1>2 DEF CallFails, TypeOK, noCall
  <2> QED BY <1>1, <2>1
          DEF Fits, Safe, MoveFits, MoveCallFits, LateClearFits, DropFits, StoppedFits, InARegistry
<1>3. CASE p # "move"
  <2>1. call'["move"] = call["move"] /\ UNCHANGED <<carrying, todo>>
    BY <1>3 DEF CallFails, TypeOK, Callers
  <2> QED BY <1>1, <2>1, MoveCallGoesOn, CallsKeepFits DEF Fits
<1> QED BY <1>2, <1>3

-----------------------------------------------------------------------------
\* The invariant

\* What is spoilt is spoilt for good.
LEMMA SpoiltStays ==
  ASSUME Spoilt, [Next]_vars
  PROVE  Spoilt'
<1> USE DEF history, Spoilt
<1>1. ASSUME NEW i \in Identities, Adopt(i)
      PROVE  Spoilt'
  BY <1>1 DEF Adopt, Stage
<1>2. ASSUME NEW p \in Callers, Get(p) \/ Put(p) \/ CallFails(p)
      PROVE  Spoilt'
  BY <1>2 DEF Get, Put, CallFails
<1>3. ASSUME NEW l \in Lists, NEW entry \in Entries, UserCalls(l, entry)
      PROVE  Spoilt'
  BY <1>3 DEF UserCalls
<1> QED
  BY <1>1, <1>2, <1>3 DEF Next, Step, vars, OpenDone, LateOpen, Refresh, MoveCalls, ClearBuffer,
     ClearLate, DropDone, DropFails, Restart, Start, Crash

LEMMA StepKeepsFits ==
  ASSUME TypeOK, Fits, [Next]_vars, ~ Spoilt'
  PROVE  Fits'
<1> USE DEF session, move, disk, history
<1>1. CASE UNCHANGED vars
  BY <1>1, MoveCallGoesOn, CallsKeepFits DEF vars, Fits
<1>2. ASSUME NEW l \in Lists, NEW entry \in Entries, UserCalls(l, entry)
      PROVE  Fits'
  <2>1. call'["move"] = call["move"]
    BY <1>2, BegunIsACall DEF UserCalls, Callers
  <2> QED BY <1>2, <2>1, MoveCallGoesOn, CallsKeepFits DEF UserCalls, Fits
<1>3. CASE OpenDone
  <2>1. call["move"] \in Calls
    BY DEF TypeOK, Callers
  <2>2. \/ call'["move"] = call["move"]
        \/ call["move"].step = "open" /\ call'["move"] = Opened(call["move"])
    BY <1>3 DEF OpenDone, Callers
  <2> QED BY <1>3, <2>1, <2>2, OpenedIsACall, MoveCallGoesOn, CallsKeepFits DEF OpenDone, Fits
<1>4. CASE LateOpen
  BY <1>4, MoveCallGoesOn, CallsKeepFits DEF LateOpen, Fits
<1>5. ASSUME NEW p \in Callers, Get(p)
      PROVE  Fits'
  <2>1. /\ call'["move"].entry = call["move"].entry /\ call'["move"].list = call["move"].list
        /\ call'["move"].step # "idle" => call["move"].step # "idle"
    BY <1>5 DEF Get, TypeOK, Calls, Callers
  <2> QED BY <1>5, <2>1, MoveCallGoesOn, CallsKeepFits DEF Get, Fits
<1>6. CASE Refresh
  BY <1>6, MoveCallGoesOn, CallsKeepFits DEF Refresh, Fits
<1>7. CASE DropFails
  BY <1>7, StopKeepsFits DEF DropFails, TypeOK
<1>8. CASE Restart
  BY <1>8, StopKeepsFits DEF Restart, TypeOK
<1>9. CASE DropDone
  BY <1>9, DropKeepsFits DEF DropDone
<1> QED
  BY <1>1, <1>2, <1>3, <1>4, <1>5, <1>6, <1>7, <1>8, <1>9, WriteKeepsFits, AdoptKeepsFits,
     ClearKeepsFits, StartKeepsFits, CrashKeepsFits, MoveCallsKeepsFits, CallFailsKeepsFits
     DEF Next, Step, Spoilt

LEMMA AlwaysIInv == Spec => []IInv
<1>1. Init => IInv
  BY InitTyped, InitFits DEF IInv
<1>2. IInv /\ [Next]_vars => IInv'
  BY StepTyped, StepKeepsFits, SpoiltStays DEF IInv
<1> QED BY <1>1, <1>2, PTL DEF Spec

\* The registries, the buffer and the calls are well formed, for any number of
\* lists and identities (list-registry.js, registry-handoff.js).
THEOREM TypesHold == Spec => []TypeOK
BY AlwaysIInv, PTL DEF IInv

\* Wherever the page is closed and whatever fails in the move of a registry, a
\* list the user recorded is in the buffer or in a registry, and as one's own
\* if it was, as long as storage took what was staged and nothing was dropped or
\* written on an outdated reading, or with something else under way
\* (restartP2P, dropListRegistry, applyRegistryHandoff).
THEOREM ListsSurviveTheMove == Spec => []NothingLostUnlessRushed
<1>1. IInv => NothingLostUnlessRushed
  BY DEF IInv, Spoilt, Fits, NothingLostUnlessRushed
<1> QED BY AlwaysIInv, <1>1, PTL
=============================================================================
