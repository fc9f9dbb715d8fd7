-------------------------- MODULE DelegationProofs --------------------------
(***************************************************************************)
(* What holds of a delegated todo for any number of delegates, whichever   *)
(* of their clocks are ahead, and at any time. DelegationTimes orders the  *)
(* times in entries, and in the actions of delegates whose clocks agree    *)
(* with the owner's, as the writes happened.                               *)
(***************************************************************************)
EXTENDS Delegation, TLAPS

LEMMA ClockIsATime ==
  ASSUME TypeOK, NEW s \in Sites
  PROVE  Clock(s) \in Times /\ now \in Times /\ 0 \in Times
BY TimesAssumption DEF TypeOK, Clock, Times

LEMMA OwnersClock == Clock(Owner) = now
BY PeopleAssumption DEF Clock

LEMMA TimesAreNumbers ==
  /\ \A e \in Entries : e.updatedAt \in Nat /\ e.expiresAt \in Nat
  /\ \A a \in Actions : a.performedAt \in Nat
<1>1. Times \subseteq Nat
  BY TimesAssumption DEF Times
<1>2. Expiries \subseteq Nat
  BY TimesAssumption
<1>3. ASSUME NEW e \in Entries
      PROVE  e.updatedAt \in Times /\ e.expiresAt \in Expiries
  BY DEF Entries
<1>4. ASSUME NEW a \in Actions PROVE a.performedAt \in Times
  BY DEF Actions
<1> QED BY <1>1, <1>2, <1>3, <1>4

LEMMA PutTypeOK ==
  ASSUME TypeOK, NEW c \in Calls, NEW e \in Entries, Put(c, e)
  PROVE  TypeOK'
<1>1. now + 1 \in 0..MaxTime /\ now \in Times
  BY TimesAssumption DEF Put, MayWrite, TypeOK, Times
<1>2. [e EXCEPT !.written = now] \in Entries
  BY <1>1 DEF Entries
<1>3. entry' \in [Sites -> Entries]
  BY <1>2 DEF Put, TypeOK, Sites
<1>4. call' \in [Calls -> {NoCall} \cup UnderWay]
  BY DEF Put, TypeOK
<1> QED BY <1>1, <1>3, <1>4 DEF Put, TypeOK

\* A call that is under way has read an entry.
LEMMA BusyHasRead ==
  ASSUME TypeOK, NEW c \in Calls, call[c].busy
  PROVE  call[c].base \in Entries /\ call[c].releases \in BOOLEAN
<1>1. call[c] \in {NoCall} \cup UnderWay
  BY DEF TypeOK
<1>2. call[c] # NoCall
  BY DEF NoCall
<1> QED BY <1>1, <1>2 DEF UnderWay

\* What a write may make of the entry it read.
Back(base, e) ==
  /\ e \in Entries
  /\ \/ e.updatedAt = now /\ e.granted \in {base.granted, now}
     \/ /\ e.updatedAt = base.updatedAt /\ e.granted = base.granted
        /\ e.delegate = base.delegate /\ e.revoked = base.revoked
        /\ e.expiresAt = base.expiresAt /\ e.completed = base.completed

\* Whatever an owner's write is, it puts back what it read, either with the
\* present time or, if it writes a budget's status, with the time and the
\* delegation that it read.
LEMMA OwnerPutsBack ==
  ASSUME TypeOK, NEW c \in Calls, OwnerWrites(c)
  PROVE  /\ call[c].busy
         /\ \E e : /\ Put(c, e)
                   /\ Back(call[c].base, e)
                   /\ e.updatedAt = now \/ WriteBudget(c)
<1>1. Clock(Owner) = now /\ now \in Times
  BY ClockIsATime, OwnersClock DEF Sites
<1>2. call[c].busy
  BY DEF OwnerWrites, Plain, Toggle, Rename, Delegate, Revoke, WriteBudget, AcceptCompletion
<1>3. call[c].base \in Entries
  BY <1>2, BusyHasRead
<1> DEFINE base == call[c].base
<1>4. ASSUME NEW v \in BOOLEAN
      PROVE  /\ Back(base, [Touched(c) EXCEPT !.completed = v])
             /\ Back(base, [Touched(c) EXCEPT !.revoked = v])
             /\ Back(base, Touched(c))
             /\ Back(base, [base EXCEPT !.holdsBudget = v])
             /\ [Touched(c) EXCEPT !.completed = v].updatedAt = now
             /\ [Touched(c) EXCEPT !.revoked = v].updatedAt = now
             /\ Touched(c).updatedAt = now
  BY <1>1, <1>3 DEF Back, Touched, Entries
<1>5. ASSUME NEW d \in Delegates, NEW expires \in Expiries
      PROVE  /\ Back(base, [Given(c, d, expires) EXCEPT !.updatedAt = Clock(Owner)])
             /\ [Given(c, d, expires) EXCEPT !.updatedAt = Clock(Owner)].updatedAt = now
  BY <1>1, <1>3 DEF Back, Given, Entries
<1> HIDE DEF base
<1>6. CASE Toggle(c)
  <2>1. (~ Shown(Owner)) \in BOOLEAN
    OBVIOUS
  <2> QED BY <1>2, <1>4, <1>6, <2>1 DEF Toggle, base
<1>7. CASE Rename(c)
  BY <1>2, <1>4, <1>7 DEF Rename, base
<1>8. CASE Delegate(c)
  BY <1>2, <1>5, <1>8 DEF Delegate, base
<1>9. CASE Revoke(c)
  BY <1>2, <1>4, <1>9 DEF Revoke, base
<1>10. CASE WriteBudget(c)
  <2>1. PICK holds \in BOOLEAN : Put(c, [call[c].base EXCEPT !.holdsBudget = holds])
    BY <1>10 DEF WriteBudget
  <2> QED BY <1>2, <1>4, <1>10, <2>1 DEF base
<1>11. CASE AcceptCompletion(c)
  BY <1>2, <1>4, <1>11 DEF AcceptCompletion, base
<1> QED BY <1>6, <1>7, <1>8, <1>9, <1>10, <1>11 DEF OwnerWrites

LEMMA OwnerTypeOK ==
  ASSUME TypeOK, NEW c \in Calls, ReadForWrite(c) \/ GiveUp(c) \/ OwnerWrites(c)
  PROVE  TypeOK'
<1>1. CASE OwnerWrites(c)
  BY <1>1, OwnerPutsBack, PutTypeOK DEF Back
<1>2. CASE GiveUp(c)
  BY <1>2 DEF GiveUp, TypeOK
<1>3. CASE ReadForWrite(c)
  <2>1. PICK releases \in BOOLEAN :
          call' = [call EXCEPT ![c] = [busy |-> TRUE, releases |-> releases, base |-> Own]]
    BY <1>3 DEF ReadForWrite
  <2>2. [busy |-> TRUE, releases |-> releases, base |-> Own] \in UnderWay
    BY DEF UnderWay, Own, TypeOK, Sites
  <2> QED BY <1>3, <2>1, <2>2 DEF ReadForWrite, TypeOK
<1> QED BY <1>1, <1>2, <1>3

LEMMA InitTypeOK == Init => TypeOK
<1> SUFFICES ASSUME Init PROVE TypeOK
  OBVIOUS
<1>1. 0 \in Times /\ 1 \in 0..MaxTime
  BY TimesAssumption DEF Times
<1> QED BY <1>1 DEF Init, TypeOK, Entries, Sites

LEMMA StepTypeOK == TypeOK /\ [Next]_vars => TypeOK'
<1> SUFFICES ASSUME TypeOK, [Next]_vars PROVE TypeOK'
  OBVIOUS
<1>1. ASSUME NEW d \in Delegates, StartAction(d) PROVE TypeOK'
  <2>1. (~ Shown(d)) \in BOOLEAN
    OBVIOUS
  <2>2. entry[d].expiresAt \in Expiries
    BY DEF TypeOK, Sites, Entries
  <2>3. prompt' \in [Delegates -> {NoPrompt} \cup Prompts]
    BY <1>1, <2>1, <2>2 DEF StartAction, TypeOK, Prompts
  <2> QED BY <1>1, <2>3 DEF StartAction, TypeOK
<1>2. ASSUME NEW d \in Delegates, WriteAction(d) PROVE TypeOK'
  <2>1. prompt[d].done \in BOOLEAN
    <3>1. prompt[d] \in {NoPrompt} \cup Prompts
      BY DEF TypeOK
    <3>2. prompt[d] # NoPrompt
      BY <1>2 DEF WriteAction, NoPrompt
    <3> QED BY <3>1, <3>2 DEF Prompts
  <2>2. NewAction(d) \in Actions
    BY <2>1, ClockIsATime DEF NewAction, Actions, Sites
  <2>3. now + 1 \in 0..MaxTime
    BY <1>2, TimesAssumption DEF WriteAction, MayWrite, TypeOK
  <2>4. actions' \in [Sites -> SUBSET Actions]
    BY <1>2, <2>2 DEF WriteAction, TypeOK
  <2> QED BY <1>2, <2>3, <2>4 DEF WriteAction, TypeOK
<1>3. ASSUME NEW d \in Delegates, DropAction(d) PROVE TypeOK'
  BY <1>3 DEF DropAction, TypeOK
<1>4. ASSUME NEW s \in Sites, NEW t \in Sites, Replicate(s, t) PROVE TypeOK'
  BY <1>4 DEF Replicate, TypeOK
<1>5. CASE TimePasses
  BY <1>5, TimesAssumption DEF TimePasses, MayWrite, TypeOK
<1>6. CASE UNCHANGED vars
  BY <1>6 DEF vars, TypeOK
<1> QED BY <1>1, <1>2, <1>3, <1>4, <1>5, <1>6, OwnerTypeOK DEF Next

\* Every entry, action and prompt is well formed at every site.
THEOREM TypesHold == Spec => []TypeOK
BY InitTypeOK, StepTypeOK, PTL DEF Spec

-----------------------------------------------------------------------------
\* The order of times

\* An entry is from the past and its updatedAt is no older than the delegation
\* in it.
Past(e) == e.granted <= e.updatedAt /\ e.updatedAt < now /\ e.written < now

\* What the owner's writes go by: the entry and what the calls have read.
Held == {Own} \cup {call[c].base : c \in {d \in Calls : call[d].busy}}

SameDelegation(e, f) ==
  e.delegate = f.delegate /\ e.revoked = f.revoked /\ e.expiresAt = f.expiresAt

\* So it is at every site and in every call; the owner has the latest entry; of
\* what the owner holds, entries of one time have one delegation; an action
\* whose author's clock agrees says when it was written.
DelegationTimes ==
  /\ \A s \in Sites : Past(entry[s]) /\ entry[s].written <= entry[Owner].written
  /\ \A e \in Held : Past(e)
  /\ \A e, f \in Held : e.updatedAt = f.updatedAt => SameDelegation(e, f)
  /\ \A s \in Sites : \A a \in actions[s] :
       a.by \notin Fast => a.performedAt = a.written /\ a.written < now

LEMMA TimesInit == Init => DelegationTimes
<1> SUFFICES ASSUME Init PROVE DelegationTimes
  OBVIOUS
<1>1. \A c \in Calls : ~ call[c].busy
  BY DEF Init, NoCall
<1>2. Held = {Own}
  BY <1>1 DEF Held
<1>3. \A s \in Sites : entry[s] = entry[Owner] /\ Past(entry[s]) /\ entry[s].written = 0
  BY DEF Init, Past, Sites
<1>4. \A s \in Sites : actions[s] = {}
  BY DEF Init
<1>5. Owner \in Sites
  BY DEF Sites
<1> QED BY <1>2, <1>3, <1>4, <1>5 DEF DelegationTimes, Own, SameDelegation

\* What a call has read is an entry.
LEMMA HeldAreEntries ==
  ASSUME TypeOK
  PROVE  /\ Held \subseteq Entries
         /\ \A e \in Held : e.granted \in Nat /\ e.updatedAt \in Nat /\ e.written \in Nat
         /\ \A s \in Sites : /\ entry[s].granted \in Nat /\ entry[s].updatedAt \in Nat
                              /\ entry[s].written \in Nat
         /\ now \in Nat
<1>1. Own \in Entries
  BY DEF TypeOK, Own, Sites
<1>2. Held \subseteq Entries
  BY <1>1, BusyHasRead DEF Held
<1>3. \A e \in Entries : e.granted \in Nat /\ e.updatedAt \in Nat /\ e.written \in Nat
  BY DEF Entries, Times
<1> QED BY <1>2, <1>3 DEF TypeOK

\* As time passes what is past stays so.
LEMMA TimesPass ==
  ASSUME TypeOK, DelegationTimes, now' \in {now, now + 1}, UNCHANGED entry,
         Held' \subseteq Held, UNCHANGED actions
  PROVE  DelegationTimes'
<1>1. \A e : Past(e) /\ e.updatedAt \in Nat /\ e.written \in Nat => Past(e)'
  BY HeldAreEntries DEF Past
<1>2. \A s \in Sites : Past(entry[s])' /\ (entry[s].written <= entry[Owner].written)'
  BY <1>1, HeldAreEntries DEF DelegationTimes
<1>3. \A e \in Held' : Past(e)'
  BY <1>1, HeldAreEntries DEF DelegationTimes
<1>4. \A s \in Sites : \A a \in actions[s] : a.written \in Nat
  BY DEF TypeOK, Actions, Times
<1>5. (\A s \in Sites : \A a \in actions[s] :
         a.by \notin Fast => a.performedAt = a.written /\ a.written < now)'
  BY <1>4, HeldAreEntries DEF DelegationTimes
<1>6. \A e, f \in Held' : e.updatedAt = f.updatedAt => SameDelegation(e, f)
  BY DEF DelegationTimes
<1>7. (\A e, f \in Held : e.updatedAt = f.updatedAt => SameDelegation(e, f))'
  BY <1>6 DEF SameDelegation
<1> QED BY <1>2, <1>3, <1>5, <1>7 DEF DelegationTimes

LEMMA OwnerTimes ==
  ASSUME TypeOK, DelegationTimes, NEW c \in Calls, OwnerWrites(c)
  PROVE  DelegationTimes'
<1> DEFINE base == call[c].base
<1>1. PICK e : Put(c, e) /\ Back(base, e)
  BY OwnerPutsBack
<1>2. call[c].busy /\ base \in Held
  BY OwnerPutsBack DEF Held
<1> HIDE DEF base
<1>3. /\ now \in Nat /\ now' = now + 1 /\ actions' = actions
      /\ call' = [call EXCEPT ![c] = NoCall]
  BY <1>1, HeldAreEntries DEF Put
<1>0. PICK new : new = [e EXCEPT !.written = now]
  OBVIOUS
<1>4. /\ new.updatedAt = e.updatedAt /\ new.granted = e.granted /\ new.written = now
      /\ SameDelegation(new, e)
  BY <1>0, <1>1 DEF Back, Entries, SameDelegation
<1>5. Own' = new /\ \A s \in Sites \ {Owner} : entry'[s] = entry[s]
  BY <1>0, <1>1 DEF Put, TypeOK, Sites, Own
<1>6. /\ \A f \in Held : Past(f) /\ f.updatedAt \in Nat /\ f.written \in Nat /\ f.granted \in Nat
      /\ e.updatedAt \in Nat /\ e.granted \in Nat
  BY <1>1, HeldAreEntries DEF DelegationTimes, Back, Entries, Times
<1>7. Past(new)'
  <2>1. new.granted <= new.updatedAt /\ new.updatedAt <= now
    BY <1>1, <1>2, <1>3, <1>4, <1>6 DEF Back, Past
  <2> QED BY <1>3, <1>4, <1>6, <2>1 DEF Past
<1>8. \A f \in Held : Past(f)'
  BY <1>3, <1>6 DEF Past
<1>9. Held' \subseteq {new} \cup Held
  <2>1. \A d \in Calls : call'[d].busy => call[d].busy /\ call'[d].base = call[d].base
    BY <1>3 DEF NoCall, TypeOK
  <2> QED BY <1>5, <2>1 DEF Held
<1>10. ASSUME NEW s \in Sites
       PROVE  Past(entry[s])' /\ (entry[s].written <= entry[Owner].written)'
  <2>1. CASE s = Owner
    BY <1>3, <1>4, <1>5, <1>7, <2>1 DEF Own
  <2>2. CASE s # Owner
    <3>1. Past(entry[s]) /\ entry'[s] = entry[s] /\ entry'[Owner].written = now
      BY <1>4, <1>5, <2>2 DEF DelegationTimes, Own
    <3>2. /\ entry[s].granted \in Nat /\ entry[s].updatedAt \in Nat
          /\ entry[s].written \in Nat
      BY HeldAreEntries
    <3> QED BY <1>3, <3>1, <3>2 DEF Past
  <2> QED BY <2>1, <2>2
<1>11. ASSUME NEW f \in Held, f.updatedAt = new.updatedAt
       PROVE  SameDelegation(f, new)
  <2>1. f.updatedAt # now
    BY <1>3, <1>6 DEF Past
  <2>2. e.updatedAt = base.updatedAt /\ SameDelegation(e, base)
    BY <1>1, <1>4, <1>11, <2>1 DEF Back, SameDelegation
  <2>3. SameDelegation(f, base)
    BY <1>2, <1>4, <1>11, <2>2 DEF DelegationTimes
  <2> QED BY <1>4, <2>2, <2>3 DEF SameDelegation
<1>12. \A f, g \in {new} \cup Held : f.updatedAt = g.updatedAt => SameDelegation(f, g)
  BY <1>11 DEF DelegationTimes, SameDelegation
<1>13. (\A f, g \in Held : f.updatedAt = g.updatedAt => SameDelegation(f, g))'
  BY <1>9, <1>12 DEF SameDelegation
<1>14. (\A f \in Held : Past(f))'
  BY <1>7, <1>8, <1>9
<1>15. (\A s \in Sites : \A a \in actions[s] :
          a.by \notin Fast => a.performedAt = a.written /\ a.written < now)'
  <2>1. \A s \in Sites : \A a \in actions[s] : a.written \in Nat
    BY DEF TypeOK, Actions, Times
  <2> QED BY <1>3, <2>1 DEF DelegationTimes
<1> QED BY <1>10, <1>13, <1>14, <1>15 DEF DelegationTimes

\* The owner is never behind: what replicates to the owner is no entry it lacks.
LEMMA OwnerHasTheLatest ==
  ASSUME TypeOK, DelegationTimes, NEW s \in Sites, NEW t \in Sites, Replicate(s, t)
  PROVE  entry'[Owner] = entry[Owner]
<1>1. entry[s].written \in Nat /\ entry[Owner].written \in Nat
  BY DEF TypeOK, Sites, Entries, Times
<1>2. ~ (entry[s].written > entry[Owner].written)
  BY <1>1 DEF DelegationTimes
<1> QED BY <1>2 DEF Replicate, TypeOK, Sites

LEMMA TimesStep ==
  ASSUME TypeOK, DelegationTimes, [Next]_vars
  PROVE  DelegationTimes'
<1>1. ASSUME NEW c \in Calls, ReadForWrite(c) PROVE DelegationTimes'
  <2>1. UNCHANGED entry /\ UNCHANGED actions /\ now' = now /\ Own' = Own
    BY <1>1 DEF ReadForWrite, Own
  <2>2. \A d \in Calls : call'[d].busy => call'[d] = call[d] \/ call'[d].base = Own
    BY <1>1 DEF ReadForWrite, TypeOK
  <2>3. Held' \subseteq Held
    BY <2>1, <2>2 DEF Held
  <2> QED BY <2>1, <2>3, TimesPass
<1>2. ASSUME NEW c \in Calls, GiveUp(c) PROVE DelegationTimes'
  <2>1. UNCHANGED entry /\ UNCHANGED actions /\ now' = now /\ Own' = Own
    BY <1>2 DEF GiveUp, Own
  <2>2. \A d \in Calls : call'[d].busy => call'[d] = call[d]
    BY <1>2 DEF GiveUp, TypeOK, NoCall
  <2>3. Held' \subseteq Held
    BY <2>1, <2>2 DEF Held
  <2> QED BY <2>1, <2>3, TimesPass
<1>3. ASSUME NEW d \in Delegates, WriteAction(d) PROVE DelegationTimes'
  <2>1. /\ NewAction(d).by = d /\ NewAction(d).written = now
        /\ d \notin Fast => NewAction(d).performedAt = now
    BY DEF NewAction, Clock
  <2>2. \A s \in Sites : actions'[s] \subseteq actions[s] \cup {NewAction(d)}
    BY <1>3 DEF WriteAction, TypeOK
  <2>3. now' = now + 1 /\ UNCHANGED entry /\ UNCHANGED call
    BY <1>3 DEF WriteAction
  <2>4. ASSUME NEW s \in Sites, NEW a \in actions'[s], a.by \notin Fast
        PROVE  a.performedAt = a.written /\ a.written < now'
    <3>1. CASE a \in actions[s]
      <4>1. a.written \in Nat /\ now \in Nat
        BY <3>1 DEF TypeOK, Actions, Times
      <4>2. a.performedAt = a.written /\ a.written < now
        BY <2>4, <3>1 DEF DelegationTimes
      <4> QED BY <2>3, <4>1, <4>2
    <3>2. CASE a = NewAction(d)
      BY <2>1, <2>3, <2>4, <3>2, HeldAreEntries
    <3> QED BY <2>2, <3>1, <3>2
  <2>5. Held' = Held
    BY <2>3 DEF Held, Own
  <2>6. /\ \A s \in Sites : Past(entry[s])' /\ (entry[s].written <= entry[Owner].written)'
        /\ (\A e \in Held : Past(e))'
    <3>1. \A e : Past(e) /\ e.updatedAt \in Nat /\ e.written \in Nat => Past(e)'
      BY <2>3, HeldAreEntries DEF Past
    <3> QED BY <2>3, <2>5, <3>1, HeldAreEntries DEF DelegationTimes
  <2>7. (\A e, f \in Held : e.updatedAt = f.updatedAt => SameDelegation(e, f))'
    BY <2>5 DEF DelegationTimes, SameDelegation
  <2> QED BY <2>4, <2>6, <2>7 DEF DelegationTimes
<1>4. ASSUME NEW s \in Sites, NEW t \in Sites, Replicate(s, t) PROVE DelegationTimes'
  <2>1. /\ entry'[t] \in {entry[s], entry[t]}
        /\ actions'[t] = actions[t] \cup actions[s]
        /\ \A u \in Sites \ {t} : entry'[u] = entry[u] /\ actions'[u] = actions[u]
    BY <1>4 DEF Replicate, TypeOK
  <2>2. entry'[Owner] = entry[Owner]
    BY <1>4, OwnerHasTheLatest
  <2>3. UNCHANGED now /\ UNCHANGED call
    BY <1>4 DEF Replicate
  <2>4. Held' = Held
    BY <2>2, <2>3 DEF Held, Own
  <2>5. \A e : Past(e) => Past(e)'
    BY <2>3 DEF Past
  <2>6. \A u \in Sites : Past(entry[u])' /\ (entry[u].written <= entry[Owner].written)'
    <3>1. ASSUME NEW u \in Sites
          PROVE  entry'[u] \in {entry[v] : v \in Sites}
      BY <2>1
    <3> QED BY <2>2, <2>5, <3>1 DEF DelegationTimes
  <2>7. (\A e \in Held : Past(e))'
    BY <2>4, <2>5 DEF DelegationTimes
  <2>8. (\A e, f \in Held : e.updatedAt = f.updatedAt => SameDelegation(e, f))'
    BY <2>4 DEF DelegationTimes, SameDelegation
  <2>9. (\A u \in Sites : \A a \in actions[u] :
           a.by \notin Fast => a.performedAt = a.written /\ a.written < now)'
    BY <2>1, <2>3 DEF DelegationTimes
  <2> QED BY <2>6, <2>7, <2>8, <2>9 DEF DelegationTimes
<1>5. ASSUME now' \in {now, now + 1}, UNCHANGED call, UNCHANGED entry, UNCHANGED actions
      PROVE  DelegationTimes'
  <2>1. Held' = Held
    BY <1>5 DEF Held, Own
  <2> QED BY <1>5, <2>1, TimesPass
<1>6. CASE TimePasses
  BY <1>5, <1>6 DEF TimePasses
<1>7. ASSUME NEW d \in Delegates, StartAction(d) \/ DropAction(d) PROVE DelegationTimes'
  BY <1>5, <1>7 DEF StartAction, DropAction
<1>8. CASE UNCHANGED vars
  BY <1>5, <1>8 DEF vars
<1> QED BY <1>1, <1>2, <1>3, <1>4, <1>6, <1>7, <1>8, OwnerTimes DEF Next

LEMMA TimesOrdered == Spec => [](TypeOK /\ DelegationTimes)
<1>1. TypeOK /\ DelegationTimes /\ [Next]_vars => (TypeOK /\ DelegationTimes)'
  BY StepTypeOK, TimesStep
<1> QED BY <1>1, InitTypeOK, TimesInit, PTL DEF Spec

-----------------------------------------------------------------------------
\* The properties

\* An action undone by a revocation does not come back with a new delegation:
\* of the delegates whose clocks agree, whatever counts was written under the
\* present one.
THEOREM OnlyThePresentGrantCounts == Spec => []CountsUnderItsGrant
<1>1. TypeOK /\ DelegationTimes => CountsUnderItsGrant
  <2> SUFFICES ASSUME TypeOK, DelegationTimes, NEW s \in Sites,
                      NEW a \in Surviving(s, Clock(s)), a.by \notin Fast
               PROVE  a.written >= entry[s].granted
    BY DEF CountsUnderItsGrant
  <2>1. a \in actions[s] /\ a.performedAt >= entry[s].updatedAt
    BY DEF Surviving
  <2>2. a.performedAt = a.written /\ Past(entry[s])
    BY <2>1 DEF DelegationTimes
  <2>3. a.written \in Nat
    BY <2>1 DEF TypeOK, Actions, Times
  <2> QED BY <2>1, <2>2, <2>3, HeldAreEntries DEF Past
<1> QED BY <1>1, TimesOrdered, PTL

\* The owner's click turns what the owner sees, whatever the delegates have
\* done and whatever was written between its read and its write, unless an
\* action not older than the click counts.
THEOREM OwnerReopens == Spec => OwnerCanReopen
<1>1. ASSUME TypeOK, DelegationTimes, NEW c \in Calls, Toggle(c),
             \A a \in actions[Owner] :
               isDelegationActiveFor(entry'[Owner], a.by, Clock(Owner)) =>
                 a.performedAt < Clock(Owner)
      PROVE  Shown(Owner)' = ~ Shown(Owner)
  <2>1. call[c].base \in Entries /\ now \in Times
    BY <1>1, BusyHasRead, ClockIsATime DEF Toggle, Plain, Sites
  <2>2. /\ entry'[Owner].updatedAt = now
        /\ entry'[Owner].completed = ~ Shown(Owner)
        /\ entry'[Owner].expiresAt \in Expiries
        /\ actions' = actions /\ now' = now + 1 /\ Clock(Owner) = now
    BY <1>1, <2>1, OwnersClock DEF Toggle, Touched, Put, TypeOK, Sites, Entries
  <2>3. Clock(Owner)' = now + 1
    BY <2>2, PeopleAssumption DEF Clock
  <2>4. /\ now \in Nat /\ entry'[Owner].expiresAt \in Nat
        /\ \A a \in actions[Owner] : a.performedAt \in Nat
    <3>1. \A a \in actions[Owner] : a \in Actions
      BY <1>1 DEF TypeOK, Sites
    <3>2. \A a \in actions[Owner] : a.performedAt \in Nat
      BY <3>1, TimesAreNumbers
    <3>3. now \in Nat
      BY <1>1, TimesAssumption DEF TypeOK
    <3>4. entry'[Owner].expiresAt \in Nat
      BY <2>2, TimesAssumption
    <3> QED BY <3>2, <3>3, <3>4
  <2>5. ASSUME NEW a \in actions[Owner], a.performedAt >= now,
               isDelegationActiveFor(entry'[Owner], a.by, now + 1)
        PROVE  FALSE
    <3>1. isDelegationActiveFor(entry'[Owner], a.by, now)
      BY <2>4, <2>5 DEF isDelegationActiveFor
    <3>2. a.performedAt < now
      BY <1>1, <2>2, <3>1
    <3> QED BY <2>4, <2>5, <3>2
  <2>6. Surviving(Owner, Clock(Owner))' = {}
    BY <2>2, <2>3, <2>5 DEF Surviving
  <2> QED BY <2>2, <2>6 DEF Shown, ShownAt
<1>2. TypeOK /\ DelegationTimes /\ [Next]_vars =>
        [\A c \in Calls :
           /\ Toggle(c)
           /\ \A a \in actions[Owner] :
                isDelegationActiveFor(entry'[Owner], a.by, Clock(Owner)) =>
                  a.performedAt < Clock(Owner)
           => Shown(Owner)' = ~ Shown(Owner)]_vars
  BY <1>1
<1> QED BY <1>2, TimesOrdered, PTL DEF Spec, OwnerCanReopen

SameFor(e, f) == SameDelegation(e, f) /\ e.updatedAt = f.updatedAt

\* The owner's writes move updatedAt past every action written so far, or leave
\* the delegation and updatedAt as they are in the owner's entry, or turn it
\* back.
LEMMA OwnerWritesUndoForGood ==
  ASSUME TypeOK, DelegationTimes, NEW c \in Calls, OwnerWrites(c)
  PROVE  \/ entry'[Owner].updatedAt = now
         \/ SameFor(entry'[Owner], Own)
         \/ TurnsBack(c)
<1> DEFINE base == call[c].base
<1>1. PICK e : Put(c, e) /\ Back(base, e) /\ (e.updatedAt = now \/ WriteBudget(c))
  BY OwnerPutsBack
<1>2. base \in Held /\ Own \in Held
  BY OwnerPutsBack DEF Held
<1>3. SameFor(entry'[Owner], e)
  BY <1>1 DEF Back, Put, TypeOK, Sites, Entries, SameFor, SameDelegation
<1> SUFFICES ASSUME e.updatedAt # now, base.updatedAt = Own.updatedAt
             PROVE  SameFor(entry'[Owner], Own)
  BY <1>1, <1>3 DEF TurnsBack, SameFor
<1>4. SameFor(e, base)
  BY <1>1 DEF Back, SameFor, SameDelegation
<1>5. SameFor(base, Own)
  BY <1>2 DEF DelegationTimes, SameFor
<1> QED BY <1>3, <1>4, <1>5 DEF SameFor, SameDelegation

\* What has stopped counting for the owner never counts again, for delegates
\* whose clocks agree with the owner's, unless a budget's status that was read
\* before a newer write is put back over it.
THEOREM UndoneForGood == Spec => UndoneStaysUndone
<1>1. ASSUME TypeOK, DelegationTimes, [Next]_vars, \A c \in Calls : ~ TurnsBack(c),
             NEW a \in actions[Owner], a.by \notin Fast, a \in Surviving(Owner, Clock(Owner))'
      PROVE  a \in Surviving(Owner, Clock(Owner))
  <2>1. /\ now \in Nat /\ entry[Owner].expiresAt \in Nat /\ a.performedAt \in Nat
        /\ a.performedAt < now
    <3>1. entry[Owner] \in Entries /\ a \in Actions /\ now \in Nat
      BY <1>1 DEF TypeOK, Sites
    <3>2. a.performedAt = a.written /\ a.written < now
      BY <1>1 DEF DelegationTimes, Sites
    <3> QED BY <3>1, <3>2, TimesAreNumbers
  <2>2. Clock(Owner) = now /\ Clock(Owner)' = now'
    BY PeopleAssumption DEF Clock
  <2>3. /\ isDelegationActiveFor(entry'[Owner], a.by, now')
        /\ a.performedAt >= entry'[Owner].updatedAt
    BY <1>1, <2>2 DEF Surviving
  <2>4. entry'[Owner].updatedAt # now
    BY <2>1, <2>3
  <2>5. /\ now' = now \/ now' = now + 1
        /\ SameFor(entry'[Owner], Own)
    <3>1. ASSUME NEW c \in Calls, OwnerWrites(c)
          PROVE  now' = now + 1 /\ SameFor(entry'[Owner], Own)
      <4>1. now' = now + 1
        BY <1>1, <3>1, OwnerPutsBack DEF Put
      <4>2. SameFor(entry'[Owner], Own)
        BY <1>1, <2>4, <3>1, OwnerWritesUndoForGood
      <4> QED BY <4>1, <4>2
    <3>2. ASSUME NEW s \in Sites, NEW t \in Sites, Replicate(s, t)
          PROVE  now' = now /\ entry'[Owner] = entry[Owner]
      BY <1>1, <3>2, OwnerHasTheLatest DEF Replicate
    <3>3. ASSUME entry' = entry
          PROVE  SameFor(entry'[Owner], Own)
      BY <3>3 DEF SameFor, SameDelegation, Own
    <3>4. ASSUME NEW c \in Calls, ReadForWrite(c) \/ GiveUp(c)
          PROVE  now' = now /\ entry' = entry
      BY <3>4 DEF ReadForWrite, GiveUp
    <3>5. ASSUME NEW d \in Delegates, StartAction(d) \/ WriteAction(d) \/ DropAction(d)
          PROVE  (now' = now \/ now' = now + 1) /\ entry' = entry
      BY <3>5 DEF StartAction, WriteAction, DropAction
    <3>6. CASE TimePasses \/ UNCHANGED vars
      BY <3>3, <3>6 DEF TimePasses, vars
    <3> QED BY <1>1, <3>1, <3>2, <3>3, <3>4, <3>5, <3>6 DEF Next, SameFor, SameDelegation, Own
  <2>6. isDelegationActiveFor(entry[Owner], a.by, now)
    BY <2>1, <2>3, <2>5 DEF isDelegationActiveFor, SameFor, SameDelegation, Own
  <2> QED BY <2>2, <2>3, <2>5, <2>6 DEF Surviving, SameFor, Own
<1>2. TypeOK /\ DelegationTimes /\ [Next]_vars =>
        [\A a \in actions[Owner] :
           a.by \notin Fast /\ a \notin Surviving(Owner, Clock(Owner)) =>
             \/ a \notin Surviving(Owner, Clock(Owner))'
             \/ \E c \in Calls : TurnsBack(c)]_vars
  BY <1>1
<1> QED BY <1>2, TimesOrdered, PTL DEF Spec, UndoneStaysUndone

\* Whatever the clocks, writing a budget's status leaves what the delegate did
\* as it was, if nothing was written since it was read.
THEOREM BudgetWritesKeepCompletion == Spec => BudgetKeepsCompletion
<1>1. ASSUME TypeOK, NEW c \in Calls, WriteBudget(c), call[c].base = Own
      PROVE  Shown(Owner)' = ShownAt(Owner, Clock(Owner)')
  <2>1. PICK holds \in BOOLEAN : Put(c, [call[c].base EXCEPT !.holdsBudget = holds])
    BY <1>1 DEF WriteBudget
  <2>2. /\ entry'[Owner].completed = entry[Owner].completed
        /\ entry'[Owner].updatedAt = entry[Owner].updatedAt
        /\ entry'[Owner].delegate = entry[Owner].delegate
        /\ entry'[Owner].revoked = entry[Owner].revoked
        /\ entry'[Owner].expiresAt = entry[Owner].expiresAt
        /\ actions' = actions
    BY <1>1, <2>1 DEF Put, Own, TypeOK, Sites, Entries
  <2>3. Surviving(Owner, Clock(Owner))' = Surviving(Owner, Clock(Owner)')
    BY <2>2 DEF Surviving, isDelegationActiveFor
  <2> QED BY <2>2, <2>3 DEF Shown, ShownAt
<1>2. TypeOK /\ [Next]_vars =>
        [\A c \in Calls :
           WriteBudget(c) /\ call[c].base = Own =>
             Shown(Owner)' = ShownAt(Owner, Clock(Owner)')]_vars
  BY <1>1
<1> QED BY <1>2, TypesHold, PTL DEF Spec, BudgetKeepsCompletion
=============================================================================
