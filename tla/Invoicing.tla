----------------------------- MODULE Invoicing -----------------------------
(***************************************************************************)
(* The invoices of one list, on the devices that issue in one series: one  *)
(* identity on several devices, or identities that come to the same five   *)
(* digits.  invoice-actions.js, InvoiceSection.svelte, records.js,         *)
(* numbering.js and duplicates.js.                                         *)
(*                                                                         *)
(* Each device has a replica of the list, in which the last write of a key *)
(* stands, and a page that shows what it read of the replica some time     *)
(* ago.  The page decides what the user may do, and what is written goes   *)
(* to the replica.  A number is the counter of the series, in one period.  *)
(***************************************************************************)
EXTENDS Integers, FiniteSets

CONSTANTS
  Devices,    \* numbered: of two writes at one time the higher device's stands
  Ids,        \* keys of invoices
  FirstId,
  NoId,
  Limit,      \* INITIAL_TODO_LIMIT: how many of the newest keys are read
  MaxWrites   \* bound on the writes to the list

ASSUME DevicesAssumption == Devices \subseteq Nat /\ IsFiniteSet(Devices) /\ Devices # {}
ASSUME IdsAssumption == FirstId \in Ids /\ NoId \notin Ids /\ Ids # {FirstId}
ASSUME BoundsAssumption == Limit \in Nat /\ MaxWrites \in Nat

VARIABLES
  replica,  \* the last write of each key, on each device
  shown,    \* invoicesStore: the writes that were read last
  editing,  \* whether the form is open
  draft,    \* the form's draft
  issuing,  \* an `issue` has saved the draft and awaits; the form's buttons wait
  writes,   \* how many writes there were; it stands for the time of day too
  given,    \* history: every number given out, with its invoice
  stale     \* history: a write was made from a page that did not show the list as it is

pageVars == <<shown, editing, draft, issuing>>
vars == <<replica, writes, pageVars, given, stale>>

Times == 0..(MaxWrites + 2)
Numbers == Times  \* 0 is no number

\* `of` is the invoice whose lines a Storno takes back; `at` is issuedAt.
Values == [state : {"absent", "draft", "issued"}, number : Numbers,
           cancels : Numbers, of : Ids \cup {NoId}, at : Numbers]

Absent == [state |-> "absent", number |-> 0, cancels |-> 0, of |-> NoId, at |-> 0]
emptyDraft == [Absent EXCEPT !.state = "draft"]

Writes == [key : Ids, time : Times, by : Devices \cup {0}, value : Values]

Drafts == [key : Ids \cup {NoId}, value : Values]
NoDraft == [key |-> NoId, value |-> Absent]

TypeOK ==
  /\ replica \in [Devices -> [Ids -> Writes]]
  /\ writes \in 0..MaxWrites
  /\ shown \in [Devices -> SUBSET Writes]
  /\ editing \in [Devices -> BOOLEAN]
  /\ draft \in [Devices -> Drafts]
  /\ issuing \in [Devices -> BOOLEAN]
  /\ given \subseteq [key : Ids, number : Numbers]
  /\ stale \in BOOLEAN

IssuedAs(number) == [emptyDraft EXCEPT !.state = "issued", !.number = number]

\* The pages have just been opened on a list that is on every device, with an
\* issued invoice and a newer one: a draft, or one that was issued too.
Init ==
  /\ LET second == CHOOSE k \in Ids : k # FirstId
     IN \E newer \in {emptyDraft, IssuedAs(2)} :
          LET value == [k \in Ids |-> IF k = FirstId THEN IssuedAs(1)
                                      ELSE IF k = second THEN newer ELSE Absent]
              time == [k \in Ids |-> IF k = FirstId THEN 1 ELSE IF k = second THEN 2 ELSE 0]
          IN /\ replica = [d \in Devices |-> [k \in Ids |->
                  [key |-> k, time |-> time[k], by |-> 0, value |-> value[k]]]]
             /\ given = {[key |-> k, number |-> value[k].number] :
                          k \in {i \in Ids : value[i].state = "issued"}}
  /\ writes = 0
  /\ stale = FALSE
  /\ shown = [d \in Devices |-> {}]
  /\ editing = [d \in Devices |-> FALSE]
  /\ draft = [d \in Devices |-> NoDraft]
  /\ issuing = [d \in Devices |-> FALSE]

-----------------------------------------------------------------------------
\* The list: the last write of a key stands, and the newest keys are read

Later(w, v) == w.time > v.time \/ (w.time = v.time /\ w.by > v.by)

Highest(numbers) == CHOOSE n \in numbers \cup {0} : \A m \in numbers : m <= n

Clock(d) == Highest({replica[d][k].time : k \in Ids})

Held(d) == {w \in {replica[d][k] : k \in Ids} : w.value.state # "absent"}

\* What the page shows is not what there is, or the form is open on an invoice
\* that is shown as issued by now.
Stale(d) ==
  \/ shown[d] # Held(d)
  \/ \E e \in Devices, k \in Ids : Later(replica[e][k], replica[d][k])
  \/ \E w \in shown[d] : w.key = draft[d].key /\ w.value.state = "issued"

Put(d, k, value) ==
  /\ writes < MaxWrites
  /\ writes' = writes + 1
  /\ replica' = [replica EXCEPT ![d][k] =
                  [key |-> k, time |-> Clock(d) + 1, by |-> d, value |-> value]]
  /\ stale' = (stale \/ Stale(d))

\* readRecentTodos: todos and customers count towards the limit too; here the
\* invoices alone fill it.
ReadRecent(d) == {w \in Held(d) : Cardinality({v \in Held(d) : Later(v, w)}) < Limit}

-----------------------------------------------------------------------------
\* numbering.js, records.js and duplicates.js, over what a page shows

Issued(page) == {w \in page : w.value.state = "issued"}

\* Mutant: gives out the highest counter again.
NextIsHighest(page) ==
  LET highest == Highest({w.value.number : w \in Issued(page)})
  IN IF highest = 0 THEN 1 ELSE highest

nextInvoiceNumber(page) == Highest({w.value.number : w \in Issued(page)}) + 1

\* foldCancellations
Cancelled(page, w) ==
  /\ w.value.number # 0
  /\ \E s \in page : s.value.cancels = w.value.number /\ s.value.number # 0

\* duplicateGroups: those of w's number that are not taken back.
Clash(page, w) ==
  {v \in Issued(page) : v.value.number = w.value.number /\ ~ Cancelled(page, v)}

\* byAge and mustGiveWay: the oldest keeps the number.
MustGiveWay(page, w) ==
  /\ w \in Clash(page, w)
  /\ \E v \in Clash(page, w) : v.value.at < w.value.at

\* The row offers a Storno for what is issued and not taken back, is no Storno
\* itself and need not give way.
OffersStorno(page, w) ==
  /\ w \in Issued(page)
  /\ ~ Cancelled(page, w)
  /\ w.value.cancels = 0
  /\ ~ MustGiveWay(page, w)

\* Mutant: finds the first issued invoice, whatever its number.
FindIssuedAny(page, number) ==
  CHOOSE w \in Issued(page) : \A v \in Issued(page) : v # w => Later(w, v)

\* `find`: the first of that number, the newest write coming first.
FindIssued(page, number) ==
  LET those == {w \in Issued(page) : w.value.number = number}
  IN CHOOSE w \in those : \A v \in those : v # w => Later(w, v)

\* startCancellation finds the invoice again by its number.
cancellationFor(page, number) ==
  [emptyDraft EXCEPT !.cancels = number, !.of = FindIssued(page, number).key]

-----------------------------------------------------------------------------
\* The page: what the user does

\* newInvoiceId draws a key nobody else writes: any of these, they differ in
\* nothing.
Fresh == {k \in Ids : \A d \in Devices :
            replica[d][k].time = 0 /\ draft[d].key # k}

newInvoiceId == CHOOSE k \in Fresh : TRUE

Open(d, k, value) ==
  /\ editing' = [editing EXCEPT ![d] = TRUE]
  /\ draft' = [draft EXCEPT ![d] = [key |-> k, value |-> value]]

NewInvoice(d) ==
  /\ ~ editing[d]
  /\ Fresh # {}
  /\ Open(d, newInvoiceId, emptyDraft)
  /\ UNCHANGED <<replica, writes, shown, issuing, given, stale>>

\* edit: of a row that is shown as a draft.
Edit(d) ==
  /\ ~ editing[d]
  /\ \E w \in shown[d] : w.value.state = "draft" /\ Open(d, w.key, w.value)
  /\ UNCHANGED <<replica, writes, shown, issuing, given, stale>>

\* Mutant: Back empties the draft though an `issue` waits for it.
SettleEmpty(d, open, waiting) ==
  /\ editing' = [editing EXCEPT ![d] = open]
  /\ issuing' = [issuing EXCEPT ![d] = waiting]
  /\ draft' = IF open THEN draft ELSE [draft EXCEPT ![d] = NoDraft]

\* What is left in the page's draft when no form is open matters only to an
\* `issue` that is under way.
Settle(d, open, waiting) ==
  /\ editing' = [editing EXCEPT ![d] = open]
  /\ issuing' = [issuing EXCEPT ![d] = waiting]
  /\ draft' = IF open \/ waiting THEN draft ELSE [draft EXCEPT ![d] = NoDraft]

\* Back does not wait for a call.
Back(d) ==
  /\ editing[d]
  /\ Settle(d, FALSE, issuing[d])
  /\ UNCHANGED <<replica, writes, shown, given, stale>>

Save(d) ==
  /\ editing[d] /\ ~ issuing[d]
  /\ Put(d, draft[d].key, draft[d].value)
  /\ Settle(d, FALSE, FALSE)
  /\ UNCHANGED <<shown, given>>

\* issue saves the draft first.
StartIssue(d) ==
  /\ editing[d] /\ ~ issuing[d]
  /\ Put(d, draft[d].key, draft[d].value)
  /\ Settle(d, TRUE, TRUE)
  /\ UNCHANGED <<shown, given>>

\* deleteInvoiceDraft: of a row that is shown as a draft.
DeleteDraft(d) ==
  /\ ~ editing[d]
  /\ \E w \in shown[d] : w.value.state = "draft" /\ Put(d, w.key, Absent)
  /\ UNCHANGED <<shown, editing, draft, issuing, given>>

\* startCancellation: the Storno's draft is written and opened.
StartCancellation(d) ==
  /\ ~ editing[d]
  /\ Fresh # {}
  /\ \E w \in shown[d] :
       /\ OffersStorno(shown[d], w)
       /\ LET storno == cancellationFor(shown[d], w.value.number)
          IN Put(d, newInvoiceId, storno) /\ Open(d, newInvoiceId, storno)
  /\ UNCHANGED <<shown, issuing, given>>

\* issue, resumed: what is issued is the draft the page has now, under the
\* number that follows from what it shows now.
IssueDraft(d) ==
  LET number == nextInvoiceNumber(shown[d])
  IN /\ issuing[d]
     /\ Put(d, draft[d].key, [draft[d].value EXCEPT !.state = "issued", !.number = number,
                                                    !.at = writes + 1])
     /\ given' = given \cup {[key |-> draft[d].key, number |-> number]}
     /\ Settle(d, FALSE, FALSE)
     /\ UNCHANGED shown

\* The draft is not ready to be issued, or the list refuses the write: it stays
\* saved, and in the form.
IssueFails(d) ==
  /\ issuing[d]
  /\ Settle(d, editing[d], FALSE)
  /\ UNCHANGED <<replica, writes, shown, given, stale>>

-----------------------------------------------------------------------------
\* The list around the page

\* loadTodosSnapshot, whenever it gets there: a re-read that was asked for may
\* be late, or lost (TodoView).
Refill(d) ==
  /\ shown' = [shown EXCEPT ![d] = ReadRecent(d)]
  /\ UNCHANGED <<replica, writes, editing, draft, issuing, given, stale>>

\* Device t gets all that device s has.
Replicate(s, t) ==
  /\ replica' = [replica EXCEPT ![t] =
       [k \in Ids |-> IF Later(replica[s][k], replica[t][k]) THEN replica[s][k]
                                                            ELSE replica[t][k]]]
  /\ UNCHANGED <<writes, pageVars, given, stale>>

\* The page's memory is gone, and a call that has not been written.
Reload(d) ==
  /\ shown' = [shown EXCEPT ![d] = {}]
  /\ editing' = [editing EXCEPT ![d] = FALSE]
  /\ draft' = [draft EXCEPT ![d] = NoDraft]
  /\ issuing' = [issuing EXCEPT ![d] = FALSE]
  /\ UNCHANGED <<replica, writes, given, stale>>

UserDoes(d) ==
  \/ NewInvoice(d) \/ Edit(d) \/ Back(d) \/ Save(d) \/ StartIssue(d)
  \/ DeleteDraft(d) \/ StartCancellation(d)

Next ==
  \/ \E d \in Devices : UserDoes(d) \/ IssueDraft(d) \/ IssueFails(d) \/ Refill(d) \/ Reload(d)
  \/ \E s, t \in Devices : Replicate(s, t)

Spec == Init /\ [][Next]_vars

-----------------------------------------------------------------------------
\* Properties

\* As long as every write is made from a page that shows the list as it is, no
\* number is given out twice and no invoice that was issued is changed or lost.
NothingLostUnlessStale ==
  ~ stale =>
    \A a \in given :
      /\ \A b \in given : a.number = b.number => a = b
      /\ \E d \in Devices :
           /\ replica[d][a.key].value.state = "issued"
           /\ replica[d][a.key].value.number = a.number

Unshared(number) == \A a, b \in given : a.number = number /\ b.number = number => a = b

\* An invoice that reads as cancelled, on a page or in the whole list, and
\* shares its number with no other, has had its own amounts taken back by a
\* Storno that was issued, however late the page was that started the Storno.
CancelledIsTakenBack ==
  \A d \in Devices : \A page \in {shown[d], Held(d)} : \A w \in page :
    Cancelled(page, w) /\ Unshared(w.value.number) =>
      \E s \in Issued(page) : s.value.of = w.key
=============================================================================
