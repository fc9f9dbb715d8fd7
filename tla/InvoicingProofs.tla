--------------------------- MODULE InvoicingProofs ---------------------------
(***************************************************************************)
(* What holds of the invoices of a list for any devices, keys, number of   *)
(* writes and window: whatever pages show and however late they are, a     *)
(* Storno takes back an invoice that was issued under the number it names, *)
(* and as long as no page is late no number is given out twice.            *)
(***************************************************************************)
EXTENDS Invoicing, FiniteSetTheorems, WellFoundedInduction, TLAPS

\* Every write there still is: in a replica, or on a page that read it.
InPlay == {replica[d][k] : d \in Devices, k \in Ids} \cup UNION {shown[d] : d \in Devices}

\* Numbers and times grow by at most one with every write: how far n of them
\* can have got.
Reached(n) == 0..(n + 2)

\* After n writes and with g given out: only what is issued has a number, and
\* what a Storno names was given out.
ValueOK(v, n, g) ==
  /\ v \in Values
  /\ v.number \in Reached(n) /\ v.cancels \in Reached(n) /\ v.at \in Reached(n)
  /\ v.state = "issued" <=> v.number # 0
  /\ v.cancels # 0 => [key |-> v.of, number |-> v.cancels] \in g

WriteOK(w, n, g) ==
  /\ w \in Writes
  /\ w.time \in Reached(n)
  /\ ValueOK(w.value, n, g)
  /\ w.value.state # "absent" => w.time # 0
  /\ w.value.state = "issued" => [key |-> w.key, number |-> w.value.number] \in g

DraftOK(d) ==
  /\ ValueOK(draft[d].value, writes, given)
  /\ draft[d].value.state # "issued"
  /\ editing[d] \/ issuing[d] => draft[d].key \in Ids

\* A write is known by its time and its device, whose replica has moved on to
\* that time or past it.
OneWriteATime ==
  /\ \A v, w \in InPlay : v.time = w.time /\ v.by = w.by /\ v.time # 0 => v = w
  /\ \A w \in InPlay : w.by \in Devices => \E k \in Ids : replica[w.by][k].time >= w.time

\* The part of the invariant that holds however late the pages are.
Books ==
  /\ TypeOK
  /\ \A w \in InPlay : WriteOK(w, writes, given)
  /\ \A d \in Devices : DraftOK(d)
  /\ \A d \in Devices, k \in Ids : replica[d][k].key = k
  /\ given \subseteq [key : Ids, number : Reached(writes)]
  /\ OneWriteATime

\* The part that holds while no write came from a late page: the last write of
\* an issued invoice, which some device has, still has its number, and no two
\* have one number.
Stands(a) ==
  \E d \in Devices :
    /\ replica[d][a.key].value.state = "issued"
    /\ replica[d][a.key].value.number = a.number
    /\ \A e \in Devices : ~ Later(replica[e][a.key], replica[d][a.key])

Kept ==
  ~ stale =>
    /\ \A a \in given : Stands(a)
    /\ \A a, b \in given : a.number = b.number => a = b

IInv == Books /\ Kept

-----------------------------------------------------------------------------
\* Largest numbers and newest writes

LEMMA LeastNat ==
  ASSUME NEW T \in SUBSET Nat, T # {}
  PROVE  \E n \in T : \A m \in T : n <= m
<1>1. PICK n \in T : \A m \in T : ~ (<<m, n>> \in OpToRel(<, Nat))
  BY NatLessThanWellFounded, WFMin
<1>2. \A m \in T : m \in Nat /\ n \in Nat
  OBVIOUS
<1>3. \A m \in T : ~ (m < n)
  BY <1>1, <1>2 DEF OpToRel
<1> QED BY <1>2, <1>3

\* The one that fewest are above: were one above it, fewer would be above that.
LEMMA GreatestOfFinite ==
  ASSUME NEW T \in SUBSET Nat, IsFiniteSet(T), T # {}
  PROVE  \E n \in T : \A m \in T : m <= n
<1> DEFINE Above(y) == {x \in T : x > y}
           Counts == {Cardinality(Above(n)) : n \in T}
<1>1. \A n \in T : IsFiniteSet(Above(n)) /\ Cardinality(Above(n)) \in Nat
  BY FS_Subset, FS_CardinalityType
<1>2. PICK c \in Counts : \A b \in Counts : c <= b
  <2>1. Counts \in SUBSET Nat /\ Counts # {}
    BY <1>1
  <2> HIDE DEF Counts
  <2> QED BY <2>1, LeastNat
<1>3. PICK n \in T : c = Cardinality(Above(n))
  BY <1>2
<1>4. ASSUME NEW m \in T, m > n PROVE FALSE
  <2>1. Above(m) \in SUBSET Above(n) /\ m \in Above(n) /\ m \notin Above(m)
    <3>1. \A x \in T : x \in Nat
      OBVIOUS
    <3>2. ASSUME NEW x \in T, x > m PROVE x > n
      BY <1>4, <3>1, <3>2
    <3>3. m > n /\ ~ (m > m)
      BY <1>4, <3>1
    <3> QED BY <3>2, <3>3
  <2>2. Cardinality(Above(m)) <= c /\ Cardinality(Above(m)) # c
    BY <1>1, <1>3, <2>1, FS_Subset
  <2>3. Cardinality(Above(m)) \in Counts
    OBVIOUS
  <2>4. c <= Cardinality(Above(m)) /\ c \in Nat /\ Cardinality(Above(m)) \in Nat
    BY <1>1, <1>2, <1>3, <2>3
  <2> QED BY <2>2, <2>4
<1>5. \A m \in T : m <= n
  BY <1>4
<1> QED BY <1>5

LEMMA HighestIsGreatest ==
  ASSUME NEW b \in Nat, NEW numbers \in SUBSET (0..b)
  PROVE  Highest(numbers) \in 0..b /\ \A m \in numbers : m <= Highest(numbers)
<1>1. numbers \cup {0} \in SUBSET Nat /\ \A n \in numbers \cup {0} : n <= b
  OBVIOUS
<1>2. IsFiniteSet(numbers \cup {0})
  BY <1>1, FS_BoundedSetOfNaturals
<1>3. \E n \in numbers \cup {0} : \A m \in numbers \cup {0} : m <= n
  BY <1>1, <1>2, GreatestOfFinite
<1>4. /\ Highest(numbers) \in numbers \cup {0}
      /\ \A m \in numbers : m <= Highest(numbers)
  BY <1>3 DEF Highest
<1>5. numbers \cup {0} \in SUBSET (0..b)
  OBVIOUS
<1> QED BY <1>4, <1>5

LEMMA InPlayParts ==
  /\ \A d \in Devices, k \in Ids : replica[d][k] \in InPlay
  /\ \A d \in Devices : \A w \in shown[d] : w \in InPlay
  /\ \A w \in InPlay : \/ \E d \in Devices, k \in Ids : w = replica[d][k]
                       \/ \E d \in Devices : w \in shown[d]
BY DEF InPlay

LEMMA PlayNumbers ==
  ASSUME Books
  PROVE  /\ writes + 2 \in Nat
         /\ \A w \in InPlay : w.time \in 0..(writes + 2) /\ w.value.number \in 0..(writes + 2)
<1>1. writes + 2 \in Nat
  BY BoundsAssumption DEF Books, TypeOK
<1>2. \A w \in InPlay : WriteOK(w, writes, given)
  BY DEF Books
<1> QED BY <1>1, <1>2 DEF WriteOK, ValueOK, Reached

\* A device's clock is at or past every write it has, and every write it made.
LEMMA ClockIsAhead ==
  ASSUME Books, NEW d \in Devices
  PROVE  /\ Clock(d) \in Reached(writes)
         /\ \A k \in Ids : replica[d][k].time <= Clock(d)
         /\ \A w \in InPlay : w.by = d => w.time <= Clock(d)
<1>1. writes + 2 \in Nat
  BY PlayNumbers
<1>2. \A k \in Ids : replica[d][k].time \in 0..(writes + 2)
  BY PlayNumbers, InPlayParts
<1>3. /\ Clock(d) \in 0..(writes + 2)
      /\ \A m \in {replica[d][k].time : k \in Ids} : m <= Clock(d)
  BY <1>1, <1>2, HighestIsGreatest DEF Clock
<1>4. ASSUME NEW w \in InPlay, w.by = d PROVE w.time <= Clock(d)
  <2>1. PICK k \in Ids : replica[d][k].time >= w.time
    BY <1>4 DEF Books, OneWriteATime
  <2>2. replica[d][k].time <= Clock(d) /\ replica[d][k].time \in Nat /\ Clock(d) \in Nat
    BY <1>1, <1>2, <1>3
  <2>3. w.time \in Nat
    BY PlayNumbers
  <2> QED BY <2>1, <2>2, <2>3
<1> QED BY <1>3, <1>4 DEF Reached

LEMMA NextNumberIsNew ==
  ASSUME Books, NEW d \in Devices
  PROVE  /\ nextInvoiceNumber(shown[d]) \in 1..(writes + 3)
         /\ \A w \in shown[d] : w.value.state = "issued" =>
              w.value.number < nextInvoiceNumber(shown[d])
<1> DEFINE numbers == {w.value.number : w \in Issued(shown[d])}
<1>1. writes + 2 \in Nat
  BY PlayNumbers
<1>2. \A w \in shown[d] : w.value.number \in 0..(writes + 2)
  BY PlayNumbers, InPlayParts
<1>3. numbers \in SUBSET (0..(writes + 2))
  BY <1>2 DEF Issued
<1>4. Highest(numbers) \in 0..(writes + 2) /\ \A m \in numbers : m <= Highest(numbers)
  BY <1>1, <1>3, HighestIsGreatest
<1>5. \A w \in shown[d] : w.value.state = "issued" => w.value.number \in numbers
  BY DEF Issued
<1> HIDE DEF numbers
<1>6. nextInvoiceNumber(shown[d]) = Highest(numbers) + 1
  BY DEF nextInvoiceNumber, numbers
<1>7. writes \in Nat
  BY DEF Books, TypeOK
<1>8. nextInvoiceNumber(shown[d]) \in 1..(writes + 3)
  BY <1>4, <1>6, <1>7
<1>9. ASSUME NEW w \in shown[d], w.value.state = "issued"
      PROVE  w.value.number < nextInvoiceNumber(shown[d])
  <2>1. w.value.number <= Highest(numbers)
    BY <1>4, <1>5, <1>9
  <2> QED BY <1>2, <1>4, <1>6, <1>7, <2>1
<1> QED BY <1>8, <1>9

\* startCancellation finds an invoice of the number it looks for: there is a
\* newest one, as no two writes on a page are of one time and one device.
LEMMA FindsTheNumber ==
  ASSUME Books, NEW d \in Devices, NEW w \in Issued(shown[d])
  PROVE  /\ FindIssued(shown[d], w.value.number) \in Issued(shown[d])
         /\ FindIssued(shown[d], w.value.number).value.number = w.value.number
<1> DEFINE those == {v \in Issued(shown[d]) : v.value.number = w.value.number}
           times == {v.time : v \in those}
<1>1. /\ \A v \in those : v \in InPlay /\ v.time \in Nat /\ v.time <= writes + 2 /\ v.time # 0
                          /\ v.by \in Devices \cup {0}
      /\ writes + 2 \in Nat
  <2>1. ASSUME NEW v \in those
        PROVE  /\ v \in InPlay
               /\ v.time # 0 /\ v.by \in Devices \cup {0}
    <3>1. v \in InPlay /\ v.value.state = "issued"
      BY InPlayParts DEF Issued
    <3>2. WriteOK(v, writes, given)
      BY <3>1 DEF Books
    <3> QED BY <3>1, <3>2 DEF WriteOK, Writes
  <2>2. \A v \in those : v.time \in 0..(writes + 2)
    BY <2>1, PlayNumbers
  <2> HIDE DEF those
  <2> QED BY <2>1, <2>2, PlayNumbers
<1>2. PICK t \in times : \A s \in times : s <= t
  <2>1. times \in SUBSET Nat /\ times # {} /\ \A s \in times : s <= writes + 2
    BY <1>1
  <2>2. IsFiniteSet(times)
    <3> HIDE DEF times
    <3> QED BY <1>1, <2>1, FS_BoundedSetOfNaturals
  <2> HIDE DEF times
  <2> QED BY <2>1, <2>2, GreatestOfFinite
<1> DEFINE makers == {v.by : v \in {u \in those : u.time = t}}
<1>3. PICK b \in makers : \A c \in makers : c <= b
  <2>1. makers \in SUBSET (Devices \cup {0}) /\ makers # {}
    BY <1>1, <1>2
  <2>2. IsFiniteSet(Devices \cup {0}) /\ Devices \cup {0} \in SUBSET Nat
    BY DevicesAssumption, FS_AddElement
  <2>3. IsFiniteSet(makers) /\ makers \in SUBSET Nat
    <3> HIDE DEF makers
    <3> QED BY <2>1, <2>2, FS_Subset
  <2> HIDE DEF makers
  <2> QED BY <2>1, <2>3, GreatestOfFinite
<1>4. PICK n \in those : n.time = t /\ n.by = b
  BY <1>3
<1>5. ASSUME NEW v \in those, v # n PROVE Later(n, v)
  <2>1. v.time <= t /\ v.time \in Nat /\ t \in Nat
    BY <1>1, <1>2
  <2>2. CASE v.time = t
    <3>1. v.by <= b /\ v.by \in Nat /\ b \in Nat
      <4>1. v.by \in makers
        BY <2>2
      <4>2. v.by \in Nat /\ n.by \in Nat
        <5>1. \A c \in Devices \cup {0} : c \in Nat
          BY DevicesAssumption
        <5>2. v.by \in Devices \cup {0} /\ n.by \in Devices \cup {0}
          BY <1>1
        <5> QED BY <5>1, <5>2
      <4> HIDE DEF makers
      <4> QED BY <1>3, <1>4, <4>1, <4>2
    <3>2. v.by # b
      <4>1. v \in InPlay /\ n \in InPlay /\ n.time # 0
        BY <1>1
      <4> HIDE DEF those
      <4> QED BY <1>4, <1>5, <2>2, <4>1 DEF Books, OneWriteATime
    <3> QED BY <1>4, <2>2, <3>1, <3>2 DEF Later
  <2>3. CASE v.time # t
    BY <1>4, <2>1, <2>3 DEF Later
  <2> QED BY <2>2, <2>3
<1>6. FindIssued(shown[d], w.value.number) \in those
  <2>1. \E m \in those : \A v \in those : v # m => Later(m, v)
    BY <1>5
  <2> QED BY <2>1 DEF FindIssued
<1> QED BY <1>6

-----------------------------------------------------------------------------
\* What a step does to the writes there are

LEMMA StillOK ==
  ASSUME NEW n \in Nat, NEW m \in Nat, n <= m, NEW g, NEW h, g \subseteq h
  PROVE  /\ \A v : ValueOK(v, n, g) => ValueOK(v, m, h)
         /\ \A w : WriteOK(w, n, g) => WriteOK(w, m, h)
<1>1. Reached(n) \subseteq Reached(m)
  BY DEF Reached
<1>2. \A v : ValueOK(v, n, g) => ValueOK(v, m, h)
  BY <1>1 DEF ValueOK
<1> QED BY <1>1, <1>2 DEF WriteOK

\* The parts of the books that are about writes.
WritesBooks ==
  /\ replica \in [Devices -> [Ids -> Writes]]
  /\ shown \in [Devices -> SUBSET Writes]
  /\ \A w \in InPlay : WriteOK(w, writes, given)
  /\ \A d \in Devices, k \in Ids : replica[d][k].key = k
  /\ OneWriteATime

\* A step that only passes writes on, or forgets them.
LEMMA PassingOnKeeps ==
  ASSUME Books, UNCHANGED <<writes, given>>,
         replica' \in [Devices -> [Ids -> Writes]],
         shown' \in [Devices -> SUBSET InPlay],
         \A d \in Devices, k \in Ids :
           /\ replica'[d][k] \in InPlay
           /\ replica'[d][k].key = k
           /\ replica'[d][k].time >= replica[d][k].time
  PROVE  WritesBooks'
<1>1. InPlay' \subseteq InPlay
  BY DEF InPlay
<1>2. \A w \in InPlay : w \in Writes /\ w.time \in Nat
  <2>1. \A w \in InPlay : w \in Writes
    BY DEF Books, WriteOK
  <2>2. \A w \in InPlay : w.time \in Nat
    BY PlayNumbers
  <2> QED BY <2>1, <2>2
<1>3. shown' \in [Devices -> SUBSET Writes]
  BY <1>2
<1>4. \A w \in InPlay' : WriteOK(w, writes', given')
  BY <1>1 DEF Books
<1>5. \A v, w \in InPlay' : v.time = w.time /\ v.by = w.by /\ v.time # 0 => v = w
  BY <1>1 DEF Books, OneWriteATime
<1>6. ASSUME NEW w \in InPlay', w.by \in Devices
      PROVE  \E k \in Ids : replica'[w.by][k].time >= w.time
  <2>1. PICK k \in Ids : replica[w.by][k].time >= w.time
    BY <1>1, <1>6 DEF Books, OneWriteATime
  <2>2. /\ replica'[w.by][k].time \in Nat /\ replica[w.by][k].time \in Nat /\ w.time \in Nat
        /\ replica'[w.by][k].time >= replica[w.by][k].time
    BY <1>1, <1>2, <1>6, InPlayParts
  <2>3. replica'[w.by][k].time >= w.time
    BY <2>1, <2>2
  <2> QED BY <2>3
<1> QED BY <1>3, <1>4, <1>5, <1>6 DEF WritesBooks, OneWriteATime

\* A write: its time is past all its device has and all that device ever wrote.
NewWrite(d, k, value) == [key |-> k, time |-> Clock(d) + 1, by |-> d, value |-> value]

LEMMA PutKeeps ==
  ASSUME Books, NEW d \in Devices, NEW k \in Ids, NEW value, Put(d, k, value),
         UNCHANGED shown, given \subseteq given',
         ValueOK(value, writes + 1, given'),
         value.state = "issued" => [key |-> k, number |-> value.number] \in given'
  PROVE  /\ WritesBooks'
         /\ writes' \in 0..MaxWrites /\ stale' \in BOOLEAN
<1> DEFINE new == NewWrite(d, k, value)
<1>1. /\ writes \in Nat /\ writes + 1 \in Nat /\ writes' = writes + 1 /\ writes' \in 0..MaxWrites
      /\ replica \in [Devices -> [Ids -> Writes]] /\ shown \in [Devices -> SUBSET Writes]
  BY BoundsAssumption DEF Books, TypeOK, Put
<1>2. replica' = [replica EXCEPT ![d][k] = new]
  BY DEF Put, NewWrite
<1>3. /\ Clock(d) \in 0..(writes + 2)
      /\ \A j \in Ids : replica[d][j].time <= Clock(d)
      /\ \A w \in InPlay : w.by = d => w.time <= Clock(d)
  BY ClockIsAhead DEF Reached
<1>4. /\ new.key = k /\ new.time = Clock(d) + 1 /\ new.by = d /\ new.value = value
      /\ new.time \in 0..(writes' + 2) /\ new.time \in 0..(MaxWrites + 2) /\ new.time # 0
  BY <1>1, <1>3, BoundsAssumption DEF NewWrite
<1>5. new \in Writes
  BY <1>4 DEF NewWrite, Writes, Times, ValueOK
<1>6. WriteOK(new, writes', given')
  BY <1>1, <1>4, <1>5 DEF WriteOK, Reached
<1> HIDE DEF new
<1>7. /\ replica' \in [Devices -> [Ids -> Writes]]
      /\ replica'[d][k] = new
      /\ \A e \in Devices, j \in Ids : e # d \/ j # k => replica'[e][j] = replica[e][j]
  BY <1>1, <1>2, <1>5
<1>8. InPlay' \subseteq InPlay \cup {new}
  BY <1>1, <1>7 DEF InPlay
<1>9. \A w \in InPlay' : WriteOK(w, writes', given')
  <2>1. writes <= writes'
    BY <1>1
  <2>2. \A w : WriteOK(w, writes, given) => WriteOK(w, writes', given')
    BY <1>1, <2>1, StillOK
  <2>3. \A w \in InPlay : WriteOK(w, writes', given')
    BY <2>2 DEF Books
  <2> QED BY <1>6, <1>8, <2>3
<1>10. \A e \in Devices, j \in Ids : replica'[e][j].key = j
  BY <1>4, <1>7 DEF Books
<1>11. \A w \in InPlay : w.time \in Nat
  BY PlayNumbers
<1>12. ASSUME NEW v \in InPlay', NEW w \in InPlay', v.time = w.time, v.by = w.by, v.time # 0
       PROVE  v = w
  <2>1. \A u \in InPlay : u.by = d => u.time # new.time
    BY <1>3, <1>4, <1>11
  <2>2. CASE v \in InPlay /\ w \in InPlay
    BY <1>12, <2>2 DEF Books, OneWriteATime
  <2>3. CASE v = new \/ w = new
    BY <1>4, <1>8, <1>12, <2>1, <2>3
  <2> QED BY <1>8, <2>2, <2>3
<1>13. ASSUME NEW w \in InPlay', w.by \in Devices
       PROVE  \E j \in Ids : replica'[w.by][j].time >= w.time
  <2>1. CASE w = new
    BY <1>3, <1>4, <1>7, <2>1
  <2>2. CASE w \in InPlay
    <3>1. PICK j \in Ids : replica[w.by][j].time >= w.time
      BY <1>13, <2>2 DEF Books, OneWriteATime
    <3>2. CASE w.by # d \/ j # k
      BY <1>7, <1>13, <3>1, <3>2
    <3>3. CASE w.by = d /\ j = k
      <4>1. w.time <= Clock(d)
        BY <1>3, <2>2, <3>3
      <4>2. new.time >= w.time
        BY <1>3, <1>4, <1>11, <2>2, <4>1
      <4> QED BY <1>7, <3>3, <4>2
    <3> QED BY <3>2, <3>3
  <2> QED BY <1>8, <2>1, <2>2
<1>14. stale' \in BOOLEAN
  <2>1. stale' = (stale \/ Stale(d)) /\ stale \in BOOLEAN
    BY DEF Put, Books, TypeOK
  <2> QED BY <2>1
<1> QED BY <1>1, <1>7, <1>9, <1>10, <1>12, <1>13, <1>14 DEF WritesBooks, OneWriteATime

-----------------------------------------------------------------------------
\* What a page that is not late is sure of

LEMMA WritesAreOrdered ==
  ASSUME Books
  PROVE  \A w \in InPlay : w.time \in Nat /\ w.by \in Nat
<1>1. \A w \in InPlay : w.by \in Devices \cup {0}
  BY DEF Books, WriteOK, Writes
<1>2. \A w \in InPlay : w.time \in Nat
  BY PlayNumbers
<1>3. \A b \in Devices \cup {0} : b \in Nat
  BY DevicesAssumption
<1> QED BY <1>1, <1>2, <1>3

\* It shows every invoice that was ever issued, as it was issued.
LEMMA IssuedIsShown ==
  ASSUME Books, Kept, ~ stale, NEW d \in Devices, ~ Stale(d), NEW a \in given
  PROVE  /\ replica[d][a.key] \in shown[d]
         /\ replica[d][a.key].key = a.key /\ a.key \in Ids
         /\ replica[d][a.key].time # 0
         /\ replica[d][a.key].value.state = "issued"
         /\ replica[d][a.key].value.number = a.number
<1>1. a.key \in Ids
  BY DEF Books, TypeOK
<1>2. PICK f \in Devices :
         /\ replica[f][a.key].value.state = "issued"
         /\ replica[f][a.key].value.number = a.number
         /\ \A e \in Devices : ~ Later(replica[e][a.key], replica[f][a.key])
  BY DEF Kept, Stands
<1> DEFINE w == replica[f][a.key]
           v == replica[d][a.key]
<1>3. w \in InPlay /\ v \in InPlay
  BY <1>1, InPlayParts
<1>4. ~ Later(v, w) /\ ~ Later(w, v)
  BY <1>1, <1>2 DEF Stale
<1>5. w.time # 0
  <2>1. WriteOK(w, writes, given)
    BY <1>3 DEF Books
  <2> QED BY <1>2, <2>1 DEF WriteOK
<1>6. w.time \in Nat /\ w.by \in Nat /\ v.time \in Nat /\ v.by \in Nat
  BY <1>3, WritesAreOrdered
<1>7. w.time = v.time /\ w.by = v.by
  <2> HIDE DEF w, v
  <2> QED BY <1>4, <1>6 DEF Later
<1>8. w = v
  <2> HIDE DEF w, v
  <2> QED BY <1>3, <1>5, <1>7 DEF Books, OneWriteATime
<1>9. v \in shown[d]
  <2>1. v \in Held(d)
    BY <1>1, <1>2, <1>8 DEF Held
  <2> QED BY <2>1 DEF Stale
<1>10. v.key = a.key
  BY <1>1 DEF Books
<1> QED BY <1>1, <1>2, <1>5, <1>8, <1>9, <1>10

\* A write from such a page, to a key under which nothing was issued, leaves
\* what was issued standing; an invoice it issues has the last write of its key.
LEMMA PutKeepsKept ==
  ASSUME Books, Kept, NEW d \in Devices, NEW k \in Ids, NEW value, Put(d, k, value),
         ~ stale' => \A a \in given : a.key # k,
         \/ given' = given
         \/ /\ value.state = "issued"
            /\ given' = given \cup {[key |-> k, number |-> value.number]}
            /\ ~ stale' => \A a \in given : a.number # value.number
  PROVE  Kept'
<1> SUFFICES ASSUME ~ stale'
             PROVE  /\ \A a \in given' : Stands(a)'
                    /\ \A a, b \in given' : a.number = b.number => a = b
  BY DEF Kept
<1> DEFINE new == NewWrite(d, k, value)
<1>1. ~ stale /\ ~ Stale(d)
  BY DEF Put
<1>2. /\ replica' = [replica EXCEPT ![d][k] = new]
      /\ replica \in [Devices -> [Ids -> Writes]]
  BY DEF Put, NewWrite, Books, TypeOK
<1>3. /\ replica'[d][k] = new
      /\ \A e \in Devices, j \in Ids : e # d \/ j # k => replica'[e][j] = replica[e][j]
  BY <1>2
<1>4. ASSUME NEW a \in given PROVE Stands(a)'
  <2>1. a.key \in Ids /\ a.key # k
    BY DEF Books, TypeOK
  <2>2. PICK f \in Devices :
           /\ replica[f][a.key].value.state = "issued"
           /\ replica[f][a.key].value.number = a.number
           /\ \A e \in Devices : ~ Later(replica[e][a.key], replica[f][a.key])
    BY <1>1 DEF Kept, Stands
  <2>3. \A e \in Devices : replica'[e][a.key] = replica[e][a.key]
    BY <1>3, <2>1
  <2>4. /\ replica'[f][a.key].value.state = "issued"
        /\ replica'[f][a.key].value.number = a.number
        /\ \A e \in Devices : ~ Later(replica'[e][a.key], replica'[f][a.key])
    BY <2>2, <2>3
  <2> QED BY <2>4 DEF Stands
<1>5. ASSUME value.state = "issued", NEW a, a = [key |-> k, number |-> value.number]
      PROVE  Stands(a)'
  <2>1. new.time = Clock(d) + 1 /\ new.by = d /\ new.value = value /\ a.key = k
    BY <1>5 DEF NewWrite
  <2>2. Clock(d) \in Nat /\ replica[d][k].time <= Clock(d)
    BY ClockIsAhead, PlayNumbers DEF Reached
  <2>3. ASSUME NEW e \in Devices, e # d PROVE ~ Later(replica'[e][k], new)
    <3>1. replica'[e][k] = replica[e][k] /\ ~ Later(replica[e][k], replica[d][k])
      BY <1>1, <1>3, <2>3 DEF Stale
    <3>2. replica[e][k].time \in Nat /\ replica[d][k].time \in Nat
      BY InPlayParts, PlayNumbers
    <3>3. replica[e][k].time <= replica[d][k].time
      BY <3>1, <3>2 DEF Later
    <3>4. replica[e][k].time < new.time
      BY <2>1, <2>2, <3>2, <3>3
    <3> HIDE DEF new
    <3> QED BY <2>1, <2>2, <3>1, <3>2, <3>4 DEF Later
  <2>4. ~ Later(new, new)
    <3>1. new.time \in Nat /\ new.by \in Nat
      BY <2>1, <2>2, DevicesAssumption
    <3> HIDE DEF new
    <3> QED BY <3>1 DEF Later
  <2>5. /\ replica'[d][a.key] = new
        /\ \A e \in Devices : ~ Later(replica'[e][a.key], replica'[d][a.key])
    BY <1>3, <2>1, <2>3, <2>4
  <2>6. new.value.state = "issued" /\ new.value.number = a.number
    BY <1>5, <2>1
  <2> HIDE DEF new
  <2> QED BY <2>5, <2>6 DEF Stands
<1>6. \A a \in given' : Stands(a)'
  BY <1>4, <1>5
<1>7. \A a, b \in given : a.number = b.number => a = b
  BY <1>1 DEF Kept
<1>8. \A a, b \in given' : a.number = b.number => a = b
  BY <1>7
<1> QED BY <1>6, <1>8

-----------------------------------------------------------------------------
\* The forms

DraftsBooks ==
  /\ draft \in [Devices -> Drafts]
  /\ editing \in [Devices -> BOOLEAN] /\ issuing \in [Devices -> BOOLEAN]
  /\ \A d \in Devices : DraftOK(d)

CountBooks ==
  /\ writes \in 0..MaxWrites /\ stale \in BOOLEAN
  /\ given \subseteq [key : Ids, number : Reached(writes)]

LEMMA ReachedIsTimes ==
  ASSUME NEW n \in 0..MaxWrites
  PROVE  Reached(n) \subseteq Numbers
BY BoundsAssumption DEF Reached, Numbers, Times

LEMMA BooksParts ==
  /\ Books => DraftsBooks /\ CountBooks
  /\ WritesBooks' /\ DraftsBooks' /\ CountBooks' => Books'
<1>1. Books => DraftsBooks /\ CountBooks
  BY DEF Books, TypeOK, DraftsBooks, CountBooks
<1>2. ASSUME WritesBooks', DraftsBooks', CountBooks' PROVE Books'
  <2>1. given' \subseteq [key : Ids, number : Numbers]
    <3>1. writes' \in 0..MaxWrites /\ given' \subseteq [key : Ids, number : Reached(writes')]
      BY <1>2 DEF CountBooks
    <3>2. Reached(writes') \subseteq Numbers
      BY <3>1, ReachedIsTimes
    <3> QED BY <3>1, <3>2
  <2>2. TypeOK'
    BY <1>2, <2>1 DEF WritesBooks, DraftsBooks, CountBooks, TypeOK
  <2> QED BY <1>2, <2>2 DEF WritesBooks, DraftsBooks, CountBooks, Books
<1> QED BY <1>1, <1>2

\* Only one form changes in a step; the others stay in order, however many
\* writes and numbers there are by then.
LEMMA FormsKeep ==
  ASSUME Books, NEW d \in Devices, NEW form \in Drafts, NEW open \in BOOLEAN,
         NEW waiting \in BOOLEAN,
         draft' = [draft EXCEPT ![d] = form],
         editing' = [editing EXCEPT ![d] = open],
         issuing' = [issuing EXCEPT ![d] = waiting],
         writes' \in {writes, writes + 1}, given \subseteq given',
         ValueOK(form.value, writes', given'), form.value.state # "issued",
         open \/ waiting => form.key \in Ids
  PROVE  DraftsBooks'
<1>1. DraftsBooks
  BY BooksParts
<1>2. /\ draft' \in [Devices -> Drafts]
      /\ editing' \in [Devices -> BOOLEAN] /\ issuing' \in [Devices -> BOOLEAN]
      /\ draft'[d] = form /\ editing'[d] = open /\ issuing'[d] = waiting
      /\ \A e \in Devices : e # d => /\ draft'[e] = draft[e]
                                     /\ editing'[e] = editing[e] /\ issuing'[e] = issuing[e]
  BY <1>1 DEF DraftsBooks
<1>3. \A v : ValueOK(v, writes, given) => ValueOK(v, writes', given')
  <2>1. writes \in Nat /\ writes' \in Nat /\ writes <= writes'
    BY DEF Books, TypeOK
  <2> QED BY <2>1, StillOK
<1>4. DraftOK(d)'
  BY <1>2 DEF DraftOK
<1>5. ASSUME NEW e \in Devices, e # d PROVE DraftOK(e)'
  BY <1>1, <1>2, <1>3, <1>5 DEF DraftOK, DraftsBooks
<1> QED BY <1>2, <1>4, <1>5 DEF DraftsBooks

LEMMA EmptyFormOK ==
  ASSUME NEW n \in Nat, NEW g
  PROVE  /\ ValueOK(Absent, n, g) /\ ValueOK(emptyDraft, n, g)
         /\ Absent.state = "absent" /\ emptyDraft.state = "draft" /\ emptyDraft.cancels = 0
         /\ Absent.cancels = 0 /\ Absent \in Values /\ emptyDraft \in Values
         /\ NoDraft \in Drafts
<1>1. 0 \in Times /\ 0 \in Reached(n)
  BY BoundsAssumption DEF Times, Reached
<1>2. /\ Absent \in Values /\ emptyDraft \in Values
      /\ Absent.state = "absent" /\ emptyDraft.state = "draft"
      /\ \A v \in {Absent, emptyDraft} : v.number = 0 /\ v.cancels = 0 /\ v.at = 0
  BY <1>1 DEF Absent, emptyDraft, Values, Numbers
<1>3. NoDraft \in Drafts
  BY <1>2 DEF NoDraft, Drafts
<1> HIDE DEF Absent, emptyDraft
<1>4. ValueOK(Absent, n, g) /\ ValueOK(emptyDraft, n, g)
  BY <1>1, <1>2 DEF ValueOK
<1> QED BY <1>2, <1>3, <1>4

\* Settling a form that is open, or that an `issue` waits for.
LEMMA SettleKeeps ==
  ASSUME Books, NEW d \in Devices, NEW open \in BOOLEAN, NEW waiting \in BOOLEAN,
         Settle(d, open, waiting), editing[d] \/ issuing[d],
         writes' \in {writes, writes + 1}, given \subseteq given'
  PROVE  DraftsBooks'
<1>1. writes \in Nat /\ writes' \in Nat /\ writes <= writes'
  BY DEF Books, TypeOK
<1>2. /\ draft \in [Devices -> Drafts] /\ draft[d] \in Drafts /\ DraftOK(d)
  BY DEF Books, TypeOK
<1>3. /\ ValueOK(draft[d].value, writes', given')
      /\ draft[d].value.state # "issued"
      /\ draft[d].key \in Ids
  BY <1>1, <1>2, StillOK DEF DraftOK
<1>4. CASE open \/ waiting
  <2>1. draft' = [draft EXCEPT ![d] = draft[d]]
    BY <1>2, <1>4 DEF Settle
  <2> QED BY <1>2, <1>3, <2>1, FormsKeep DEF Settle
<1>5. CASE ~ (open \/ waiting)
  <2>1. draft' = [draft EXCEPT ![d] = NoDraft]
    BY <1>5 DEF Settle
  <2>2. NoDraft \in Drafts /\ ValueOK(NoDraft.value, writes', given')
        /\ NoDraft.value.state # "issued"
    BY <1>1, EmptyFormOK DEF NoDraft
  <2> QED BY <1>5, <2>1, <2>2, FormsKeep DEF Settle
<1> QED BY <1>4, <1>5

-----------------------------------------------------------------------------
\* The steps

LEMMA InitIInv == Init => IInv
<1> SUFFICES ASSUME Init PROVE IInv
  OBVIOUS
<1> DEFINE second == CHOOSE k \in Ids : k # FirstId
<1>1. second \in Ids /\ second # FirstId /\ FirstId \in Ids
  BY IdsAssumption
<1> HIDE DEF second
<1>2. PICK newer \in {emptyDraft, IssuedAs(2)} :
        LET value == [k \in Ids |-> IF k = FirstId THEN IssuedAs(1)
                                    ELSE IF k = second THEN newer ELSE Absent]
            time == [k \in Ids |-> IF k = FirstId THEN 1 ELSE IF k = second THEN 2 ELSE 0]
        IN /\ replica = [d \in Devices |-> [k \in Ids |->
                [key |-> k, time |-> time[k], by |-> 0, value |-> value[k]]]]
           /\ given = {[key |-> k, number |-> value[k].number] :
                        k \in {i \in Ids : value[i].state = "issued"}}
  BY DEF Init, second
<1> DEFINE value == [k \in Ids |-> IF k = FirstId THEN IssuedAs(1)
                                   ELSE IF k = second THEN newer ELSE Absent]
           time == [k \in Ids |-> IF k = FirstId THEN 1 ELSE IF k = second THEN 2 ELSE 0]
           first == [k \in Ids |-> [key |-> k, time |-> time[k], by |-> 0, value |-> value[k]]]
<1>3. /\ writes = 0 /\ stale = FALSE /\ shown = [d \in Devices |-> {}]
      /\ editing = [d \in Devices |-> FALSE] /\ issuing = [d \in Devices |-> FALSE]
      /\ draft = [d \in Devices |-> NoDraft]
  BY DEF Init
<1>4. 1 \in Times /\ 2 \in Times /\ 0 \in Times /\ writes \in 0..MaxWrites
  BY <1>3, BoundsAssumption DEF Times
<1>5. ASSUME NEW n \in {1, 2}
      PROVE  /\ IssuedAs(n) \in Values /\ IssuedAs(n).state = "issued" /\ IssuedAs(n).number = n
             /\ IssuedAs(n).cancels = 0 /\ IssuedAs(n).at = 0
  BY <1>4 DEF IssuedAs, emptyDraft, Absent, Values, Numbers
<1>6. ASSUME NEW g
      PROVE  /\ ValueOK(IssuedAs(1), 0, g) /\ ValueOK(IssuedAs(2), 0, g)
             /\ ValueOK(Absent, 0, g) /\ ValueOK(emptyDraft, 0, g)
  <2>1. 0 \in Reached(0) /\ 1 \in Reached(0) /\ 2 \in Reached(0)
    BY DEF Reached
  <2>2. ValueOK(IssuedAs(1), 0, g) /\ ValueOK(IssuedAs(2), 0, g)
    BY <1>5, <2>1 DEF ValueOK
  <2> QED BY <2>2, EmptyFormOK
<1>7. /\ value[FirstId] = IssuedAs(1) /\ value[second] = newer
      /\ \A k \in Ids : /\ k # FirstId /\ k # second => value[k] = Absent
                        /\ ValueOK(value[k], 0, given) /\ value[k] \in Values
  <2>1. newer \in Values /\ Absent \in Values /\ IssuedAs(1) \in Values
    BY <1>5, EmptyFormOK
  <2> QED BY <1>1, <1>2, <1>6, <2>1
<1>8. /\ time[FirstId] = 1 /\ time[second] = 2
      /\ \A k \in Ids : time[k] \in 0..2 /\ time[k] \in Times
      /\ \A k \in Ids : k # FirstId /\ k # second => time[k] = 0
  BY <1>1, <1>4
<1>9. replica = [d \in Devices |-> first]
      /\ given = {[key |-> k, number |-> value[k].number] : k \in {i \in Ids : value[i].state = "issued"}}
  BY <1>2
<1> HIDE DEF value, time
<1>10. \A k \in Ids : /\ first[k].key = k /\ first[k].time = time[k] /\ first[k].by = 0
                      /\ first[k].value = value[k]
  OBVIOUS
<1>11. first \in [Ids -> Writes]
  BY <1>7, <1>8 DEF Writes
<1> HIDE DEF first
<1>12. \A w \in InPlay : \E k \in Ids : w = first[k]
  BY <1>3, <1>9 DEF InPlay
<1>13. ASSUME NEW k \in Ids PROVE WriteOK(first[k], 0, given)
  <2>1. value[k].state # "absent" => time[k] # 0
    BY <1>7, <1>8, EmptyFormOK
  <2>2. first[k] \in Writes /\ time[k] \in Reached(0)
    BY <1>8, <1>11 DEF Reached
  <2> QED BY <1>7, <1>9, <1>10, <2>1, <2>2 DEF WriteOK
<1>14. OneWriteATime
  <2>1. ASSUME NEW j \in Ids, NEW k \in Ids, time[j] = time[k], time[j] # 0 PROVE j = k
    BY <1>8, <2>1
  <2>2. \A v, w \in InPlay : v.time = w.time /\ v.by = w.by /\ v.time # 0 => v = w
    BY <1>10, <1>12, <2>1
  <2>3. ASSUME NEW w \in InPlay, w.by \in Devices PROVE \E k \in Ids : replica[w.by][k].time >= w.time
    <3>1. PICK k \in Ids : w = first[k]
      BY <1>12
    <3>2. replica[w.by][k] = w /\ w.time \in 0..2
      BY <1>8, <1>9, <1>10, <2>3, <3>1
    <3> QED BY <3>2
  <2> QED BY <2>2, <2>3 DEF OneWriteATime
<1>15. Books
  <2>1. given \subseteq [key : Ids, number : Reached(writes)]
    <3>1. \A k \in Ids : value[k].number \in Reached(writes)
      BY <1>3, <1>7 DEF ValueOK
    <3> QED BY <1>9, <3>1
  <2>2. given \subseteq [key : Ids, number : Numbers]
    BY <1>7, <1>9 DEF Values
  <2>3. ASSUME NEW d \in Devices PROVE DraftOK(d)
    <3>1. ValueOK(draft[d].value, 0, given) /\ draft[d].value.state # "issued"
      BY <1>3, EmptyFormOK DEF NoDraft
    <3> QED BY <1>3, <3>1 DEF DraftOK
  <2>4. TypeOK
    BY <1>3, <1>4, <1>9, <1>11, <2>2, EmptyFormOK DEF TypeOK
  <2>5. \A w \in InPlay : WriteOK(w, writes, given)
    BY <1>3, <1>12, <1>13
  <2>6. \A d \in Devices, k \in Ids : replica[d][k].key = k
    BY <1>9, <1>10
  <2> QED BY <1>14, <2>1, <2>3, <2>4, <2>5, <2>6 DEF Books
<1>16. Kept
  <2>1. \A a \in given : /\ a.key \in Ids /\ value[a.key].state = "issued" /\ a.number = value[a.key].number
                         /\ a = [key |-> a.key, number |-> value[a.key].number]
    BY <1>9
  <2>2. \A k \in Ids : value[k].state = "issued" => k = FirstId \/ (k = second /\ newer = IssuedAs(2))
    BY <1>2, <1>7, EmptyFormOK
  <2>3. IssuedAs(1).number = 1 /\ IssuedAs(2).number = 2
    BY <1>5
  <2>4. \A a, b \in given : a.number = b.number => a = b
    <3> SUFFICES ASSUME NEW a \in given, NEW b \in given, a.number = b.number PROVE a.key = b.key
      BY <2>1
    <3> QED BY <1>7, <2>1, <2>2, <2>3
  <2>5. ASSUME NEW a \in given, NEW d \in Devices PROVE Stands(a)
    <3>1. \A e \in Devices : replica[e][a.key] = first[a.key]
      BY <1>9
    <3>2. ~ Later(first[a.key], first[a.key])
      <4>1. first[a.key].time \in 0..2 /\ first[a.key].by = 0
        BY <1>8, <1>10, <2>1
      <4> QED BY <4>1 DEF Later
    <3>3. first[a.key].value.state = "issued" /\ first[a.key].value.number = a.number
      BY <1>10, <2>1
    <3> QED BY <3>1, <3>2, <3>3 DEF Stands
  <2> QED BY <2>4, <2>5, DevicesAssumption DEF Kept
<1> QED BY <1>15, <1>16 DEF IInv

LEMMA FormStep ==
  ASSUME IInv, UNCHANGED <<replica, writes, shown, given, stale>>, DraftsBooks'
  PROVE  IInv'
<1>1. Books /\ CountBooks /\ Kept
  BY BooksParts DEF IInv
<1>2. WritesBooks'
  <2>1. shown' \in [Devices -> SUBSET InPlay] /\ replica' \in [Devices -> [Ids -> Writes]]
    BY <1>1, InPlayParts DEF Books, TypeOK
  <2>2. ASSUME NEW d \in Devices, NEW k \in Ids
        PROVE  /\ replica'[d][k] \in InPlay /\ replica'[d][k].key = k
               /\ replica'[d][k].time >= replica[d][k].time
    <3>1. replica[d][k] \in InPlay /\ replica[d][k].key = k /\ replica[d][k].time \in Nat
      BY <1>1, InPlayParts, WritesAreOrdered DEF Books
    <3> QED BY <3>1
  <2> QED BY <1>1, <2>1, <2>2, PassingOnKeeps
<1>3. CountBooks'
  BY <1>1 DEF CountBooks
<1>4. Kept'
  BY <1>1 DEF Kept, Stands
<1> QED BY <1>2, <1>3, <1>4, BooksParts DEF IInv

\* The same for a step that writes, with what it may give out.
LEMMA WriteStep ==
  ASSUME IInv, NEW d \in Devices, NEW k \in Ids, NEW value, Put(d, k, value),
         UNCHANGED shown, DraftsBooks',
         ValueOK(value, writes + 1, given'),
         ~ stale' => \A a \in given : a.key # k,
         \/ value.state # "issued" /\ given' = given
         \/ /\ value.state = "issued"
            /\ given' = given \cup {[key |-> k, number |-> value.number]}
            /\ ~ stale' => \A a \in given : a.number # value.number
  PROVE  IInv'
<1>1. Books /\ CountBooks /\ Kept
  BY BooksParts DEF IInv
<1>2. WritesBooks' /\ writes' \in 0..MaxWrites /\ stale' \in BOOLEAN
  BY <1>1, PutKeeps
<1>3. given' \subseteq [key : Ids, number : Reached(writes')]
  <2>1. writes' = writes + 1 /\ writes \in Nat
    BY <1>1 DEF Put, Books, TypeOK
  <2>2. given \subseteq [key : Ids, number : Reached(writes)]
    BY <1>1 DEF CountBooks
  <2>3. Reached(writes) \subseteq Reached(writes')
    BY <2>1 DEF Reached
  <2>4. value.number \in Reached(writes')
    BY <2>1 DEF ValueOK
  <2> QED BY <2>2, <2>3, <2>4
<1>4. Kept'
  BY <1>1, PutKeepsKept
<1> QED BY <1>2, <1>3, <1>4, BooksParts DEF IInv, CountBooks

\* A form that is open, or waited for, on a page that is not late, is of no
\* invoice that was issued.
LEMMA FormIsNotIssued ==
  ASSUME Books, Kept, NEW d \in Devices, ~ stale, ~ Stale(d), NEW a \in given
  PROVE  a.key # draft[d].key
<1>1. /\ replica[d][a.key] \in shown[d] /\ replica[d][a.key].key = a.key
      /\ replica[d][a.key].value.state = "issued"
  BY IssuedIsShown
<1> QED BY <1>1 DEF Stale

LEMMA FormParts ==
  ASSUME Books, NEW d \in Devices
  PROVE  /\ writes \in Nat /\ writes + 1 \in Nat /\ writes <= writes + 1 /\ given \subseteq given
         /\ draft \in [Devices -> Drafts] /\ draft[d] \in Drafts
         /\ editing \in [Devices -> BOOLEAN] /\ issuing \in [Devices -> BOOLEAN]
         /\ DraftOK(d)
         /\ ValueOK(draft[d].value, writes + 1, given)
<1>1. /\ writes \in Nat /\ writes + 1 \in Nat /\ writes <= writes + 1
      /\ draft \in [Devices -> Drafts] /\ draft[d] \in Drafts
      /\ editing \in [Devices -> BOOLEAN] /\ issuing \in [Devices -> BOOLEAN]
      /\ DraftOK(d)
  BY DEF Books, TypeOK
<1>2. ValueOK(draft[d].value, writes, given)
  BY <1>1 DEF DraftOK
<1> QED BY <1>1, <1>2, StillOK

LEMMA NewInvoiceStep == ASSUME IInv, NEW d \in Devices, NewInvoice(d) PROVE IInv'
<1>1. Books
  BY DEF IInv
<1>2. newInvoiceId \in Ids
  BY DEF NewInvoice, newInvoiceId, Fresh
<1> DEFINE form == [key |-> newInvoiceId, value |-> emptyDraft]
<1>3. /\ form \in Drafts /\ form.value = emptyDraft /\ form.key \in Ids
  BY <1>1, <1>2, FormParts, EmptyFormOK DEF Drafts
<1>4. ValueOK(form.value, writes, given) /\ form.value.state # "issued"
  BY <1>1, FormParts, EmptyFormOK
<1>5. issuing' = [issuing EXCEPT ![d] = issuing[d]] /\ issuing[d] \in BOOLEAN
  BY <1>1, FormParts DEF NewInvoice
<1>6. draft' = [draft EXCEPT ![d] = form] /\ editing' = [editing EXCEPT ![d] = TRUE]
  BY DEF NewInvoice, Open
<1> HIDE DEF form
<1>7. DraftsBooks'
  BY <1>1, <1>3, <1>4, <1>5, <1>6, FormsKeep DEF NewInvoice
<1> QED BY <1>7, FormStep DEF NewInvoice

LEMMA EditStep == ASSUME IInv, NEW d \in Devices, Edit(d) PROVE IInv'
<1>1. Books
  BY DEF IInv
<1>2. PICK w \in shown[d] : w.value.state = "draft" /\ Open(d, w.key, w.value)
  BY DEF Edit
<1> DEFINE form == [key |-> w.key, value |-> w.value]
<1>3. WriteOK(w, writes, given)
  BY <1>1, InPlayParts DEF Books
<1>4. form \in Drafts /\ form.value = w.value /\ form.key \in Ids
  BY <1>3 DEF WriteOK, Writes, Drafts
<1>5. ValueOK(form.value, writes, given) /\ form.value.state # "issued"
  BY <1>2, <1>3 DEF WriteOK
<1>6. issuing' = [issuing EXCEPT ![d] = issuing[d]] /\ issuing[d] \in BOOLEAN
  BY <1>1, FormParts DEF Edit
<1>7. draft' = [draft EXCEPT ![d] = form] /\ editing' = [editing EXCEPT ![d] = TRUE]
  BY <1>2 DEF Open
<1> HIDE DEF form
<1>8. DraftsBooks'
  BY <1>1, <1>4, <1>5, <1>6, <1>7, FormsKeep DEF Edit
<1> QED BY <1>8, FormStep DEF Edit

LEMMA LeaveStep ==
  ASSUME IInv, NEW d \in Devices, Back(d) \/ IssueFails(d)
  PROVE  IInv'
<1>1. Books /\ issuing[d] \in BOOLEAN /\ editing[d] \in BOOLEAN
  BY FormParts DEF IInv
<1>2. DraftsBooks'
  BY <1>1, SettleKeeps DEF Back, IssueFails
<1> QED BY <1>2, FormStep DEF Back, IssueFails

LEMMA SaveStep ==
  ASSUME IInv, NEW d \in Devices, Save(d) \/ StartIssue(d)
  PROVE  IInv'
<1>1. Books /\ Kept /\ DraftOK(d)
  BY FormParts DEF IInv
<1>2. editing[d] /\ Put(d, draft[d].key, draft[d].value) /\ UNCHANGED <<shown, given>>
  BY DEF Save, StartIssue
<1>3. DraftsBooks'
  <2>1. writes' = writes + 1
    BY <1>2 DEF Put
  <2> QED BY <1>1, <1>2, <2>1, SettleKeeps DEF Save, StartIssue
<1>4. ~ stale' => \A a \in given : a.key # draft[d].key
  BY <1>1, <1>2, FormIsNotIssued DEF Put
<1>5. draft[d].key \in Ids /\ draft[d].value.state # "issued"
  BY <1>1, <1>2 DEF DraftOK
<1>6. ValueOK(draft[d].value, writes + 1, given')
  BY <1>1, <1>2, FormParts
<1> QED BY <1>2, <1>3, <1>4, <1>5, <1>6, WriteStep

LEMMA DeleteStep == ASSUME IInv, NEW d \in Devices, DeleteDraft(d) PROVE IInv'
<1>1. Books /\ Kept /\ writes \in Nat /\ writes + 1 \in Nat /\ writes <= writes + 1
  BY FormParts DEF IInv
<1>2. PICK w \in shown[d] : w.value.state = "draft" /\ Put(d, w.key, Absent)
  BY DEF DeleteDraft
<1>3. UNCHANGED <<shown, editing, draft, issuing, given>>
  BY DEF DeleteDraft
<1>4. w \in InPlay /\ w.key \in Ids
  BY <1>1, InPlayParts DEF Books, WriteOK, Writes
<1>5. ValueOK(Absent, writes + 1, given') /\ Absent.state # "issued"
  BY <1>1, EmptyFormOK
<1>6. DraftsBooks'
  <2>1. DraftsBooks
    BY <1>1, BooksParts
  <2>2. \A v : ValueOK(v, writes, given) => ValueOK(v, writes', given')
    BY <1>1, <1>2, <1>3, StillOK DEF Put
  <2> QED BY <1>3, <2>1, <2>2 DEF DraftsBooks, DraftOK
<1>7. ASSUME ~ stale', NEW a \in given PROVE a.key # w.key
  <2>1. ~ stale /\ ~ Stale(d)
    BY <1>2, <1>7 DEF Put
  <2>2. replica[d][a.key].value.state = "issued" /\ replica[d][a.key].key = a.key
    BY <1>1, <2>1, IssuedIsShown
  <2>3. PICK j \in Ids : w = replica[d][j]
    BY <2>1 DEF Stale, Held
  <2>4. w.key = j
    BY <1>1, <2>3 DEF Books
  <2> QED BY <1>2, <2>2, <2>3, <2>4
<1> QED BY <1>2, <1>3, <1>4, <1>5, <1>6, <1>7, WriteStep

\* What a Storno is started with names an invoice and the number it was issued
\* under, even when the page is late.
LEMMA StornoNamesItsInvoice ==
  ASSUME Books, NEW d \in Devices, NEW w \in Issued(shown[d])
  PROVE  LET storno == cancellationFor(shown[d], w.value.number)
         IN  /\ storno \in Values /\ storno.state = "draft"
             /\ ValueOK(storno, writes, given)
<1> DEFINE number == w.value.number
           found == FindIssued(shown[d], number)
           storno == [emptyDraft EXCEPT !.cancels = number, !.of = found.key]
<1>1. found \in Issued(shown[d]) /\ found.value.number = number
  BY FindsTheNumber
<1>2. WriteOK(found, writes, given) /\ found.value.state = "issued"
  BY <1>1, InPlayParts DEF Issued, Books
<1> HIDE DEF found, number
<1>3. /\ found.key \in Ids /\ number \in Reached(writes) /\ number \in Numbers
      /\ [key |-> found.key, number |-> number] \in given
  BY <1>1, <1>2 DEF WriteOK, Writes, ValueOK, Values
<1>4. /\ emptyDraft \in Values /\ emptyDraft.state = "draft" /\ ValueOK(emptyDraft, writes, given)
  BY FormParts, EmptyFormOK
<1>5. /\ storno \in Values /\ storno.state = "draft" /\ storno.number = emptyDraft.number
      /\ storno.at = emptyDraft.at /\ storno.cancels = number /\ storno.of = found.key
  BY <1>3, <1>4 DEF Values
<1>6. storno = cancellationFor(shown[d], w.value.number)
  BY DEF cancellationFor, found, number
<1> HIDE DEF storno
<1>7. ValueOK(storno, writes, given)
  BY <1>3, <1>4, <1>5 DEF ValueOK
<1> QED BY <1>5, <1>6, <1>7

LEMMA CancellationStep == ASSUME IInv, NEW d \in Devices, StartCancellation(d) PROVE IInv'
<1>1. Books /\ Kept
  BY DEF IInv
<1>2. PICK w \in shown[d] :
        /\ w \in Issued(shown[d])
        /\ Put(d, newInvoiceId, cancellationFor(shown[d], w.value.number))
        /\ Open(d, newInvoiceId, cancellationFor(shown[d], w.value.number))
  BY DEF StartCancellation, OffersStorno
<1> DEFINE storno == cancellationFor(shown[d], w.value.number)
           form == [key |-> newInvoiceId, value |-> storno]
<1>3. newInvoiceId \in Ids /\ \A e \in Devices : replica[e][newInvoiceId].time = 0
  BY DEF StartCancellation, newInvoiceId, Fresh
<1>4. storno \in Values /\ storno.state = "draft" /\ ValueOK(storno, writes, given)
  BY <1>1, <1>2, StornoNamesItsInvoice
<1> HIDE DEF storno
<1>5. UNCHANGED <<shown, issuing, given>> /\ writes' = writes + 1
  BY <1>2 DEF StartCancellation, Put
<1>6. ValueOK(storno, writes + 1, given') /\ ValueOK(storno, writes', given')
  BY <1>1, <1>4, <1>5, FormParts, StillOK
<1>7. DraftsBooks'
  <2>1. form \in Drafts /\ form.value = storno /\ form.key \in Ids
    BY <1>3, <1>4 DEF Drafts
  <2>2. issuing' = [issuing EXCEPT ![d] = issuing[d]] /\ issuing[d] \in BOOLEAN
    BY <1>1, <1>5, FormParts
  <2>3. draft' = [draft EXCEPT ![d] = form] /\ editing' = [editing EXCEPT ![d] = TRUE]
    BY <1>2 DEF Open, storno
  <2> HIDE DEF form
  <2> QED BY <1>1, <1>4, <1>5, <1>6, <2>1, <2>2, <2>3, FormsKeep
<1>8. ASSUME ~ stale', NEW a \in given PROVE a.key # newInvoiceId
  <2>1. ~ stale /\ ~ Stale(d)
    BY <1>2, <1>8 DEF Put
  <2>2. replica[d][a.key].time # 0
    BY <1>1, <2>1, IssuedIsShown
  <2> QED BY <1>3, <2>2
<1>9. Put(d, newInvoiceId, storno)
  BY <1>2 DEF storno
<1> QED BY <1>3, <1>4, <1>5, <1>6, <1>7, <1>8, <1>9, WriteStep

\* The number is new, for it is past every number the page shows, and the page,
\* if it is not late, shows every number there is.
LEMMA IssueStep == ASSUME IInv, NEW d \in Devices, IssueDraft(d) PROVE IInv'
<1> DEFINE number == nextInvoiceNumber(shown[d])
           k == draft[d].key
           value == [draft[d].value EXCEPT !.state = "issued", !.number = number, !.at = writes + 1]
<1>1. Books /\ Kept /\ DraftOK(d) /\ writes \in Nat /\ writes < MaxWrites
  BY FormParts DEF IInv, IssueDraft, Put
<1>2. /\ issuing[d] /\ Put(d, k, value) /\ UNCHANGED shown /\ Settle(d, FALSE, FALSE)
      /\ given' = given \cup {[key |-> k, number |-> number]}
  BY DEF IssueDraft
<1>3. /\ number \in 1..(writes + 3)
      /\ \A w \in shown[d] : w.value.state = "issued" => w.value.number < number
  BY <1>1, NextNumberIsNew
<1>4. k \in Ids /\ draft[d].value \in Values /\ ValueOK(draft[d].value, writes + 1, given)
  BY <1>1, <1>2, FormParts DEF DraftOK, ValueOK
<1> HIDE DEF number, k
<1>5. /\ number \in Numbers /\ writes + 1 \in Numbers
      /\ number \in Reached(writes + 1) /\ writes + 1 \in Reached(writes + 1) /\ number # 0
  BY <1>1, <1>3, BoundsAssumption DEF Numbers, Times, Reached
<1>6. /\ value \in Values /\ value.state = "issued" /\ value.number = number
      /\ value.at = writes + 1 /\ value.cancels = draft[d].value.cancels
      /\ value.of = draft[d].value.of
  BY <1>4, <1>5 DEF Values
<1> HIDE DEF value
<1>7. ValueOK(value, writes + 1, given')
  BY <1>2, <1>4, <1>5, <1>6 DEF ValueOK
<1>8. DraftsBooks'
  <2>1. writes' = writes + 1
    BY <1>2 DEF Put
  <2> QED BY <1>1, <1>2, <2>1, SettleKeeps
<1>9. ASSUME ~ stale', NEW a \in given PROVE a.key # k /\ a.number # number
  <2>1. ~ stale /\ ~ Stale(d)
    BY <1>2, <1>9 DEF Put
  <2>2. a.key # k
    BY <1>1, <2>1, FormIsNotIssued DEF k
  <2>3. /\ replica[d][a.key] \in shown[d] /\ replica[d][a.key].value.state = "issued"
        /\ replica[d][a.key].value.number = a.number
    BY <1>1, <2>1, IssuedIsShown
  <2>4. a.number < number /\ a.number \in Nat
    <3>1. a.number \in Reached(writes)
      BY <1>1, BooksParts DEF CountBooks
    <3> QED BY <1>1, <1>3, <2>3, <3>1 DEF Reached
  <2>5. number \in Nat
    BY <1>3
  <2> QED BY <2>2, <2>4, <2>5
<1> QED BY <1>2, <1>4, <1>6, <1>7, <1>8, <1>9, WriteStep

LEMMA RefillStep == ASSUME IInv, NEW d \in Devices, Refill(d) PROVE IInv'
<1>1. Books /\ CountBooks /\ DraftsBooks /\ Kept
  BY BooksParts DEF IInv
<1>2. /\ shown' = [shown EXCEPT ![d] = ReadRecent(d)]
      /\ UNCHANGED <<replica, writes, editing, draft, issuing, given, stale>>
  BY DEF Refill
<1>3. ReadRecent(d) \in SUBSET InPlay
  BY InPlayParts DEF ReadRecent, Held
<1>4. shown \in [Devices -> SUBSET InPlay] /\ replica \in [Devices -> [Ids -> Writes]]
  BY <1>1, InPlayParts DEF Books, TypeOK
<1>5. shown' \in [Devices -> SUBSET InPlay]
  BY <1>2, <1>3, <1>4
<1>6. ASSUME NEW e \in Devices, NEW k \in Ids
      PROVE  /\ replica'[e][k] \in InPlay /\ replica'[e][k].key = k
             /\ replica'[e][k].time >= replica[e][k].time
  <2>1. replica[e][k] \in InPlay /\ replica[e][k].key = k /\ replica[e][k].time \in Nat
    BY <1>1, InPlayParts, WritesAreOrdered DEF Books
  <2> QED BY <1>2, <2>1
<1>7. WritesBooks'
  BY <1>1, <1>2, <1>4, <1>5, <1>6, PassingOnKeeps
<1>8. DraftsBooks' /\ CountBooks' /\ Kept'
  BY <1>1, <1>2 DEF DraftsBooks, DraftOK, CountBooks, Kept, Stands
<1> QED BY <1>7, <1>8, BooksParts DEF IInv

LEMMA ReloadStep == ASSUME IInv, NEW d \in Devices, Reload(d) PROVE IInv'
<1>1. Books /\ CountBooks /\ Kept
  BY BooksParts DEF IInv
<1>2. /\ shown' = [shown EXCEPT ![d] = {}]
      /\ editing' = [editing EXCEPT ![d] = FALSE]
      /\ draft' = [draft EXCEPT ![d] = NoDraft]
      /\ issuing' = [issuing EXCEPT ![d] = FALSE]
      /\ UNCHANGED <<replica, writes, given, stale>>
  BY DEF Reload
<1>3. shown \in [Devices -> SUBSET InPlay] /\ replica \in [Devices -> [Ids -> Writes]]
  BY <1>1, InPlayParts DEF Books, TypeOK
<1>4. shown' \in [Devices -> SUBSET InPlay]
  BY <1>2, <1>3
<1>5. ASSUME NEW e \in Devices, NEW k \in Ids
      PROVE  /\ replica'[e][k] \in InPlay /\ replica'[e][k].key = k
             /\ replica'[e][k].time >= replica[e][k].time
  <2>1. replica[e][k] \in InPlay /\ replica[e][k].key = k /\ replica[e][k].time \in Nat
    BY <1>1, InPlayParts, WritesAreOrdered DEF Books
  <2> QED BY <1>2, <2>1
<1>6. WritesBooks'
  BY <1>1, <1>2, <1>3, <1>4, <1>5, PassingOnKeeps
<1>7. DraftsBooks'
  <2>1. NoDraft \in Drafts /\ NoDraft.value = Absent /\ Absent.state # "issued"
    BY <1>1, FormParts, EmptyFormOK DEF NoDraft
  <2>2. ValueOK(NoDraft.value, writes', given')
    BY <1>1, <1>2, <2>1, FormParts, EmptyFormOK
  <2> HIDE DEF NoDraft
  <2> QED BY <1>1, <1>2, <2>1, <2>2, FormsKeep
<1>8. CountBooks' /\ Kept'
  BY <1>1, <1>2 DEF CountBooks, Kept, Stands
<1> QED BY <1>6, <1>7, <1>8, BooksParts DEF IInv

\* Of a key, the receiver keeps the later of two writes.
Newer(v, w) == IF Later(v, w) THEN v ELSE w

LEMMA ReplicateStep == ASSUME IInv, NEW s \in Devices, NEW t \in Devices, Replicate(s, t) PROVE IInv'
<1>1. Books /\ CountBooks /\ DraftsBooks /\ Kept
  BY BooksParts DEF IInv
<1>2. UNCHANGED <<writes, shown, editing, draft, issuing, given, stale>>
  BY DEF Replicate, pageVars
<1>3. /\ shown \in [Devices -> SUBSET InPlay] /\ replica \in [Devices -> [Ids -> Writes]]
      /\ \A w \in InPlay : w \in Writes
  BY <1>1, InPlayParts DEF Books, TypeOK, WriteOK
<1> DEFINE merged == [k \in Ids |-> Newer(replica[s][k], replica[t][k])]
<1>4. replica' = [replica EXCEPT ![t] = merged]
  BY DEF Replicate, Newer
<1>5. ASSUME NEW k \in Ids
      PROVE  /\ merged[k] \in {replica[s][k], replica[t][k]}
             /\ merged[k].time >= replica[t][k].time
             /\ Later(replica[s][k], replica[t][k]) => merged[k] = replica[s][k]
             /\ ~ Later(replica[s][k], replica[t][k]) => merged[k] = replica[t][k]
  <2>1. /\ replica[s][k].time \in Nat /\ replica[t][k].time \in Nat
    BY <1>1, InPlayParts, WritesAreOrdered
  <2> QED BY <2>1 DEF Newer, Later
<1>6. merged \in [Ids -> Writes]
  <2>1. \A k \in Ids : merged[k] \in Writes
    BY <1>3, <1>5
  <2> QED BY <2>1
<1> HIDE DEF merged
<1>7. /\ replica' \in [Devices -> [Ids -> Writes]]
      /\ replica'[t] = merged
      /\ \A e \in Devices : e # t => replica'[e] = replica[e]
  BY <1>3, <1>4, <1>6
<1>8. ASSUME NEW e \in Devices, NEW k \in Ids
      PROVE  /\ replica'[e][k] \in InPlay /\ replica'[e][k].key = k
             /\ replica'[e][k].time >= replica[e][k].time
  <2>1. /\ replica[e][k] \in InPlay /\ replica[e][k].key = k /\ replica[e][k].time \in Nat
        /\ replica[s][k] \in InPlay /\ replica[s][k].key = k
    BY <1>1, InPlayParts, WritesAreOrdered DEF Books
  <2>2. CASE e = t
    BY <1>5, <1>7, <2>1, <2>2
  <2>3. CASE e # t
    BY <1>7, <2>1, <2>3
  <2> QED BY <2>2, <2>3
<1>9. WritesBooks'
  BY <1>1, <1>2, <1>3, <1>7, <1>8, PassingOnKeeps
<1>10. DraftsBooks' /\ CountBooks'
  BY <1>1, <1>2 DEF DraftsBooks, DraftOK, CountBooks
\* What stood on a device stands there still, or the receiver had an earlier
\* write and has this one now; nothing later than it has appeared.
<1>11. ASSUME ~ stale, NEW a \in given PROVE Stands(a)'
  <2> DEFINE k == a.key
  <2>1. k \in Ids
    BY <1>1 DEF Books, TypeOK
  <2> HIDE DEF k
  <2>2. PICK f \in Devices :
           /\ replica[f][k].value.state = "issued"
           /\ replica[f][k].value.number = a.number
           /\ \A e \in Devices : ~ Later(replica[e][k], replica[f][k])
    BY <1>1, <1>11 DEF Kept, Stands, k
  <2>3. \A e \in Devices : replica'[e][k] = replica[e][k] \/ replica'[e][k] = replica[s][k]
    BY <1>5, <1>7, <2>1
  <2>4. \A e \in Devices : ~ Later(replica'[e][k], replica[f][k])
    BY <2>2, <2>3
  <2>5. \E g \in Devices : replica'[g][k] = replica[f][k]
    <3>1. CASE f # t
      BY <1>7, <3>1
    <3>2. CASE f = t
      BY <1>5, <1>7, <2>1, <2>2, <3>2
    <3> QED BY <3>1, <3>2
  <2>6. PICK g \in Devices : replica'[g][k] = replica[f][k]
    BY <2>5
  <2>7. /\ replica'[g][k].value.state = "issued" /\ replica'[g][k].value.number = a'.number
        /\ \A e \in Devices : ~ Later(replica'[e][k], replica'[g][k])
    BY <2>2, <2>4, <2>6
  <2> QED BY <2>7 DEF Stands, k
<1>12. Kept'
  <2>1. ~ stale => \A a, b \in given : a.number = b.number => a = b
    BY <1>1 DEF Kept
  <2> QED BY <1>2, <1>11, <2>1 DEF Kept
<1> QED BY <1>9, <1>10, <1>12, BooksParts DEF IInv

LEMMA NextIInv == IInv /\ [Next]_vars => IInv'
<1> SUFFICES ASSUME IInv, [Next]_vars PROVE IInv'
  OBVIOUS
<1>1. ASSUME NEW d \in Devices, UserDoes(d) PROVE IInv'
  BY <1>1, NewInvoiceStep, EditStep, LeaveStep, SaveStep, DeleteStep, CancellationStep DEF UserDoes
<1>2. ASSUME NEW d \in Devices,
             IssueDraft(d) \/ IssueFails(d) \/ Refill(d) \/ Reload(d)
      PROVE  IInv'
  BY <1>2, IssueStep, LeaveStep, RefillStep, ReloadStep
<1>3. ASSUME NEW s \in Devices, NEW t \in Devices, Replicate(s, t) PROVE IInv'
  BY <1>3, ReplicateStep
<1>4. CASE UNCHANGED vars
  <2>1. UNCHANGED <<replica, writes, shown, given, stale>> /\ UNCHANGED <<editing, draft, issuing>>
    BY <1>4 DEF vars, pageVars
  <2>2. DraftsBooks'
    BY <2>1, BooksParts DEF IInv, DraftsBooks, DraftOK
  <2> QED BY <2>1, <2>2, FormStep
<1> QED BY <1>1, <1>2, <1>3, <1>4 DEF Next

LEMMA AlwaysIInv == Spec => []IInv
BY InitIInv, NextIInv, PTL DEF Spec

-----------------------------------------------------------------------------
\* What follows

\* The state of every replica, page and form has its type, after any writes of
\* any devices.
THEOREM TypesHold == Spec => []TypeOK
<1>1. IInv => TypeOK
  BY DEF IInv, Books
<1> QED BY <1>1, AlwaysIInv, PTL

\* While every write has come from a page that showed the list as it is, no
\* number was given out twice, and every invoice that was issued is on some
\* device as it was issued (nextInvoiceNumber, deleteInvoiceDraft, save).
THEOREM NothingIsLost == Spec => []NothingLostUnlessStale
<1>1. IInv => NothingLostUnlessStale
  BY DEF IInv, Kept, Stands, NothingLostUnlessStale
<1> QED BY <1>1, AlwaysIInv, PTL

\* However late the pages are: an invoice that reads as cancelled and shares
\* its number with no other has a Storno that names it (startCancellation,
\* foldCancellations).
THEOREM CancelledHasItsStorno == Spec => []CancelledIsTakenBack
<1>1. ASSUME IInv PROVE CancelledIsTakenBack
  <2>1. Books
    BY <1>1 DEF IInv
  <2> SUFFICES ASSUME NEW d \in Devices, NEW page \in {shown[d], Held(d)}, NEW w \in page,
                      Cancelled(page, w), Unshared(w.value.number)
               PROVE  \E s \in Issued(page) : s.value.of = w.key
    BY DEF CancelledIsTakenBack
  <2>2. \A v \in page : v \in InPlay
    BY InPlayParts DEF Held
  <2>3. PICK s \in page : s.value.cancels = w.value.number /\ s.value.number # 0
    BY DEF Cancelled
  <2>4. w.value.number # 0
    BY DEF Cancelled
  <2>5. WriteOK(s, writes, given) /\ WriteOK(w, writes, given)
    BY <2>1, <2>2 DEF Books
  <2>6. /\ s.value.state = "issued" /\ w.value.state = "issued"
        /\ [key |-> s.value.of, number |-> w.value.number] \in given
    BY <2>3, <2>4, <2>5 DEF WriteOK, ValueOK
  <2>7. [key |-> w.key, number |-> w.value.number] \in given
    BY <2>5, <2>6 DEF WriteOK
  <2>8. [key |-> s.value.of, number |-> w.value.number] = [key |-> w.key, number |-> w.value.number]
    BY <2>6, <2>7 DEF Unshared
  <2>9. s.value.of = w.key
    BY <2>8
  <2> QED BY <2>6, <2>9 DEF Issued
<1> QED BY <1>1, AlwaysIInv, PTL
=============================================================================
