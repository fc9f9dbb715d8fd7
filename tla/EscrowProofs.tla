---------------------------- MODULE EscrowProofs ----------------------------
(***************************************************************************)
(* What holds of the contract for any accounts, references, amounts and    *)
(* durations: what it owes it holds, what it was given it pays out once,   *)
(* and so it implements EscrowPromise.                                     *)
(***************************************************************************)
EXTENDS Escrow, FiniteSetTheorems, WellFoundedInduction, TLAPS

\* A transfer between any two holders leaves every balance a natural number:
\* it moves 0 rather than more than there is.
LEMMA MovedIsNat ==
  ASSUME TypeOK, NEW from \in Holders, NEW to \in Holders, NEW requested \in Nat
  PROVE  /\ Transferred(from, requested) \in Nat
         /\ Moved(from, to, Transferred(from, requested)) \in [Holders -> Nat]
<1> DEFINE amount == Transferred(from, requested)
<1>1. balance \in [Holders -> Nat]
  BY DEF TypeOK
<1>2. amount \in Nat /\ amount <= balance[from]
  BY <1>1 DEF Transferred
<1>3. ASSUME NEW h \in Holders
      PROVE  balance[h] - (IF h = from THEN amount ELSE 0)
                        + (IF h = to THEN amount ELSE 0) \in Nat
  <2> HIDE DEF amount
  <2>1. CASE h = from
    BY <1>1, <1>2, <2>1
  <2>2. CASE h # from
    BY <1>1, <1>2, <2>2
  <2> QED BY <2>1, <2>2
<1> QED BY <1>2, <1>3 DEF Moved

-----------------------------------------------------------------------------
\* Type correctness, which here says that no sequence of locks, releases,
\* refunds and payments can drive a balance below zero.

LEMMA InitTypeOK == Init => TypeOK
<1> SUFFICES ASSUME Init PROVE TypeOK
  OBVIOUS
<1>1. Unset \in Record
  BY AuditorIsAccount, BoundsAreNat DEF Unset, Record, Times, EscrowStatus
<1>2. now \in Times
  BY BoundsAreNat DEF Init, Times
<1> QED BY <1>1, <1>2 DEF Init, TypeOK

LEMMA LockTypeOK ==
  ASSUME TypeOK, NEW creator \in Accounts, NEW todoRef \in TodoRefs,
         NEW beneficiary \in Accounts, NEW requested \in Amounts,
         NEW deadline \in Times, Lock(creator, todoRef, beneficiary, requested, deadline)
  PROVE  TypeOK'
<1>1. <<creator, todoRef>> \in Keys
  BY DEF Keys
<1>2. requested \in Nat /\ creator \in Holders /\ Self \in Holders
  BY AmountsAreNat DEF Holders
<1>3. Transferred(creator, requested) \in Nat /\ balance' \in [Holders -> Nat]
  BY <1>2, MovedIsNat DEF Lock
<1>4. LockRecord(creator, beneficiary, requested, deadline) \in Record
  BY <1>3 DEF LockRecord, Record, EscrowStatus
<1>5. escrows' \in [Keys -> Record]
  BY <1>1, <1>4 DEF Lock, TypeOK
<1>6. readers' \in [Keys -> SUBSET Holders]
  BY <1>1, AuditorIsAccount DEF Lock, TypeOK, Holders
<1> QED BY <1>3, <1>5, <1>6 DEF Lock, TypeOK

\* Release and Refund differ in who is paid and what the escrow ends as.
LEMMA CloseTypeOK ==
  ASSUME TypeOK, NEW creator \in Accounts, NEW todoRef \in TodoRefs,
         NEW to \in Accounts, NEW status \in EscrowStatus,
         escrows' = [escrows EXCEPT ![<<creator, todoRef>>].status = status],
         Send(creator, todoRef, to),
         UNCHANGED <<readers, now, operatorUntil, outside>>
  PROVE  TypeOK'
<1>1. <<creator, todoRef>> \in Keys
  BY DEF Keys
<1>2. escrows[<<creator, todoRef>>] \in Record
  BY <1>1 DEF TypeOK
<1>3. escrows[<<creator, todoRef>>].amount \in Nat /\ to \in Holders /\ Self \in Holders
  BY <1>2 DEF Record, Holders
<1>4. balance' \in [Holders -> Nat]
  BY <1>3, MovedIsNat DEF Send
<1>5. escrows' \in [Keys -> Record]
  BY <1>1, <1>2 DEF TypeOK, Record
<1> QED BY <1>4, <1>5 DEF TypeOK

LEMMA NextTypeOK == TypeOK /\ [Next]_chainVars => TypeOK'
<1> SUFFICES ASSUME TypeOK, [Next]_chainVars PROVE TypeOK'
  OBVIOUS
<1>1. ASSUME NEW a \in Accounts, NEW amount \in Amounts, Mint(a, amount)
      PROVE  TypeOK'
  <2>1. amount \in Nat /\ a \in Holders
    BY AmountsAreNat DEF Holders
  <2> QED BY <1>1, <2>1 DEF Mint, TypeOK
<1>2. ASSUME NEW from \in Accounts, NEW to \in Holders, NEW amount \in Amounts,
             Transfer(from, to, amount)
      PROVE  TypeOK'
  <2>1. amount \in Nat /\ from \in Holders
    BY AmountsAreNat DEF Holders
  <2>2. Transferred(from, amount) \in Nat /\ balance' \in [Holders -> Nat]
    BY <1>2, <2>1, MovedIsNat DEF Transfer
  <2>3. outside' \in [Holders -> Int]
    BY <1>2, <2>1, <2>2 DEF Transfer, TypeOK
  <2> QED BY <1>2, <2>2, <2>3 DEF Transfer, TypeOK
<1>3. ASSUME NEW a \in Accounts, SetOperator(a) PROVE TypeOK'
  <2>1. now + OperatorTtl \in Nat
    BY BoundsAreNat DEF TypeOK, Times
  <2> QED BY <1>3, <2>1 DEF SetOperator, TypeOK
<1>4. CASE NextBlock
  <2>1. now' \in Times
    BY <1>4, BoundsAreNat DEF NextBlock, TypeOK, Times
  <2> QED BY <1>4, <2>1 DEF NextBlock, TypeOK
<1>5. ASSUME NEW creator \in Accounts, NEW todoRef \in TodoRefs, Release(creator, todoRef)
      PROVE  TypeOK'
  <2>1. escrows[<<creator, todoRef>>].beneficiary \in Accounts
    BY DEF TypeOK, Keys, Record
  <2> QED BY <1>5, <2>1, CloseTypeOK DEF Release, EscrowStatus
<1>6. ASSUME NEW creator \in Accounts, NEW todoRef \in TodoRefs, Refund(creator, todoRef)
      PROVE  TypeOK'
  BY <1>6, CloseTypeOK DEF Refund, EscrowStatus
<1>7. CASE UNCHANGED chainVars
  BY <1>7 DEF chainVars, TypeOK
<1> QED BY <1>1, <1>2, <1>3, <1>4, <1>5, <1>6, <1>7, LockTypeOK
        DEF Next, TokenNext, EscrowNext

\* Every state the contract and its token reach is well typed; in particular
\* no balance ever goes negative.
THEOREM TypeCorrect == Spec => []TypeOK
<1> QED BY InitTypeOK, NextTypeOK, PTL DEF Spec

-----------------------------------------------------------------------------
\* What a step may do to the escrow at k.
TermsFixedStep(k) ==
  escrows[k].status # "None" =>
    /\ escrows'[k].beneficiary = escrows[k].beneficiary
    /\ escrows'[k].deadline = escrows[k].deadline
    /\ escrows'[k].amount = escrows[k].amount
    /\ readers'[k] = readers[k]
    /\ \/ escrows'[k].status = escrows[k].status
       \/ escrows[k].status = "Locked"

\* An escrow's terms are fixed by its lock and it closes at most once, whoever
\* calls what in whatever order (`lock` refuses a used todoRef, `_lockedEscrow`
\* a closed one).
THEOREM TermsAreFixed == Spec => TermsFixed
<1>1. ASSUME TypeOK, [Next]_chainVars, NEW k \in Keys PROVE TermsFixedStep(k)
  <2>1. escrows \in [Keys -> Record] /\ readers \in [Keys -> SUBSET Holders]
    BY <1>1 DEF TypeOK
  <2>2. ASSUME NEW creator \in Accounts, NEW todoRef \in TodoRefs,
               NEW beneficiary \in Accounts, NEW requested \in Amounts,
               NEW deadline \in Times,
               Lock(creator, todoRef, beneficiary, requested, deadline)
        PROVE  TermsFixedStep(k)
    <3>1. CASE k = <<creator, todoRef>>
      BY <2>2, <3>1 DEF Lock, CanLock, TermsFixedStep
    <3>2. CASE k # <<creator, todoRef>>
      BY <2>1, <2>2, <3>2 DEF Lock, TermsFixedStep, Keys
    <3> QED BY <3>1, <3>2
  <2>3. ASSUME NEW creator \in Accounts, NEW todoRef \in TodoRefs,
               Release(creator, todoRef) \/ Refund(creator, todoRef)
        PROVE  TermsFixedStep(k)
    <3>1. CASE k = <<creator, todoRef>>
      <4>1. escrows[k] \in Record /\ escrows[k].status = "Locked"
        BY <2>1, <2>3, <3>1 DEF Release, Refund, LockedEscrow
      <4>2. PICK status \in EscrowStatus : escrows' = [escrows EXCEPT ![k].status = status]
        BY <2>3, <3>1 DEF Release, Refund, EscrowStatus
      <4>3. escrows'[k] = [escrows[k] EXCEPT !.status = status]
        BY <2>1, <4>2
      <4> QED BY <2>3, <4>1, <4>3 DEF Release, Refund, TermsFixedStep, Record
    <3>2. CASE k # <<creator, todoRef>>
      BY <2>1, <2>3, <3>2 DEF Release, Refund, TermsFixedStep, Keys, Record
    <3> QED BY <3>1, <3>2
  <2>4. CASE UNCHANGED <<escrows, readers>>
    BY <2>4 DEF TermsFixedStep
  <2>5. TokenNext \/ NextBlock \/ UNCHANGED chainVars => UNCHANGED <<escrows, readers>>
    BY DEF TokenNext, Mint, Transfer, SetOperator, NextBlock, chainVars
  <2> QED BY <1>1, <2>2, <2>3, <2>4, <2>5 DEF Next, EscrowNext
<1>2. TypeOK /\ [Next]_chainVars => [\A k \in Keys : TermsFixedStep(k)]_chainVars
  BY <1>1
<1> QED BY <1>2, TypeCorrect, PTL DEF Spec, TermsFixed, TermsFixedStep

-----------------------------------------------------------------------------
\* Induction without an induction theorem: the least of the numbers that fail.
LEMMA LeastNat ==
  ASSUME NEW T \in SUBSET Nat, T # {}
  PROVE  \E n \in T : \A m \in T : n <= m
<1>1. PICK n \in T : \A m \in T : ~ (<<m, n>> \in OpToRel(<, Nat))
  BY NatLessThanWellFounded, WFMin
<1>2. \A m \in T : m \in Nat /\ n \in Nat
  OBVIOUS
<1>3. \A m \in T : ~ (m < n)
  BY <1>1, <1>2 DEF OpToRel
<1>4. \A m \in T : n <= m
  BY <1>2, <1>3
<1> QED BY <1>4

-----------------------------------------------------------------------------
\* Sums of amounts. MapThenSumSet adds up a set one CHOSEn element at a time,
\* by a recursive function on its subsets.

First(s) == CHOOSE x \in s : TRUE
\* What such a function g makes of a set s of entries of the ledger e.
Added(e, g, s) == IF s = {} THEN 0 ELSE e[First(s)].amount + g[s \ {First(s)}]
Tables(e, S, g) == g = [s \in SUBSET S |-> Added(e, g, s)]

\* What the library's definition of the sum comes to.
LEMMA SumIsRecursive ==
  ASSUME NEW e, NEW S
  PROVE  AmountSum(e, S) = (CHOOSE g : Tables(e, S, g))[S]
BY DEF AmountSum, MapThenSumSet, MapThenFoldSet, Tables, Added, First

LEMMA SmallerWithoutFirst ==
  ASSUME NEW s, IsFiniteSet(s), s # {}
  PROVE  /\ First(s) \in s
         /\ IsFiniteSet(s \ {First(s)})
         /\ Cardinality(s) \in Nat /\ Cardinality(s \ {First(s)}) \in Nat
         /\ Cardinality(s \ {First(s)}) < Cardinality(s)
<1>1. First(s) \in s
  BY DEF First
<1> HIDE DEF First
<1>2. IsFiniteSet(s \ {First(s)}) /\ Cardinality(s \ {First(s)}) = Cardinality(s) - 1
  BY <1>1, FS_RemoveElement
<1>3. Cardinality(s) \in Nat /\ Cardinality(s \ {First(s)}) \in Nat
  BY <1>2, FS_CardinalityType
<1> QED BY <1>1, <1>2, <1>3

\* Two such functions agree wherever their ledgers do.
LEMMA TablesAgree ==
  ASSUME NEW S, NEW T, NEW e, NEW f, NEW g, NEW h, Tables(e, S, g), Tables(f, T, h),
         NEW s \in SUBSET S, s \in SUBSET T, IsFiniteSet(s),
         \A k \in s : e[k].amount = f[k].amount
  PROVE  g[s] = h[s]
<1> DEFINE Bad == {n \in Nat : \E t \in SUBSET s : Cardinality(t) = n /\ g[t] # h[t]}
<1>1. \A t \in SUBSET s : IsFiniteSet(t) /\ Cardinality(t) \in Nat
  BY FS_Subset, FS_CardinalityType
<1>2. SUFFICES ASSUME g[s] # h[s] PROVE FALSE
  OBVIOUS
<1>3. PICK n \in Bad : \A m \in Bad : n <= m
  <2>1. Bad \in SUBSET Nat /\ Cardinality(s) \in Bad
    BY <1>1, <1>2
  <2> QED BY <2>1, LeastNat
<1>4. PICK t \in SUBSET s : Cardinality(t) = n /\ g[t] # h[t]
  BY <1>3
<1>5. g[t] = Added(e, g, t) /\ h[t] = Added(f, h, t)
  <2>1. t \in SUBSET S /\ t \in SUBSET T
    OBVIOUS
  <2> QED BY <2>1, Zenon DEF Tables
<1>6. t # {}
  BY <1>4, <1>5 DEF Added
<1>7. First(t) \in t /\ t \ {First(t)} \in SUBSET s /\ Cardinality(t \ {First(t)}) < n
  BY <1>1, <1>4, <1>6, SmallerWithoutFirst
<1>8. g[t \ {First(t)}] = h[t \ {First(t)}]
  <2>1. Cardinality(t \ {First(t)}) \in Nat /\ n \in Nat
    BY <1>1, <1>7
  <2>2. Cardinality(t \ {First(t)}) \notin Bad
    <3> HIDE DEF Bad
    <3> QED BY <1>3, <1>7, <2>1
  <2> QED BY <1>7, <2>1, <2>2
<1>9. e[First(t)].amount = f[First(t)].amount
  BY <1>7
<1> QED BY <1>4, <1>5, <1>6, <1>8, <1>9 DEF Added

\* There is such a function: there is no least size up to which there is none.
LEMMA TablesExist ==
  ASSUME NEW e, NEW S, IsFiniteSet(S)
  PROVE  \E g : Tables(e, S, g)
<1> DEFINE UpTo(n, g) == \A s \in SUBSET S : Cardinality(s) <= n => g[s] = Added(e, g, s)
           Reached == {n \in Nat : \E g : DOMAIN g = SUBSET S /\ g = [s \in SUBSET S |-> g[s]] /\ UpTo(n, g)}
           Missed == Nat \ Reached
<1>1. \A s \in SUBSET S : IsFiniteSet(s) /\ Cardinality(s) \in Nat /\ Cardinality(s) <= Cardinality(S)
  BY FS_Subset, FS_CardinalityType
<1>2. \A s \in SUBSET S : s # {} => /\ s \ {First(s)} \in SUBSET S
                                   /\ Cardinality(s \ {First(s)}) < Cardinality(s)
  BY <1>1, SmallerWithoutFirst
<1>3. Missed = {}
  <2>1. SUFFICES ASSUME Missed # {} PROVE FALSE
    OBVIOUS
  <2>2. PICK n \in Missed : \A m \in Missed : n <= m
    <3>1. Missed \in SUBSET Nat
      OBVIOUS
    <3> QED BY <2>1, <3>1, LeastNat
  <2>3. \E g : g = [s \in SUBSET S |-> g[s]] /\ \A s \in SUBSET S : Cardinality(s) < n => g[s] = Added(e, g, s)
    <3>1. CASE n = 0
      <4> DEFINE g == [s \in SUBSET S |-> 0]
      <4>1. g = [s \in SUBSET S |-> g[s]] /\ \A s \in SUBSET S : ~ (Cardinality(s) < n)
        BY <1>1, <3>1
      <4> QED BY <4>1
    <3>2. CASE n # 0
      <4>1. n - 1 \in Nat /\ n - 1 \notin Missed
        <5>1. n \in Nat
          OBVIOUS
        <5> HIDE DEF Missed
        <5> QED BY <2>2, <3>2, <5>1
      <4>2. PICK g : g = [s \in SUBSET S |-> g[s]] /\ UpTo(n - 1, g)
        BY <4>1
      <4>3. \A s \in SUBSET S : Cardinality(s) < n => Cardinality(s) <= n - 1
        BY <1>1, <4>1
      <4> QED BY <4>2, <4>3
    <3> QED BY <3>1, <3>2
  <2>4. PICK g : \A s \in SUBSET S : Cardinality(s) < n => g[s] = Added(e, g, s)
    BY <2>3
  <2> DEFINE h == [s \in SUBSET S |-> Added(e, g, s)]
  <2>5. \A s \in SUBSET S : Cardinality(s) < n => h[s] = g[s]
    BY <2>4
  <2>6. UpTo(n, h)
    <3> SUFFICES ASSUME NEW s \in SUBSET S, Cardinality(s) <= n PROVE h[s] = Added(e, h, s)
      OBVIOUS
    <3>1. h[s] = Added(e, g, s)
      OBVIOUS
    <3>2. CASE s = {}
      BY <3>1, <3>2 DEF Added
    <3>3. CASE s # {}
      <4>1. s \ {First(s)} \in SUBSET S /\ Cardinality(s \ {First(s)}) < n
        <5>1. n \in Nat /\ Cardinality(s) \in Nat /\ Cardinality(s \ {First(s)}) \in Nat
          BY <1>1, <1>2, <3>3
        <5> QED BY <1>2, <3>3, <5>1
      <4>2. h[s \ {First(s)}] = g[s \ {First(s)}]
        BY <2>5, <4>1
      <4> HIDE DEF h
      <4> QED BY <3>1, <3>3, <4>2 DEF Added
    <3> QED BY <3>2, <3>3
  <2>7. DOMAIN h = SUBSET S /\ h = [s \in SUBSET S |-> h[s]]
    OBVIOUS
  <2>8. n \in Reached
    <3> HIDE DEF h
    <3> QED BY <2>6, <2>7
  <2> QED BY <2>2, <2>8
<1>4. Cardinality(S) \in Reached
  BY <1>1, <1>3
<1>5. PICK g : g = [s \in SUBSET S |-> g[s]] /\ UpTo(Cardinality(S), g)
  BY <1>4
<1>6. g = [s \in SUBSET S |-> Added(e, g, s)]
  BY <1>1, <1>5
<1> QED BY <1>6 DEF Tables

LEMMA SumUnfolds ==
  ASSUME NEW e, NEW S, IsFiniteSet(S), S # {}
  PROVE  First(S) \in S /\ AmountSum(e, S) = e[First(S)].amount + AmountSum(e, S \ {First(S)})
<1> DEFINE R == S \ {First(S)}
           g == CHOOSE g : Tables(e, S, g)
           h == CHOOSE h : Tables(e, R, h)
<1>1. First(S) \in S /\ IsFiniteSet(R)
  BY SmallerWithoutFirst
<1>2. Tables(e, S, g) /\ Tables(e, R, h)
  BY <1>1, TablesExist
<1>3. AmountSum(e, S) = g[S] /\ AmountSum(e, R) = h[R]
  BY SumIsRecursive
<1> HIDE DEF g, h
<1>4. g[R] = h[R]
  BY <1>1, <1>2, TablesAgree
<1>5. g[S] = Added(e, g, S)
  BY <1>2 DEF Tables
<1> QED BY <1>1, <1>3, <1>4, <1>5 DEF Added

LEMMA SumOfNone ==
  ASSUME NEW e
  PROVE  AmountSum(e, {}) = 0
<1> DEFINE g == CHOOSE g : Tables(e, {}, g)
<1>1. Tables(e, {}, g)
  BY TablesExist, FS_EmptySet
<1>2. AmountSum(e, {}) = g[{}]
  BY SumIsRecursive
<1> HIDE DEF g
<1> QED BY <1>1, <1>2 DEF Tables, Added

LEMMA SumOfEqual ==
  ASSUME NEW e, NEW f, NEW S, IsFiniteSet(S), \A k \in S : e[k].amount = f[k].amount
  PROVE  AmountSum(e, S) = AmountSum(f, S)
<1> DEFINE g == CHOOSE g : Tables(e, S, g)
           h == CHOOSE h : Tables(f, S, h)
<1>1. Tables(e, S, g) /\ Tables(f, S, h)
  BY TablesExist
<1>2. AmountSum(e, S) = g[S] /\ AmountSum(f, S) = h[S]
  BY SumIsRecursive
<1> HIDE DEF g, h
<1> QED BY <1>1, <1>2, TablesAgree

\* A sum stays in any set closed under addition that holds its amounts.
LEMMA SumIsIn ==
  ASSUME NEW e, NEW S, IsFiniteSet(S), NEW R, 0 \in R, \A a, b \in R : a + b \in R,
         \A k \in S : e[k].amount \in R
  PROVE  AmountSum(e, S) \in R
<1> DEFINE Bad == {n \in Nat : \E t \in SUBSET S : Cardinality(t) = n /\ AmountSum(e, t) \notin R}
<1>1. \A t \in SUBSET S : IsFiniteSet(t) /\ Cardinality(t) \in Nat
  BY FS_Subset, FS_CardinalityType
<1>2. SUFFICES ASSUME AmountSum(e, S) \notin R PROVE FALSE
  OBVIOUS
<1>3. PICK n \in Bad : \A m \in Bad : n <= m
  <2>1. Bad \in SUBSET Nat /\ Cardinality(S) \in Bad
    BY <1>1, <1>2
  <2> QED BY <2>1, LeastNat
<1>4. PICK t \in SUBSET S : Cardinality(t) = n /\ AmountSum(e, t) \notin R
  BY <1>3
<1>5. t # {}
  BY <1>4, SumOfNone
<1>6. /\ First(t) \in t /\ AmountSum(e, t) = e[First(t)].amount + AmountSum(e, t \ {First(t)})
      /\ Cardinality(t \ {First(t)}) \in Nat /\ Cardinality(t \ {First(t)}) < n
  BY <1>1, <1>4, <1>5, SumUnfolds, SmallerWithoutFirst
<1>7. AmountSum(e, t \ {First(t)}) \in R
  <2>1. Cardinality(t \ {First(t)}) \notin Bad
    <3>1. n \in Nat
      OBVIOUS
    <3> HIDE DEF Bad
    <3> QED BY <1>3, <1>6, <3>1
  <2> QED BY <1>6, <2>1
<1> QED BY <1>4, <1>6, <1>7

\* The order of addition does not matter: any element may be taken out first.
LEMMA SumTakesOut ==
  ASSUME NEW e, NEW S, IsFiniteSet(S), \A k \in S : e[k].amount \in Int, NEW k \in S
  PROVE  AmountSum(e, S) = e[k].amount + AmountSum(e, S \ {k})
<1> DEFINE Wrong(t, j) == AmountSum(e, t) # e[j].amount + AmountSum(e, t \ {j})
           Bad == {n \in Nat : \E t \in SUBSET S : Cardinality(t) = n /\ \E j \in t : Wrong(t, j)}
<1>1. \A t \in SUBSET S : IsFiniteSet(t) /\ Cardinality(t) \in Nat /\ AmountSum(e, t) \in Int
  BY FS_Subset, FS_CardinalityType, SumIsIn
<1>2. SUFFICES ASSUME Wrong(S, k) PROVE FALSE
  OBVIOUS
<1>3. PICK n \in Bad : \A m \in Bad : n <= m
  <2>1. Bad \in SUBSET Nat /\ Cardinality(S) \in Bad
    BY <1>1, <1>2
  <2> QED BY <2>1, LeastNat
<1>4. PICK t \in SUBSET S : Cardinality(t) = n /\ \E j \in t : Wrong(t, j)
  BY <1>3
<1>5. PICK j \in t : Wrong(t, j)
  BY <1>4
<1> DEFINE x == First(t)
<1>6. x \in t /\ AmountSum(e, t) = e[x].amount + AmountSum(e, t \ {x})
  BY <1>1, SumUnfolds
<1>7. x # j
  BY <1>5, <1>6
<1>8. ASSUME NEW y \in t, NEW z \in t \ {y}
      PROVE  AmountSum(e, t \ {y}) = e[z].amount + AmountSum(e, (t \ {y}) \ {z})
  <2>1. /\ t \ {y} \in SUBSET S
        /\ Cardinality(t \ {y}) = n - 1 /\ Cardinality(t \ {y}) \in Nat /\ n \in Nat
    BY <1>1, <1>4, FS_RemoveElement
  <2>2. Cardinality(t \ {y}) \notin Bad
    <3> HIDE DEF Bad
    <3> QED BY <1>3, <2>1
  <2> QED BY <2>1, <2>2
<1>9. /\ AmountSum(e, t \ {x}) = e[j].amount + AmountSum(e, (t \ {x}) \ {j})
      /\ AmountSum(e, t \ {j}) = e[x].amount + AmountSum(e, (t \ {j}) \ {x})
  BY <1>6, <1>7, <1>8
<1>10. (t \ {x}) \ {j} = (t \ {j}) \ {x}
  OBVIOUS
<1>11. e[x].amount \in Int /\ e[j].amount \in Int /\ AmountSum(e, (t \ {j}) \ {x}) \in Int
  BY <1>1, <1>6
<1> HIDE DEF x
<1>12. AmountSum(e, t) = e[j].amount + AmountSum(e, t \ {j})
  <2> DEFINE r == AmountSum(e, (t \ {j}) \ {x})
             a == e[x].amount
             b == e[j].amount
  <2>1. AmountSum(e, t) = a + (b + r) /\ AmountSum(e, t \ {j}) = a + r
    BY <1>6, <1>9, <1>10
  <2>2. a \in Int /\ b \in Int /\ r \in Int
    BY <1>11
  <2> HIDE DEF a, b, r
  <2>3. a + (b + r) = b + (a + r)
    BY <2>2
  <2>4. AmountSum(e, t) = b + AmountSum(e, t \ {j})
    BY <2>1, <2>3
  <2> QED BY <2>4 DEF b
<1> QED BY <1>5, <1>12

Share(e, S, k) == IF k \in S THEN e[k].amount ELSE 0

\* Two ledgers and two sets of their keys that differ in the entry of k and in
\* whether k is among them, and in nothing else.
OneApart(e, f, S, T, k) ==
  /\ IsFiniteSet(S) /\ IsFiniteSet(T)
  /\ \A j : j # k => (j \in S <=> j \in T)
  /\ \A j \in S : e[j].amount \in Int
  /\ \A j \in T : f[j].amount \in Int
  /\ \A j \in S \ {k} : e[j].amount = f[j].amount

SumsOneApart(e, f, S, T, k) ==
  /\ AmountSum(e, S) \in Int /\ AmountSum(f, T) \in Int
  /\ Share(e, S, k) \in Int /\ Share(f, T, k) \in Int
  /\ AmountSum(f, T) = AmountSum(e, S) - Share(e, S, k) + Share(f, T, k)

\* What one changed entry, or one key more or less, does to a sum.
LEMMA SumsDiffer ==
  ASSUME NEW e, NEW f, NEW S, NEW T, NEW k, OneApart(e, f, S, T, k)
  PROVE  SumsOneApart(e, f, S, T, k)
<1> USE DEF OneApart
<1>1. IsFiniteSet(S \ {k}) /\ IsFiniteSet(T \ {k})
  BY FS_Difference, FS_Singleton, FS_Subset
<1>2. AmountSum(e, S \ {k}) = AmountSum(f, T \ {k})
  <2>1. AmountSum(e, S \ {k}) = AmountSum(f, S \ {k})
    BY <1>1, SumOfEqual
  <2>2. S \ {k} = T \ {k}
    OBVIOUS
  <2> QED BY <2>1, <2>2
<1>3. /\ AmountSum(e, S) \in Int /\ AmountSum(f, T) \in Int
      /\ AmountSum(e, S \ {k}) \in Int /\ AmountSum(f, T \ {k}) \in Int
  <2>1. 0 \in Int /\ \A a, b \in Int : a + b \in Int
    OBVIOUS
  <2> QED BY <1>1, <2>1, SumIsIn
<1>4. Share(e, S, k) \in Int /\ Share(f, T, k) \in Int
  BY DEF Share
<1>5. AmountSum(e, S) = Share(e, S, k) + AmountSum(e, S \ {k})
  <2>1. CASE k \in S
    BY <2>1, SumTakesOut DEF Share
  <2>2. CASE k \notin S
    <3>1. S \ {k} = S
      BY <2>2
    <3>2. AmountSum(e, S \ {k}) = AmountSum(e, S)
      BY <3>1, Zenon
    <3>3. Share(e, S, k) = 0
      BY <2>2 DEF Share
    <3> QED BY <1>3, <3>2, <3>3
  <2> QED BY <2>1, <2>2
<1>6. AmountSum(f, T) = Share(f, T, k) + AmountSum(f, T \ {k})
  <2>1. CASE k \in T
    BY <2>1, SumTakesOut DEF Share
  <2>2. CASE k \notin T
    <3>1. T \ {k} = T
      BY <2>2
    <3>2. AmountSum(f, T \ {k}) = AmountSum(f, T)
      BY <3>1, Zenon
    <3>3. Share(f, T, k) = 0
      BY <2>2 DEF Share
    <3> QED BY <1>3, <3>2, <3>3
  <2> QED BY <2>1, <2>2
<1> QED BY <1>2, <1>3, <1>4, <1>5, <1>6 DEF SumsOneApart

-----------------------------------------------------------------------------
\* The books: what the contract owes, what it holds, and what everyone got.

\* An escrow nobody filed holds nothing, so that filing it adds its amount to
\* the sums and nothing else.
UnfiledIsEmpty == \A k \in Keys : escrows[k].status = "None" => escrows[k].amount = 0

\* The inductive invariant. Solvent pays for the next close in full, and only
\* closes paid in full keep Accounted.
Books == TypeOK /\ UnfiledIsEmpty /\ Solvent /\ Accounted

LEMMA KeysAreFinite == IsFiniteSet(Keys) /\ \A S \in SUBSET Keys : IsFiniteSet(S)
<1>1. IsFiniteSet(Keys)
  BY ChainIsFinite, FS_Product DEF Keys
<1> QED BY <1>1, FS_Subset

\* What one call does to the sums of the books: one entry changes, and only its
\* key can enter or leave a set that is summed.
LEMMA BooksMove ==
  ASSUME TypeOK, TypeOK', NEW k \in Keys,
         \A j \in Keys : j # k => escrows'[j] = escrows[j],
         NEW S \in SUBSET Keys, NEW T \in SUBSET Keys,
         \A j \in Keys : j # k => (j \in S <=> j \in T)
  PROVE  SumsOneApart(escrows, escrows', S, T, k)
<1>1. IsFiniteSet(S) /\ IsFiniteSet(T)
  BY KeysAreFinite
<1>2. \A j \in Keys : escrows[j].amount \in Int /\ escrows'[j].amount \in Int
  BY DEF TypeOK, Record
<1>3. OneApart(escrows, escrows', S, T, k)
  BY <1>1, <1>2 DEF OneApart
<1> QED BY <1>3, SumsDiffer

TotalMoves(S, T, k) ==
  /\ AmountSum(escrows, S) \in Int
  /\ AmountSum(escrows', T) = AmountSum(escrows, S) - Share(escrows, S, k)
                                                    + Share(escrows', T, k)

LEMMA TotalsMove ==
  ASSUME TypeOK, TypeOK', NEW k \in Keys,
         \A j \in Keys : j # k => escrows'[j] = escrows[j]
  PROVE  /\ TotalMoves(HasStatus("Locked"), HasStatus("Locked")', k)
         /\ \A a \in Accounts :
              /\ TotalMoves(LockedBy(a), LockedBy(a), k)
              /\ TotalMoves(PaidTo(a), PaidTo(a)', k)
              /\ TotalMoves(ReturnedTo(a), ReturnedTo(a)', k)
<1>1. ASSUME NEW S \in SUBSET Keys, NEW T \in SUBSET Keys,
             \A j \in Keys : j # k => (j \in S <=> j \in T)
      PROVE  TotalMoves(S, T, k)
  BY <1>1, BooksMove DEF SumsOneApart, TotalMoves
<1>2. TotalMoves(HasStatus("Locked"), HasStatus("Locked")', k)
  BY <1>1 DEF HasStatus
<1>3. ASSUME NEW a \in Accounts PROVE TotalMoves(LockedBy(a), LockedBy(a), k)
  BY <1>1 DEF LockedBy
<1>4. ASSUME NEW a \in Accounts PROVE TotalMoves(PaidTo(a), PaidTo(a)', k)
  BY <1>1 DEF PaidTo, HasStatus
<1>5. ASSUME NEW a \in Accounts PROVE TotalMoves(ReturnedTo(a), ReturnedTo(a)', k)
  BY <1>1 DEF ReturnedTo, HasStatus, LockedBy
<1> QED BY <1>2, <1>3, <1>4, <1>5

\* A lock adds what moved to what is owed and to what its creator locked.
LEMMA LockKeepsBooks ==
  ASSUME Books, TypeOK', NEW creator \in Accounts, NEW todoRef \in TodoRefs,
         NEW beneficiary \in Accounts, NEW requested \in Amounts,
         NEW deadline \in Times, Lock(creator, todoRef, beneficiary, requested, deadline)
  PROVE  Books'
<1> DEFINE k == <<creator, todoRef>>
           amount == Transferred(creator, requested)
<1>1. k \in Keys /\ TypeOK
  BY DEF Keys, Books
<1>2. escrows[k].status = "None" /\ escrows[k].amount = 0
  BY <1>1 DEF Lock, CanLock, Books, UnfiledIsEmpty
<1>3. /\ escrows'[k].status = "Locked" /\ escrows'[k].amount = amount
      /\ \A j \in Keys : j # k => escrows'[j] = escrows[j]
  BY <1>1 DEF Lock, LockRecord, TypeOK
<1>4. /\ amount \in Nat /\ balance \in [Holders -> Nat]
      /\ \A a \in Accounts : a \in Holders /\ a # Self
      /\ Self \in Holders
  BY <1>1, AmountsAreNat, SelfIsNoAccount DEF TypeOK, Transferred, Holders
<1>5. /\ balance'[Self] = balance[Self] + amount
      /\ \A a \in Accounts : balance'[a] = balance[a] - (IF a = creator THEN amount ELSE 0)
  <2>1. balance' = Moved(creator, Self, amount)
    BY DEF Lock
  <2> HIDE DEF amount
  <2> QED BY <1>4, <2>1 DEF Moved
<1>6. /\ Share(escrows, HasStatus("Locked"), k) = 0
      /\ Share(escrows', HasStatus("Locked")', k) = amount
  BY <1>1, <1>2, <1>3 DEF Share, HasStatus
<1>7. ASSUME NEW a \in Accounts
      PROVE  /\ Share(escrows, LockedBy(a), k) = 0
             /\ Share(escrows', LockedBy(a), k) = IF a = creator THEN amount ELSE 0
  BY <1>1, <1>2, <1>3 DEF Share, LockedBy
<1>8. ASSUME NEW a \in Accounts
      PROVE  /\ Share(escrows, PaidTo(a), k) = 0
             /\ Share(escrows', PaidTo(a)', k) = 0
             /\ Share(escrows, ReturnedTo(a), k) = 0
             /\ Share(escrows', ReturnedTo(a)', k) = 0
  BY <1>1, <1>2, <1>3 DEF Share, PaidTo, ReturnedTo, HasStatus
<1> HIDE DEF amount, k
<1>9. UnfiledIsEmpty'
  BY <1>3 DEF Books, UnfiledIsEmpty
<1>10. Solvent'
  <2>1. TotalMoves(HasStatus("Locked"), HasStatus("Locked")', k)
    BY <1>1, <1>3, TotalsMove
  <2>2. AmountSum(escrows', HasStatus("Locked")') = AmountSum(escrows, HasStatus("Locked")) + amount
    BY <1>4, <1>6, <2>1 DEF TotalMoves
  <2>3. balance[Self] >= AmountSum(escrows, HasStatus("Locked"))
    BY DEF Books, Solvent, Total
  <2>4. balance'[Self] >= AmountSum(escrows', HasStatus("Locked")')
    BY <1>4, <1>5, <2>1, <2>2, <2>3 DEF TotalMoves
  <2> QED BY <2>4 DEF Solvent, Total
<1>11. Accounted'
  <2> SUFFICES ASSUME NEW a \in Accounts
               PROVE  balance'[a] = outside'[a] - AmountSum(escrows', LockedBy(a))
                                    + AmountSum(escrows', PaidTo(a)')
                                    + AmountSum(escrows', ReturnedTo(a)')
    BY DEF Accounted, Total, LockedBy
  <2>1. /\ TotalMoves(LockedBy(a), LockedBy(a), k)
        /\ TotalMoves(PaidTo(a), PaidTo(a)', k)
        /\ TotalMoves(ReturnedTo(a), ReturnedTo(a)', k)
    BY <1>1, <1>3, TotalsMove
  <2>2. balance[a] = outside[a] - AmountSum(escrows, LockedBy(a))
                     + AmountSum(escrows, PaidTo(a)) + AmountSum(escrows, ReturnedTo(a))
    BY DEF Books, Accounted, Total
  <2>3. outside'[a] = outside[a] /\ outside[a] \in Int /\ balance[a] \in Int
    BY <1>1, <1>4 DEF Lock, TypeOK
  <2> QED BY <1>4, <1>5, <1>7, <1>8, <2>1, <2>2, <2>3 DEF TotalMoves
<1> QED BY <1>9, <1>10, <1>11 DEF Books

\* `_send` pays in full: the amount of an open escrow is part of what is owed,
\* which Solvent says the escrow holds.
LEMMA CloseIsPaidInFull ==
  ASSUME Books, NEW creator \in Accounts, NEW todoRef \in TodoRefs, NEW to \in Accounts,
         LockedEscrow(creator, todoRef), Send(creator, todoRef, to)
  PROVE  LET amount == escrows[<<creator, todoRef>>].amount
         IN  /\ amount \in Nat
             /\ balance'[Self] = balance[Self] - amount
             /\ \A a \in Accounts : balance'[a] = balance[a] + (IF a = to THEN amount ELSE 0)
<1> DEFINE k == <<creator, todoRef>>
           amount == escrows[k].amount
           owed == HasStatus("Locked")
<1>1. k \in Keys /\ k \in owed /\ owed \in SUBSET Keys
  BY DEF Keys, LockedEscrow, HasStatus
<1>2. \A j \in Keys : escrows[j].amount \in Nat
  BY DEF Books, TypeOK, Record
<1>3. IsFiniteSet(owed) /\ IsFiniteSet(owed \ {k})
  BY <1>1, KeysAreFinite
<1>4. AmountSum(escrows, owed) = amount + AmountSum(escrows, owed \ {k})
  <2>1. \A j \in owed : escrows[j].amount \in Int
    BY <1>1, <1>2
  <2> HIDE DEF owed, k
  <2> QED BY <1>1, <1>3, <2>1, SumTakesOut
<1>5. AmountSum(escrows, owed \ {k}) \in Nat
  <2>1. 0 \in Nat /\ \A a, b \in Nat : a + b \in Nat
    OBVIOUS
  <2>2. \A j \in owed \ {k} : escrows[j].amount \in Nat
    BY <1>1, <1>2
  <2> HIDE DEF owed, k
  <2> QED BY <1>3, <2>1, <2>2, SumIsIn
<1>6. balance[Self] >= AmountSum(escrows, owed)
  BY DEF Books, Solvent, Total
<1>7. /\ balance \in [Holders -> Nat] /\ Self \in Holders
      /\ \A a \in Accounts : a \in Holders /\ a # Self
  BY SelfIsNoAccount DEF Books, TypeOK, Holders
<1>8. amount \in Nat
  BY <1>1, <1>2
<1>9. Transferred(Self, amount) = amount
  <2> HIDE DEF amount, owed
  <2> QED BY <1>4, <1>5, <1>6, <1>7, <1>8 DEF Transferred
<1>10. balance' = Moved(Self, to, amount)
  BY <1>9 DEF Send
<1> HIDE DEF amount, owed, k
<1>11. /\ balance'[Self] = balance[Self] - amount
       /\ \A a \in Accounts : balance'[a] = balance[a] + (IF a = to THEN amount ELSE 0)
  BY <1>7, <1>8, <1>10 DEF Moved
<1> QED BY <1>8, <1>11 DEF amount, k

\* A close takes its amount out of what is owed and adds it to what its payee
\* was paid: the beneficiary if it was released, the creator if refunded.
LEMMA CloseKeepsBooks ==
  ASSUME Books, TypeOK', NEW creator \in Accounts, NEW todoRef \in TodoRefs,
         NEW to \in Accounts, NEW status,
         \/ status = "Released" /\ to = escrows[<<creator, todoRef>>].beneficiary
         \/ status = "Refunded" /\ to = creator,
         LockedEscrow(creator, todoRef), Send(creator, todoRef, to),
         escrows' = [escrows EXCEPT ![<<creator, todoRef>>].status = status],
         outside' = outside
  PROVE  Books'
<1> DEFINE k == <<creator, todoRef>>
           amount == escrows[k].amount
<1>1. k \in Keys /\ TypeOK /\ escrows[k] \in Record /\ escrows[k].status = "Locked"
  BY DEF Keys, Books, LockedEscrow, TypeOK
<1>2. /\ amount \in Nat
      /\ balance'[Self] = balance[Self] - amount
      /\ \A a \in Accounts : balance'[a] = balance[a] + (IF a = to THEN amount ELSE 0)
  BY CloseIsPaidInFull
<1>3. /\ escrows'[k] = [escrows[k] EXCEPT !.status = status]
      /\ \A j \in Keys : j # k => escrows'[j] = escrows[j]
  BY <1>1 DEF TypeOK
<1>4. /\ escrows'[k].status = status /\ escrows'[k].amount = amount
      /\ escrows'[k].beneficiary = escrows[k].beneficiary
  BY <1>1, <1>3 DEF Record
<1>5. /\ balance \in [Holders -> Nat]
      /\ \A a \in Accounts : a \in Holders /\ a # Self
      /\ Self \in Holders
  BY <1>1, SelfIsNoAccount DEF TypeOK, Holders
<1>6. /\ Share(escrows, HasStatus("Locked"), k) = amount
      /\ Share(escrows', HasStatus("Locked")', k) = 0
  BY <1>1, <1>4 DEF Share, HasStatus
<1>7. ASSUME NEW a \in Accounts
      PROVE  Share(escrows, LockedBy(a), k) = Share(escrows', LockedBy(a), k)
  BY <1>1, <1>4 DEF Share, LockedBy
<1>8. ASSUME NEW a \in Accounts
      PROVE  /\ Share(escrows, PaidTo(a), k) = 0
             /\ Share(escrows, ReturnedTo(a), k) = 0
             /\ Share(escrows', PaidTo(a)', k) = IF status = "Released" /\ a = to THEN amount ELSE 0
             /\ Share(escrows', ReturnedTo(a)', k) = IF status = "Refunded" /\ a = to THEN amount ELSE 0
  BY <1>1, <1>4 DEF Share, PaidTo, ReturnedTo, HasStatus, LockedBy
<1> HIDE DEF amount, k
<1>9. UnfiledIsEmpty'
  BY <1>3, <1>4 DEF Books, UnfiledIsEmpty
<1>10. Solvent'
  <2>1. TotalMoves(HasStatus("Locked"), HasStatus("Locked")', k)
    BY <1>1, <1>3, TotalsMove
  <2>2. balance[Self] >= AmountSum(escrows, HasStatus("Locked"))
    BY DEF Books, Solvent, Total
  <2>3. balance'[Self] >= AmountSum(escrows', HasStatus("Locked")')
    BY <1>2, <1>5, <1>6, <2>1, <2>2 DEF TotalMoves
  <2> QED BY <2>3 DEF Solvent, Total
<1>11. Accounted'
  <2> SUFFICES ASSUME NEW a \in Accounts
               PROVE  balance'[a] = outside'[a] - AmountSum(escrows', LockedBy(a))
                                    + AmountSum(escrows', PaidTo(a)')
                                    + AmountSum(escrows', ReturnedTo(a)')
    BY DEF Accounted, Total, LockedBy
  <2>1. /\ TotalMoves(LockedBy(a), LockedBy(a), k)
        /\ TotalMoves(PaidTo(a), PaidTo(a)', k)
        /\ TotalMoves(ReturnedTo(a), ReturnedTo(a)', k)
    BY <1>1, <1>3, TotalsMove
  <2>2. balance[a] = outside[a] - AmountSum(escrows, LockedBy(a))
                     + AmountSum(escrows, PaidTo(a)) + AmountSum(escrows, ReturnedTo(a))
    BY DEF Books, Accounted, Total
  <2>3. outside'[a] = outside[a] /\ outside[a] \in Int /\ balance[a] \in Int
    BY <1>1, <1>5 DEF TypeOK
  <2> DEFINE paid == IF a = to THEN amount ELSE 0
  <2>4. paid \in Int
    BY <1>2
  <2>5. \/ Share(escrows', PaidTo(a)', k) = paid /\ Share(escrows', ReturnedTo(a)', k) = 0
        \/ Share(escrows', PaidTo(a)', k) = 0 /\ Share(escrows', ReturnedTo(a)', k) = paid
    <3>1. CASE status = "Released"
      BY <1>8, <3>1
    <3>2. CASE status = "Refunded"
      BY <1>8, <3>2
    <3> QED BY <3>1, <3>2
  <2>6. balance'[a] = balance[a] + paid
    BY <1>2
  <2>7. Share(escrows, LockedBy(a), k) \in Int
    BY <1>2 DEF Share, amount
  <2>8. /\ AmountSum(escrows', LockedBy(a)) = AmountSum(escrows, LockedBy(a))
        /\ AmountSum(escrows, LockedBy(a)) \in Int
    <3>1. Share(escrows', LockedBy(a), k) = Share(escrows, LockedBy(a), k)
      BY <1>7
    <3>2. /\ AmountSum(escrows, LockedBy(a)) \in Int
          /\ AmountSum(escrows', LockedBy(a)) = AmountSum(escrows, LockedBy(a))
               - Share(escrows, LockedBy(a), k) + Share(escrows, LockedBy(a), k)
      BY <2>1, <3>1 DEF TotalMoves
    <3> QED BY <2>7, <3>2
  <2> HIDE DEF paid
  <2>9. /\ AmountSum(escrows', PaidTo(a)') + AmountSum(escrows', ReturnedTo(a)')
             = AmountSum(escrows, PaidTo(a)) + AmountSum(escrows, ReturnedTo(a)) + paid
        /\ AmountSum(escrows', PaidTo(a)') \in Int /\ AmountSum(escrows, PaidTo(a)) \in Int
        /\ AmountSum(escrows', ReturnedTo(a)') \in Int /\ AmountSum(escrows, ReturnedTo(a)) \in Int
    <3>1. Share(escrows, PaidTo(a), k) = 0 /\ Share(escrows, ReturnedTo(a), k) = 0
      BY <1>8
    <3>2. /\ AmountSum(escrows, PaidTo(a)) \in Int
          /\ AmountSum(escrows', PaidTo(a)') = AmountSum(escrows, PaidTo(a)) - 0
                                                + Share(escrows', PaidTo(a)', k)
      BY <2>1, <3>1 DEF TotalMoves
    <3>3. /\ AmountSum(escrows, ReturnedTo(a)) \in Int
          /\ AmountSum(escrows', ReturnedTo(a)') = AmountSum(escrows, ReturnedTo(a)) - 0
                                                + Share(escrows', ReturnedTo(a)', k)
      BY <2>1, <3>1 DEF TotalMoves
    <3> QED BY <2>4, <2>5, <3>2, <3>3
  <2> QED BY <2>2, <2>3, <2>4, <2>6, <2>8, <2>9
<1> QED BY <1>9, <1>10, <1>11 DEF Books

\* Tokens that move without the contract change a balance and its history
\* alike, and never take from the escrow's own.
LEMMA TokenKeepsBooks == Books /\ TypeOK' /\ TokenNext => Books'
<1> SUFFICES ASSUME Books, TypeOK', TokenNext PROVE Books'
  OBVIOUS
<1>1. /\ balance \in [Holders -> Nat] /\ outside \in [Holders -> Int]
      /\ Self \in Holders
      /\ \A a \in Accounts : a \in Holders /\ a # Self
  BY SelfIsNoAccount DEF Books, TypeOK, Holders
<1>2. UNCHANGED escrows
  BY DEF TokenNext, Mint, Transfer, SetOperator
<1>3. /\ balance'[Self] \in Int /\ balance[Self] \in Int /\ balance'[Self] >= balance[Self]
      /\ \A a \in Accounts : /\ balance'[a] \in Int /\ balance[a] \in Int
                             /\ outside'[a] \in Int /\ outside[a] \in Int
                             /\ balance'[a] - outside'[a] = balance[a] - outside[a]
  <2>1. ASSUME NEW a \in Accounts, NEW amount \in Amounts, Mint(a, amount) PROVE <1>3
    <3>1. amount \in Nat /\ a \in Holders
      BY <1>1, AmountsAreNat
    <3> QED BY <1>1, <2>1, <3>1 DEF Mint
  <2>2. ASSUME NEW from \in Accounts, NEW to \in Holders, NEW requested \in Amounts,
               Transfer(from, to, requested)
        PROVE <1>3
    <3> DEFINE amount == Transferred(from, requested)
    <3>1. amount \in Nat
      BY <1>1, AmountsAreNat DEF Transferred
    <3>2. /\ from # to /\ from \in Holders /\ from # Self
          /\ balance' = Moved(from, to, amount)
          /\ outside' = [outside EXCEPT ![from] = @ - amount, ![to] = @ + amount]
      BY <1>1, <2>2 DEF Transfer
    <3> HIDE DEF amount
    <3>3. \A h \in Holders : balance'[h] = balance[h] - (IF h = from THEN amount ELSE 0)
                                                      + (IF h = to THEN amount ELSE 0)
      BY <3>2 DEF Moved
    <3>4. \A h \in Holders : outside'[h] = outside[h] - (IF h = from THEN amount ELSE 0)
                                                      + (IF h = to THEN amount ELSE 0)
      BY <1>1, <3>1, <3>2
    <3>5. balance'[Self] \in Int /\ balance[Self] \in Int /\ balance'[Self] >= balance[Self]
      BY <1>1, <3>1, <3>2, <3>3
    <3>6. ASSUME NEW a \in Accounts
          PROVE  /\ balance'[a] \in Int /\ balance[a] \in Int
                 /\ outside'[a] \in Int /\ outside[a] \in Int
                 /\ balance'[a] - outside'[a] = balance[a] - outside[a]
      BY <1>1, <3>1, <3>3, <3>4
    <3> QED BY <3>5, <3>6
  <2>3. ASSUME NEW a \in Accounts, SetOperator(a) PROVE <1>3
    BY <1>1, <2>3 DEF SetOperator
  <2> QED BY <2>1, <2>2, <2>3 DEF TokenNext
<1>4. UnfiledIsEmpty'
  BY <1>2 DEF Books, UnfiledIsEmpty
<1>5. /\ HasStatus("Locked")' = HasStatus("Locked")
      /\ \A a \in Accounts : /\ PaidTo(a)' = PaidTo(a)
                             /\ ReturnedTo(a)' = ReturnedTo(a)
  BY <1>2 DEF HasStatus, PaidTo, ReturnedTo
<1>6. \A S \in SUBSET Keys : AmountSum(escrows, S) \in Int
  <2>1. 0 \in Int /\ \A a, b \in Int : a + b \in Int
    OBVIOUS
  <2>2. \A k \in Keys : escrows[k].amount \in Int
    BY DEF Books, TypeOK, Record
  <2> QED BY <2>1, <2>2, KeysAreFinite, SumIsIn
<1>7. Solvent'
  <2>1. AmountSum(escrows, HasStatus("Locked")) \in Int
    BY <1>6 DEF HasStatus
  <2>2. balance[Self] >= AmountSum(escrows, HasStatus("Locked"))
    BY DEF Books, Solvent, Total
  <2>3. balance'[Self] >= AmountSum(escrows, HasStatus("Locked"))
    BY <1>3, <2>1, <2>2
  <2> QED BY <1>2, <1>5, <2>3 DEF Solvent, Total
<1>8. Accounted'
  <2> SUFFICES ASSUME NEW a \in Accounts
               PROVE  balance'[a] = outside'[a] - AmountSum(escrows, LockedBy(a))
                                    + AmountSum(escrows, PaidTo(a))
                                    + AmountSum(escrows, ReturnedTo(a))
    BY <1>2, <1>5 DEF Accounted, Total, LockedBy
  <2>1. /\ AmountSum(escrows, LockedBy(a)) \in Int
        /\ AmountSum(escrows, PaidTo(a)) \in Int
        /\ AmountSum(escrows, ReturnedTo(a)) \in Int
    BY <1>6 DEF LockedBy, PaidTo, ReturnedTo, HasStatus
  <2>2. balance[a] = outside[a] - AmountSum(escrows, LockedBy(a))
                     + AmountSum(escrows, PaidTo(a)) + AmountSum(escrows, ReturnedTo(a))
    BY DEF Books, Accounted, Total
  <2> QED BY <1>3, <2>1, <2>2
<1> QED BY <1>4, <1>7, <1>8 DEF Books

LEMMA InitBooks == Init => Books
<1> SUFFICES ASSUME Init PROVE Books
  OBVIOUS
<1>1. TypeOK
  BY InitTypeOK
<1>2. \A k \in Keys : escrows[k].amount = 0
  BY DEF Init, Unset
<1>3. \A S \in SUBSET Keys : AmountSum(escrows, S) = 0
  <2>1. 0 \in {0} /\ \A a, b \in {0} : a + b \in {0}
    OBVIOUS
  <2>2. \A S \in SUBSET Keys : \A k \in S : escrows[k].amount \in {0}
    BY <1>2
  <2>3. \A S \in SUBSET Keys : AmountSum(escrows, S) \in {0}
    BY <2>1, <2>2, KeysAreFinite, SumIsIn
  <2> QED BY <2>3
<1>4. Solvent
  <2>1. AmountSum(escrows, HasStatus("Locked")) = 0
    BY <1>3 DEF HasStatus
  <2> QED BY <2>1 DEF Solvent, Total, Init, Holders
<1>5. Accounted
  <2> SUFFICES ASSUME NEW a \in Accounts
               PROVE  balance[a] = outside[a] - AmountSum(escrows, LockedBy(a))
                                   + AmountSum(escrows, PaidTo(a))
                                   + AmountSum(escrows, ReturnedTo(a))
    BY DEF Accounted, Total
  <2>1. /\ AmountSum(escrows, LockedBy(a)) = 0
        /\ AmountSum(escrows, PaidTo(a)) = 0
        /\ AmountSum(escrows, ReturnedTo(a)) = 0
    BY <1>3 DEF LockedBy, PaidTo, ReturnedTo, HasStatus
  <2> QED BY <2>1 DEF Init, Holders
<1> QED BY <1>1, <1>2, <1>4, <1>5 DEF Books, UnfiledIsEmpty

LEMMA NextBooks == Books /\ [Next]_chainVars => Books'
<1> SUFFICES ASSUME Books, [Next]_chainVars PROVE Books'
  OBVIOUS
<1>1. TypeOK'
  BY NextTypeOK DEF Books
<1>2. CASE TokenNext
  BY <1>1, <1>2, TokenKeepsBooks
<1>3. CASE NextBlock \/ UNCHANGED chainVars
  <2>1. UNCHANGED <<escrows, balance, outside>>
    BY <1>3 DEF NextBlock, chainVars
  <2> QED BY <1>1, <2>1 DEF Books, UnfiledIsEmpty, Solvent, Accounted, Total,
                            HasStatus, LockedBy, PaidTo, ReturnedTo
<1>4. ASSUME NEW creator \in Accounts, NEW todoRef \in TodoRefs, Release(creator, todoRef)
      PROVE  Books'
  <2>1. escrows[<<creator, todoRef>>].beneficiary \in Accounts
    BY DEF Books, TypeOK, Keys, Record
  <2> QED BY <1>1, <1>4, <2>1, CloseKeepsBooks DEF Release
<1>5. ASSUME NEW creator \in Accounts, NEW todoRef \in TodoRefs, Refund(creator, todoRef)
      PROVE  Books'
  BY <1>1, <1>5, CloseKeepsBooks DEF Refund
<1> QED BY <1>1, <1>2, <1>3, <1>4, <1>5, LockKeepsBooks DEF Next, EscrowNext

LEMMA BooksHold == Spec => []Books
<1> QED BY InitBooks, NextBooks, PTL DEF Spec

\* The escrow can always pay what it owes, whoever else pays into its address
\* and in whatever order locks, releases and refunds come: the assumption
\* `_send` makes is one the contract keeps.
THEOREM AlwaysSolvent == Spec => []Solvent
<1>1. Books => Solvent
  BY DEF Books
<1> QED BY <1>1, BooksHold, PTL

\* No unit is paid twice, to the wrong party or never: every balance is what
\* the account got elsewhere, less its locks, plus its releases and refunds.
THEOREM EveryUnitIsAccountedFor == Spec => []Accounted
<1>1. Books => Accounted
  BY DEF Books
<1> QED BY <1>1, BooksHold, PTL

-----------------------------------------------------------------------------
\* The contract implements EscrowPromise. Solvent carries the closing steps:
\* a pot empties in full because the escrow holds what it owes.

Pots == [k \in Keys |-> [status |-> escrows[k].status, amount |-> escrows[k].amount]]
Got == [a \in Accounts |-> balance[a] - outside[a]]

\* A lock fills a pot with what arrived, which is what was asked for or 0.
LEMMA LockIsFill ==
  ASSUME TypeOK, NEW creator \in Accounts, NEW todoRef \in TodoRefs,
         NEW beneficiary \in Accounts, NEW requested \in Amounts,
         NEW deadline \in Times, Lock(creator, todoRef, beneficiary, requested, deadline)
  PROVE  Promise!PromiseNext
<1> DEFINE k == <<creator, todoRef>>
<1>1. k \in Keys
  BY DEF Keys
<1>2. PICK amount \in Amounts \cup {0} : amount = Transferred(creator, requested)
  BY DEF Transferred
<1> amount \in Nat
  BY AmountsAreNat
<1>3. Pots[k].status = "None"
  BY <1>1 DEF Lock, CanLock, Pots
<1>4. Pots' = [Pots EXCEPT ![k] = [status |-> "Locked", amount |-> amount]]
  <2>1. escrows' = [escrows EXCEPT ![k] = LockRecord(creator, beneficiary, requested, deadline)]
    BY DEF Lock
  <2> HIDE DEF k
  <2> QED BY <1>1, <1>2, <2>1 DEF Pots, LockRecord, TypeOK
<1>5. /\ balance \in [Holders -> Nat] /\ outside \in [Holders -> Int] /\ outside' = outside
      /\ Self \in Holders /\ \A a \in Accounts : a \in Holders /\ a # Self
  BY SelfIsNoAccount DEF TypeOK, Lock, Holders
<1>6. balance' = Moved(creator, Self, amount)
  BY <1>2 DEF Lock
<1> HIDE DEF k
<1>7. balance'[Self] - outside'[Self] = balance[Self] - outside[Self] + amount
  BY <1>2, <1>5, <1>6 DEF Moved
<1>8. Got' = [Got EXCEPT ![creator] = @ - amount]
  <2>1. \A a \in Accounts : balance'[a] = balance[a] - (IF a = creator THEN amount ELSE 0)
    BY <1>2, <1>5, <1>6 DEF Moved
  <2>2. \A a \in Accounts : balance'[a] - outside'[a]
          = IF a = creator THEN balance[a] - outside[a] - amount ELSE balance[a] - outside[a]
    BY <1>2, <1>5, <2>1
  <2>3. Got' = [a \in Accounts |-> IF a = creator THEN balance[a] - outside[a] - amount
                                                 ELSE balance[a] - outside[a]]
    BY <2>2 DEF Got
  <2> QED BY <2>3 DEF Got
<1>9. Promise!Fill(k, creator, amount)
  BY <1>3, <1>4, <1>7, <1>8 DEF Promise!Fill, Pots, Got
<1> QED BY <1>1, <1>9 DEF Promise!PromiseNext

\* A release or a refund empties a pot, in full, to its one payee.
LEMMA CloseIsEmpty ==
  ASSUME Books, NEW creator \in Accounts, NEW todoRef \in TodoRefs,
         NEW to \in Accounts, NEW status \in {"Released", "Refunded"},
         LockedEscrow(creator, todoRef), Send(creator, todoRef, to),
         escrows' = [escrows EXCEPT ![<<creator, todoRef>>].status = status],
         outside' = outside
  PROVE  Promise!PromiseNext
<1> DEFINE k == <<creator, todoRef>>
           amount == escrows[k].amount
<1>1. k \in Keys
  BY DEF Keys
<1>2. /\ amount \in Nat
      /\ balance'[Self] = balance[Self] - amount
      /\ \A a \in Accounts : balance'[a] = balance[a] + (IF a = to THEN amount ELSE 0)
  BY CloseIsPaidInFull
<1>3. Pots[k].status = "Locked" /\ Pots[k].amount = amount
  BY <1>1 DEF LockedEscrow, Pots
<1>4. Pots' = [Pots EXCEPT ![k].status = status]
  <2>1. escrows' = [escrows EXCEPT ![k].status = status] /\ escrows \in [Keys -> Record]
    BY DEF Books, TypeOK
  <2> HIDE DEF k
  <2>2. \A j \in Keys :
          [status |-> escrows'[j].status, amount |-> escrows'[j].amount]
            = [status |-> IF j = k THEN status ELSE escrows[j].status,
               amount |-> escrows[j].amount]
    <3> SUFFICES ASSUME NEW j \in Keys
                 PROVE  /\ escrows'[j].status = IF j = k THEN status ELSE escrows[j].status
                        /\ escrows'[j].amount = escrows[j].amount
      OBVIOUS
    <3>1. escrows[j] \in Record /\ escrows'[j] =
            IF j = k THEN [escrows[j] EXCEPT !.status = status] ELSE escrows[j]
      BY <1>1, <2>1
    <3> QED BY <3>1 DEF Record
  <2>3. Pots' = [j \in Keys |-> [status |-> IF j = k THEN status ELSE escrows[j].status,
                                 amount |-> escrows[j].amount]]
    BY <2>2 DEF Pots
  <2> QED BY <1>1, <2>3 DEF Pots
<1>5. /\ balance \in [Holders -> Nat] /\ outside \in [Holders -> Int]
      /\ Self \in Holders /\ \A a \in Accounts : a \in Holders /\ a # Self
  BY SelfIsNoAccount DEF Books, TypeOK, Holders
<1> HIDE DEF amount, k
<1>6. balance'[Self] - outside'[Self] = balance[Self] - outside[Self] - Pots[k].amount
  BY <1>2, <1>3, <1>5
<1>7. Got' = [Got EXCEPT ![to] = @ + Pots[k].amount]
  <2>1. \A a \in Accounts : balance'[a] - outside'[a]
          = IF a = to THEN balance[a] - outside[a] + amount ELSE balance[a] - outside[a]
    BY <1>2, <1>5
  <2>2. Got' = [a \in Accounts |-> IF a = to THEN balance[a] - outside[a] + amount
                                            ELSE balance[a] - outside[a]]
    BY <2>1 DEF Got
  <2> QED BY <1>3, <2>2 DEF Got
<1>8. Promise!Empty(k, to, status)
  BY <1>3, <1>4, <1>6, <1>7 DEF Promise!Empty, Pots, Got
<1> QED BY <1>1, <1>8 DEF Promise!PromiseNext, Promise!Closed

\* Every other step is one the promise does not see.
LEMMA TokenStutters ==
  ASSUME TypeOK, TokenNext \/ NextBlock \/ UNCHANGED chainVars
  PROVE  UNCHANGED Promise!promiseVars
<1>1. /\ balance \in [Holders -> Nat] /\ outside \in [Holders -> Int]
      /\ \A a \in Accounts : a \in Holders
      /\ Self \in Holders
  BY DEF TypeOK, Holders
<1>2. UNCHANGED escrows
  BY DEF TokenNext, Mint, Transfer, SetOperator, NextBlock, chainVars
<1>3. \A h \in Holders : balance'[h] - outside'[h] = balance[h] - outside[h]
  <2>1. ASSUME NEW a \in Accounts, NEW amount \in Amounts, Mint(a, amount) PROVE <1>3
    <3>1. amount \in Nat /\ a \in Holders
      BY <1>1, AmountsAreNat
    <3> QED BY <1>1, <2>1, <3>1 DEF Mint
  <2>2. ASSUME NEW from \in Accounts, NEW to \in Holders, NEW requested \in Amounts,
               Transfer(from, to, requested)
        PROVE  <1>3
    <3> DEFINE amount == Transferred(from, requested)
    <3>1. amount \in Nat
      BY <1>1, AmountsAreNat DEF Transferred
    <3>2. /\ from # to /\ from \in Holders
          /\ balance' = Moved(from, to, amount)
          /\ outside' = [outside EXCEPT ![from] = @ - amount, ![to] = @ + amount]
      BY <1>1, <2>2 DEF Transfer
    <3> HIDE DEF amount
    <3>3. \A h \in Holders : balance'[h] = balance[h] - (IF h = from THEN amount ELSE 0)
                                                      + (IF h = to THEN amount ELSE 0)
      BY <3>2 DEF Moved
    <3>4. \A h \in Holders : outside'[h] = outside[h] - (IF h = from THEN amount ELSE 0)
                                                      + (IF h = to THEN amount ELSE 0)
      BY <1>1, <3>1, <3>2
    <3> QED BY <1>1, <3>1, <3>3, <3>4
  <2>3. CASE UNCHANGED <<balance, outside>>
    BY <2>3
  <2> QED BY <2>1, <2>2, <2>3 DEF TokenNext, SetOperator, NextBlock, chainVars
<1>4. Pots' = Pots /\ Got' = Got /\ balance'[Self] - outside'[Self] = balance[Self] - outside[Self]
  BY <1>1, <1>2, <1>3 DEF Pots, Got
<1> QED BY <1>4 DEF Promise!promiseVars, Pots, Got

\* The contract, clock, deadlines, token and all, keeps EscrowPromise: each pot
\* is filled once and emptied once, in full.
THEOREM KeepsPromise == Spec => ImplementsPromise
<1>1. Init => Promise!PromiseInit
  <2> SUFFICES ASSUME Init PROVE Promise!PromiseInit
    OBVIOUS
  <2>1. Pots = [k \in Keys |-> Promise!NoPot]
    BY DEF Init, Unset, Pots, Promise!NoPot
  <2>2. balance[Self] - outside[Self] = 0 /\ Got = [a \in Accounts |-> 0]
    BY DEF Init, Holders, Got
  <2> QED BY <2>1, <2>2 DEF Promise!PromiseInit, Pots, Got
<1>2. Books /\ [Next]_chainVars => [Promise!PromiseNext]_(Promise!promiseVars)
  <2> SUFFICES ASSUME Books, [Next]_chainVars
               PROVE  [Promise!PromiseNext]_(Promise!promiseVars)
    OBVIOUS
  <2>1. TypeOK
    BY DEF Books
  <2>2. CASE TokenNext \/ NextBlock \/ UNCHANGED chainVars
    BY <2>1, <2>2, TokenStutters
  <2>3. ASSUME NEW creator \in Accounts, NEW todoRef \in TodoRefs, Release(creator, todoRef)
        PROVE  Promise!PromiseNext
    <3>1. escrows[<<creator, todoRef>>].beneficiary \in Accounts
      BY <2>1 DEF TypeOK, Keys, Record
    <3> QED BY <2>3, <3>1, CloseIsEmpty DEF Release
  <2>4. ASSUME NEW creator \in Accounts, NEW todoRef \in TodoRefs, Refund(creator, todoRef)
        PROVE  Promise!PromiseNext
    BY <2>4, CloseIsEmpty DEF Refund
  <2> QED BY <2>1, <2>2, <2>3, <2>4, LockIsFill DEF Next, EscrowNext
<1> QED BY <1>1, <1>2, BooksHold, PTL DEF Spec, ImplementsPromise, Promise!PromiseSpec
=============================================================================
