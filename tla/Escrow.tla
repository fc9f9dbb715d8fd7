-------------------------------- MODULE Escrow --------------------------------
(***************************************************************************)
(* ConfidentialTodoEscrow.sol and the part of an ERC-7984 token it relies  *)
(* on. A call either does everything its action says or reverts, which is  *)
(* the action not being taken.                                             *)
(*                                                                         *)
(* An amount is a number here; on chain it is an encrypted handle nobody   *)
(* can compare, which is why a lock from too small a balance succeeds and  *)
(* moves 0.                                                                *)
(***************************************************************************)
EXTENDS Integers, FiniteSets, FiniteSetsExt

CONSTANTS
  Accounts,         \* addresses that can call or be paid
  Self,             \* the escrow's own address
  Auditor,
  TodoRefs,         \* the nonzero references
  Amounts,          \* what a caller can encrypt
  MaxLockDuration,  \* MAX_LOCK_DURATION, in ticks of the clock
  OperatorTtl,      \* how long the app lets the escrow pull (OPERATOR_TTL_SECONDS)
  MaxTime,          \* bound: the last tick
  MaxMinted         \* bound: the token's total supply

ASSUME SelfIsNoAccount == Self \notin Accounts
ASSUME AuditorIsAccount == Auditor \in Accounts
\* An address is 20 bytes and a reference 32.
ASSUME ChainIsFinite == IsFiniteSet(Accounts) /\ IsFiniteSet(TodoRefs)
ASSUME AmountsAreNat == Amounts \subseteq Nat
ASSUME BoundsAreNat ==
  /\ MaxLockDuration \in Nat
  /\ OperatorTtl \in Nat
  /\ MaxTime \in Nat \ {0}
  /\ MaxMinted \in Nat

VARIABLES
  escrows,       \* _escrows, by creator and todoRef
  readers,       \* the FHE ACL of each stored amount
  now,           \* block.timestamp
  balance,       \* the token's balances
  operatorUntil, \* until when the escrow may pull from each account
  outside        \* history: what each balance got other than through the escrow

chainVars == <<escrows, readers, now, balance, operatorUntil, outside>>

Keys == Accounts \X TodoRefs
Holders == Accounts \cup {Self}
Times == 0 .. (MaxTime + MaxLockDuration)  \* block times and deadlines

EscrowStatus == {"None", "Locked", "Released", "Refunded"}

Record == [beneficiary : Accounts, deadline : Times, status : EscrowStatus,
           amount : Nat]

\* An unset mapping entry: every field zero. The auditor stands for address(0).
Unset == [beneficiary |-> Auditor, deadline |-> 0, status |-> "None", amount |-> 0]

TypeOK ==
  /\ escrows \in [Keys -> Record]
  /\ readers \in [Keys -> SUBSET Holders]
  /\ now \in Times
  /\ balance \in [Holders -> Nat]
  /\ operatorUntil \in [Accounts -> Nat]
  /\ outside \in [Holders -> Int]

Init ==
  /\ escrows = [k \in Keys |-> Unset]
  /\ readers = [k \in Keys |-> {}]
  /\ now = 1
  /\ balance = [h \in Holders |-> 0]
  /\ operatorUntil = [a \in Accounts |-> 0]
  /\ outside = [h \in Holders |-> 0]

-------------------------------------------------------------------------------
\* The token

\* What a confidential transfer moves: all that was asked, or 0.
Transferred(from, requested) ==
  IF requested <= balance[from] THEN requested ELSE 0

Moved(from, to, amount) ==
  [h \in Holders |-> balance[h] - (IF h = from THEN amount ELSE 0)
                                + (IF h = to THEN amount ELSE 0)]

\* The funding call the app puts before an account's first lock.
Mint(a, amount) ==
  /\ MapThenSumSet(LAMBDA h : balance[h], Holders) + amount <= MaxMinted
  /\ balance' = [balance EXCEPT ![a] = @ + amount]
  /\ outside' = [outside EXCEPT ![a] = @ + amount]
  /\ UNCHANGED <<escrows, readers, now, operatorUntil>>

\* A payment between holders that is none of the escrow's business; nothing
\* stops one that goes straight to the escrow's address.
Transfer(from, to, requested) ==
  LET amount == Transferred(from, requested)
  IN /\ from # to
     /\ balance' = Moved(from, to, amount)
     /\ outside' = [outside EXCEPT ![from] = @ - amount, ![to] = @ + amount]
     /\ UNCHANGED <<escrows, readers, now, operatorUntil>>

SetOperator(a) ==
  /\ operatorUntil' = [operatorUntil EXCEPT ![a] = now + OperatorTtl]
  /\ UNCHANGED <<escrows, readers, now, balance, outside>>

NextBlock ==
  /\ now < MaxTime
  /\ now' = now + 1
  /\ UNCHANGED <<escrows, readers, balance, operatorUntil, outside>>

-------------------------------------------------------------------------------
\* The escrow

ValidDeadline(deadline) ==
  /\ deadline > now
  /\ deadline <= now + MaxLockDuration

\* Mutant: refuses a missing escrow but not a closed one.
ExistingEscrow(creator, todoRef) == escrows[<<creator, todoRef>>].status # "None"

LockedEscrow(creator, todoRef) == escrows[<<creator, todoRef>>].status = "Locked"

\* Mutant: files the amount asked for.
LockRecordAsRequested(creator, beneficiary, requested, deadline) ==
  [beneficiary |-> beneficiary, deadline |-> deadline, status |-> "Locked",
   amount |-> requested]

\* What the escrow files for a lock: the amount that moved, not the one asked.
LockRecord(creator, beneficiary, requested, deadline) ==
  [beneficiary |-> beneficiary, deadline |-> deadline, status |-> "Locked",
   amount |-> Transferred(creator, requested)]

\* Mutant: refuses a reference that is locked, but not one that was used.
CanLockAgain(creator, todoRef, deadline) ==
  /\ ValidDeadline(deadline)
  /\ ~ LockedEscrow(creator, todoRef)
  /\ now <= operatorUntil[creator]

CanLock(creator, todoRef, deadline) ==
  /\ ValidDeadline(deadline)
  /\ escrows[<<creator, todoRef>>].status = "None"
  /\ now <= operatorUntil[creator]

Lock(creator, todoRef, beneficiary, requested, deadline) ==
  /\ CanLock(creator, todoRef, deadline)
  /\ escrows' = [escrows EXCEPT ![<<creator, todoRef>>] =
                   LockRecord(creator, beneficiary, requested, deadline)]
  /\ balance' = Moved(creator, Self, Transferred(creator, requested))
  /\ readers' = [readers EXCEPT ![<<creator, todoRef>>] =
                   {Self, creator, beneficiary, Auditor}]
  /\ UNCHANGED <<now, operatorUntil, outside>>

\* _send: the whole stored amount leaves the escrow's own balance.
Send(creator, todoRef, to) ==
  balance' = Moved(Self, to, Transferred(Self, escrows[<<creator, todoRef>>].amount))

\* Mutant: pays and leaves the escrow open.
ReleaseKeepsOpen(creator, todoRef) ==
  /\ LockedEscrow(creator, todoRef)
  /\ Send(creator, todoRef, escrows[<<creator, todoRef>>].beneficiary)
  /\ UNCHANGED <<escrows, readers, now, operatorUntil, outside>>

Release(creator, todoRef) ==
  /\ LockedEscrow(creator, todoRef)
  /\ escrows' = [escrows EXCEPT ![<<creator, todoRef>>].status = "Released"]
  /\ Send(creator, todoRef, escrows[<<creator, todoRef>>].beneficiary)
  /\ UNCHANGED <<readers, now, operatorUntil, outside>>

DeadlinePassed(creator, todoRef) == now > escrows[<<creator, todoRef>>].deadline

Refund(creator, todoRef) ==
  /\ LockedEscrow(creator, todoRef)
  /\ DeadlinePassed(creator, todoRef)
  /\ escrows' = [escrows EXCEPT ![<<creator, todoRef>>].status = "Refunded"]
  /\ Send(creator, todoRef, creator)
  /\ UNCHANGED <<readers, now, operatorUntil, outside>>

-------------------------------------------------------------------------------
TokenNext ==
  \/ \E a \in Accounts, amount \in Amounts : Mint(a, amount)
  \/ \E from \in Accounts, to \in Holders, amount \in Amounts :
       Transfer(from, to, amount)
  \/ \E a \in Accounts : SetOperator(a)

EscrowNext ==
  \E creator \in Accounts, todoRef \in TodoRefs :
    \/ \E beneficiary \in Accounts, requested \in Amounts, deadline \in Times :
         Lock(creator, todoRef, beneficiary, requested, deadline)
    \/ Release(creator, todoRef)
    \/ Refund(creator, todoRef)

Next == TokenNext \/ NextBlock \/ EscrowNext

Spec == Init /\ [][Next]_chainVars

-------------------------------------------------------------------------------
\* Properties

AmountSum(e, S) == MapThenSumSet(LAMBDA k : e[k].amount, S)
Total(S) == AmountSum(escrows, S)

HasStatus(status) == {k \in Keys : escrows[k].status = status}
LockedBy(a) == {k \in Keys : k[1] = a}  \* whatever became of it since
PaidTo(a) == {k \in HasStatus("Released") : escrows[k].beneficiary = a}
ReturnedTo(a) == HasStatus("Refunded") \cap LockedBy(a)

\* Whatever else reaches its balance, the escrow holds at least what it owes:
\* `_send` relies on it ("The escrow holds at least what was locked, so the
\* transfer moves all of it"), because a transfer from too small a balance
\* would move 0 and still close the escrow.
Solvent == balance[Self] >= Total(HasStatus("Locked"))

\* Every unit is accounted for: an account holds what it got elsewhere, less
\* what it locked, plus what releases paid it and refunds gave back. An amount
\* paid twice, to the wrong party, or never, would show here.
Accounted ==
  \A a \in Accounts :
    balance[a] = outside[a] - Total(LockedBy(a)) + Total(PaidTo(a))
                            + Total(ReturnedTo(a))

\* Once filed, an escrow's terms and its readers never change, and it closes
\* at most once: a todoRef is never opened a second time, whatever its amount
\* and however it ended. The app's retry with a fresh todoRef depends on it.
TermsFixed ==
  [][\A k \in Keys :
       escrows[k].status # "None" =>
         /\ escrows'[k].beneficiary = escrows[k].beneficiary
         /\ escrows'[k].deadline = escrows[k].deadline
         /\ escrows'[k].amount = escrows[k].amount
         /\ readers'[k] = readers[k]
         /\ \/ escrows'[k].status = escrows[k].status
            \/ escrows[k].status = "Locked"]_chainVars

\* The contract, with its clock, deadlines and token, does what EscrowPromise
\* promises the app: each pot is filled once and emptied once, in full, and
\* what the escrow holds and each party has got out moves with it.
Promise == INSTANCE EscrowPromise WITH
  Parties <- Accounts,
  Arrivals <- Amounts \cup {0},
  pots <- [k \in Keys |-> [status |-> escrows[k].status,
                           amount |-> escrows[k].amount]],
  vault <- balance[Self] - outside[Self],
  received <- [a \in Accounts |-> balance[a] - outside[a]]

ImplementsPromise == Promise!PromiseSpec
===============================================================================
