CONSTANTS
  owner = owner
  delegate = delegate
  ref1 = ref1
  Accounts = {owner, delegate}
  Self = escrow
  Auditor = delegate
  TodoRefs = {ref1}
  Amounts = {1, 2}
  MaxLockDuration = 1
  OperatorTtl = 1
  MaxTime = 3
  MaxMinted = 3
SPECIFICATION Spec
INVARIANTS Solvent Accounted
PROPERTIES TermsFixed ImplementsPromise
CHECK_DEADLOCK FALSE
