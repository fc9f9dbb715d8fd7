CONSTANTS
  alice = alice
  bob = bob
  carol = carol
  c1 = c1
  c2 = c2
  Calls = {c1, c2}
  Owner = alice
  Delegates = {bob, carol}
  Fast = {carol}
  Ahead = 2
  Expiries = {3, 9}
  MaxTime = 4
SPECIFICATION Spec
SYMMETRY Alike
INVARIANTS CountsUnderItsGrant
PROPERTIES OwnerCanReopen UndoneStaysUndone BudgetKeepsCompletion
CHECK_DEADLOCK FALSE
