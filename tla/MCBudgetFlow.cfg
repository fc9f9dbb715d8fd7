CONSTANTS
  l1 = l1
  l2 = l2
  l3 = l3
  x1 = x1
  x2 = x2
  Locks = {l1, l2, l3}
  Releases = {x1, x2}
  NoRef = NoRef
SPECIFICATION MCSpec
INVARIANTS
  FundedWasPaidIn ReleasedWasPaid PaidAtMostOnce
  WrittenBeforeSent StuckOnlyIfDisturbed 
  OneLockAtATime
PROPERTY StatusSettles
CHECK_DEADLOCK FALSE
