CONSTANTS
  l1 = l1
  l2 = l2
  l3 = l3
  x1 = x1
  x2 = x2
  Locks = {l1, l2, l3}
  Releases = {x1}
  NoRef = NoRef
SPECIFICATION Spec
PROPERTY FailureNamesMinedLock
CHECK_DEADLOCK FALSE
