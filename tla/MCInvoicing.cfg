CONSTANTS
  i1 = i1
  i2 = i2
  i3 = i3
  NoId = NoId
  Devices = {1, 2}
  Ids = {i1, i2, i3}
  FirstId = i1
  Limit = 2
  MaxWrites = 3

SPECIFICATION Spec

INVARIANTS
  TypeOK
  NothingLostUnlessStale
  CancelledIsTakenBack

\* Once the writes are spent and no form is open nothing need happen again.
CHECK_DEADLOCK FALSE
