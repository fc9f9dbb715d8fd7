CONSTANTS
  p1 = p1
  p2 = p2
  p3 = p3
  Proofs = {p1, p2, p3}
  MaxWrites = 4
  Attempts = 2
SPECIFICATION RelayFairSpec
INVARIANTS ScheduledOnce GreenIsOfTheEntry
PROPERTIES PendingSettles
CHECK_DEADLOCK FALSE
