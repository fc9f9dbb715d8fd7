CONSTANTS
  team = team
  own = own
  Lists = {team, own}
  Shared = team
  Delegated = {team}
  ReadsMayFail = TRUE
  MaxWrites = 4
  MaxNudges = 2
SPECIFICATION FairSpec
INVARIANTS
  TypeOK QuietViewIsCurrent OpenListIsRead
PROPERTY LoadsEnd
CHECK_DEADLOCK FALSE
