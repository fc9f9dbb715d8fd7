CONSTANTS
  l1 = l1
  l2 = l2
  aleph = aleph
  local = local
  pinata = pinata
  e1 = e1
  e2 = e2
  c1 = c1
  c2 = c2
  w1 = w1
  w2 = w2
  Lists = {l1, l2}
  Stores = {aleph, local}
  Direct = {aleph}
  Default = aleph
  Home = l1
  Entries = {e1, e2}
  Calls = {c1, c2}
  Watchers = {w1, w2}
  MaxActs = 4
  None = None
SYMMETRY Symmetry
SPECIFICATION Spec
INVARIANTS TypeOK MemoryIsKept QuietWatcherIsRight QuietListIsArchived
CHECK_DEADLOCK FALSE
