CONSTANTS
  l1 = l1
  l2 = l2
  anonymous = anonymous
  passkey = passkey
  Lists = {l1, l2}
  Own = {l1}
  Identities = {anonymous, passkey}
  Anonymous = anonymous
  MaxUpsets = 2

SPECIFICATION Followed

INVARIANTS
  TypeOK
  NothingLostUnlessRushed

PROPERTIES
  MoveFinishes

\* Nothing need happen once the upsets are spent: a call that was handed a
\* registry that is gone never answers.
CHECK_DEADLOCK FALSE
