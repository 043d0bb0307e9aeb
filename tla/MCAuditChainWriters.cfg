SPECIFICATION Spec
CONSTANTS
  settle1 = settle1
  settle2 = settle2
  settle3 = settle3
  edit = edit
  revoke = revoke
  Isolation <- MCIsolation
  Appends <- MCAppends
  Transactions = {settle1, settle2, edit, revoke}
INVARIANTS TypeOK LinkedBackwards LinearWhileSerialized
PROPERTY PrefixStable
CHECK_DEADLOCK FALSE
