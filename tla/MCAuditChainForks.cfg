SPECIFICATION Spec
CONSTANTS
  settle1 = settle1
  settle2 = settle2
  settle3 = settle3
  edit = edit
  revoke = revoke
  Isolation <- MCIsolation
  Appends <- MCAppends
  Transactions = {settle1, edit, revoke}
INVARIANT ChainLinear
CHECK_DEADLOCK FALSE
