\* One tab, one request at a time: switch to a created workspace, let the token expire.
SPECIFICATION SessionSpec
CONSTANTS
  Tab = {"t1"}
  Slot = {"s1"}
  Passkeys = FALSE
  MaxWorkspaces = 2
  MaxExpiries = 2
  MaxLost = 0
INVARIANTS
  ShownIsRead
CHECK_DEADLOCK FALSE
