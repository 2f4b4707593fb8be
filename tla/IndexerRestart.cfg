\* One event and one restart.  The chain ends, so the system comes to rest.
SPECIFICATION Spec
CONSTANTS
  e1 = e1
  e2 = e2
  e3 = e3
  w1 = w1
  w2 = w2
  cli = cli
  Event = {e1}
  Rejected = {}
  Whale = {}
  Chain <- MCOne
  Worker = {w1, w2}
  Cli = cli
  Capacity = 1
  BatchSize = 2
  MaxReplays = 0
  MaxFaults = 1
INVARIANTS
  NoDuplicateEvents
CHECK_DEADLOCK FALSE
