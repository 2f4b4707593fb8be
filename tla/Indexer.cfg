\* A plain, a rejected and a whale event on two checkpoints, any three failed
\* calls or crashes, restarts and a replay.  The chain ends, so the system
\* comes to rest.
SPECIFICATION FairSpec
CONSTANTS
  e1 = e1
  e2 = e2
  e3 = e3
  w1 = w1
  w2 = w2
  cli = cli
  Event = {e1, e2, e3}
  Rejected = {e3}
  Whale = {e2}
  Chain <- MCChain
  Worker = {w1}
  Cli = cli
  Capacity = 1
  BatchSize = 2
  MaxReplays = 1
  MaxFaults = 3
INVARIANTS
  TypeOK
  NothingLost
  OneRowPerRouting
PROPERTIES
  ImplementsEventStore
  NoDataGap
CHECK_DEADLOCK FALSE
