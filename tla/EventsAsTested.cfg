\* Two events or one and the hourly recalculation, one save of the tags: what the tests of
\* the indexer say an event leads to.
SPECIFICATION ListenSpec
CONSTANTS
  MaxWork = 2
  ManualTag = {"vip"}
  MaxSaves = 1
INVARIANT EventsAsTested
CHECK_DEADLOCK FALSE
