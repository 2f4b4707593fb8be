\* Two attempts and no failure but a late answer.  A delivery ends.
SPECIFICATION Spec
CONSTANTS
  MaxRetries = 1
  MaxFaults = 0
INVARIANTS
  AtMostOnce
CHECK_DEADLOCK FALSE
