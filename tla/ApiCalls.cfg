\* Every call of the frontend, one after the other.
SPECIFICATION CallSpec
INVARIANT TestedCallsAreServed
