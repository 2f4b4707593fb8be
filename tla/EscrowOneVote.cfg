\* docs/security/module-analysis.md:361, "once per arbitrator".
SPECIFICATION Spec
CONSTANTS
  payer = payer
  payee = payee
  a1 = a1
  a2 = a2
  a3 = a3
  NONE = NONE
  Address = {payer, payee, a1, a2, a3}
  Admins = {payer}
  Amounts = {2}
  Requests = {1, 2}
  Expiries = {2}
  Deadlines = {1, 2}
  Offers <- MCNoOffers
  MinLock = 1
  ClaimWindow = 1
  MaxThreshold = 2
  MaxTime = 2
INVARIANT OneVotePerArbitrator
CHECK_DEADLOCK FALSE
