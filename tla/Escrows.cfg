\* Two parties alone: releases, vesting, claims and refunds.  With up to three
\* arbitrators: direct votes, commitments, reveals and the expiry.
SPECIFICATION MCSpec
CONSTANTS
  payer = payer
  payee = payee
  a1 = a1
  a2 = a2
  a3 = a3
  NONE = NONE
  Address = {payer, payee, a1, a2, a3}
  Admins = {payer}
  Amounts = {0, 2, 3, 5}
  Requests = {0, 1, 2, 5}
  Expiries = {2, 4}
  Deadlines = {2, 3}
  Offers <- MCOffers
  MinLock = 1
  ClaimWindow = 2
  MaxThreshold = 2
  MaxTime = 5
SYMMETRY MCArbSymmetry
INVARIANTS
  TypeOK
  AccountingIdentity
  CustodyMatchesState
  VestedNeverAhead
  LocksOnlyBySplit
  DisputeRecordMatchesState
  OutcomeFollowsTally
PROPERTIES
  NoRefundBeforeExpiry
  FullyVestedPaysAll
  ImplementsCustody
  DisputeFreezesFunds
CHECK_DEADLOCK FALSE
