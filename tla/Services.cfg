\* One service at a time.  Webhook: three attempts, two failures.  Quests: two
\* handlers, two steps.  Broadcasts: two emails and a channel, two orders.  GDPR:
\* two profiles, two ticks of grace.  Segments: two profiles.  Vault: two uploads.
SPECIFICATION ServicesSpec
CONSTANTS
  x1 = x1
  x2 = x2
  w1 = w1
  w2 = w2
  MaxRetries = 2
  MaxFaults = 2
  QuestStep = {"one", "two"}
  Claimer = {"c1", "c2"}
  MaxClaims = 4
  MaxClaimFaults = 1
  Targets <- MCTargets
  Email = {"mail1", "mail2"}
  Sender = {"s1"}
  JOB = JOB
  MaxPresses = 2
  MaxEdits = 1
  MaxBroadcastFaults = 2
  Profile = {"p", "q"}
  Grace = 2
  Day = 2
  MaxAsked = 3
  MaxEnds = 1
  NOBODY = NOBODY
  Member = {m1, m2}
  MaxChanges = 2
  MaxToggles = 1
  MaxFeedFaults = 1
  Client = {"h1"}
  Horizon = 1
  MaxBlobs = 2
  MaxVaultFaults = 1
  Enrolled = {x1, x2}
  Proc = {w1, w2}
  Plan <- MCPlan
  PlanId = {"branch", "drip", "broken"}
  MaxStarts = 2
  MaxCampaignFaults = 1
  NONE = NONE
INVARIANTS
  ServiceTypes
  OnlyRacesDuplicate
  DeliveredIsEmitted
  QuestSafety
  CastSafety
  ListenersKeepUp
  PendingIsCarried
  ActionsFollowPlan
PROPERTIES
  GdprSafety
  VaultSafety
  WorkIsDone
CHECK_DEADLOCK FALSE
