\* One component at a time.  Badges: three, two quests, two users.  Deals: two
\* handlers on a deal under negotiation.  Agents: a limit of one and two, a quota of
\* one call that may be changed to none or two.  Sessions: two tabs, one request each.  Pages: two buttons on any page.  Events:
\* two events or one and the hourly recalculation, and one save of the tags.
\* Rules: four changes of the form, or three conditions of a client.
SPECIFICATION MCSpec
CONSTANTS
  h1 = h1
  h2 = h2
  t1 = t1
  t2 = t2
  Badge = {"b1", "b2", "b3"}
  Quest = {"q1", "q2"}
  User = {"u1", "u2"}
  Foreign = {"other"}
  MaxRevokes = 2
  Handler = {h1, h2}
  Title = {"t", "u"}
  Opening = {"negotiation", "closed_won"}
  Amount = {1}
  Total = 2
  MaxVersion = 3
  MaxWrites = 5
  KEEP = KEEP
  Caller = {h1, h2}
  Key = {"user", "workspace"}
  Limit <- MCLimit
  Quotas = {0, 2}
  DefaultQuota = 1
  Cost = 1
  MaxRequests = 3
  MaxMonths = 1
  MaxConfigs = 1
  MaxCuts = 1
  Tab = {t1, t2}
  Slot = {"slot"}
  Passkeys = TRUE
  MaxWorkspaces = 2
  MaxExpiries = 1
  MaxLost = 1
  Pages <- MCPages
  MaxPresses = 2
  MaxReloads = 1
  MaxPageFaults = 1
  MaxWork = 2
  ManualTag = {"vip"}
  MaxSaves = 1
  Profile = {p1, p2}
  Address = {"a1", "a2"}
  Record = {"deal"}
  Tie = {"quest"}
  MaxChanges = 4
  People <- MCPeople
  Limits = {1}
  Names = {"x", "y"}
  MaxEdits = 4
  MaxClauses = 3
SYMMETRY MCSymmetry
INVARIANTS
  RecordTypes
  EntryLeadsToBadge
  CopiesPaidByRevocations
  AgentSafety
  OldForCause
  CallsAreServed
  RowsFollowTheChain
  ListenersSafety
  ClusterSafety
  RulesSafety
PROPERTIES
  DealSafety
  SessionSafety
  MergesKeepAll
CHECK_DEADLOCK FALSE
