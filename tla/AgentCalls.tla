----------------------------- MODULE AgentCalls -----------------------------
(***************************************************************************)
(* The AI agents of the BFF as far as they keep state: the rate limit in   *)
(* Redis (ai-rate-limit.guard.ts), the settings and the monthly quota of a *)
(* workspace (agent.controller.ts, llm-client.service.ts,                  *)
(* usage-tracking.service.ts, quota-reset.job.ts) and the action plans in  *)
(* the cache (action.service.ts).  One workspace;                          *)
(* of the plans one is followed, as plans have ids of their own.  The      *)
(* user's counter is one for all users: the guard names it after user.id,  *)
(* which the token does not have.                                          *)
(***************************************************************************)
EXTENDS Integers, FiniteSets, FiniteSetsExt

CONSTANTS
  Caller,     \* requests that may run at one time
  Key,        \* the counters a request increments: the user's, the workspace's
  Limit,      \* per counter: AI_RATE_LIMIT_USER, AI_RATE_LIMIT_WORKSPACE
  Quotas,     \* quotas the settings may be given; below zero is as zero
  DefaultQuota, \* WorkspaceAiConfig.monthlyQuotaUsd of a new row
  Cost,       \* the most one call adds to usedQuotaUsd
  MaxRequests,  \* bound: requests
  MaxMonths,    \* bound: starts of a month
  MaxConfigs,   \* bound: changes of the settings
  MaxCuts       \* bound: crashes and failed calls

ASSUME AgentAssumption ==
  /\ IsFiniteSet(Caller) /\ IsFiniteSet(Key) /\ Limit \in [Key -> Nat \ {0}]
  /\ Quotas \subseteq Nat /\ DefaultQuota \in Nat \ {0} /\ Cost \in Nat
  /\ MaxRequests \in Nat /\ MaxMonths \in Nat /\ MaxConfigs \in Nat /\ MaxCuts \in Nat

VARIABLES
  count, expires,    \* per counter: its value, and whether EXPIRE has been set
  passed,            \* history, per counter: requests let through since it began
  agent,             \* what each request does next; old (history): the counters
                     \* it incremented in a window that has ended
  toLog, toCharge,   \* per key: usage on its way, which no request waits for
  config,            \* whether workspace_ai_configs has the row
  quota, ownKey, used,  \* monthlyQuotaUsd, apiKeyEncrypted is set, usedQuotaUsd
  paid, peak, top,   \* history, since the last reset: what was charged for calls with the
                     \* platform's key; the most of them checked and not yet charged;
                     \* the highest quota
  plan,              \* the followed plan: "none", "cached", "gone"
  campaigns, again,  \* history: campaigns of the plan; executions overlap or fail
  requests, months, configs, cuts

limitVars == <<count, expires, passed>>
rowVars   == <<config, quota, ownKey, used>>
paidVars  == <<paid, peak, top>>
quotaVars == <<toLog, toCharge, rowVars, paidVars, months, configs>>
planVars  == <<plan, campaigns, again>>
agentVars == <<limitVars, agent, quotaVars, planVars, requests, cuts>>

Free == [at |-> "free"]
Become(c, r) == agent' = [agent EXCEPT ![c] = r]
Executing == {"get", "create", "start", "evict"}
Payer == {"platform", "own"}     \* whose key a call to the model is made with

AgentInit ==
  /\ count = [k \in Key |-> 0] /\ expires = [k \in Key |-> FALSE] /\ passed = [k \in Key |-> 0]
  /\ agent = [c \in Caller |-> Free]
  /\ toLog = [p \in Payer |-> 0] /\ toCharge = [p \in Payer |-> 0]
  /\ config = FALSE /\ quota = DefaultQuota /\ ownKey = FALSE /\ used = 0
  /\ paid = 0 /\ peak = 0 /\ top = DefaultQuota
  /\ plan = "none" /\ campaigns = 0 /\ again = FALSE
  /\ requests = 0 /\ months = 0 /\ configs = 0 /\ cuts = 0

----------------------------------------------------------------------------
(* The guard: both counters at once, each an INCR and for the first of a   *)
(* window an EXPIRE.                                                       *)

Request(c, kind) ==
  /\ agent[c] = Free /\ requests < MaxRequests /\ requests' = requests + 1
  /\ Become(c, [at |-> "limit", kind |-> kind, incr |-> Key, expire |-> {},
                seen |-> [k \in Key |-> 0], old |-> {}])
  /\ UNCHANGED <<limitVars, quotaVars, planVars, cuts>>

\* Slip: the expiry is set when the limit is reached.
FirstAtLimit(k) == count'[k] = Limit[k]
FirstOfWindow(k) == count'[k] = 1

Incr(c, k) ==
  /\ agent[c].at = "limit" /\ k \in agent[c].incr
  /\ count' = [count EXCEPT ![k] = @ + 1]
  /\ Become(c, [agent[c] EXCEPT !.incr = @ \ {k}, !.seen[k] = count'[k],
                                !.expire = IF FirstOfWindow(k) THEN @ \cup {k} ELSE @])
  /\ UNCHANGED <<expires, passed, quotaVars, planVars, requests, cuts>>

Expire(c, k) ==
  /\ agent[c].at = "limit" /\ k \in agent[c].expire
  /\ expires' = [expires EXCEPT ![k] = count[k] > 0]
  /\ Become(c, [agent[c] EXCEPT !.expire = @ \ {k}])
  /\ UNCHANGED <<count, passed, quotaVars, planVars, requests, cuts>>

\* Slip: the limit itself is one too many.
OverLimitBy1(c) == \E k \in Key : agent[c].seen[k] > Limit[k] + 1
OverLimit(c) == \E k \in Key : agent[c].seen[k] > Limit[k]

Decide(c) ==
  /\ agent[c].at = "limit" /\ agent[c].incr = {} /\ agent[c].expire = {}
  /\ IF OverLimit(c)
     THEN Become(c, Free) /\ UNCHANGED passed
     ELSE /\ Become(c, [at |-> IF agent[c].kind = "plan" THEN "check" ELSE "get"])
          /\ passed' = [k \in Key |-> IF k \in agent[c].old THEN passed[k] ELSE passed[k] + 1]
  /\ again' = \/ again
              \/ agent[c].kind = "execute" /\ \E d \in Caller : agent[d].at \in Executing
  /\ UNCHANGED <<count, expires, quotaVars, plan, campaigns, requests, cuts>>

WindowEnds(k) ==
  /\ expires[k]
  /\ count' = [count EXCEPT ![k] = 0] /\ expires' = [expires EXCEPT ![k] = FALSE]
  /\ passed' = [passed EXCEPT ![k] = 0]
  /\ agent' = [c \in Caller |-> IF agent[c].at = "limit" /\ k \notin agent[c].incr
                                THEN [agent[c] EXCEPT !.old = @ \cup {k}] ELSE agent[c]]
  /\ UNCHANGED <<quotaVars, planVars, requests, cuts>>

----------------------------------------------------------------------------
(* planAction: the quota is read before the call, the usage is written     *)
(* after it without being waited for.                                      *)

\* Calls with the platform's key that are checked and not yet charged.
Uncharged == toLog["platform"] + toCharge["platform"]
               + Quantify(Caller, LAMBDA c : agent[c].at = "platform")

\* Slip: a workspace at its quota passes.
UpToQuota == config /\ ~ownKey => used =< quota
\* Who brings a key of their own pays for it, and is not held to the quota.
BelowQuota == config /\ ~ownKey => used < quota
KeyInUse == IF ownKey THEN "own" ELSE "platform"

CheckQuota(c) ==
  /\ agent[c].at = "check"
  /\ IF BelowQuota
     THEN /\ Become(c, [at |-> KeyInUse])
          /\ peak' = IF ~ownKey /\ Uncharged >= peak THEN Uncharged + 1 ELSE peak
     ELSE Become(c, Free) /\ UNCHANGED peak
  /\ UNCHANGED <<limitVars, toLog, toCharge, rowVars, paid, top, months, configs,
                 planVars, requests, cuts>>

\* The model has answered; the plan goes to the cache under a new id.
StorePlan(c) ==
  /\ agent[c].at \in Payer
  /\ toLog' = [toLog EXCEPT ![agent[c].at] = @ + 1]
  /\ plan' = IF plan = "none" THEN "cached" ELSE plan
  /\ Become(c, Free)
  /\ UNCHANGED <<limitVars, toCharge, rowVars, paidVars, months, configs,
                 campaigns, again, requests, cuts>>

LogUsage(p) ==
  /\ toLog[p] > 0
  /\ toLog' = [toLog EXCEPT ![p] = @ - 1] /\ toCharge' = [toCharge EXCEPT ![p] = @ + 1]
  /\ UNCHANGED <<limitVars, agent, rowVars, paidVars, months, configs, planVars, requests, cuts>>

\* What a call cost is rounded to the two digits of the column.
AddUsage(p) ==
  /\ toCharge[p] > 0 /\ toCharge' = [toCharge EXCEPT ![p] = @ - 1]
  /\ \E cost \in 0..Cost :
       used' = used + cost /\ paid' = IF p = "platform" THEN paid + cost ELSE paid
  /\ UNCHANGED <<limitVars, agent, toLog, quota, ownKey, peak, top, months, configs,
                 planVars, requests, cuts>>

\* Slip: the row is updated and not created.
ChargeByUpdate(p) == AddUsage(p) /\ UNCHANGED config
\* Every call is charged to the row, whoever's key it was made with.
ChargeUsage(p) == AddUsage(p) /\ config' = TRUE

\* PUT /agent/config: a key once set can be replaced, and not taken back.
UpdateConfig(key, q) ==
  /\ configs < MaxConfigs /\ configs' = configs + 1
  /\ config' = TRUE /\ ownKey' = (ownKey \/ key) /\ quota' = q
  /\ top' = IF q > top THEN q ELSE top
  /\ UNCHANGED <<limitVars, agent, toLog, toCharge, used, paid, peak, months,
                 planVars, requests, cuts>>

\* The reset job runs on the first of a month, unless the server is down then.
\* Calls under way go on, and are charged to the new month.
MonthStarts ==
  /\ months < MaxMonths /\ months' = months + 1
  /\ \/ UNCHANGED <<used, paidVars>>
     \/ /\ used' = 0 /\ paid' = 0 /\ peak' = Uncharged
        /\ top' = IF Uncharged = 0 THEN quota ELSE top
  /\ UNCHANGED <<limitVars, agent, toLog, toCharge, config, quota, ownKey, configs,
                 planVars, requests, cuts>>

----------------------------------------------------------------------------
(* executeAction: read the plan, look up the segment, create the campaign, *)
(* start its workflow, and only then remove the plan.                      *)

GetPlan(c) ==
  /\ agent[c].at = "get"
  /\ \/ plan = "cached" /\ Become(c, [at |-> "create"])
     \/ Become(c, Free)          \* no plan, or no segment of its name
  /\ UNCHANGED <<limitVars, quotaVars, planVars, requests, cuts>>

CreateCampaign(c) ==
  /\ agent[c].at = "create"
  /\ campaigns' = campaigns + 1
  /\ Become(c, [at |-> "start"])
  /\ UNCHANGED <<limitVars, quotaVars, plan, again, requests, cuts>>

StartPlan(c) ==
  /\ agent[c].at = "start" /\ Become(c, [at |-> "evict"])
  /\ UNCHANGED <<limitVars, quotaVars, planVars, requests, cuts>>

\* Slip: the plan is left to its time to live.
LeavePlan(c) ==
  /\ agent[c].at = "evict" /\ Become(c, Free)
  /\ UNCHANGED <<limitVars, quotaVars, planVars, requests, cuts>>

EvictPlan(c) ==
  /\ agent[c].at = "evict" /\ plan' = "gone" /\ Become(c, Free)
  /\ UNCHANGED <<limitVars, quotaVars, campaigns, again, requests, cuts>>

PlanExpires ==
  /\ plan = "cached" /\ plan' = "gone"
  /\ UNCHANGED <<limitVars, agent, quotaVars, campaigns, again, requests, cuts>>

----------------------------------------------------------------------------
(* A call fails, or usage could not be written (logged and forgotten), or  *)
(* the process crashes with all that it holds.                             *)

CallIsCut(c) ==
  /\ agent[c] # Free /\ cuts < MaxCuts /\ cuts' = cuts + 1
  /\ Become(c, Free)
  /\ again' = (again \/ agent[c].at \in Executing)
  /\ UNCHANGED <<limitVars, quotaVars, plan, campaigns, requests>>

UsageIsLost(p) ==
  /\ cuts < MaxCuts /\ cuts' = cuts + 1
  /\ \/ toLog[p] > 0 /\ toLog' = [toLog EXCEPT ![p] = @ - 1] /\ UNCHANGED toCharge
     \/ toCharge[p] > 0 /\ toCharge' = [toCharge EXCEPT ![p] = @ - 1] /\ UNCHANGED toLog
  /\ UNCHANGED <<limitVars, agent, rowVars, paidVars, months, configs, planVars, requests>>

AgentNext ==
  \/ \E c \in Caller :
       \/ \E kind \in {"plan", "execute"} : Request(c, kind)
       \/ \E k \in Key : Incr(c, k) \/ Expire(c, k)
       \/ Decide(c) \/ CheckQuota(c) \/ StorePlan(c)
       \/ GetPlan(c) \/ CreateCampaign(c) \/ StartPlan(c) \/ EvictPlan(c)
       \/ CallIsCut(c)
  \/ \E k \in Key : WindowEnds(k)
  \/ \E p \in Payer : LogUsage(p) \/ ChargeUsage(p) \/ UsageIsLost(p)
  \/ \E key \in BOOLEAN, q \in Quotas \cup {quota} : UpdateConfig(key, q)
  \/ MonthStarts \/ PlanExpires

AgentSpec == AgentInit /\ [][AgentNext]_agentVars

----------------------------------------------------------------------------
\* Counters, rows and requests have their types; what is used is in a row.
AgentTypeOK ==
  /\ count \in [Key -> 0..MaxRequests] /\ expires \in [Key -> BOOLEAN]
  /\ \A c \in Caller : agent[c].at \in Executing \cup Payer \cup {"free", "limit", "check"}
  /\ toLog \in [Payer -> Nat] /\ toCharge \in [Payer -> Nat]
  /\ config \in BOOLEAN /\ quota \in Nat /\ ownKey \in BOOLEAN /\ used \in Nat
  /\ (used > 0 \/ ownKey => config)
  /\ plan \in {"none", "cached", "gone"}

\* In one window of a counter no more requests pass than its limit, however
\* their increments of the two counters interleave.
WindowHoldsLimit == \A k \in Key : passed[k] =< Limit[k]

\* A counter that has begun expires, unless the request that began it was cut
\* off before its EXPIRE: then it counts for ever and at last blocks everyone.
CounterExpires ==
  \A k \in Key : count[k] > 0 /\ cuts = 0 =>
    expires[k] \/ \E c \in Caller : agent[c].at = "limit" /\ k \in agent[c].expire

\* What is charged for calls with the platform's key between two resets stays below the
\* highest quota it was given then and the price of the calls that were
\* checked and not yet charged at one time; whether a key of its own comes,
\* whose calls the same row counts, or the quota is changed under calls.
OverrunIsBounded == paid > 0 => paid < top + peak * Cost

\* A plan becomes one campaign, unless two executions overlap or one is cut off.
PlanRunsOnce == ~again => campaigns =< 1

\* The limits of the agents hold their windows and a plan runs once.
AgentSafety == WindowHoldsLimit /\ CounterExpires /\ OverrunIsBounded /\ PlanRunsOnce
=============================================================================
