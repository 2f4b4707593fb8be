----------------------------- MODULE MCServices -----------------------------
(* The services of the BFF that do not touch each other's rows, for TLC:     *)
(* one run looks at all of them, one at a time, so that its states are the   *)
(* sum of theirs and not the product.                                        *)
EXTENDS WebhookDelivery, QuestClaims, BroadcastSend, GdprDeletion, SegmentFeeds, VaultSecrets,
        CampaignWorkflow, TLC

CONSTANTS x1, x2, w1, w2

VARIABLE focus  \* the service this behaviour is about

Known(delay, targets) == [kind |-> "known", delay |-> delay, targets |-> targets]

(* A condition that may skip a delayed step; a delayed welcome and a second  *)
(* message; a delayed condition that may skip an action nobody knows.        *)
MCPlan ==
  [branch |-> <<Known(FALSE, {2, 3}), Known(TRUE, {3})>>,
   drip   |-> <<Known(TRUE, {2}), Known(FALSE, {3})>>,
   broken |-> <<Known(TRUE, {2, 3}), [kind |-> "unknown", delay |-> FALSE, targets |-> {}]>>]

(* The three bounds of the workflows.  "overlap": two invocations at a time  *)
(* for one profile that is started twice.  Steps edited meanwhile: "edits",  *)
(* two profiles started once, and "restarts", one profile started twice with *)
(* a failure.                                                                *)
Workflows == {"overlap", "edits", "restarts"}
OnlyFor(x) == \A p \in Proc : proc[p].walk \subseteq {x}
OneByOne == proc[w2].pc = "idle" /\ plan # "branch"
Within ==
  CASE focus = "overlap"  -> failures = 0 /\ plan = "branch" /\ OnlyFor(x1)
    [] focus = "edits"    ->
         /\ failures = 0 /\ OneByOne
         /\ \A x \in Enrolled :
              starts[x] + Cardinality({p \in Proc : x \in proc[p].todo}) <= 1
    [] focus = "restarts" -> OneByOne /\ OnlyFor(x1)
    [] OTHER              -> campaignStatus = "inactive" /\ plan = "branch"

(* In "overlap" nobody but an activation changes the status once the profile *)
(* cannot be started again: no start is left that would look at it.          *)
StatusMatters ==
  focus = "overlap" /\ campaignStatus' \notin {campaignStatus, "active"} => MayStart({x1})

MCTargets == <<"mail1", "mail2", "channel">>

(* A step of one service, which the behaviour is about.                      *)
Webhook(A)    == focus = "webhook" /\ A
                 /\ UNCHANGED <<focus, questVars, castVars, gdprVars, feedVars, vaultVars, campaignVars>>
Quests(A)     == focus = "quests" /\ A
                 /\ UNCHANGED <<focus, vars, castVars, gdprVars, feedVars, vaultVars, campaignVars>>
Broadcasts(A) == focus = "broadcasts" /\ A
                 /\ UNCHANGED <<focus, vars, questVars, gdprVars, feedVars, vaultVars, campaignVars>>
Gdpr(A)       == focus = "gdpr" /\ A
                 /\ UNCHANGED <<focus, vars, questVars, castVars, feedVars, vaultVars, campaignVars>>
Segments(A)   == focus = "segments" /\ A
                 /\ UNCHANGED <<focus, vars, questVars, castVars, gdprVars, vaultVars, campaignVars>>
Vault(A)      == focus = "vault" /\ A
                 /\ UNCHANGED <<focus, vars, questVars, castVars, gdprVars, feedVars, campaignVars>>
Campaigns(A, bounds) ==
                 focus \in bounds /\ A
                 /\ UNCHANGED <<focus, vars, questVars, castVars, gdprVars, feedVars, vaultVars>>
                 /\ Within' /\ StatusMatters

ServicesInit ==
  /\ focus \in {"webhook", "quests", "broadcasts", "gdpr", "segments", "vault"} \union Workflows
  /\ Init /\ QuestInit /\ CastInit /\ GdprInit /\ FeedInit /\ VaultInit /\ CampaignInit
  /\ focus # "segments" => matching = {}
  /\ Within

ServicesNext ==
  \/ Webhook(Next) \/ Quests(QuestNext) \/ Broadcasts(CastNext) \/ Gdpr(GdprNext)
  \/ Segments(FeedNext) \/ Vault(VaultNext) \/ Campaigns(CampaignNext, Workflows)

servicesVars == <<focus, campaignVars, vars, questVars, castVars, gdprVars, feedVars, vaultVars>>

(* What is weakly fair in the modules.  As the focus never changes, fairness *)
(* of a disjunction of tasks of different services is fairness of each.      *)
FirstTask  == \/ Webhook(Dispatch) \/ Quests(ClaimRuns("c1")) \/ Broadcasts(JobRuns)
              \/ Gdpr(RunCleanup) \/ Segments(RefreshJob) \/ Vault(ReleaseSteps)
              \/ Campaigns(Work(w1), {"overlap"})
SecondTask == \/ Webhook(Handle(1)) \/ Quests(ClaimRuns("c2")) \/ Broadcasts(SendRuns("s1"))
              \/ Gdpr(Execute) \/ Segments(EvalSteps) \/ Vault(ExpirySteps)
              \/ Campaigns(Work(w2), {"overlap"})
ThirdTask  == Webhook(Handle(2)) \/ Gdpr(TickGdpr) \/ Segments(DiffSteps)
FourthTask == Webhook(Handle(3)) \/ Gdpr(WriteCancel)

ServicesFairness ==
  /\ WF_servicesVars(FirstTask) /\ WF_servicesVars(SecondTask)
  /\ WF_servicesVars(ThirdTask) /\ WF_servicesVars(FourthTask)
  /\ SF_servicesVars(Campaigns(ResumeSome, {"overlap"}))

ServicesSpec == ServicesInit /\ [][ServicesNext]_servicesVars /\ ServicesFairness

-----------------------------------------------------------------------------
(* Each is a conjunction of what the modules state and comment.              *)

(* Every service keeps its rows, handlers and counters in their types.       *)
ServiceTypes ==
  CASE focus = "webhook"    -> TypeOK
    [] focus = "quests"     -> QuestTypeOK
    [] focus = "broadcasts" -> CastTypeOK
    [] focus = "gdpr"       -> GdprTypeOK
    [] focus = "segments"   -> FeedTypeOK
    [] focus = "vault"      -> VaultTypeOK
    [] OTHER                -> CampaignTypeOK

(* From time to time nothing is left to do: deliveries have ended, quests    *)
(* with all their steps are complete, broadcasts are neither due nor stuck,  *)
(* no deletion is pending, members are those of the rules, secrets are open  *)
(* or gone in time, and no execution is pending.                             *)
Done ==
  CASE focus = "webhook"    -> DeliveryEnded
    [] focus = "quests"     -> StepsRewarded
    [] focus = "broadcasts" -> NothingToSend
    [] focus = "gdpr"       -> NothingPending
    [] focus = "segments"   -> MembersMatch
    [] focus = "vault"      -> ~IsDue /\ ~IsExpired
    [] focus = "overlap"    -> exec[x1].status # "pending"
    [] OTHER                -> TRUE
WorkIsDone == []<>Done
=============================================================================
