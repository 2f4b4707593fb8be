----------------------------- MODULE MCRecords ------------------------------
(* Quest badges on chain, deals, AI agents, sessions, the cache of a page,   *)
(* the calls of the frontend, the BFF's transactions, the listeners of its   *)
(* events, the wallets of profiles and the rules of segments, for TLC.  No two *)
(* of them touch the same state, so one run looks at all of them, one at a   *)
(* time, and its states are the sum of theirs.                               *)
EXTENDS QuestBadge, DealPipeline, AgentCalls, Sessions, PageCache, ApiCalls, ChainCalls,
        EventListeners, ProfileCluster, SegmentRules, TLC

CONSTANTS h1, h2, t1, t2

VARIABLE focus    \* the component this behaviour is about

MCPages == Page
MCLimit == [k \in {"user", "workspace"} |-> IF k = "user" THEN 1 ELSE 2]
(* Somebody with two tokens and a role, somebody without a link and an       *)
(* archived profile.                                                         *)
MCPeople ==
  LET Person(n, tag, chains, nfts, tokens, link, rolesOf, gone) ==
        [number |-> [tier |-> n, engagement_score |-> 3 - n, created_after |-> n],
         has |-> [tags |-> tag, wallet_chain |-> chains, nft_collection |-> nfts],
         wallets |-> tokens, linked |-> link, roles |-> rolesOf, archived |-> gone]
  IN  {Person(1, {"x"}, {"y"}, {}, {[token |-> "x", amount |-> 2], [token |-> "y", amount |-> 1]},
              TRUE, {"x"}, FALSE),
       Person(2, {}, {"x", "y"}, {"x"}, {[token |-> "x", amount |-> 1]}, FALSE, {}, FALSE),
       Person(2, {"x", "y"}, {"x"}, {"x"}, {[token |-> "x", amount |-> 2]}, TRUE, {"x"}, TRUE)}
MCSymmetry == Permutations({h1, h2}) \union Permutations({t1, t2})

(* A step of one component, which the behaviour is about.                    *)
Badges(A)   == focus = "badges" /\ A
               /\ UNCHANGED <<focus, dealVars, agentVars, sessionVars, pageVars,
                              callVars, chainVars, listenVars, clusterVars, ruleVars>>
Deals(A)    == focus = "deals" /\ A
               /\ UNCHANGED <<focus, vars, agentVars, sessionVars, pageVars,
                              callVars, chainVars, listenVars, clusterVars, ruleVars>>
Agents(A)   == focus = "agents" /\ A
               /\ UNCHANGED <<focus, vars, dealVars, sessionVars, pageVars,
                              callVars, chainVars, listenVars, clusterVars, ruleVars>>
Logins(A)   == focus = "sessions" /\ A
               /\ UNCHANGED <<focus, vars, dealVars, agentVars, pageVars,
                              callVars, chainVars, listenVars, clusterVars, ruleVars>>
Cache(A)    == focus = "pages" /\ A
               /\ UNCHANGED <<focus, vars, dealVars, agentVars, sessionVars,
                              callVars, chainVars, listenVars, clusterVars, ruleVars>>
Api(A)      == focus = "calls" /\ A
               /\ UNCHANGED <<focus, vars, dealVars, agentVars, sessionVars,
                              pageVars, chainVars, listenVars, clusterVars, ruleVars>>
Chain(A)    == focus = "chain" /\ A
               /\ UNCHANGED <<focus, vars, dealVars, agentVars, sessionVars,
                              pageVars, callVars, listenVars, clusterVars, ruleVars>>
Events(A)   == focus = "events" /\ A
               /\ UNCHANGED <<focus, vars, dealVars, agentVars, sessionVars,
                              pageVars, callVars, chainVars, clusterVars, ruleVars>>
Profiles(A) == focus = "profiles" /\ A
               /\ UNCHANGED <<focus, vars, dealVars, agentVars, sessionVars,
                              pageVars, callVars, chainVars, listenVars, ruleVars>>

Rules(A)    == focus = "rules" /\ A
               /\ UNCHANGED <<focus, vars, dealVars, agentVars, sessionVars, pageVars,
                              callVars, chainVars, listenVars, clusterVars>>

(* What a behaviour is not about starts in one state.                        *)
RecordsInit ==
  /\ focus \in {"badges", "deals", "agents", "sessions", "pages", "calls", "chain", "events",
               "profiles", "rules"}
  /\ focus # "pages" => page = DealsPage
  /\ focus # "calls" => request = TryRefresh
  /\ Init /\ DealInit /\ AgentInit /\ SessionInit /\ PageInit /\ CallInit /\ ChainInit
  /\ ListenInit /\ ClusterInit /\ RulesInit
  /\ focus # "chain" => dryRun /\ leg.op = "fundEscrow"
  /\ deal.stage = "negotiation" /\ deal.title = "t"

RecordsNext ==
  \/ Badges(Next) \/ Deals(DealNext) \/ Agents(AgentNext) \/ Logins(SessionNext)
  \/ Cache(PageNext) \/ Api(CallNext) \/ Chain(ChainNext) \/ Events(ListenNext)
  \/ Profiles(ClusterNext) \/ Rules(RulesNext)

recordsVars == <<focus, vars, dealVars, agentVars, sessionVars, pageVars, callVars, chainVars,
                 listenVars, clusterVars, ruleVars>>
RecordsSpec == RecordsInit /\ [][RecordsNext]_recordsVars

(* A behaviour of the agents has failures, or else the start of a month or a *)
(* change of the settings, which executions of plans do not look at.  The    *)
(* settings change among calls to the model that pass the limits one after   *)
(* the other.                                                                *)
OnlyPlans ==
  /\ cuts' = 0 /\ campaigns' = 0 /\ plan' # "gone"
  /\ \A c \in Caller : agent'[c].at = "limit" => agent'[c].kind = "plan"
AgentBounds ==
  /\ months' > 0 \/ configs' > 0 => OnlyPlans
  /\ configs' > 0 =>
       /\ \A k \in Key : count'[k] =< 1
       /\ \A c, d \in Caller : agent'[c].at = "limit" /\ agent'[d].at = "limit" => c = d
MCSpec == RecordsInit /\ [][RecordsNext /\ AgentBounds]_recordsVars

-----------------------------------------------------------------------------
(* Each is a conjunction of what the modules state and comment.              *)

(* Every component keeps its state in its types.                             *)
RecordTypes ==
  CASE focus = "badges"    -> TypeOK
    [] focus = "deals"     -> DealTypeOK
    [] focus = "agents"    -> AgentTypeOK
    [] focus = "sessions"  -> SessionTypeOK
    [] focus = "pages"     -> PageTypeOK
    [] focus = "calls"     -> CallTypeOK
    [] focus = "chain"     -> ChainTypeOK
    [] focus = "events"    -> ListenTypeOK
    [] focus = "profiles"  -> ClusterTypeOK
    [] focus = "rules"     -> RulesTypeOK

=============================================================================
