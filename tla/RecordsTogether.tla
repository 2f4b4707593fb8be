-------------------------- MODULE RecordsTogether ---------------------------
(***************************************************************************)
(* The components of MCRecords side by side: what is proved of each of     *)
(* them holds of all of them together, whichever a behaviour is about.     *)
(***************************************************************************)
EXTENDS MCRecords, RecordProofs, PageProofs

\* Every step is one of a single component and leaves the others alone, so each
\* behaves as its own specification allows.
LEMMA EachRecordBehaves ==
  RecordsSpec =>
    /\ Spec /\ DealSpec /\ AgentSpec /\ SessionSpec /\ PageSpec
    /\ CallSpec /\ ChainSpec /\ ListenSpec /\ ClusterSpec /\ RulesSpec
<1>1. RecordsInit => /\ Init /\ DealInit /\ AgentInit /\ SessionInit /\ PageInit
                     /\ CallInit /\ ChainInit /\ ListenInit /\ ClusterInit /\ RulesInit
  BY DEF RecordsInit
<1>2. [RecordsNext]_recordsVars =>
        /\ [Next]_vars /\ [DealNext]_dealVars /\ [AgentNext]_agentVars
        /\ [SessionNext]_sessionVars /\ [PageNext]_pageVars /\ [CallNext]_callVars
        /\ [ChainNext]_chainVars /\ [ListenNext]_listenVars /\ [ClusterNext]_clusterVars
        /\ [RulesNext]_ruleVars
  BY DEF RecordsNext, recordsVars, Badges, Deals, Agents, Logins, Cache, Api, Chain, Events,
     Profiles, Rules
<1> QED BY <1>1, <1>2, PTL DEF RecordsSpec, Spec, DealSpec, AgentSpec, SessionSpec, PageSpec,
        CallSpec, ChainSpec, ListenSpec, ClusterSpec, RulesSpec

\* Whichever component a behaviour is about, its rows, counters, cookies, caches
\* and calls keep their types.
THEOREM RecordsKeepTypes == RecordsSpec => []RecordTypes
<1> DEFINE Focused == focus \in {"badges", "deals", "agents", "sessions", "pages", "calls", "chain",
                                "events", "profiles", "rules"}
<1>1. /\ TypeOK /\ DealTypeOK /\ AgentTypeOK /\ SessionTypeOK /\ PageTypeOK /\ CallTypeOK
      /\ ChainTypeOK /\ ListenTypeOK /\ ClusterTypeOK /\ RulesTypeOK
      /\ Focused
      => RecordTypes
  BY DEF RecordTypes
<1>2. RecordsInit => Focused
  BY DEF RecordsInit
<1>3. Focused /\ [RecordsNext]_recordsVars => Focused'
  BY DEF RecordsNext, recordsVars, Badges, Deals, Agents, Logins, Cache, Api, Chain, Events,
     Profiles, Rules
<1>4. RecordsSpec => []Focused
  BY <1>2, <1>3, PTL DEF RecordsSpec
<1> HIDE DEF Focused
<1> QED BY <1>1, <1>4, EachRecordBehaves, TypeCorrect, DealTypesKept, AgentTypesKept, SessionTypesKept,
        PageTypesKept, CallTypesKept, ChainTypesKept, ListenTypesKept, ClusterTypesKept,
        RulesTypesKept, PTL

\* Side by side the components keep all the promises they keep on their own.
THEOREM RecordsStaySafe ==
  RecordsSpec =>
    /\ []EntryLeadsToBadge /\ []CopiesPaidByRevocations
    /\ DealSafety /\ []AgentSafety /\ SessionSafety /\ []OldForCause
    /\ []RowsFollowTheChain /\ []ListenersSafety /\ []ClusterSafety /\ MergesKeepAll /\ []RulesSafety
BY EachRecordBehaves, EntriesLeadToBadges, CopiesBounded, DealsSafe, AgentsSafe, SessionsSafe,
   PagesAreFresh, RowsAfterChain, EventsSafe, ClustersSafe, MergesLoseNothing, RulesSafe, PTL
=============================================================================
