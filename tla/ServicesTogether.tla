-------------------------- MODULE ServicesTogether --------------------------
(***************************************************************************)
(* The services of the BFF side by side: what is proved of each of them    *)
(* holds of all of them together, whichever of them a behaviour is about.  *)
(***************************************************************************)
EXTENDS MCServices, ServiceProofs, CampaignProofs

\* Every step is one of a single service and leaves the others alone, so each
\* service behaves as its own specification allows.
LEMMA EachServiceBehaves ==
  ServicesSpec =>
    /\ Spec
    /\ QuestInit /\ [][QuestNext]_questVars
    /\ CastInit /\ [][CastNext]_castVars
    /\ GdprInit /\ [][GdprNext]_gdprVars
    /\ FeedInit /\ [][FeedNext]_feedVars
    /\ VaultInit /\ [][VaultNext]_vaultVars
    /\ CampaignSpec
<1>1. ServicesInit => /\ Init /\ QuestInit /\ CastInit /\ GdprInit /\ FeedInit /\ VaultInit
                      /\ CampaignInit
  BY DEF ServicesInit
<1>2. [ServicesNext]_servicesVars =>
        /\ [Next]_vars /\ [QuestNext]_questVars /\ [CastNext]_castVars /\ [GdprNext]_gdprVars
        /\ [FeedNext]_feedVars /\ [VaultNext]_vaultVars /\ [CampaignNext]_campaignVars
  BY DEF ServicesNext, servicesVars, Webhook, Quests, Broadcasts, Gdpr, Segments, Vault, Campaigns
<1> QED BY <1>1, <1>2, PTL DEF ServicesSpec, Spec, CampaignSpec

\* Whichever service a behaviour is about, its rows, jobs, handlers and counters
\* keep their types.
THEOREM ServicesKeepTypes == ServicesSpec => []ServiceTypes
<1>1. /\ TypeOK /\ QuestTypeOK /\ CastTypeOK /\ GdprTypeOK /\ FeedTypeOK /\ VaultTypeOK
      /\ CampaignTypeOK
      => ServiceTypes
  BY DEF ServiceTypes
<1> QED BY <1>1, EachServiceBehaves, DeliveryTypes, QuestTypesStay, CastTypesStay, GdprTypesStay,
        FeedTypesStay, VaultTypesStay, CampaignTypesAlways, PTL

\* Side by side the services keep all the promises they keep on their own.
THEOREM ServicesStaySafe ==
  ServicesSpec =>
    /\ []OnlyRacesDuplicate /\ []DeliveredIsEmitted
    /\ []QuestSafety /\ []CastSafety /\ GdprSafety /\ []ListenersKeepUp /\ VaultSafety
    /\ []PendingIsCarried /\ []ActionsFollowPlan
BY EachServiceBehaves, OnlyRaces, Delivered, QuestsStaySafe, BroadcastsStaySafe, DeletionsStaySafe,
   ListenersStayTuned, VaultStaysSafe, NobodyIsStranded, ActionsInOrder, PTL
=============================================================================
