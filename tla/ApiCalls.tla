------------------------------ MODULE ApiCalls ------------------------------
(* What the frontend calls and what the BFF serves: the hooks of frontend/   *)
(* src/lib/hooks with their method, path and fields, the routes of the       *)
(* controllers of bff/src, and the way of a call through the router of       *)
(* NestJS and the ValidationPipe of main.ts.  The pipe keeps the decorated   *)
(* fields of a DTO class and nothing else.  It checks nothing of a parameter *)
(* typed inline or by import(...), which leaves no class at run time.  Who   *)
(* may call, what is answered, and optional fields nobody sends, are left    *)
(* out.                                                                      *)
EXTENDS Integers, Sequences, FiniteSets, SequencesExt

ID == ":id"    \* a parameter of a path, and any value of one

(* A call of the frontend: what it sends in body or query, which of these    *)
(* are numbers written as text, and the handler it means.                    *)
Call(by, method, path, sends, means) ==
  [by |-> by, method |-> method, path |-> path, sends |-> sends, texts |-> {}, means |-> means]
AsText(call, fields) == [call EXCEPT !.texts = fields]

-----------------------------------------------------------------------------
(* The hooks, file by file.                                                  *)

DealHooks == {
  Call("useDeals", "GET", <<"deals">>, {"?profileId", "?stage", "?limit", "?offset"}, "listDeals"),
  Call("useDeal", "GET", <<"deals", ID>>, {}, "getDeal"),
  Call("useCreateDeal", "POST", <<"deals">>, {"profileId", "title", "amountUsd", "stage", "notes"}, "createDeal"),
  Call("useUpdateDeal", "PUT", <<"deals", ID>>, {"title", "amountUsd", "stage", "notes", "expectedVersion"}, "updateDeal"),
  Call("useUpdateDealStage", "PUT", <<"deals", ID, "stage">>, {"stage", "expectedVersion"}, "updateStage"),
  Call("useArchiveDeal", "PUT", <<"deals", ID, "archive">>, {"expectedVersion"}, "archiveDeal"),
  Call("useDealRoomAccess", "GET", <<"deals", ID, "access">>, {}, "checkAccess"),
  Call("useDealAuditLogs", "GET", <<"deals", ID, "audit">>, {}, "getAuditLogs")}

EscrowHooks == {
  Call("useEscrow", "GET", <<"deals", ID, "escrow">>, {}, "getEscrow"),
  AsText(Call("useCreateEscrow", "POST", <<"deals", ID, "escrow">>, {"payee", "totalAmount", "tokenType",
    "arbitrators", "arbiterThreshold", "vestingSchedule"}, "createEscrow"), {"totalAmount"}),
  Call("useFundEscrow", "POST", <<"deals", ID, "escrow", "fund">>, {"amount"}, "fund"),
  AsText(Call("useReleaseEscrow", "POST", <<"deals", ID, "escrow", "release">>, {"amount"}, "release"), {"amount"}),
  Call("useRefundEscrow", "POST", <<"deals", ID, "escrow", "refund">>, {}, "refund"),
  Call("useRaiseDispute", "POST", <<"deals", ID, "escrow", "dispute">>, {"reason"}, "dispute"),
  Call("useVoteOnDispute", "POST", <<"deals", ID, "escrow", "dispute", "vote">>, {"vote"}, "vote")}

DealDocumentHooks == {
  Call("useDealDocuments", "GET", <<"deals", ID, "documents">>, {}, "listDocuments"),
  Call("useUploadDealDocument", "POST", <<"deals", ID, "documents">>, {"name", "encryptedData", "sealPolicyId",
    "customPolicy", "mimeType", "fileSize"}, "uploadDocument"),
  Call("useDeleteDealDocument", "DELETE", <<"deals", "documents", ID>>, {}, "deleteDocument"),
  Call("useUpdateDocumentPolicy", "PUT", <<"deals", "documents", ID, "policy">>,
    {"ruleType", "allowedAddresses", "minRoleLevel"}, "updateDocumentPolicy")}

CampaignHooks == {
  Call("useCampaigns", "GET", <<"campaigns">>, {"?status", "?limit", "?offset"}, "listCampaigns"),
  Call("useCampaign", "GET", <<"campaigns", ID>>, {}, "getCampaign"),
  Call("useCreateCampaign", "POST", <<"campaigns">>, {"name", "description", "segmentId", "workflowSteps"}, "createCampaign"),
  Call("useUpdateCampaign", "PUT", <<"campaigns", ID>>,
    {"name", "description", "status", "workflowSteps", "expectedVersion"}, "updateCampaign"),
  Call("useStartCampaign", "POST", <<"campaigns", ID, "start">>, {}, "startCampaign"),
  Call("usePauseCampaign", "POST", <<"campaigns", ID, "pause">>, {}, "pauseCampaign"),
  Call("useCampaignStats", "GET", <<"campaigns", ID, "stats">>, {}, "getCampaignStats")}

TriggerHooks == {
  Call("usePlaybookTemplates", "GET", <<"campaigns", "templates", "playbooks">>, {}, "getPlaybookTemplates"),
  Call("useCampaignTriggers", "GET", <<"campaigns", ID, "triggers">>, {}, "listTriggers"),
  Call("useCreateTrigger", "POST", <<"campaigns", ID, "triggers">>, {"triggerType", "triggerConfig", "isEnabled"}, "createTrigger"),
  Call("useUpdateTrigger", "PATCH", <<"campaigns", ID, "triggers", ID>>, {"triggerConfig", "isEnabled"}, "updateTrigger"),
  Call("useDeleteTrigger", "DELETE", <<"campaigns", ID, "triggers", ID>>, {}, "deleteTrigger")}

SegmentHooks == {
  Call("useSegments", "GET", <<"segments">>, {"?limit", "?offset", "?search"}, "listSegments"),
  Call("useSegment", "GET", <<"segments", ID>>, {}, "getSegment"),
  Call("useCreateSegment", "POST", <<"segments">>, {"name", "description", "rules"}, "createSegment"),
  Call("useUpdateSegment", "PUT", <<"segments", ID>>, {"name", "description", "rules", "expectedVersion"}, "updateSegment"),
  Call("useDeleteSegment", "DELETE", <<"segments", ID>>, {}, "removeSegment"),
  Call("useRefreshSegment", "POST", <<"segments", ID, "refresh">>, {}, "refreshSegment")}

ProfileHooks == {
  Call("useProfiles", "GET", <<"profiles">>, {"?limit", "?offset", "?search"}, "listProfiles"),
  Call("useProfile", "GET", <<"profiles", ID>>, {}, "getProfile"),
  Call("useCreateProfile", "POST", <<"profiles">>, {"primaryAddress", "suinsName", "tags"}, "createProfile"),
  Call("useUpdateProfileTags", "PUT", <<"profiles", ID, "tags">>, {"tags", "expectedVersion"}, "updateTags"),
  Call("useProfileOrganizations", "GET", <<"profiles", ID, "organizations">>, {}, "getProfileOrganizations")}

UseProfileSummaryCall == Call("useProfileSummary", "GET", <<"profiles", ID, "summary">>, {}, "getSummary")

AssetHooks == {
  Call("useProfileAssets", "GET", <<"profiles", ID, "assets">>, {}, "getAssets"),
  Call("useNftTraits", "GET", <<"profiles", ID, "nft-traits">>, {}, "getNftTraits"),
  Call("useDefiPositions", "GET", <<"profiles", ID, "defi-positions">>, {}, "getDefiPositions"),
  Call("useProfileTimeline", "GET", <<"profiles", ID, "timeline">>, {"?limit", "?offset"}, "getTimeline")}

WalletHooks == {
  Call("useProfileWallets", "GET", <<"profiles", ID, "wallets">>, {}, "listWallets"),
  Call("useAddWallet", "POST", <<"profiles", ID, "wallets">>, {"chain", "address"}, "addWallet"),
  Call("useRemoveWallet", "DELETE", <<"profiles", ID, "wallets", ID>>, {}, "removeWallet"),
  Call("useFundingPatterns", "GET", <<"profiles", ID, "funding-patterns">>, {}, "getFundingPatterns"),
  Call("useNetWorth", "GET", <<"profiles", ID, "net-worth">>, {}, "getNetWorth")}

MergeHooks == {
  Call("useProfileMergeCandidate", "GET", <<"profiles", ID, "merge-candidates">>, {}, "getMergeCandidates"),
  Call("useMergeProfile", "POST", <<"profiles", ID, "merge">>, {"sourceProfileId"}, "mergeProfile")}

DomainHooks == {
  Call("useProfileDomains", "GET", <<"profiles", ID, "domains">>, {}, "getDomains"),
  Call("useSetPrimaryDomain", "PUT", <<"profiles", ID, "primary-domain">>, {"domain"}, "setPrimaryDomain")}

OrganizationHooks == {
  Call("useOrganizations", "GET", <<"organizations">>, {"?limit", "?offset", "?search"}, "listOrganizations"),
  Call("useOrganization", "GET", <<"organizations", ID>>, {}, "getOrganization"),
  Call("useCreateOrganization", "POST", <<"organizations">>, {"name", "domain", "tags"}, "createOrganization"),
  Call("useUpdateOrganization", "PUT", <<"organizations", ID>>, {"name", "domain", "tags", "expectedVersion"}, "updateOrganization"),
  Call("useOrganizationProfiles", "GET", <<"organizations", ID, "profiles">>, {}, "getOrganizationProfiles"),
  Call("useLinkProfile", "POST", <<"organizations", ID, "profiles", ID>>, {}, "linkProfile"),
  Call("useUnlinkProfile", "DELETE", <<"organizations", ID, "profiles", ID>>, {}, "unlinkProfile")}

WorkspaceHooks == {
  Call("useWorkspaces", "GET", <<"workspaces">>, {}, "listWorkspaces"),
  Call("useWorkspace", "GET", <<"workspaces", ID>>, {}, "getWorkspace"),
  Call("useUpdateWorkspace", "PATCH", <<"workspaces", ID>>, {"name", "description"}, "updateWorkspace"),
  Call("useCreateWorkspace", "POST", <<"workspaces">>, {"name"}, "createWorkspace"),
  Call("useSwitchWorkspace", "POST", <<"auth", "switch-workspace">>, {"workspaceId"}, "switchWorkspace"),
  Call("useWorkspaceMembers", "GET", <<"workspaces", ID, "members">>, {}, "listMembers"),
  Call("useAddMember", "POST", <<"workspaces", ID, "members">>, {"address", "roleLevel", "permissions"}, "addMember"),
  Call("useRemoveMember", "DELETE", <<"workspaces", ID, "members", ID>>, {}, "removeMember")}

WhaleHooks == {
  Call("useWhaleThresholds", "GET", <<"workspaces", ID, "whale-thresholds">>, {}, "getWhaleThresholds"),
  Call("useSetWhaleThresholds", "PUT", <<"workspaces", ID, "whale-thresholds">>, {"thresholds"}, "setWhaleThresholds"),
  Call("useWhaleAlerts", "GET", <<"workspaces", ID, "whale-alerts">>, {"?limit"}, "getWhaleAlerts"),
  Call("useTopWhales", "GET", <<"workspaces", ID, "top-whales">>, {"?limit"}, "getTopWhales")}

WatchlistHooks == {
  Call("useCollectionWatchlist", "GET", <<"workspaces", ID, "collection-watchlist">>, {}, "getCollectionWatchlist"),
  Call("useSetCollectionWatchlist", "PUT", <<"workspaces", ID, "collection-watchlist">>, {"collections"}, "setCollectionWatchlist")}

WeightFields == {"holdTime", "txCount", "txValue", "voteCount", "nftCount"}
UseEngagementSettings == {
  Call("useEngagementSettings", "GET", <<"workspaces", ID, "engagement-weights">>, {}, "getEngagementWeights"),
  Call("useEngagementSettings", "PUT", <<"workspaces", ID, "engagement-weights">>, WeightFields, "setEngagementWeights")}

UseDiscordRoles == Call("useDiscordRoles", "GET", <<"workspaces", ID, "discord-roles">>, {}, "getDiscordRoles")

GasHooks == {
  Call("useGasSettings", "GET", <<"workspaces", ID, "gas-config">>, {}, "getGasConfig"),
  Call("useUpdateGasSettings", "PUT", <<"workspaces", ID, "gas-config">>, {"enabled", "thresholdMist", "dailyLimit"}, "updateGasConfig")}

UseSponsoredTx == {
  Call("useSponsoredTx", "POST", <<"sponsor", "create">>,
    {"transactionKindBytes", "allowedMoveCallTargets", "allowedAddresses"}, "sponsorTransaction"),
  Call("useSponsoredTx", "POST", <<"sponsor", "execute">>, {"digest", "signature"}, "executeSponsoredTransaction")}

AiHooks == {
  Call("useAiConfig", "GET", <<"agent", "config">>, {}, "getAiConfig"),
  Call("useUpdateAiConfig", "PUT", <<"agent", "config">>, {"provider", "apiKey", "monthlyQuotaUsd", "isEnabled"}, "updateAiConfig"),
  Call("useAiUsage", "GET", <<"agent", "usage">>, {}, "getUsage")}

UseAnalystQuery == Call("useAnalystQuery", "POST", <<"agents", "analyst", "query">>, {"query"}, "analystQuery")
UseGenerateContent == Call("useGenerateContent", "POST", <<"agents", "content", "generate">>,
  {"segmentDescription", "channel", "tone"}, "generateContent")
ActionHooks == {
  Call("usePlanAction", "POST", <<"agents", "action", "plan">>, {"instruction"}, "planAction"),
  Call("useExecuteAction", "POST", <<"agents", "action", "execute">>, {"planId"}, "executeAction")}

VaultHooks == {
  Call("useVaultSecrets", "GET", <<"vault", "secrets", ID>>, {}, "listSecrets"),
  Call("useVaultSecret", "GET", <<"vault", "secrets", ID, ID>>, {}, "getSecret"),
  Call("useStoreSecret", "POST", <<"vault", "secrets">>,
    {"profileId", "key", "encryptedData", "sealPolicyId", "releaseAt"}, "storeSecret"),
  Call("useDeleteSecret", "DELETE", <<"vault", "secrets", ID, ID>>, {"?expectedVersion"}, "deleteSecret"),
  Call("useReleaseSecret", "POST", <<"vault", "secrets", ID, ID, "release">>, {}, "releaseSecret")}

UseVaultCrypto == {
  Call("encryptAndStore", "POST", <<"vault", "secrets">>, {"profileId", "key", "encryptedData", "sealPolicyId"}, "storeSecret"),
  Call("decryptSecret", "GET", <<"vault", "secrets", ID, ID>>, {}, "getSecret"),
  Call("deleteSecret", "DELETE", <<"vault", "secrets", ID, ID>>, {"?expectedVersion"}, "deleteSecret")}

UseCreatePolicy == Call("useCreatePolicy", "POST", <<"vault", "policies">>,
  {"name", "ruleType", "allowedAddresses", "minRoleLevel", "expiresAtMs"}, "createPolicy")
VaultAuditLog == Call("VaultAuditLog", "GET", <<"vault", "secrets", ID, ID, "audit">>, {}, "getVaultAudit")

MessageHooks == {
  Call("useMessageHistory", "GET", <<"messaging", "history", ID>>, {}, "getHistory"),
  Call("useSendMessage", "POST", <<"messaging", "send">>, {"channel", "profileId"}, "sendMessage")}

NotificationHooks == {
  Call("useNotifications", "GET", <<"notifications">>, {}, "listNotifications"),
  Call("useUnreadCount", "GET", <<"notifications", "unread-count">>, {}, "unreadCount"),
  Call("useMarkRead", "PATCH", <<"notifications", ID, "read">>, {}, "markRead"),
  Call("useMarkAllRead", "POST", <<"notifications", "mark-all-read">>, {}, "markAllRead")}

SocialHooks == {
  Call("useSocialLinks", "GET", <<"social", ID, "links">>, {}, "getLinks"),
  Call("useLinkSocial", "GET", <<"social", "discord", "auth-url">>, {"?profileId"}, "getDiscordAuthUrl"),
  Call("useLinkSocial", "GET", <<"social", "x", "auth-url">>, {"?profileId"}, "getXAuthUrl"),
  Call("useUnlinkSocial", "DELETE", <<"social", ID, ID>>, {}, "unlink"),
  Call("useLinkApple", "POST", <<"social", ID, "apple">>, {"zkLoginAddress"}, "linkApple")}

TicketHooks == {
  Call("useTickets", "GET", <<"tickets">>, {}, "listTickets"),
  Call("useTicket", "GET", <<"tickets", ID>>, {}, "findTicket"),
  Call("useCreateTicket", "POST", <<"tickets">>, {"title", "description", "priority", "assignee", "slaDeadline"}, "createTicket"),
  Call("useUpdateTicket", "PATCH", <<"tickets", ID>>,
    {"title", "description", "status", "priority", "assignee", "slaDeadline"}, "updateTicket"),
  Call("useDeleteTicket", "DELETE", <<"tickets", ID>>, {}, "removeTicket")}

BroadcastHooks == {
  Call("useBroadcasts", "GET", <<"broadcasts">>, {}, "listBroadcasts"),
  Call("useCreateBroadcast", "POST", <<"broadcasts">>, {"title", "content", "channels", "segmentId"}, "createBroadcast"),
  Call("useUpdateBroadcast", "PATCH", <<"broadcasts", ID>>, {"title", "content", "channels", "segmentId"}, "updateBroadcast"),
  Call("useSendBroadcast", "POST", <<"broadcasts", ID, "send">>, {}, "sendBroadcast"),
  Call("useScheduleBroadcast", "POST", <<"broadcasts", ID, "schedule">>, {"scheduledAt"}, "scheduleBroadcast"),
  Call("useBroadcastAnalytics", "GET", <<"broadcasts", ID, "analytics">>, {}, "broadcastAnalytics")}

BroadcastDetailPage == Call("BroadcastDetailPage", "GET", <<"broadcasts", ID>>, {}, "getBroadcast")

QuestHooks == {
  Call("useQuests", "GET", <<"quests">>, {}, "listQuests"),
  Call("useQuest", "GET", <<"quests", ID>>, {}, "getQuest"),
  Call("useCreateQuest", "POST", <<"quests">>, {"name", "description", "rewardType", "rewardConfig", "steps"}, "createQuest"),
  Call("useUpdateQuest", "PUT", <<"quests", ID>>, {"name", "description", "isActive", "rewardType"}, "updateQuest"),
  Call("useClaimStep", "POST", <<"quests", ID, "steps", ID, "claim">>, {}, "claimStep"),
  Call("useQuestProgress", "GET", <<"quests", ID, "progress", ID>>, {}, "getProgress")}

AnalyticsHooks == {
  Call("useScoreDistribution", "GET", <<"analytics", "score-distribution">>, {}, "scoreDistribution"),
  Call("useActivityHeatmap", "GET", <<"analytics", "activity-heatmap">>, {}, "activityHeatmap"),
  Call("usePipelineSummary", "GET", <<"analytics", "pipeline-summary">>, {}, "pipelineSummary")}

UseDashboardStats == {
  Call("useDashboardStats", "GET", <<"profiles">>, {"?limit"}, "listProfiles"),
  Call("useDashboardStats", "GET", <<"deals">>, {"?limit"}, "listDeals"),
  Call("useDashboardStats", "GET", <<"segments">>, {"?limit"}, "listSegments")}

ReportWebVitals == Call("reportWebVitals", "POST", <<"analytics", "vitals">>,
  {"name", "value", "rating", "pathname", "timestamp"}, "reportVitals")

UseAuthSession == {
  Call("useAuthSession", "GET", <<"auth", "challenge">>, {}, "getChallenge"),
  Call("useAuthSession", "POST", <<"auth", "login">>, {"address", "signature", "message"}, "walletLogin")}

PasskeyHooks == {
  Call("usePasskeyRegisterOptions", "POST", <<"auth", "passkey", "register", "options">>, {}, "passkeyRegisterOptions"),
  Call("usePasskeyRegisterVerify", "POST", <<"auth", "passkey", "register", "verify">>, {"response"}, "passkeyRegisterVerify"),
  Call("usePasskeyLoginOptions", "POST", <<"auth", "passkey", "login", "options">>, {}, "passkeyLoginOptions"),
  Call("usePasskeyLoginVerify", "POST", <<"auth", "passkey", "login", "verify">>, {"response"}, "passkeyLoginVerify")}

TryRefresh == Call("tryRefresh", "POST", <<"auth", "refresh">>, {}, "refresh")
CommandPalette == Call("CommandPalette", "GET", <<"api", "search">>, {"?q"}, "search")

Calls ==
  UNION {DealHooks, EscrowHooks, DealDocumentHooks, CampaignHooks, TriggerHooks, SegmentHooks, ProfileHooks,
         AssetHooks, WalletHooks, MergeHooks, DomainHooks, OrganizationHooks, WorkspaceHooks, WhaleHooks, WatchlistHooks,
         UseEngagementSettings, GasHooks, UseSponsoredTx, AiHooks, ActionHooks, VaultHooks, UseVaultCrypto,
         MessageHooks, NotificationHooks, SocialHooks, TicketHooks, BroadcastHooks, QuestHooks,
         AnalyticsHooks, UseDashboardStats, UseAuthSession, PasskeyHooks}
  \cup {UseProfileSummaryCall, UseDiscordRoles, UseAnalystQuery, UseGenerateContent, UseCreatePolicy,
        VaultAuditLog, BroadcastDetailPage, ReportWebVitals, TryRefresh, CommandPalette}

Queries == {"?profileId", "?stage", "?status", "?limit", "?offset", "?search", "?expectedVersion", "?q"}
Bodies  == UNION {c.sends : c \in Calls} \ Queries

-----------------------------------------------------------------------------
(* The routes.  takes: what the pipe leaves of a call; must: what it refuses *)
(* a call without; numbers: what it refuses as text; reads: what the handler *)
(* cannot do without.                                                        *)

Route(method, path, to, takes, must, numbers, reads) ==
  [method |-> method, path |-> path, to |-> to, takes |-> takes, must |-> must,
   numbers |-> numbers, reads |-> reads]
Bare(method, path, to)               == Route(method, path, to, {}, {}, {}, {})
Asked(path, to, reads, may)          == Route("GET", path, to, reads \cup may, {}, {}, reads)
Checked(method, path, to, must, may) == Route(method, path, to, must \cup may, must, {}, must)
Open(method, path, to, reads)        == Route(method, path, to, Bodies, {}, {}, reads)
Stripped(method, path, to, reads)    == Route(method, path, to, {}, {}, {}, reads)
Numbers(route, fields)               == [route EXCEPT !.numbers = fields]

Slice == {"?limit", "?offset"}

AuthController == <<
  Bare("GET", <<"auth", "challenge">>, "getChallenge"),
  Checked("POST", <<"auth", "login">>, "walletLogin", {"address", "signature", "message"}, {}),
  Checked("POST", <<"auth", "zklogin">>, "zkLogin", {"jwt", "salt"}, {})>>
AuthSessions == <<
  Bare("POST", <<"auth", "passkey", "register", "options">>, "passkeyRegisterOptions"),
  Open("POST", <<"auth", "passkey", "register", "verify">>, "passkeyRegisterVerify", {"response"}),
  Bare("POST", <<"auth", "passkey", "login", "options">>, "passkeyLoginOptions"),
  Open("POST", <<"auth", "passkey", "login", "verify">>, "passkeyLoginVerify", {"response"}),
  Bare("POST", <<"auth", "refresh">>, "refresh"),
  Checked("POST", <<"auth", "switch-workspace">>, "switchWorkspace", {"workspaceId"}, {}),
  Bare("POST", <<"auth", "logout">>, "logout")>>

SponsorController == <<
  Checked("POST", <<"sponsor", "create">>, "sponsorTransaction", {"transactionKindBytes"},
          {"allowedMoveCallTargets", "allowedAddresses"}),
  Checked("POST", <<"sponsor", "execute">>, "executeSponsoredTransaction", {"digest", "signature"}, {})>>
GasConfigController == <<
  Bare("GET", <<"workspaces", ID, "gas-config">>, "getGasConfig"),
  Numbers(Checked("PUT", <<"workspaces", ID, "gas-config">>, "updateGasConfig", {},
                  {"enabled", "thresholdMist", "dailyLimit"}), {"dailyLimit"})>>

WorkspaceController == <<
  Checked("POST", <<"workspaces">>, "createWorkspace", {"name"}, {}),
  Bare("GET", <<"workspaces">>, "listWorkspaces"),
  Bare("GET", <<"workspaces", ID>>, "getWorkspace"),
  Checked("PATCH", <<"workspaces", ID>>, "updateWorkspace", {}, {"name", "description"}),
  Bare("GET", <<"workspaces", ID, "members">>, "listMembers"),
  Numbers(Checked("POST", <<"workspaces", ID, "members">>, "addMember", {"address", "roleLevel", "permissions"}, {}),
          {"roleLevel", "permissions"}),
  Bare("DELETE", <<"workspaces", ID, "members", ID>>, "removeMember")>>
WorkspaceSettings == <<
  Bare("GET", <<"workspaces", ID, "engagement-weights">>, "getEngagementWeights"),
  Bare("GET", <<"workspaces", ID, "discord-roles">>, "getDiscordRoles"),
  Numbers(Checked("PUT", <<"workspaces", ID, "engagement-weights">>, "setEngagementWeights", WeightFields, {}),
          WeightFields),
  Bare("GET", <<"workspaces", ID, "collection-watchlist">>, "getCollectionWatchlist"),
  Checked("PUT", <<"workspaces", ID, "collection-watchlist">>, "setCollectionWatchlist", {"collections"}, {}),
  Bare("GET", <<"workspaces", ID, "whale-thresholds">>, "getWhaleThresholds"),
  Checked("PUT", <<"workspaces", ID, "whale-thresholds">>, "setWhaleThresholds", {"thresholds"}, {}),
  Asked(<<"workspaces", ID, "whale-alerts">>, "getWhaleAlerts", {}, {"?limit"}),
  Asked(<<"workspaces", ID, "top-whales">>, "getTopWhales", {}, {"?limit"})>>

ProfileController == <<
  Open("POST", <<"profiles">>, "createProfile", {"primaryAddress"}),
  Bare("GET", <<"profiles", ID>>, "getProfile"),
  Bare("GET", <<"profiles", ID, "summary">>, "getSummary"),
  Bare("GET", <<"profiles", ID, "assets">>, "getAssets"),
  Asked(<<"profiles", ID, "timeline">>, "getTimeline", {}, Slice),
  Asked(<<"profiles">>, "listProfiles", {}, Slice \cup {"?search"}),
  Bare("GET", <<"profiles", ID, "organizations">>, "getProfileOrganizations"),
  Open("PUT", <<"profiles", ID, "tags">>, "updateTags", {"tags", "expectedVersion"}),
  Open("DELETE", <<"profiles", ID>>, "archiveProfile", {"expectedVersion"})>>
ProfileWallets == <<
  Bare("GET", <<"profiles", ID, "funding-patterns">>, "getFundingPatterns"),
  Bare("GET", <<"profiles", ID, "merge-candidates">>, "getMergeCandidates"),
  Checked("POST", <<"profiles", ID, "merge">>, "mergeProfile", {"sourceProfileId"}, {}),
  Checked("POST", <<"profiles", ID, "wallets">>, "addWallet", {"chain", "address"}, {"ensName", "snsName"}),
  Bare("GET", <<"profiles", ID, "wallets">>, "listWallets"),
  Bare("DELETE", <<"profiles", ID, "wallets", ID>>, "removeWallet"),
  Bare("POST", <<"profiles", ID, "resolve-avatar">>, "resolveAvatar"),
  Bare("GET", <<"profiles", ID, "nft-traits">>, "getNftTraits"),
  Bare("GET", <<"profiles", ID, "defi-positions">>, "getDefiPositions"),
  Bare("GET", <<"profiles", ID, "net-worth">>, "getNetWorth"),
  Bare("GET", <<"profiles", ID, "domains">>, "getDomains"),
  Open("PUT", <<"profiles", ID, "primary-domain">>, "setPrimaryDomain", {"domain"})>>
WalletClusterController == <<
  Checked("POST", <<"profiles", ID, "wallets", "claim">>, "claim", {"address", "message", "signature"}, {}),
  Bare("GET", <<"profiles", ID, "wallets">>, "listVerified")>>

OrganizationController == <<
  Open("POST", <<"organizations">>, "createOrganization", {"name"}),
  Bare("GET", <<"organizations", ID>>, "getOrganization"),
  Asked(<<"organizations">>, "listOrganizations", {}, Slice \cup {"?search"}),
  Open("PUT", <<"organizations", ID>>, "updateOrganization", {"expectedVersion"}),
  Bare("POST", <<"organizations", ID, "profiles", ID>>, "linkProfile"),
  Bare("GET", <<"organizations", ID, "profiles">>, "getOrganizationProfiles"),
  Bare("DELETE", <<"organizations", ID, "profiles", ID>>, "unlinkProfile")>>

DealController == <<
  Open("POST", <<"deals">>, "createDeal", {"profileId", "title", "amountUsd", "stage"}),
  Bare("GET", <<"deals", ID>>, "getDeal"),
  Asked(<<"deals">>, "listDeals", {}, Slice \cup {"?profileId", "?stage"}),
  Open("PUT", <<"deals", ID>>, "updateDeal", {"expectedVersion"}),
  Open("PUT", <<"deals", ID, "stage">>, "updateStage", {"stage", "expectedVersion"}),
  Open("PUT", <<"deals", ID, "archive">>, "archiveDeal", {"expectedVersion"}),
  Bare("GET", <<"deals", ID, "audit">>, "getAuditLogs"),
  Bare("GET", <<"deals", ID, "access">>, "checkAccess")>>
DealDocumentRoutes == <<
  Stripped("POST", <<"deals", ID, "documents">>, "uploadDocument", {"name", "encryptedData"}),
  Bare("GET", <<"deals", ID, "documents">>, "listDocuments"),
  Stripped("PUT", <<"deals", "documents", ID, "policy">>, "updateDocumentPolicy", {"ruleType"}),
  Open("DELETE", <<"deals", "documents", ID>>, "deleteDocument", {"expectedVersion"})>>

EscrowController == <<
  Numbers(Checked("POST", <<"deals", ID, "escrow">>, "createEscrow", {"payee", "totalAmount", "arbitrators",
    "arbiterThreshold"}, {"expiryAt", "tokenType"}), {"totalAmount", "arbiterThreshold"}),
  Bare("POST", <<"deals", ID, "escrow", "fund">>, "fund"),
  Numbers(Checked("POST", <<"deals", ID, "escrow", "release">>, "release", {"amount"}, {}), {"amount"}),
  Bare("POST", <<"deals", ID, "escrow", "refund">>, "refund"),
  Bare("POST", <<"deals", ID, "escrow", "dispute">>, "dispute"),
  Checked("POST", <<"deals", ID, "escrow", "dispute", "vote">>, "vote", {"decision"}, {}),
  Bare("GET", <<"deals", ID, "escrow">>, "getEscrow"),
  Numbers(Checked("POST", <<"deals", ID, "escrow", "vesting">>, "addVesting", {"vestingType"},
    {"cliffMs", "totalDurationMs", "milestones"}), {"cliffMs", "totalDurationMs"}),
  Bare("POST", <<"deals", ID, "escrow", "milestone", ID, "complete">>, "completeMilestone")>>

SaftTemplateController == <<
  Checked("POST", <<"saft-templates">>, "createTemplate", {"name"}, {"terms"}),
  Bare("GET", <<"saft-templates">>, "listTemplates"),
  Checked("PUT", <<"saft-templates", ID, "attach">>, "attachSaft", {"escrowId"}, {}),
  Checked("PUT", <<"saft-templates", ID, "upload">>, "uploadSaft", {"walrusBlobId"}, {})>>

SegmentController == <<
  Checked("POST", <<"segments">>, "createSegment", {"name"}, {"description", "rules"}),
  Bare("GET", <<"segments", ID>>, "getSegment"),
  Asked(<<"segments", ID, "profiles">>, "getSegmentProfiles", {}, Slice),
  Asked(<<"segments">>, "listSegments", {}, Slice \cup {"?search"}),
  Numbers(Checked("PUT", <<"segments", ID>>, "updateSegment", {"expectedVersion"}, {"name", "description", "rules"}),
          {"expectedVersion"}),
  Bare("DELETE", <<"segments", ID>>, "removeSegment"),
  Bare("POST", <<"segments", ID, "refresh">>, "refreshSegment")>>
LookalikeController == <<
  Numbers(Checked("POST", <<"segments", ID, "lookalike">>, "findLookalike", {},
    {"topK", "minSimilarity", "algorithm", "candidateSource", "alpha"}), {"topK", "minSimilarity", "alpha"}),
  Checked("POST", <<"segments", ID, "lookalike", "create-segment">>, "createSegmentFromResults", {"profileIds"}, {})>>

AnalyticsController == <<
  Bare("GET", <<"analytics", "score-distribution">>, "scoreDistribution"),
  Bare("GET", <<"analytics", "profiles", ID, "score">>, "getScoreBreakdown"),
  Bare("GET", <<"analytics", "activity-heatmap">>, "activityHeatmap"),
  Bare("GET", <<"analytics", "pipeline-summary">>, "pipelineSummary")>>
VitalsController == <<
  Numbers(Checked("POST", <<"analytics", "vitals">>, "reportVitals",
    {"name", "value", "rating", "pathname", "timestamp"}, {}), {"value", "timestamp"})>>

CampaignController == <<
  Bare("GET", <<"campaigns", "templates", "playbooks">>, "getPlaybookTemplates"),
  Open("POST", <<"campaigns">>, "createCampaign", {"name", "segmentId", "workflowSteps"}),
  Bare("GET", <<"campaigns", ID>>, "getCampaign"),
  Asked(<<"campaigns">>, "listCampaigns", {}, Slice \cup {"?status"}),
  Open("PUT", <<"campaigns", ID>>, "updateCampaign", {"expectedVersion"}),
  Bare("POST", <<"campaigns", ID, "start">>, "startCampaign"),
  Bare("POST", <<"campaigns", ID, "pause">>, "pauseCampaign"),
  Bare("GET", <<"campaigns", ID, "stats">>, "getCampaignStats")>>
CampaignTriggers == <<
  Open("POST", <<"campaigns", ID, "schedule">>, "scheduleCampaign", {"scheduledAt"}),
  Open("POST", <<"campaigns", ID, "recurring">>, "createRecurringTrigger", {"cron"}),
  Bare("DELETE", <<"campaigns", ID, "recurring", ID>>, "removeRecurringTrigger"),
  Checked("POST", <<"campaigns", ID, "triggers">>, "createTrigger", {"triggerType", "triggerConfig"}, {"isEnabled"}),
  Bare("GET", <<"campaigns", ID, "triggers">>, "listTriggers"),
  Checked("PATCH", <<"campaigns", ID, "triggers", ID>>, "updateTrigger", {}, {"triggerConfig", "isEnabled"}),
  Bare("DELETE", <<"campaigns", ID, "triggers", ID>>, "deleteTrigger")>>

VaultController == <<
  Open("POST", <<"vault", "policies">>, "createPolicy", {"name", "ruleType"}),
  Stripped("POST", <<"vault", "secrets">>, "storeSecret", {"profileId", "key", "encryptedData"}),
  Bare("GET", <<"vault", "secrets", ID, ID>>, "getSecret"),
  Bare("GET", <<"vault", "secrets", ID>>, "listSecrets"),
  Stripped("PUT", <<"vault", "secrets", ID, ID>>, "updateSecret", {"encryptedData", "expectedVersion"}),
  Open("DELETE", <<"vault", "secrets", ID, ID>>, "deleteSecret", {"expectedVersion"}),
  Bare("POST", <<"vault", "secrets", ID, ID, "release">>, "releaseSecret"),
  Bare("GET", <<"vault", "secrets", ID, ID, "audit">>, "getVaultAudit")>>

MessagingController == <<
  Open("POST", <<"messaging", "send">>, "sendMessage", {"channel"}),
  Bare("GET", <<"messaging", "history", ID>>, "getHistory")>>
NotificationController == <<
  Bare("GET", <<"notifications">>, "listNotifications"),
  Bare("GET", <<"notifications", "unread-count">>, "unreadCount"),
  Bare("PATCH", <<"notifications", ID, "read">>, "markRead"),
  Bare("POST", <<"notifications", "mark-all-read">>, "markAllRead")>>

TicketController == <<
  Checked("POST", <<"tickets">>, "createTicket", {"title"}, {"description", "priority", "assignee", "slaDeadline"}),
  Bare("GET", <<"tickets">>, "listTickets"),
  Bare("GET", <<"tickets", ID>>, "findTicket"),
  Checked("PATCH", <<"tickets", ID>>, "updateTicket", {},
          {"title", "description", "status", "priority", "assignee", "slaDeadline"}),
  Bare("DELETE", <<"tickets", ID>>, "removeTicket")>>

AgentController == <<
  Bare("GET", <<"agent", "config">>, "getAiConfig"),
  Numbers(Checked("PUT", <<"agent", "config">>, "updateAiConfig", {},
    {"provider", "apiKey", "monthlyQuotaUsd", "isEnabled"}), {"monthlyQuotaUsd"}),
  Bare("GET", <<"agent", "usage">>, "getUsage")>>
AnalystController == <<Checked("POST", <<"agents", "analyst", "query">>, "analystQuery", {"query"}, {})>>
ContentController == <<Checked("POST", <<"agents", "content", "generate">>, "generateContent",
                               {"segmentDescription", "channel", "tone"}, {})>>
ActionController == <<
  Checked("POST", <<"agents", "action", "plan">>, "planAction", {"instruction"}, {}),
  Checked("POST", <<"agents", "action", "execute">>, "executeAction", {"planId"}, {})>>
YieldOptimizerController == <<
  Bare("GET", <<"agent", "yield", "pools">>, "getPools"),
  Numbers(Checked("POST", <<"agent", "yield", "suggest">>, "suggest", {"balanceSui", "riskTolerance"}, {}), {"balanceSui"}),
  Bare("GET", <<"agent", "yield", "tools">>, "getToolDefinitions")>>

SocialLinkController == <<
  Asked(<<"social", "discord", "auth-url">>, "getDiscordAuthUrl", {"?profileId"}, {}),
  Asked(<<"social", "discord", "callback">>, "handleDiscordCallback", {"?code", "?state"}, {}),
  Asked(<<"social", "x", "auth-url">>, "getXAuthUrl", {"?profileId"}, {}),
  Asked(<<"social", "x", "callback">>, "handleXCallback", {"?code", "?state"}, {}),
  Open("POST", <<"social", "telegram", "verify">>, "verifyTelegram", {"?profileId"}),
  Open("POST", <<"social", ID, "google">>, "linkGoogle", {"jwt"}),
  Open("POST", <<"social", ID, "apple">>, "linkApple", {"zkLoginAddress"}),
  Bare("GET", <<"social", ID, "links">>, "getLinks"),
  Bare("DELETE", <<"social", ID, ID>>, "unlink")>>

BroadcastController == <<
  Checked("POST", <<"broadcasts">>, "createBroadcast", {"title", "content", "channels"}, {"contentHtml", "segmentId"}),
  Checked("PATCH", <<"broadcasts", ID>>, "updateBroadcast", {}, {"title", "content", "contentHtml", "channels", "segmentId"}),
  Bare("POST", <<"broadcasts", ID, "send">>, "sendBroadcast"),
  Checked("POST", <<"broadcasts", ID, "schedule">>, "scheduleBroadcast", {"scheduledAt"}, {}),
  Bare("GET", <<"broadcasts">>, "listBroadcasts"),
  Bare("GET", <<"broadcasts", ID, "analytics">>, "broadcastAnalytics")>>

QuestController == <<
  Checked("POST", <<"quests">>, "createQuest", {"workspaceId", "name", "steps"}, {"description", "rewardType", "rewardConfig"}),
  Asked(<<"quests">>, "listQuests", {"?workspaceId"}, {}),
  Bare("GET", <<"quests", ID>>, "getQuest"),
  Open("PUT", <<"quests", ID>>, "updateQuest", {}),
  Checked("POST", <<"quests", ID, "steps", ID, "claim">>, "claimStep", {"profileId"}, {"claimData"}),
  Bare("GET", <<"quests", ID, "steps", ID, "submissions">>, "listSubmissions"),
  Open("PATCH", <<"quests", ID, "steps", ID, "submissions", ID>>, "reviewSubmission", {"approved"}),
  Bare("GET", <<"quests", ID, "progress", ID>>, "getProgress")>>

GdprController == <<
  Open("DELETE", <<"profiles", ID, "gdpr">>, "initiateDeletion", {"legalBasis", "requestedBy", "workspaceId"}),
  Bare("GET", <<"profiles", ID, "gdpr", "status">>, "getGdprStatus"),
  Bare("POST", <<"profiles", ID, "gdpr", "cancel">>, "cancelDeletion"),
  Bare("GET", <<"profiles", ID, "export">>, "exportProfile")>>

WebhookController == <<
  Numbers(Checked("POST", <<"webhooks", "indexer-event">>, "handleIndexerEvent",
    {"event_id", "event_type", "address", "data", "tx_digest", "timestamp"}, {"profile_id"}), {"timestamp"})>>

(* Slip: the two controllers under 'profiles' the other way round.           *)
ProfileModuleSwapped == WalletClusterController \o ProfileController \o ProfileWallets

ProfileModule == ProfileController \o ProfileWallets \o WalletClusterController

AppModule ==
  AuthController \o AuthSessions \o SponsorController \o GasConfigController \o WorkspaceController
  \o WorkspaceSettings \o ProfileModule \o OrganizationController \o DealController \o DealDocumentRoutes
  \o EscrowController \o SaftTemplateController \o SegmentController \o LookalikeController
  \o AnalyticsController \o VitalsController \o CampaignController \o CampaignTriggers \o VaultController
  \o MessagingController \o NotificationController \o TicketController \o WebhookController
  \o AgentController \o AnalystController \o ContentController \o ActionController
  \o YieldOptimizerController \o SocialLinkController \o BroadcastController \o QuestController \o GdprController

-----------------------------------------------------------------------------
(* A call on its way.                                                        *)

VARIABLES
  request,   \* the call under way
  carried,   \* what is left of what it sent
  reached,   \* the route it was given to, by its place, 0 before that
  outcome    \* "sent", "routed", "piped", then "done", "failed", "refused" or "unknown"

callVars == <<request, carried, reached, outcome>>

CallInit ==
  /\ request \in Calls /\ carried = request.sends /\ reached = 0 /\ outcome = "sent"

(* A user is never done with one call.                                       *)
NextCall ==
  /\ outcome \in {"done", "failed", "refused", "unknown"}
  /\ request' \in Calls /\ carried' = request'.sends /\ reached' = 0 /\ outcome' = "sent"

Fits(route, call) ==
  /\ route.method = call.method /\ Len(route.path) = Len(call.path)
  /\ \A i \in DOMAIN route.path : route.path[i] \in {call.path[i], ID}

(* The first route that matches, in the order they were registered.          *)
Dispatched ==
  /\ outcome = "sent"
  /\ reached' = SelectInSeq(AppModule, LAMBDA route : Fits(route, request))
  /\ outcome' = IF reached' = 0 THEN "unknown" ELSE "routed"
  /\ UNCHANGED <<request, carried>>

Piped ==
  /\ outcome = "routed"
  /\ LET route == AppModule[reached] IN
       IF route.must \subseteq carried /\ route.numbers \cap request.texts = {}
         THEN carried' = carried \cap route.takes /\ outcome' = "piped"
         ELSE outcome' = "refused" /\ UNCHANGED carried
  /\ UNCHANGED <<request, reached>>

Handled ==
  /\ outcome = "piped"
  /\ outcome' = IF AppModule[reached].reads \subseteq carried THEN "done" ELSE "failed"
  /\ UNCHANGED <<request, carried, reached>>

CallNext == Dispatched \/ Piped \/ Handled \/ NextCall

CallSpec == CallInit /\ [][CallNext]_callVars

CallTypeOK ==
  /\ request \in Calls /\ carried \subseteq request.sends /\ reached \in 0..Len(AppModule)
  /\ outcome \in {"sent", "routed", "piped", "done", "failed", "refused", "unknown"}

-----------------------------------------------------------------------------
(* Properties.                                                               *)

(* A call is served: by the handler it means, with all it was sent.          *)
IsServed == outcome = "done" /\ AppModule[reached].to = request.means /\ carried = request.sends

(* The hooks the BFF does not serve.  Their page asks for a route there is   *)
(* none of; their amounts are text; a field is named otherwise or not sent;  *)
(* the class of the body is not decorated; the version is sent in the query  *)
(* or not at all; the handler takes no body.                                 *)
Unserved ==
  {"BroadcastDetailPage", "CommandPalette"} \cup {"useCreateEscrow", "useReleaseEscrow"}
  \cup {"useVoteOnDispute", "useCreateQuest", "useQuests", "useClaimStep"}
  \cup {"useStoreSecret", "encryptAndStore", "useUploadDealDocument", "useUpdateDocumentPolicy"}
  \cup {"useDeleteSecret", "deleteSecret", "useDeleteDealDocument"}
  \cup {"useFundEscrow", "useRaiseDispute"}

(* Save for those hooks, every call of the frontend is routed past the paths *)
(* that look like it to the handler it means, and all it sends gets through  *)
(* the checks and the whitelist.                                             *)
CallsAreServed ==
  outcome \notin {"sent", "routed", "piped"} => IsServed \/ request.by \in Unserved

(* The editor of a broadcast loads (test/manual/15-broadcasts.md:22), a vote *)
(* is recorded (14-escrow-deals.md:143), and a stored secret is listed       *)
(* (09-vault.md:68).                                                         *)
TestedCallsAreServed ==
  /\ outcome \notin {"sent", "routed", "piped"}
  /\ request.by \in {"BroadcastDetailPage", "useVoteOnDispute", "encryptAndStore"}
  => IsServed
=============================================================================
