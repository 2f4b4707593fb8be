----------------------------- MODULE PageCache -----------------------------
(* What a page of the frontend shows while its buttons write (frontend/src/  *)
(* lib/hooks, app/(dashboard), components).  A query is its key and the      *)
(* tables its endpoint reads; a mutation the tables its endpoint writes and  *)
(* the keys its hook invalidates when the answer comes, or the one it sets   *)
(* to the answer.  The id in a key is left out: a page has one.  Hooks no    *)
(* page mounts, pages whose buttons change nothing they show, and mutations  *)
(* that leave the page are left out.  The cache is that of @tanstack/query.  *)
EXTENDS Integers, Sequences, SequencesExt

CONSTANTS
  Pages,         \* the pages of this instance, a subset of Page
  MaxPresses,    \* bound: buttons pressed
  MaxReloads,    \* bound: returns to the window
  MaxPageFaults  \* bound: calls that fail, evictions that happen in time

Query(key, reads)             == [key |-> key, reads |-> reads]
Mutation(writes, invalidates) == [writes |-> writes, invalidates |-> invalidates, sets |-> {}]
Setting(writes, key)          == [writes |-> writes, invalidates |-> {}, sets |-> {key}]

(* first: nothing can be pressed before these have loaded; once: a button is *)
(* disabled while its mutation is under way; often: it is not.               *)
Screen(first, others, once, often) ==
  [first |-> first, others |-> others, once |-> once, often |-> often]

-----------------------------------------------------------------------------
(* The hooks.                                                                *)

UseDeals              == Query(<<"deals">>, {"deal"})
UseDeal               == Query(<<"deal">>, {"deal"})
UseDealRoomAccess     == Query(<<"deal-room-access">>, {"workspaceMember"})
UseDealDocuments      == Query(<<"deal-documents">>, {"dealDocument"})
UseEscrow             == Query(<<"escrow">>, {"escrow"})
UseProfiles           == Query(<<"profiles">>, {"profile"})
UseProfileSummary     == Query(<<"profile", "summary">>,
                               {"profile", "profileWallet", "walletBalance", "walletEvent",
                                "socialLink", "profileOrganization", "message"})
UseProfileOrganizations == Query(<<"profile", "organizations">>, {"profileOrganization"})
UseProfileDomains     == Query(<<"profile-domains">>, {"profileWallet"})
UseProfileWallets     == Query(<<"profile", "wallets">>, {"profileWallet"})
UseNetWorth           == Query(<<"profile", "net-worth">>, {"profileWallet"})
UseMessageHistory     == Query(<<"messaging", "history">>, {"message"})
UseSocialLinks        == Query(<<"social-links">>, {"socialLink"})
UseSegments           == Query(<<"segments">>, {"segment"})
UseSegment            == Query(<<"segment">>, {"segment", "segmentMembership"})
UseCampaigns          == Query(<<"campaigns">>, {"campaign"})
UseCampaign           == Query(<<"campaign">>, {"campaign"})
UseCampaignStats      == Query(<<"campaign-stats">>,
                               {"campaign", "segmentMembership", "workflowExecution", "workflowActionLog"})
UseOrganizations      == Query(<<"organizations">>, {"organization"})
UseOrganization       == Query(<<"organization">>, {"organization"})
UseOrganizationProfiles == Query(<<"organization", "profiles">>, {"profileOrganization"})
UseTickets            == Query(<<"tickets">>, {"ticket"})
UseWorkspace          == Query(<<"workspace">>, {"workspace"})
UseWorkspaceMembers   == Query(<<"workspace", "members">>, {"workspaceMember"})
UseCollectionWatchlist == Query(<<"workspace", "collection-watchlist">>, {"watchlist"})
UseWhaleThresholds    == Query(<<"workspace", "whale-thresholds">>, {"thresholds"})
UseWhaleAlerts        == Query(<<"workspace", "whale-alerts">>, {"notification"})
UseTopWhales          == Query(<<"workspace", "top-whales">>, {"walletBalance"})
UseAiConfig           == Query(<<"ai-config">>, {"workspaceAiConfig"})
UseGasSettings        == Query(<<"gas-config">>, {"workspaceGasConfig"})
UseVaultSecrets       == Query(<<"vault-secrets">>, {"vaultSecret"})
UseNotifications      == Query(<<"notifications">>, {"notification"})
UseUnreadCount        == Query(<<"notifications", "unread-count">>, {"notification"})

UseCreateDeal         == Mutation({"deal"}, {<<"deals">>})
UseUpdateDeal         == Mutation({"deal"}, {<<"deal">>, <<"deals">>})
UseUpdateDealStage    == Mutation({"deal"}, {<<"deal">>, <<"deals">>})
UseUploadDealDocument == Mutation({"dealDocument"}, {<<"deal-documents">>})
UseDeleteDealDocument == Mutation({"dealDocument"}, {<<"deal-documents">>})
UseUpdateDocumentPolicy == Mutation({"dealDocument"}, {<<"deal-documents">>})
UseCreateEscrow       == Mutation({"escrow"}, {<<"escrow">>})
UseFundEscrow         == Mutation({"escrow"}, {<<"escrow">>})
UseReleaseEscrow      == Mutation({"escrow"}, {<<"escrow">>})
UseRaiseDispute       == Mutation({"escrow"}, {<<"escrow">>})
UseVoteOnDispute      == Mutation({"escrow"}, {<<"escrow">>})
UseCreateProfile      == Mutation({"profile"}, {<<"profiles">>})
UseUpdateProfileTags  == Mutation({"profile"}, {<<"profile">>, <<"profiles">>})
UseSetPrimaryDomain   == Mutation({"profile"}, {<<"profile">>, <<"profile-domains">>, <<"profiles">>})
UseAddWallet          == Mutation({"profileWallet"}, {<<"profile", "wallets">>, <<"profile", "net-worth">>})
UseRemoveWallet       == Mutation({"profileWallet"}, {<<"profile", "wallets">>, <<"profile", "net-worth">>})
UseSendMessage        == Mutation({"message"}, {<<"messaging", "history">>})
UseUnlinkSocial       == Mutation({"socialLink"}, {<<"social-links">>})
UseUpdateSegment      == Mutation({"segment"}, {<<"segment">>, <<"segments">>})
UseRefreshSegment     == Mutation({"segmentMembership", "segment"}, {<<"segments">>})
UseCreateCampaign     == Mutation({"campaign"}, {<<"campaigns">>})
UseUpdateCampaign     == Mutation({"campaign"}, {<<"campaign">>, <<"campaigns">>})
UseStartCampaign      == Mutation({"campaign", "workflowExecution"},
                                  {<<"campaign">>, <<"campaign-stats">>, <<"campaigns">>})
UsePauseCampaign      == Mutation({"campaign"}, {<<"campaign">>, <<"campaigns">>})
UseCreateOrganization == Mutation({"organization"}, {<<"organizations">>})
UseUpdateOrganization == Mutation({"organization"}, {<<"organization">>, <<"organizations">>})
UseLinkProfile        == Mutation({"profileOrganization"},
                                  {<<"organization", "profiles">>, <<"organization">>})
UseUnlinkProfile      == Mutation({"profileOrganization"},
                                  {<<"organization", "profiles">>, <<"organization">>})
UseCreateTicket       == Mutation({"ticket"}, {<<"tickets">>})
UseUpdateTicket       == Mutation({"ticket"}, {<<"ticket">>, <<"tickets">>})
UseDeleteTicket       == Mutation({"ticket"}, {<<"tickets">>})
UseUpdateWorkspace    == Mutation({"workspace"}, {<<"workspaces">>, <<"workspace">>})
UseAddMember          == Mutation({"workspaceMember"}, {<<"workspace">>})
UseRemoveMember       == Mutation({"workspaceMember"}, {<<"workspace">>})
UseSetCollectionWatchlist == Setting({"watchlist"}, <<"workspace", "collection-watchlist">>)
UseSetWhaleThresholds == Setting({"thresholds"}, <<"workspace", "whale-thresholds">>)
UseUpdateAiConfig     == Mutation({"workspaceAiConfig"}, {<<"ai-config">>})
UseUpdateGasSettings  == Mutation({"workspaceGasConfig"}, {<<"gas-config">>})
StoreNote             == Mutation({"vaultSecret"}, {<<"vault-secrets">>})
DeleteNote            == Mutation({"vaultSecret"}, {<<"vault-secrets">>})
UseMarkRead           == Mutation({"notification"}, {<<"notifications">>, <<"notifications", "unread-count">>})
UseMarkAllRead        == Mutation({"notification"}, {<<"notifications">>, <<"notifications", "unread-count">>})

-----------------------------------------------------------------------------
(* The pages, with the dialogs and the tab that is open.                     *)

DealsPage          == Screen({UseDeals}, {UseProfiles}, {UseCreateDeal}, {UseUpdateDealStage})
CreateDealDialog   == Screen({}, {UseDeals, UseProfiles}, {UseCreateDeal}, {})
DealDetailPage     == Screen({UseDeal}, {UseDealRoomAccess}, {UseUpdateDeal}, {})
DealDocuments      == Screen({UseDeal, UseDealRoomAccess}, {UseDealDocuments},
                             {UseUploadDealDocument, UseUpdateDocumentPolicy}, {UseDeleteDealDocument})
EscrowTabContent   == Screen({UseDeal, UseDealRoomAccess, UseEscrow}, {}, {UseCreateEscrow},
                             {UseFundEscrow, UseReleaseEscrow, UseRaiseDispute, UseVoteOnDispute})
ProfilesPage       == Screen({UseProfiles}, {}, {UseCreateProfile}, {})
ProfileDetailPage  == Screen({UseProfileSummary},
                             {UseProfileOrganizations, UseMessageHistory, UseProfileDomains},
                             {UseUpdateProfileTags, UseSendMessage}, {UseSetPrimaryDomain})
WalletsTab         == Screen({UseProfileSummary},
                             {UseProfileOrganizations, UseProfileDomains, UseProfileWallets, UseNetWorth},
                             {UseAddWallet, UseRemoveWallet}, {})
SocialTab          == Screen({UseProfileSummary, UseSocialLinks},
                             {UseProfileOrganizations, UseProfileDomains}, {UseUnlinkSocial}, {})
SegmentDetailPage  == Screen({UseSegment}, {}, {UseUpdateSegment, UseRefreshSegment}, {})
CampaignsPage      == Screen({UseCampaigns}, {UseSegments}, {UseCreateCampaign}, {})
CampaignDetailPage == Screen({UseCampaign}, {UseCampaignStats},
                             {UseUpdateCampaign, UseStartCampaign, UsePauseCampaign}, {})
OrganizationsPage  == Screen({UseOrganizations}, {}, {UseCreateOrganization}, {})
OrganizationDetailPage == Screen({UseOrganization}, {UseOrganizationProfiles, UseProfiles},
                             {UseUpdateOrganization, UseLinkProfile}, {UseUnlinkProfile})
TicketsPage        == Screen({UseTickets}, {}, {}, {UseCreateTicket, UseUpdateTicket, UseDeleteTicket})
NewTicketDialog    == Screen({}, {UseTickets}, {}, {UseCreateTicket})
MembersSettingsPage == Screen({UseWorkspaceMembers}, {}, {UseAddMember, UseRemoveMember}, {})
InviteDialog       == Screen({}, {UseWorkspaceMembers}, {UseAddMember}, {})
WorkspaceSettingsPage == Screen({UseWorkspace}, {UseGasSettings}, {UseUpdateWorkspace}, {UseUpdateGasSettings})
AiConfigSection    == Screen({UseAiConfig}, {}, {}, {UseUpdateAiConfig})
CollectionWatchlistSection == Screen({UseWorkspace}, {UseCollectionWatchlist},
                             {UseUpdateWorkspace}, {UseSetCollectionWatchlist})
WhalesPage         == Screen({UseWhaleThresholds}, {UseWhaleAlerts, UseTopWhales}, {UseSetWhaleThresholds}, {})
VaultPage          == Screen({UseVaultSecrets}, {}, {StoreNote}, {DeleteNote})
VaultItemForm      == Screen({}, {UseVaultSecrets}, {StoreNote}, {})
Topbar             == Screen({UseNotifications}, {UseUnreadCount}, {}, {UseMarkRead, UseMarkAllRead})

Page == {DealsPage, CreateDealDialog, DealDetailPage, DealDocuments, EscrowTabContent, ProfilesPage,
         ProfileDetailPage, WalletsTab, SocialTab, SegmentDetailPage, CampaignsPage, CampaignDetailPage,
         OrganizationsPage, OrganizationDetailPage, TicketsPage, NewTicketDialog, MembersSettingsPage,
         InviteDialog, WorkspaceSettingsPage, AiConfigSection, CollectionWatchlistSection, WhalesPage,
         VaultPage, VaultItemForm, Topbar}

Buttons(p)   == p.once \cup p.often
Touches(q, m)  == q.reads \cap m.writes # {}

(* The queries of a page that a button of it can make old.                   *)
Watched(p)   == {q \in p.first \cup p.others : \E m \in Buttons(p) : Touches(q, m)}

(* GET /profiles/:id/summary answers from Redis for a minute.                *)
Kept(q) == q = UseProfileSummary

ASSUME PageAssumption ==
  /\ Pages \subseteq Page
  /\ MaxPresses \in Nat /\ MaxReloads \in Nat /\ MaxPageFaults \in Nat

VARIABLES
  page,
  shown,    \* per watched query: no data yet, or data that is current or old
  fetch,    \* its request: none, on its way, or answered with such data
  press,    \* the buttons pressed: where the mutation is, and whether what it has set is still current
  copy,     \* what Redis keeps for the summary
  excused,  \* history: queries that may be old, see OldForCause
  reloads, pageFaults

pageVars == <<page, shown, fetch, press, copy, excused, reloads, pageFaults>>

Press == 1..MaxPresses

PageTypeOK ==
  /\ page \in Pages /\ excused \subseteq Watched(page)
  /\ shown \in [Watched(page) -> {"nothing", "current", "old"}]
  /\ fetch \in [Watched(page) -> {"idle", "asked", "current", "old"}]
  /\ press \in [Press -> [at : {"free"}]
        \cup [at : {"sent", "answered"}, by : Buttons(page), current : BOOLEAN] \cup [at : {"over"}]]
  /\ copy \in {"nothing", "current", "old"}
  /\ reloads \in Nat /\ pageFaults \in Nat

PageInit ==
  /\ page \in Pages
  /\ shown = [q \in Watched(page) |-> "nothing"]
  /\ fetch = [q \in Watched(page) |-> "asked"]
  /\ press = [i \in Press |-> [at |-> "free"]]
  /\ copy = "nothing" /\ excused = {} /\ reloads = 0 /\ pageFaults = 0

-----------------------------------------------------------------------------
(* Queries.                                                                  *)

Fails == pageFaults < MaxPageFaults /\ pageFaults' = pageFaults + 1

Reply(q) ==
  /\ fetch[q] = "asked"
  /\ \/ /\ Kept(q) /\ copy # "nothing"
        /\ fetch' = [fetch EXCEPT ![q] = copy] /\ UNCHANGED copy
     \/ /\ Kept(q) => copy = "nothing"
        /\ fetch' = [fetch EXCEPT ![q] = "current"]
        /\ copy' = IF Kept(q) THEN "current" ELSE copy
  /\ UNCHANGED <<page, shown, press, excused, reloads, pageFaults>>

Arrives(q) ==
  /\ fetch[q] \in {"current", "old"}
  /\ shown' = [shown EXCEPT ![q] = fetch[q]]
  /\ fetch' = [fetch EXCEPT ![q] = "idle"]
  /\ UNCHANGED <<page, press, copy, excused, reloads, pageFaults>>

FetchFails(q) ==
  /\ fetch[q] # "idle" /\ shown[q] # "nothing" /\ Fails
  /\ fetch' = [fetch EXCEPT ![q] = "idle"] /\ excused' = excused \cup {q}
  /\ UNCHANGED <<page, shown, press, copy, reloads>>

(* The user returns to the window or to the page.  A summary is not fetched  *)
(* again within half a minute.                                               *)
Return ==
  /\ reloads < MaxReloads /\ reloads' = reloads + 1
  /\ \E some \in SUBSET {q \in Watched(page) : fetch[q] = "idle"} :
       /\ {q \in Watched(page) : fetch[q] = "idle" /\ ~Kept(q)} \subseteq some
       /\ fetch' = [q \in Watched(page) |-> IF q \in some THEN "asked" ELSE fetch[q]]
       /\ excused' = excused \ some
  /\ UNCHANGED <<page, shown, press, copy, pageFaults>>

CopyExpires ==
  /\ copy # "nothing" /\ Fails /\ copy' = "nothing"
  /\ UNCHANGED <<page, shown, fetch, press, excused, reloads>>

-----------------------------------------------------------------------------
(* Mutations.                                                                *)

PressButton(i, m) ==
  /\ press[i].at = "free" /\ \A j \in Press : j < i => press[j].at # "free"
  /\ \A q \in page.first \cap Watched(page) : shown[q] # "nothing"
  /\ m \in page.once => ~\E j \in Press : press[j].at \in {"sent", "answered"} /\ press[j].by = m
  /\ press' = [press EXCEPT ![i] = [at |-> "sent", by |-> m, current |-> TRUE]]
  /\ UNCHANGED <<page, shown, fetch, copy, excused, reloads, pageFaults>>

Aged(data, q, m) == IF data = "current" /\ Touches(q, m) THEN "old" ELSE data

(* The endpoint writes: whatever has read its tables before is old.          *)
Written(i) ==
  /\ press[i].at = "sent"
  /\ LET m == press[i].by IN
       /\ shown' = [q \in Watched(page) |-> Aged(shown[q], q, m)]
       /\ fetch' = [q \in Watched(page) |-> Aged(fetch[q], q, m)]
       /\ copy' = Aged(copy, UseProfileSummary, m)
       /\ press' = [j \in Press |->
            CASE j = i -> [press[i] EXCEPT !.at = "answered"]
              [] press[j].at = "answered" /\ press[j].by = m -> [press[j] EXCEPT !.current = FALSE]
              [] OTHER -> press[j]]
  /\ UNCHANGED <<page, excused, reloads, pageFaults>>

(* Slip: only the very key is invalidated.                                   *)
HitByName(m) == {q \in Watched(page) : q.key \in m.invalidates}

Hit(m) == {q \in Watched(page) : \E k \in m.invalidates : IsPrefix(k, q.key)}

(* The buttons whose hook leaves a query of their page as it was.  Of the    *)
(* statistics, which hold the campaign's status, the page shows the size of  *)
(* the segment only.                                                         *)
Gaps == {<<UseRefreshSegment, UseSegment>>, <<UseAddWallet, UseProfileDomains>>,
         <<UseRemoveWallet, UseProfileDomains>>, <<UseUpdateCampaign, UseCampaignStats>>,
         <<UsePauseCampaign, UseCampaignStats>>}

(* A query that has data is cancelled and fetched again; one that still has  *)
(* none keeps the request it waits for.  To set the data cancels nothing.    *)
Succeeds(i) ==
  /\ press[i].at = "answered"
  /\ press' = [press EXCEPT ![i] = [at |-> "over"]]
  /\ LET m == press[i].by
         again == {q \in Hit(m) : shown[q] # "nothing" \/ fetch[q] = "idle"}
         set   == {q \in Watched(page) : q.key \in m.sets} IN
       /\ fetch' = [q \in Watched(page) |-> IF q \in again THEN "asked" ELSE fetch[q]]
       /\ shown' = [q \in Watched(page) |->
            IF q \in set THEN IF press[i].current THEN "current" ELSE "old" ELSE shown[q]]
       /\ excused' = (excused \ again) \cup (Hit(m) \ again)
                       \cup {q \in set : fetch[q] = "old" \/ ~press[i].current}
                       \cup {q \in Watched(page) : <<m, q>> \in Gaps}
  /\ UNCHANGED <<page, copy, reloads, pageFaults>>

MutationFails(i) ==
  /\ press[i].at \in {"sent", "answered"} /\ Fails
  /\ press' = [press EXCEPT ![i] = [at |-> "over"]]
  /\ excused' = excused \cup {q \in Watched(page) : press[i].at = "answered" /\ Touches(q, press[i].by)}
  /\ UNCHANGED <<page, shown, fetch, copy, reloads>>

PageNext ==
  \/ Return \/ CopyExpires
  \/ \E q \in Watched(page) : Reply(q) \/ Arrives(q) \/ FetchFails(q)
  \/ \E i \in Press :
       \/ Written(i) \/ Succeeds(i) \/ MutationFails(i)
       \/ \E m \in Buttons(page) : PressButton(i, m)

PageSpec == PageInit /\ [][PageNext]_pageVars

-----------------------------------------------------------------------------
(* Properties.                                                               *)

AtRest ==
  /\ \A q \in Watched(page) : fetch[q] = "idle"
  /\ \A i \in Press : press[i].at \in {"free", "over"}

(* Once nothing is under way, everything a page shows is what the server     *)
(* has after its buttons, whichever of them were pressed and in whatever     *)
(* order the answers came; save for the known gaps, a call that has failed,  *)
(* an answer that was on its way when the data was set or first asked for,   *)
(* and the summary, which Redis answers.                                     *)
OldForCause ==
  AtRest => \A q \in Watched(page) : shown[q] = "old" => q \in excused \/ Kept(q)
=============================================================================
