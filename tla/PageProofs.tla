----------------------------- MODULE PageProofs -----------------------------
(***************************************************************************)
(* Proofs about what members see: the data of a page after its buttons, for *)
(* any page and any number of presses, reloads and failures, the calls of   *)
(* the frontend on their way, the rules of a segment, for any form,         *)
(* workspace and rule, and the chain legs, for any operation and answer.    *)
(***************************************************************************)
EXTENDS PageCache, ApiCalls, ChainCalls, SegmentRules, FiniteSetTheorems, SequenceTheorems,
        NaturalsInduction, WellFoundedInduction, TLAPS

-----------------------------------------------------------------------------
(* Pages.  Every button renews what its page shows of the tables it        *)
(* writes: its hook invalidates a prefix of the key or sets the data.      *)

LEMMA SelfPrefix ==
  /\ \A a : IsPrefix(<<a>>, <<a>>)
  /\ \A a, b : IsPrefix(<<a, b>>, <<a, b>>)
  /\ \A a, b : IsPrefix(<<a>>, <<a, b>>)
BY DEF IsPrefix

Reaches(m, q) == \E k \in m.invalidates : IsPrefix(k, q.key)
Renews(m, q) == Reaches(m, q) \/ q.key \in m.sets \/ <<m, q>> \in Gaps \/ Kept(q)
Linked(p) == \A m \in Buttons(p), q \in p.first \cup p.others : Touches(q, m) => Renews(m, q)

LEMMA PagesLinked == \A p \in Page : Linked(p)
<1> USE DEF Linked, Renews, Reaches, Touches, Buttons, Gaps, Kept, UseProfileSummary,
            Screen, Query, Mutation, Setting
<1>1. Linked(DealsPage)
  BY SelfPrefix DEF DealsPage, UseDeals, UseProfiles, UseCreateDeal,
     UseUpdateDealStage
<1>2. Linked(CreateDealDialog)
  BY SelfPrefix DEF CreateDealDialog, UseDeals, UseProfiles, UseCreateDeal
<1>3. Linked(DealDetailPage)
  BY SelfPrefix DEF DealDetailPage, UseDeal, UseDealRoomAccess, UseUpdateDeal
<1>4. Linked(DealDocuments)
  BY SelfPrefix DEF DealDocuments, UseDeal, UseDealRoomAccess, UseDealDocuments,
     UseUploadDealDocument, UseUpdateDocumentPolicy, UseDeleteDealDocument
<1>5. Linked(EscrowTabContent)
  BY SelfPrefix DEF EscrowTabContent, UseDeal, UseDealRoomAccess, UseEscrow,
     UseCreateEscrow, UseFundEscrow, UseReleaseEscrow, UseRaiseDispute,
     UseVoteOnDispute
<1>6. Linked(ProfilesPage)
  BY SelfPrefix DEF ProfilesPage, UseProfiles, UseCreateProfile
<1>7. Linked(ProfileDetailPage)
  BY SelfPrefix DEF ProfileDetailPage, UseProfileOrganizations, UseMessageHistory,
     UseProfileDomains, UseUpdateProfileTags, UseSendMessage, UseSetPrimaryDomain
<1>8. Linked(WalletsTab)
  BY SelfPrefix DEF WalletsTab, UseProfileOrganizations, UseProfileDomains,
     UseProfileWallets, UseNetWorth, UseAddWallet, UseRemoveWallet
<1>9. Linked(SocialTab)
  BY SelfPrefix DEF SocialTab, UseSocialLinks, UseProfileOrganizations,
     UseProfileDomains, UseUnlinkSocial
<1>10. Linked(SegmentDetailPage)
  BY SelfPrefix DEF SegmentDetailPage, UseSegment, UseUpdateSegment, UseRefreshSegment
<1>11. Linked(CampaignsPage)
  BY SelfPrefix DEF CampaignsPage, UseCampaigns, UseSegments, UseCreateCampaign
<1>12. Linked(CampaignDetailPage)
  BY SelfPrefix DEF CampaignDetailPage, UseCampaign, UseCampaignStats,
     UseUpdateCampaign, UseStartCampaign, UsePauseCampaign
<1>13. Linked(OrganizationsPage)
  BY SelfPrefix DEF OrganizationsPage, UseOrganizations, UseCreateOrganization
<1>14. Linked(OrganizationDetailPage)
  BY SelfPrefix DEF OrganizationDetailPage, UseOrganization, UseOrganizationProfiles,
     UseProfiles, UseUpdateOrganization, UseLinkProfile, UseUnlinkProfile
<1>15. Linked(TicketsPage)
  BY SelfPrefix DEF TicketsPage, UseTickets, UseCreateTicket, UseUpdateTicket,
     UseDeleteTicket
<1>16. Linked(NewTicketDialog)
  BY SelfPrefix DEF NewTicketDialog, UseTickets, UseCreateTicket
<1>17. Linked(MembersSettingsPage)
  <2>1. IsPrefix(<<"workspace">>, <<"workspace", "members">>)
    BY SelfPrefix
  <2> QED
    BY <2>1 DEF MembersSettingsPage, UseWorkspaceMembers, UseAddMember,
       UseRemoveMember
<1>18. Linked(InviteDialog)
  <2>1. IsPrefix(<<"workspace">>, <<"workspace", "members">>)
    BY SelfPrefix
  <2> QED
    BY <2>1 DEF InviteDialog, UseWorkspaceMembers, UseAddMember
<1>19. Linked(WorkspaceSettingsPage)
  BY SelfPrefix DEF WorkspaceSettingsPage, UseWorkspace, UseGasSettings,
     UseUpdateWorkspace, UseUpdateGasSettings
<1>20. Linked(AiConfigSection)
  BY SelfPrefix DEF AiConfigSection, UseAiConfig, UseUpdateAiConfig
<1>21. Linked(CollectionWatchlistSection)
  BY SelfPrefix DEF CollectionWatchlistSection, UseWorkspace, UseCollectionWatchlist,
     UseUpdateWorkspace, UseSetCollectionWatchlist
<1>22. Linked(WhalesPage)
  BY SelfPrefix DEF WhalesPage, UseWhaleThresholds, UseWhaleAlerts, UseTopWhales,
     UseSetWhaleThresholds
<1>23. Linked(VaultPage)
  BY SelfPrefix DEF VaultPage, UseVaultSecrets, StoreNote, DeleteNote
<1>24. Linked(VaultItemForm)
  BY SelfPrefix DEF VaultItemForm, UseVaultSecrets, StoreNote
<1>25. Linked(Topbar)
  BY SelfPrefix DEF Topbar, UseNotifications, UseUnreadCount, UseMarkRead,
     UseMarkAllRead
<1> HIDE DEF Linked
<1> QED
  BY <1>1, <1>2, <1>3, <1>4, <1>5, <1>6, <1>7, <1>8, <1>9, <1>10, <1>11, <1>12, <1>13,
     <1>14, <1>15, <1>16, <1>17, <1>18, <1>19, <1>20, <1>21, <1>22, <1>23, <1>24,
     <1>25 DEF Page

Presses ==
  [at : {"free"}] \cup [at : {"sent", "answered"}, by : Buttons(page), current : BOOLEAN]
  \cup [at : {"over"}]

PageTypes ==
  /\ page \in Pages
  /\ shown \in [Watched(page) -> {"nothing", "current", "old"}]
  /\ fetch \in [Watched(page) -> {"idle", "asked", "current", "old"}]
  /\ press \in [Press -> Presses]
  /\ copy \in {"nothing", "current", "old"}

\* What will stay old unless a mutation that was answered renews it.
Dirty(q) == fetch[q] = "old" \/ (fetch[q] = "idle" /\ shown[q] = "old")
Renewing(q) == \E i \in Press : press[i].at = "answered" /\ Touches(q, press[i].by)

DirtyForCause == \A q \in Watched(page) : Dirty(q) => q \in excused \/ Kept(q) \/ Renewing(q)

PageInv == PageTypes /\ DirtyForCause

\* A button that was pressed is over, or written and then answered.
LEMMA PressAtHand ==
  ASSUME PageTypes, NEW i \in Press
  PROVE  /\ press[i].at \in {"sent", "answered"} =>
              /\ press[i] \in [at : {"sent", "answered"}, by : Buttons(page), current : BOOLEAN]
              /\ press[i].by \in Buttons(page)
         /\ [at |-> "over"] \in Presses
         /\ \A m \in Buttons(page) : [at |-> "sent", by |-> m, current |-> TRUE] \in Presses
BY DEF PageTypes, Presses

LEMMA PressButtonKeeps ==
  ASSUME PageInv, NEW i \in Press, NEW m \in Buttons(page), PressButton(i, m)
  PROVE  PageInv'
<1> USE DEF PageInv
<1> DEFINE n == [at |-> "sent", by |-> m, current |-> TRUE]
<1>1. /\ page' = page /\ shown' = shown /\ fetch' = fetch /\ copy' = copy
      /\ excused' = excused
  BY DEF PressButton
<1>2. press' = [press EXCEPT ![i] = n] /\ press[i].at = "free"
  BY DEF PressButton
<1>3. n \in Presses
  BY PressAtHand
<1> HIDE DEF n
<1>4. press' \in [Press -> Presses]
  BY <1>2, <1>3 DEF PageTypes
<1>5. PageTypes'
  BY <1>1, <1>4 DEF PageTypes, Presses
<1>6. \A j \in Press : press[j].at = "answered" => press'[j] = press[j]
  BY <1>2 DEF PageTypes
<1>7. DirtyForCause'
  BY <1>1, <1>6 DEF DirtyForCause, Dirty, Renewing
<1> QED
  BY <1>5, <1>7

LEMMA WrittenKeeps ==
  ASSUME PageInv, NEW i \in Press, Written(i)
  PROVE  PageInv'
<1> USE DEF PageInv
<1> DEFINE W == Watched(page)
           m == press[i].by
           a == [press[i] EXCEPT !.at = "answered"]
<1>1. page' = page /\ excused' = excused /\ press[i].at = "sent"
  BY DEF Written
<1>2. press[i] \in [at : {"sent", "answered"}, by : Buttons(page), current : BOOLEAN]
  BY <1>1, PressAtHand
<1>3. a \in Presses /\ a.at = "answered" /\ a.by = m
  BY <1>2 DEF Presses
<1>4. press' = [j \in Press |-> CASE j = i -> a
                  [] press[j].at = "answered" /\ press[j].by = m -> [press[j] EXCEPT !.current = FALSE]
                  [] OTHER -> press[j]]
  BY DEF Written
<1> HIDE DEF a
<1>5. ASSUME NEW j \in Press, press[j].at = "answered"
      PROVE  /\ [press[j] EXCEPT !.current = FALSE] \in Presses
             /\ [press[j] EXCEPT !.current = FALSE].at = "answered"
             /\ [press[j] EXCEPT !.current = FALSE].by = press[j].by
  <2>1. press[j] \in [at : {"sent", "answered"}, by : Buttons(page), current : BOOLEAN]
    BY <1>5, PressAtHand
  <2> QED
    BY <1>5, <2>1 DEF Presses
<1>6. press'[i] = a
  BY <1>1, <1>4
<1>7. ASSUME NEW j \in Press, j # i
      PROVE  /\ press'[j] \in Presses
             /\ press[j].at = "answered" => press'[j].at = "answered" /\ press'[j].by = press[j].by
  <2>1. CASE press[j].at = "answered" /\ press[j].by = m
    <3>1. press'[j] = [press[j] EXCEPT !.current = FALSE]
      BY <1>4, <1>7, <2>1
    <3> QED
      BY <1>5, <2>1, <3>1
  <2>2. CASE ~(press[j].at = "answered" /\ press[j].by = m)
    <3>1. press'[j] = press[j]
      BY <1>4, <1>7, <2>2
    <3> QED
      BY <3>1 DEF PageTypes
  <2> QED
    BY <2>1, <2>2
<1>8. press' \in [Press -> Presses]
  <2>1. \A j \in Press : press'[j] \in Presses
    BY <1>3, <1>6, <1>7
  <2> QED
    BY <1>4, <2>1
<1>9. /\ shown' = [q \in W |-> Aged(shown[q], q, m)]
      /\ fetch' = [q \in W |-> Aged(fetch[q], q, m)]
      /\ copy' = Aged(copy, UseProfileSummary, m)
  BY DEF Written
<1> HIDE DEF W, m
<1>10. /\ shown' \in [W -> {"nothing", "current", "old"}]
       /\ fetch' \in [W -> {"idle", "asked", "current", "old"}]
       /\ copy' \in {"nothing", "current", "old"}
  BY <1>9 DEF PageTypes, Aged, W
<1>11. PageTypes'
  BY <1>1, <1>8, <1>10 DEF PageTypes, Presses, W
<1>12. ASSUME NEW q \in W, Dirty(q)' PROVE q \in excused \/ Kept(q) \/ Renewing(q)'
  <2>1. CASE Touches(q, m)
    <3>1. press'[i].at = "answered" /\ Touches(q, press'[i].by)
      BY <1>3, <1>6, <2>1
    <3> QED
      BY <3>1 DEF Renewing
  <2>2. CASE ~Touches(q, m)
    <3>1. shown'[q] = shown[q] /\ fetch'[q] = fetch[q]
      BY <1>9, <2>2 DEF Aged
    <3>2. Dirty(q)
      BY <1>12, <3>1 DEF Dirty
    <3>3. q \in excused \/ Kept(q) \/ Renewing(q)
      BY <3>2 DEF DirtyForCause, W
    <3>4. Renewing(q) => Renewing(q)'
      BY <1>1, <1>7 DEF Renewing
    <3> QED
      BY <3>3, <3>4
  <2> QED
    BY <2>1, <2>2
<1>13. DirtyForCause'
  BY <1>1, <1>12 DEF DirtyForCause, W
<1> QED
  BY <1>11, <1>13

LEMMA SucceedsKeeps ==
  ASSUME PageInv, Pages \subseteq Page, NEW i \in Press, Succeeds(i)
  PROVE  PageInv'
<1> USE DEF PageInv
<1> DEFINE W == Watched(page)
           m == press[i].by
           H == Hit(m)
           again == {q \in H : shown[q] # "nothing" \/ fetch[q] = "idle"}
           set == {q \in W : q.key \in m.sets}
           data == IF press[i].current THEN "current" ELSE "old"
           over == [at |-> "over"]
<1>1. page' = page /\ copy' = copy /\ press[i].at = "answered" /\ m \in Buttons(page)
  BY PressAtHand DEF Succeeds
<1>2. press' = [press EXCEPT ![i] = over]
  BY DEF Succeeds
<1>3. over \in Presses /\ over.at = "over"
  BY PressAtHand
<1>4. /\ fetch' = [q \in W |-> IF q \in again THEN "asked" ELSE fetch[q]]
      /\ shown' = [q \in W |-> IF q \in set THEN data ELSE shown[q]]
      /\ excused' = (excused \ again) \cup (H \ again)
                      \cup {q \in set : fetch[q] = "old" \/ ~press[i].current}
                      \cup {q \in W : <<m, q>> \in Gaps}
  BY DEF Succeeds
<1>5. \A q \in W : Touches(q, m) => q \in H \/ q \in set \/ <<m, q>> \in Gaps \/ Kept(q)
  <2>1. Linked(page)
    BY PagesLinked DEF PageTypes
  <2>2. W \subseteq page.first \cup page.others
    BY DEF Watched
  <2>3. \A q \in W : Touches(q, m) => Renews(m, q)
    BY <1>1, <2>1, <2>2 DEF Linked
  <2>4. \A q \in W : Reaches(m, q) => q \in H
    BY DEF Reaches, Hit
  <2> HIDE DEF W, H, m
  <2> QED
    BY <2>3, <2>4 DEF Renews
<1>6. data \in {"current", "old"} /\ (press[i].current => data = "current")
  OBVIOUS
<1>7. \A q \in again : q \in H /\ (shown[q] # "nothing" \/ fetch[q] = "idle")
  OBVIOUS
<1> HIDE DEF H, again, data, over
<1>8. press' \in [Press -> Presses]
  BY <1>2, <1>3 DEF PageTypes
<1>9. fetch' \in [W -> {"idle", "asked", "current", "old"}]
  BY <1>4 DEF PageTypes
<1>10. shown' \in [W -> {"nothing", "current", "old"}]
  BY <1>4, <1>6 DEF PageTypes
<1>11. PageTypes'
  BY <1>1, <1>8, <1>9, <1>10 DEF PageTypes, Presses
<1>12. \A j \in Press : j # i => press'[j] = press[j]
  BY <1>2 DEF PageTypes
<1>13. ASSUME NEW q \in W, Dirty(q)' PROVE q \in excused' \/ Kept(q) \/ Renewing(q)'
  <2>1. q \notin again /\ fetch'[q] = fetch[q]
    <3>1. q \in again => fetch'[q] = "asked"
      BY <1>4
    <3> QED
      BY <1>4, <1>13, <3>1 DEF Dirty
  <2>2. SUFFICES ASSUME q \notin excused', ~Kept(q) PROVE Renewing(q)'
    OBVIOUS
  <2>3. /\ q \notin excused /\ q \notin H /\ <<m, q>> \notin Gaps
        /\ q \in set => fetch[q] # "old" /\ press[i].current
    BY <1>4, <2>1, <2>2
  <2>4. q \notin set
    <3>1. q \in set => shown'[q] = "current"
      BY <1>4, <1>6, <2>3
    <3> QED
      BY <1>13, <2>1, <2>3, <3>1 DEF Dirty
  <2>5. shown'[q] = shown[q]
    BY <1>4, <2>4
  <2>6. Renewing(q)
    BY <1>13, <2>1, <2>2, <2>3, <2>5 DEF Dirty, DirtyForCause
  <2>7. PICK j \in Press : press[j].at = "answered" /\ Touches(q, press[j].by)
    BY <2>6 DEF Renewing
  <2>8. j # i
    BY <1>5, <2>2, <2>3, <2>4, <2>7
  <2>9. press'[j] = press[j]
    BY <1>12, <2>8
  <2> QED
    BY <2>7, <2>9 DEF Renewing
<1>14. DirtyForCause'
  BY <1>1, <1>13 DEF DirtyForCause
<1> QED
  BY <1>11, <1>14

LEMMA MutationFailsKeeps ==
  ASSUME PageInv, NEW i \in Press, MutationFails(i)
  PROVE  PageInv'
<1> USE DEF PageInv
<1> DEFINE over == [at |-> "over"]
<1>1. page' = page /\ shown' = shown /\ fetch' = fetch /\ copy' = copy
  BY DEF MutationFails
<1>2. /\ press' = [press EXCEPT ![i] = over]
      /\ excused' = excused \cup {q \in Watched(page) : press[i].at = "answered" /\ Touches(q, press[i].by)}
  BY DEF MutationFails
<1>3. over \in Presses
  BY PressAtHand
<1> HIDE DEF over
<1>4. press' \in [Press -> Presses]
  BY <1>2, <1>3 DEF PageTypes
<1>5. PageTypes'
  BY <1>1, <1>4 DEF PageTypes, Presses
<1>6. \A j \in Press : j # i => press'[j] = press[j]
  BY <1>2 DEF PageTypes
<1>7. ASSUME NEW q \in Watched(page), Dirty(q)' PROVE q \in excused' \/ Kept(q) \/ Renewing(q)'
  <2>1. q \in excused \/ Kept(q) \/ Renewing(q)
    BY <1>1, <1>7 DEF Dirty, DirtyForCause
  <2>2. Renewing(q) => q \in excused' \/ Renewing(q)'
    BY <1>2, <1>6 DEF Renewing
  <2> QED
    BY <1>2, <2>1, <2>2
<1>8. DirtyForCause'
  BY <1>1, <1>7 DEF DirtyForCause
<1> QED
  BY <1>5, <1>8

\* The steps of the queries change no button.
LEMMA QueriesKeep ==
  ASSUME PageInv, page' = page, press' = press,
         shown' \in [Watched(page) -> {"nothing", "current", "old"}],
         fetch' \in [Watched(page) -> {"idle", "asked", "current", "old"}],
         copy' \in {"nothing", "current", "old"},
         \A q \in Watched(page) : /\ Dirty(q)' => q \in excused' \/ Kept(q) \/ Dirty(q)
                                  /\ q \in excused => q \in excused' \/ ~Dirty(q)'
  PROVE  PageInv'
<1> USE DEF PageInv
<1>1. PageTypes'
  BY DEF PageTypes, Presses
<1>2. ASSUME NEW q \in Watched(page), Dirty(q)' PROVE q \in excused' \/ Kept(q) \/ Renewing(q)'
  <2>1. SUFFICES ASSUME q \notin excused', ~Kept(q) PROVE Renewing(q)'
    OBVIOUS
  <2>2. Dirty(q) /\ q \notin excused
    BY <1>2, <2>1
  <2>3. Renewing(q)
    BY <2>1, <2>2 DEF DirtyForCause
  <2> QED
    BY <2>3 DEF Renewing
<1>3. DirtyForCause'
  BY <1>2 DEF DirtyForCause
<1> QED
  BY <1>1, <1>3

LEMMA QueryStepKeeps ==
  ASSUME PageInv, NEW q \in Watched(page), Reply(q) \/ Arrives(q) \/ FetchFails(q)
  PROVE  PageInv'
<1> USE DEF PageInv
<1>1. page' = page /\ press' = press
  BY DEF Reply, Arrives, FetchFails
<1>2. CASE Reply(q)
  <2>1. shown' = shown /\ excused' = excused /\ fetch[q] = "asked"
    BY <1>2 DEF Reply
  <2>2. PICK d \in {"current", "old"} : /\ fetch' = [fetch EXCEPT ![q] = d]
                                        /\ d = "current" \/ Kept(q)
    BY <1>2 DEF Reply, PageTypes
  <2>3. copy' \in {"nothing", "current", "old"}
    BY <1>2 DEF Reply, PageTypes
  <2>4. fetch' \in [Watched(page) -> {"idle", "asked", "current", "old"}]
    BY <2>2 DEF PageTypes
  <2>5. shown' \in [Watched(page) -> {"nothing", "current", "old"}]
    BY <2>1 DEF PageTypes
  <2>6. \A r \in Watched(page) : Dirty(r)' => r \in excused' \/ Kept(r) \/ Dirty(r)
    BY <2>1, <2>2 DEF Dirty, PageTypes
  <2> QED
    BY <1>1, <2>1, <2>3, <2>4, <2>5, <2>6, QueriesKeep
<1>3. CASE Arrives(q)
  <2>1. /\ copy' = copy /\ excused' = excused /\ fetch[q] \in {"current", "old"}
        /\ shown' = [shown EXCEPT ![q] = fetch[q]] /\ fetch' = [fetch EXCEPT ![q] = "idle"]
    BY <1>3 DEF Arrives
  <2>2. fetch' \in [Watched(page) -> {"idle", "asked", "current", "old"}]
    BY <2>1 DEF PageTypes
  <2>3. shown' \in [Watched(page) -> {"nothing", "current", "old"}]
    BY <2>1 DEF PageTypes
  <2>4. \A r \in Watched(page) : Dirty(r)' => Dirty(r)
    BY <2>1 DEF Dirty, PageTypes
  <2>5. copy' \in {"nothing", "current", "old"}
    BY <2>1 DEF PageTypes
  <2> QED
    BY <1>1, <2>1, <2>2, <2>3, <2>4, <2>5, QueriesKeep
<1>4. CASE FetchFails(q)
  <2>1. /\ copy' = copy /\ excused' = excused \cup {q} /\ shown' = shown
        /\ fetch' = [fetch EXCEPT ![q] = "idle"]
    BY <1>4 DEF FetchFails
  <2>2. fetch' \in [Watched(page) -> {"idle", "asked", "current", "old"}]
    BY <2>1 DEF PageTypes
  <2>3. shown' \in [Watched(page) -> {"nothing", "current", "old"}]
    BY <2>1 DEF PageTypes
  <2>4. \A r \in Watched(page) : Dirty(r)' => r \in excused' \/ Dirty(r)
    BY <2>1 DEF Dirty, PageTypes
  <2>5. copy' \in {"nothing", "current", "old"}
    BY <2>1 DEF PageTypes
  <2> QED
    BY <1>1, <2>1, <2>2, <2>3, <2>4, <2>5, QueriesKeep
<1> QED
  BY <1>2, <1>3, <1>4

LEMMA ReturnKeeps ==
  ASSUME PageInv, Return
  PROVE  PageInv'
<1> USE DEF PageInv
<1>1. page' = page /\ press' = press /\ shown' = shown /\ copy' = copy
  BY DEF Return
<1>2. PICK some \in SUBSET {q \in Watched(page) : fetch[q] = "idle"} :
         /\ fetch' = [q \in Watched(page) |-> IF q \in some THEN "asked" ELSE fetch[q]]
         /\ excused' = excused \ some
  BY DEF Return
<1>3. fetch' \in [Watched(page) -> {"idle", "asked", "current", "old"}]
  BY <1>2 DEF PageTypes
<1>4. shown' \in [Watched(page) -> {"nothing", "current", "old"}] /\ copy' \in {"nothing", "current", "old"}
  BY <1>1 DEF PageTypes
<1>5. \A q \in Watched(page) : q \in some => ~Dirty(q)'
  BY <1>2 DEF Dirty
<1>6. \A q \in Watched(page) : q \notin some => (Dirty(q)' => Dirty(q)) /\ (q \in excused => q \in excused')
  BY <1>1, <1>2 DEF Dirty
<1>7. \A q \in Watched(page) : /\ Dirty(q)' => q \in excused' \/ Kept(q) \/ Dirty(q)
                               /\ q \in excused => q \in excused' \/ ~Dirty(q)'
  BY <1>5, <1>6
<1> QED
  BY <1>1, <1>3, <1>4, <1>7, QueriesKeep

LEMMA PageInitInv == PageInit => PageInv
<1> SUFFICES ASSUME PageInit PROVE PageInv
  OBVIOUS
<1>1. PageTypes
  BY DEF PageInit, PageTypes, Presses
<1>2. DirtyForCause
  BY DEF PageInit, DirtyForCause, Dirty
<1> QED
  BY <1>1, <1>2 DEF PageInv

LEMMA PageNextInv == PageInv /\ [PageNext]_pageVars => PageInv'
<1> SUFFICES ASSUME PageInv, [PageNext]_pageVars PROVE PageInv'
  OBVIOUS
<1>1. Pages \subseteq Page
  BY PageAssumption DEF PageAssumption
<1>2. ASSUME CopyExpires PROVE PageInv'
  <2>1. /\ page' = page /\ press' = press /\ shown' = shown /\ fetch' = fetch
        /\ excused' = excused /\ copy' = "nothing"
    BY <1>2 DEF CopyExpires
  <2>2. PageTypes'
    BY <2>1 DEF PageInv, PageTypes, Presses
  <2>3. DirtyForCause'
    BY <2>1 DEF PageInv, DirtyForCause, Dirty, Renewing
  <2> QED
    BY <2>2, <2>3 DEF PageInv
<1>3. ASSUME UNCHANGED pageVars PROVE PageInv'
  <2>1. /\ page' = page /\ press' = press /\ shown' = shown /\ fetch' = fetch
        /\ excused' = excused /\ copy' = copy
    BY <1>3 DEF pageVars
  <2>2. PageTypes'
    BY <2>1 DEF PageInv, PageTypes, Presses
  <2>3. DirtyForCause'
    BY <2>1 DEF PageInv, DirtyForCause, Dirty, Renewing
  <2> QED
    BY <2>2, <2>3 DEF PageInv
<1> QED
  BY <1>1, <1>2, <1>3, PressButtonKeeps, WrittenKeeps, SucceedsKeeps, MutationFailsKeeps,
     QueryStepKeeps, ReturnKeeps DEF PageNext

\* Once nothing is under way, everything a page shows is what the server has
\* after its buttons, whichever of them were pressed, however often, and in
\* whatever order the answers came, save for the causes the history notes.
THEOREM PagesAreFresh == PageSpec => []OldForCause
<1>1. PageInv => OldForCause
  <2> SUFFICES ASSUME PageInv, AtRest, NEW q \in Watched(page), shown[q] = "old"
               PROVE  q \in excused \/ Kept(q)
    BY DEF OldForCause
  <2>1. Dirty(q)
    BY DEF AtRest, Dirty
  <2>2. ~Renewing(q)
    BY DEF AtRest, Renewing
  <2> QED
    BY <2>1, <2>2 DEF PageInv, DirtyForCause
<1> QED
  BY <1>1, PageInitInv, PageNextInv, PTL DEF PageSpec

\* What the proof of PagesAreFresh does not look at.
PageRest == excused \subseteq Watched(page) /\ reloads \in Nat /\ pageFaults \in Nat

LEMMA PageRestNext ==
  ASSUME PageRest, [PageNext]_pageVars
  PROVE  PageRest'
<1>1. page' = page
  BY DEF PageNext, Return, CopyExpires, Reply, Arrives, FetchFails, Written, Succeeds, MutationFails,
     PressButton, pageVars
<1>2. Watched(page)' = Watched(page)
  BY <1>1
<1>3. reloads' \in {reloads, reloads + 1} /\ pageFaults' \in {pageFaults, pageFaults + 1}
  BY DEF PageNext, Return, CopyExpires, Reply, Arrives, FetchFails, Written, Succeeds, MutationFails,
     PressButton, Fails, pageVars
<1>4. reloads' \in Nat /\ pageFaults' \in Nat
  BY <1>3 DEF PageRest
<1>5. excused' \subseteq Watched(page)
  <2>1. ASSUME excused' = excused PROVE excused' \subseteq Watched(page)
    BY <2>1 DEF PageRest
  <2>2. CASE UNCHANGED pageVars
    BY <2>1, <2>2 DEF pageVars
  <2>3. ASSUME Return PROVE excused' \subseteq Watched(page)
    <3>1. excused' \subseteq excused
      BY <2>3 DEF Return
    <3> QED BY <3>1 DEF PageRest
  <2>4. ASSUME CopyExpires PROVE excused' = excused
    BY <2>4 DEF CopyExpires
  <2>5. ASSUME NEW q \in Watched(page), Reply(q) \/ Arrives(q) PROVE excused' = excused
    BY <2>5 DEF Reply, Arrives
  <2>6. ASSUME NEW q \in Watched(page), FetchFails(q) PROVE excused' \subseteq Watched(page)
    <3>1. excused' = excused \cup {q}
      BY <2>6 DEF FetchFails
    <3> QED BY <3>1 DEF PageRest
  <2>7. ASSUME NEW i \in Press, Written(i) PROVE excused' = excused
    BY <2>7 DEF Written
  <2>8. ASSUME NEW i \in Press, Succeeds(i) PROVE excused' \subseteq Watched(page)
    <3> DEFINE m == press[i].by
               again == {q \in Hit(m) : shown[q] # "nothing" \/ fetch[q] = "idle"}
               set   == {q \in Watched(page) : q.key \in m.sets}
               late  == {q \in set : fetch[q] = "old" \/ ~press[i].current}
               gap   == {q \in Watched(page) : <<m, q>> \in Gaps}
    <3>1. excused' = (excused \ again) \cup (Hit(m) \ again) \cup late \cup gap
      BY <2>8 DEF Succeeds
    <3>2. Hit(m) \subseteq Watched(page)
      BY DEF Hit
    <3>3. late \subseteq Watched(page) /\ gap \subseteq Watched(page)
      OBVIOUS
    <3> HIDE DEF again, set, late, gap, m
    <3> QED BY <3>1, <3>2, <3>3 DEF PageRest
  <2>9. ASSUME NEW i \in Press, MutationFails(i) PROVE excused' \subseteq Watched(page)
    <3> DEFINE late == {q \in Watched(page) : press[i].at = "answered" /\ Touches(q, press[i].by)}
    <3>1. excused' = excused \cup late
      BY <2>9 DEF MutationFails
    <3>2. late \subseteq Watched(page)
      OBVIOUS
    <3> HIDE DEF late
    <3> QED BY <3>1, <3>2 DEF PageRest
  <2>10. ASSUME NEW i \in Press, NEW m \in Buttons(page), PressButton(i, m) PROVE excused' = excused
    BY <2>10 DEF PressButton
  <2> QED BY <2>1, <2>2, <2>3, <2>4, <2>5, <2>6, <2>7, <2>8, <2>9, <2>10 DEF PageNext
<1> QED BY <1>2, <1>4, <1>5 DEF PageRest

LEMMA PageTyped ==
  /\ PageInit => PageRest
  /\ PageInv /\ PageRest => PageTypeOK
<1>1. PageInit => PageRest
  BY DEF PageInit, PageRest
<1>2. PageInv /\ PageRest => PageTypeOK
  BY DEF PageInv, PageTypes, Presses, PageRest, PageTypeOK
<1> QED BY <1>1, <1>2

\* What a page shows, fetches and has pressed keeps its types.
THEOREM PageTypesKept == PageSpec => []PageTypeOK
BY PageInitInv, PageNextInv, PageTyped, PageRestNext, PTL DEF PageSpec

-----------------------------------------------------------------------------
(* Calls.  The routes of the application are one list, put together from     *)
(* those of the controllers, and the router's answer is a place in it.       *)
Listed(s) == \E S : s \in Seq(S)

LEMMA ListsJoin == \A s, t : Listed(s) /\ Listed(t) => Listed(s \o t)
<1> SUFFICES ASSUME NEW s, NEW t, NEW S, s \in Seq(S), NEW T, t \in Seq(T)
             PROVE  \E U : s \o t \in Seq(U)
  BY DEF Listed
<1> DEFINE U == S \cup T
<1>1. s \in Seq(U) /\ t \in Seq(U)
  OBVIOUS
<1>2. s \o t \in Seq(U)
  BY <1>1, ConcatProperties
<1> QED BY <1>2

LEMMA TuplesListed ==
  /\ \A e1 : Listed(<<e1>>)
  /\ \A e1, e2 : Listed(<<e1, e2>>)
  /\ \A e1, e2, e3 : Listed(<<e1, e2, e3>>)
  /\ \A e1, e2, e3, e4 : Listed(<<e1, e2, e3, e4>>)
  /\ \A e1, e2, e3, e4, e5 : Listed(<<e1, e2, e3, e4, e5>>)
  /\ \A e1, e2, e3, e4, e5, e6 : Listed(<<e1, e2, e3, e4, e5, e6>>)
  /\ \A e1, e2, e3, e4, e5, e6, e7 : Listed(<<e1, e2, e3, e4, e5, e6, e7>>)
  /\ \A e1, e2, e3, e4, e5, e6, e7, e8 : Listed(<<e1, e2, e3, e4, e5, e6, e7, e8>>)
  /\ \A e1, e2, e3, e4, e5, e6, e7, e8, e9 : Listed(<<e1, e2, e3, e4, e5, e6, e7, e8, e9>>)
  /\ \A e1, e2, e3, e4, e5, e6, e7, e8, e9, e10, e11, e12 : Listed(<<e1, e2, e3, e4, e5, e6, e7, e8, e9, e10, e11, e12>>)
<1>1. ASSUME NEW e1 PROVE Listed(<<e1>>)
  <2>1. <<e1>> \in Seq({e1})
    OBVIOUS
  <2> QED BY <2>1 DEF Listed
<1>2. ASSUME NEW e1, NEW e2 PROVE Listed(<<e1, e2>>)
  <2>1. <<e1, e2>> \in Seq({e1, e2})
    OBVIOUS
  <2> QED BY <2>1 DEF Listed
<1>3. ASSUME NEW e1, NEW e2, NEW e3 PROVE Listed(<<e1, e2, e3>>)
  <2>1. <<e1, e2, e3>> \in Seq({e1, e2, e3})
    OBVIOUS
  <2> QED BY <2>1 DEF Listed
<1>4. ASSUME NEW e1, NEW e2, NEW e3, NEW e4 PROVE Listed(<<e1, e2, e3, e4>>)
  <2>1. <<e1, e2, e3, e4>> \in Seq({e1, e2, e3, e4})
    OBVIOUS
  <2> QED BY <2>1 DEF Listed
<1>5. ASSUME NEW e1, NEW e2, NEW e3, NEW e4, NEW e5 PROVE Listed(<<e1, e2, e3, e4, e5>>)
  <2>1. <<e1, e2, e3, e4, e5>> \in Seq({e1, e2, e3, e4, e5})
    OBVIOUS
  <2> QED BY <2>1 DEF Listed
<1>6. ASSUME NEW e1, NEW e2, NEW e3, NEW e4, NEW e5, NEW e6 PROVE Listed(<<e1, e2, e3, e4, e5, e6>>)
  <2>1. <<e1, e2, e3, e4, e5, e6>> \in Seq({e1, e2, e3, e4, e5, e6})
    OBVIOUS
  <2> QED BY <2>1 DEF Listed
<1>7. ASSUME NEW e1, NEW e2, NEW e3, NEW e4, NEW e5, NEW e6, NEW e7 PROVE Listed(<<e1, e2, e3, e4, e5, e6, e7>>)
  <2>1. <<e1, e2, e3, e4, e5, e6, e7>> \in Seq({e1, e2, e3, e4, e5, e6, e7})
    OBVIOUS
  <2> QED BY <2>1 DEF Listed
<1>8. ASSUME NEW e1, NEW e2, NEW e3, NEW e4, NEW e5, NEW e6, NEW e7, NEW e8 PROVE Listed(<<e1, e2, e3, e4, e5, e6, e7, e8>>)
  <2>1. <<e1, e2, e3, e4, e5, e6, e7, e8>> \in Seq({e1, e2, e3, e4, e5, e6, e7, e8})
    OBVIOUS
  <2> QED BY <2>1 DEF Listed
<1>9. ASSUME NEW e1, NEW e2, NEW e3, NEW e4, NEW e5, NEW e6, NEW e7, NEW e8, NEW e9 PROVE Listed(<<e1, e2, e3, e4, e5, e6, e7, e8, e9>>)
  <2>1. <<e1, e2, e3, e4, e5, e6, e7, e8, e9>> \in Seq({e1, e2, e3, e4, e5, e6, e7, e8, e9})
    OBVIOUS
  <2> QED BY <2>1 DEF Listed
<1>10. ASSUME NEW e1, NEW e2, NEW e3, NEW e4, NEW e5, NEW e6, NEW e7, NEW e8, NEW e9, NEW e10, NEW e11, NEW e12 PROVE Listed(<<e1, e2, e3, e4, e5, e6, e7, e8, e9, e10, e11, e12>>)
  <2>1. <<e1, e2, e3, e4, e5, e6, e7, e8, e9, e10, e11, e12>> \in Seq({e1, e2, e3, e4, e5, e6, e7, e8, e9, e10, e11, e12})
    OBVIOUS
  <2> QED BY <2>1 DEF Listed
<1> QED BY <1>1, <1>2, <1>3, <1>4, <1>5, <1>6, <1>7, <1>8, <1>9, <1>10

LEMMA ControllersListed ==
  /\ Listed(AuthController)
  /\ Listed(AuthSessions)
  /\ Listed(SponsorController)
  /\ Listed(GasConfigController)
  /\ Listed(WorkspaceController)
  /\ Listed(WorkspaceSettings)
  /\ Listed(ProfileController)
  /\ Listed(ProfileWallets)
  /\ Listed(WalletClusterController)
  /\ Listed(OrganizationController)
  /\ Listed(DealController)
  /\ Listed(DealDocumentRoutes)
  /\ Listed(EscrowController)
  /\ Listed(SaftTemplateController)
  /\ Listed(SegmentController)
  /\ Listed(LookalikeController)
  /\ Listed(AnalyticsController)
  /\ Listed(VitalsController)
  /\ Listed(CampaignController)
  /\ Listed(CampaignTriggers)
  /\ Listed(VaultController)
  /\ Listed(MessagingController)
  /\ Listed(NotificationController)
  /\ Listed(TicketController)
  /\ Listed(WebhookController)
  /\ Listed(AgentController)
  /\ Listed(AnalystController)
  /\ Listed(ContentController)
  /\ Listed(ActionController)
  /\ Listed(YieldOptimizerController)
  /\ Listed(SocialLinkController)
  /\ Listed(BroadcastController)
  /\ Listed(QuestController)
  /\ Listed(GdprController)
<1>1. Listed(AuthController)
  BY TuplesListed, Zenon DEF AuthController
<1>2. Listed(AuthSessions)
  BY TuplesListed, Zenon DEF AuthSessions
<1>3. Listed(SponsorController)
  BY TuplesListed, Zenon DEF SponsorController
<1>4. Listed(GasConfigController)
  BY TuplesListed, Zenon DEF GasConfigController
<1>5. Listed(WorkspaceController)
  BY TuplesListed, Zenon DEF WorkspaceController
<1>6. Listed(WorkspaceSettings)
  BY TuplesListed, Zenon DEF WorkspaceSettings
<1>7. Listed(ProfileController)
  BY TuplesListed, Zenon DEF ProfileController
<1>8. Listed(ProfileWallets)
  BY TuplesListed, Zenon DEF ProfileWallets
<1>9. Listed(WalletClusterController)
  BY TuplesListed, Zenon DEF WalletClusterController
<1>10. Listed(OrganizationController)
  BY TuplesListed, Zenon DEF OrganizationController
<1>11. Listed(DealController)
  BY TuplesListed, Zenon DEF DealController
<1>12. Listed(DealDocumentRoutes)
  BY TuplesListed, Zenon DEF DealDocumentRoutes
<1>13. Listed(EscrowController)
  BY TuplesListed, Zenon DEF EscrowController
<1>14. Listed(SaftTemplateController)
  BY TuplesListed, Zenon DEF SaftTemplateController
<1>15. Listed(SegmentController)
  BY TuplesListed, Zenon DEF SegmentController
<1>16. Listed(LookalikeController)
  BY TuplesListed, Zenon DEF LookalikeController
<1>17. Listed(AnalyticsController)
  BY TuplesListed, Zenon DEF AnalyticsController
<1>18. Listed(VitalsController)
  BY TuplesListed, Zenon DEF VitalsController
<1>19. Listed(CampaignController)
  BY TuplesListed, Zenon DEF CampaignController
<1>20. Listed(CampaignTriggers)
  BY TuplesListed, Zenon DEF CampaignTriggers
<1>21. Listed(VaultController)
  BY TuplesListed, Zenon DEF VaultController
<1>22. Listed(MessagingController)
  BY TuplesListed, Zenon DEF MessagingController
<1>23. Listed(NotificationController)
  BY TuplesListed, Zenon DEF NotificationController
<1>24. Listed(TicketController)
  BY TuplesListed, Zenon DEF TicketController
<1>25. Listed(WebhookController)
  BY TuplesListed, Zenon DEF WebhookController
<1>26. Listed(AgentController)
  BY TuplesListed, Zenon DEF AgentController
<1>27. Listed(AnalystController)
  BY TuplesListed, Zenon DEF AnalystController
<1>28. Listed(ContentController)
  BY TuplesListed, Zenon DEF ContentController
<1>29. Listed(ActionController)
  BY TuplesListed, Zenon DEF ActionController
<1>30. Listed(YieldOptimizerController)
  BY TuplesListed, Zenon DEF YieldOptimizerController
<1>31. Listed(SocialLinkController)
  BY TuplesListed, Zenon DEF SocialLinkController
<1>32. Listed(BroadcastController)
  BY TuplesListed, Zenon DEF BroadcastController
<1>33. Listed(QuestController)
  BY TuplesListed, Zenon DEF QuestController
<1>34. Listed(GdprController)
  BY TuplesListed, Zenon DEF GdprController
<1> QED
  BY <1>1, <1>2, <1>3, <1>4, <1>5, <1>6, <1>7, <1>8, <1>9, <1>10, <1>11, <1>12, <1>13, <1>14, <1>15, <1>16, <1>17, <1>18, <1>19, <1>20, <1>21, <1>22, <1>23, <1>24, <1>25, <1>26, <1>27, <1>28, <1>29, <1>30, <1>31, <1>32, <1>33, <1>34

LEMMA AppListed == Listed(AppModule)
<1>1. Listed(ProfileModule)
  BY ControllersListed, ListsJoin DEF ProfileModule
<1>2. Listed(AuthController \o AuthSessions \o SponsorController \o GasConfigController \o
            WorkspaceController \o WorkspaceSettings)
  BY <1>1, ControllersListed, ListsJoin
<1>3. Listed(AuthController \o AuthSessions \o SponsorController \o GasConfigController \o
            WorkspaceController \o WorkspaceSettings \o ProfileModule \o
            OrganizationController \o DealController \o DealDocumentRoutes \o
            EscrowController \o SaftTemplateController)
  BY <1>1, <1>2, ControllersListed, ListsJoin
<1>4. Listed(AuthController \o AuthSessions \o SponsorController \o GasConfigController \o
            WorkspaceController \o WorkspaceSettings \o ProfileModule \o
            OrganizationController \o DealController \o DealDocumentRoutes \o
            EscrowController \o SaftTemplateController \o SegmentController \o
            LookalikeController \o AnalyticsController \o VitalsController \o
            CampaignController \o CampaignTriggers)
  BY <1>1, <1>3, ControllersListed, ListsJoin
<1>5. Listed(AuthController \o AuthSessions \o SponsorController \o GasConfigController \o
            WorkspaceController \o WorkspaceSettings \o ProfileModule \o
            OrganizationController \o DealController \o DealDocumentRoutes \o
            EscrowController \o SaftTemplateController \o SegmentController \o
            LookalikeController \o AnalyticsController \o VitalsController \o
            CampaignController \o CampaignTriggers \o VaultController \o MessagingController
            \o NotificationController \o TicketController \o WebhookController \o
            AgentController)
  BY <1>1, <1>4, ControllersListed, ListsJoin
<1>6. Listed(AuthController \o AuthSessions \o SponsorController \o GasConfigController \o
            WorkspaceController \o WorkspaceSettings \o ProfileModule \o
            OrganizationController \o DealController \o DealDocumentRoutes \o
            EscrowController \o SaftTemplateController \o SegmentController \o
            LookalikeController \o AnalyticsController \o VitalsController \o
            CampaignController \o CampaignTriggers \o VaultController \o MessagingController
            \o NotificationController \o TicketController \o WebhookController \o
            AgentController \o AnalystController \o ContentController \o ActionController \o
            YieldOptimizerController \o SocialLinkController \o BroadcastController)
  BY <1>1, <1>5, ControllersListed, ListsJoin
<1>7. Listed(AuthController \o AuthSessions \o SponsorController \o GasConfigController \o
            WorkspaceController \o WorkspaceSettings \o ProfileModule \o
            OrganizationController \o DealController \o DealDocumentRoutes \o
            EscrowController \o SaftTemplateController \o SegmentController \o
            LookalikeController \o AnalyticsController \o VitalsController \o
            CampaignController \o CampaignTriggers \o VaultController \o MessagingController
            \o NotificationController \o TicketController \o WebhookController \o
            AgentController \o AnalystController \o ContentController \o ActionController \o
            YieldOptimizerController \o SocialLinkController \o BroadcastController \o
            QuestController \o GdprController)
  BY <1>1, <1>6, ControllersListed, ListsJoin
<1> QED BY <1>7 DEF AppModule

\* A nonempty set of naturals has a least element.
LEMMA LeastPlace ==
  ASSUME NEW T \in SUBSET Nat, T # {}
  PROVE  Min(T) \in T
<1>1. IsWellFoundedOn(OpToRel(<, Nat), Nat)
  BY NatLessThanWellFounded
<1>2. PICK x \in T : \A y \in T : ~(<<y, x>> \in OpToRel(<, Nat))
  BY <1>1, WFMin, Zenon
<1>3. \A y \in T : ~(y < x)
  BY <1>2 DEF OpToRel
<1>4. \A y \in T : x =< y
  BY <1>3
<1> QED BY <1>4 DEF Min

LEMMA RouteIsAPlace ==
  ASSUME Dispatched
  PROVE  reached' \in 0..Len(AppModule)
<1> DEFINE I == {i \in 1..Len(AppModule) : Fits(AppModule[i], request)}
<1>1. Len(AppModule) \in Nat
  BY AppListed, LenProperties DEF Listed
<1>2. I \subseteq 1..Len(AppModule)
  OBVIOUS
<1>3. reached' = IF I # {} THEN Min(I) ELSE 0
  BY DEF Dispatched, SelectInSeq
<1> HIDE DEF I
<1>4. CASE I # {}
  <2>1. Min(I) \in I
    BY <1>1, <1>2, <1>4, LeastPlace
  <2>2. reached' \in I
    BY <1>3, <1>4, <2>1
  <2> QED BY <1>1, <1>2, <2>2
<1>5. CASE I = {}
  <2>1. reached' = 0
    BY <1>3, <1>5
  <2> QED BY <1>1, <2>1
<1> QED BY <1>4, <1>5

LEMMA CallTyped ==
  /\ CallInit => CallTypeOK
  /\ CallTypeOK /\ [CallNext]_callVars => CallTypeOK'
<1>1. Len(AppModule) \in Nat
  BY AppListed, LenProperties DEF Listed
<1>2. CallInit => CallTypeOK
  BY <1>1 DEF CallInit, CallTypeOK
<1>3. ASSUME CallTypeOK, [CallNext]_callVars PROVE CallTypeOK'
  <2>1. CASE NextCall
    BY <1>1, <1>3, <2>1 DEF NextCall, CallTypeOK
  <2>2. CASE Dispatched
    <3>1. reached' \in 0..Len(AppModule) /\ request' = request /\ carried' = carried
      BY <2>2, RouteIsAPlace DEF Dispatched
    <3>2. outcome' \in {"unknown", "routed"}
      BY <2>2 DEF Dispatched
    <3> QED BY <1>3, <3>1, <3>2 DEF CallTypeOK
  <2>3. CASE Piped
    <3>1. request' = request /\ reached' = reached /\ outcome' \in {"piped", "refused"}
      BY <2>3 DEF Piped
    <3>2. carried' \subseteq carried
      BY <2>3 DEF Piped
    <3> QED BY <1>3, <3>1, <3>2 DEF CallTypeOK
  <2>4. CASE Handled
    <3>1. /\ request' = request /\ reached' = reached /\ carried' = carried
          /\ outcome' \in {"done", "failed"}
      BY <2>4 DEF Handled
    <3> QED BY <1>3, <3>1 DEF CallTypeOK
  <2>5. CASE UNCHANGED callVars
    BY <1>3, <2>5 DEF callVars, CallTypeOK
  <2> QED BY <1>3, <2>1, <2>2, <2>3, <2>4, <2>5 DEF CallNext
<1> QED BY <1>2, <1>3

\* A call of the frontend is one of its hooks', carries no more than it was sent
\* with, and is given to a route there is.
THEOREM CallTypesKept == CallSpec => []CallTypeOK
BY CallTyped, PTL DEF CallSpec

-----------------------------------------------------------------------------
(* The rules of a segment.                                                 *)

\* A condition of the form, whatever was chosen in it so far, and a group.
Chosen(c) ==
  /\ c.field = "" => c.operator = ""
  /\ c.operator # "" => c.operator \in OperatorsOf[c.field]
  /\ c.typed \subseteq {c.field}
Sign == {"", "gt", "gte", "lt", "lte", "equals", "contains", "holds", "not_holds", "has_role", "not_has_role"}
Draft == [field : RuleField \cup {""}, operator : Sign, typed : SUBSET (RuleField \cup {""})]
Condition == {c \in Draft : Chosen(c)}
Group == [logic : {"AND", "OR"}, conditions : Seq(Condition)]

SavedByClient == rules.from = "client" =>
  /\ rules.logic \in {"AND", "OR"}
  /\ rules.conditions # {} /\ IsFiniteSet(rules.conditions) /\ rules.conditions \subseteq Clause

RulesInv ==
  /\ form \in Seq(Group) /\ Len(form) >= 1 /\ edits \in 0..MaxEdits
  /\ rules.from \in {"nobody", "form", "client"}
  /\ rules.from = "nobody" => rules = NoRules
  /\ SavedFits
  /\ SavedByClient

-----------------------------------------------------------------------------
\* The fields a condition may have; none of them, and no operator, is blank.
LEMMA Fields ==
  /\ RuleField = {"tier", "engagement_score", "created_after", "tags", "wallet_chain",
                  "nft_collection", "token_balance", "discord_role"}
  /\ "" \notin RuleField
  /\ \A f \in RuleField : OperatorsOf[f] \subseteq Sign \ {""}
  /\ OperatorsOf["tags"] = {"contains"}
  /\ OperatorsOf["token_balance"] = OrderedBy
  /\ OperatorsOf["discord_role"] = {"has_role", "not_has_role"}
<1>1. RuleField = {"tier", "engagement_score", "created_after", "tags", "wallet_chain",
                   "nft_collection", "token_balance", "discord_role"}
  BY DEF RuleField, OperatorsOf, Number, Text
<1>2. ASSUME NEW f \in RuleField
      PROVE  OperatorsOf[f] =
               CASE f \in {"tier", "engagement_score"} -> OrderedBy \cup {"equals"}
                 [] f = "created_after"  -> {"gte"}
                 [] f = "tags"           -> {"contains"}
                 [] f = "wallet_chain"   -> {"equals"}
                 [] f = "nft_collection" -> {"holds", "not_holds"}
                 [] f = "token_balance"  -> OrderedBy
                 [] f = "discord_role"   -> {"has_role", "not_has_role"}
  BY DEF OperatorsOf, RuleField
<1>3. ASSUME NEW f \in RuleField PROVE OperatorsOf[f] \subseteq Sign \ {""}
  BY <1>1, <1>2 DEF OrderedBy, Sign
<1>4. OperatorsOf["tags"] = {"contains"}
  BY <1>1, <1>2
<1>6. OperatorsOf["token_balance"] = OrderedBy
  BY <1>1, <1>2
<1>5. OperatorsOf["discord_role"] = {"has_role", "not_has_role"}
  BY <1>1, <1>2
<1> QED
  BY <1>1, <1>3, <1>4, <1>5, <1>6

LEMMA InCondition ==
  ASSUME NEW c
  PROVE  c \in Condition <=> /\ c \in Draft
                             /\ Chosen(c)
BY DEF Condition

\* Leaving out one of a sequence leaves the others.
LEMMA OmitKeeps ==
  ASSUME NEW S, NEW s \in Seq(S), NEW i \in DOMAIN s
  PROVE  Omit(s, i) \in Seq(S) /\ Len(Omit(s, i)) = Len(s) - 1
<1>1. i \in 1..Len(s) /\ Len(s) \in Nat
  OBVIOUS
<1>2. SubSeq(s, 1, i - 1) \in Seq(S) /\ Len(SubSeq(s, 1, i - 1)) = i - 1
  <2>1. SubSeq(s, 1, i - 1) \in Seq(S)
    BY <1>1, SubSeqProperties
  <2> QED
    BY <1>1, <2>1, SubSeqProperties
<1>3. SubSeq(s, i + 1, Len(s)) \in Seq(S) /\ Len(SubSeq(s, i + 1, Len(s))) = Len(s) - i
  <2>1. SubSeq(s, i + 1, Len(s)) \in Seq(S)
    BY <1>1, SubSeqProperties
  <2> QED
    BY <1>1, <2>1, SubSeqProperties
<1>4. Omit(s, i) \in Seq(S) /\ Len(Omit(s, i)) = (i - 1) + (Len(s) - i)
  BY <1>2, <1>3, ConcatProperties DEF Omit
<1> QED
  BY <1>1, <1>4

\* A group and a condition of the form, and either of them changed.
LEMMA GroupAtHand ==
  ASSUME RulesInv, NEW g \in DOMAIN form
  PROVE  /\ form[g] \in Group /\ form[g].conditions \in Seq(Condition)
         /\ \A n \in Group : [form EXCEPT ![g] = n] \in Seq(Group) /\ Len([form EXCEPT ![g] = n]) = Len(form)
<1>1. form \in Seq(Group)
  BY DEF RulesInv
<1>2. form[g] \in Group
  BY <1>1, ElementOfSeq
<1>3. \A n \in Group : [form EXCEPT ![g] = n] \in Seq(Group) /\ Len([form EXCEPT ![g] = n]) = Len(form)
  BY <1>1, ExceptSeq
<1> QED
  BY <1>2, <1>3 DEF Group

LEMMA ConditionAtHand ==
  ASSUME RulesInv, NEW g \in DOMAIN form, NEW c \in DOMAIN form[g].conditions, NEW n \in Condition
  PROVE  /\ form[g].conditions[c] \in Condition
         /\ [form EXCEPT ![g].conditions[c] = n] \in Seq(Group)
         /\ Len([form EXCEPT ![g].conditions[c] = n]) = Len(form)
<1> DEFINE cs == [form[g].conditions EXCEPT ![c] = n]
           m == [form[g] EXCEPT !.conditions = cs]
           changed == [form EXCEPT ![g].conditions[c] = n]
<1>1. form[g] \in Group /\ form[g].conditions \in Seq(Condition)
  BY GroupAtHand
<1>2. cs \in Seq(Condition)
  BY <1>1
<1>3. m \in Group
  BY <1>1, <1>2 DEF Group
<1>4. changed = [form EXCEPT ![g] = m]
  OBVIOUS
<1>5. form[g].conditions[c] \in Condition
  BY <1>1, ElementOfSeq
<1> HIDE DEF m, cs, changed
<1>6. changed \in Seq(Group) /\ Len(changed) = Len(form)
  BY <1>3, <1>4, GroupAtHand
<1> QED
  BY <1>5, <1>6 DEF changed

LEMMA EditedKeeps ==
  ASSUME RulesInv, NEW groups, Edited(groups), groups \in Seq(Group), Len(groups) >= 1
  PROVE  RulesInv'
BY RulesAssumption DEF RulesInv, Edited, SavedFits, SavedByClient

LEMMA BlankIsCondition ==
  Blank \in Condition /\ NewGroup \in Group
<1>1. Blank \in Condition
  <2>1. Blank \in Draft
    BY DEF Blank, Draft, Sign
  <2>2. Chosen(Blank)
    BY DEF Blank, Chosen
  <2> QED
    BY <2>1, <2>2, InCondition
<1> QED
  BY <1>1 DEF NewGroup, Group

LEMMA FormKeeps ==
  ASSUME RulesInv, NEW g \in DOMAIN form,
         AddGroup \/ RemoveGroup(g) \/ AddCondition(g) \/ ToggleGroupLogic(g)
  PROVE  RulesInv'
<1>1. form \in Seq(Group) /\ Len(form) >= 1
  BY DEF RulesInv
<1>2. form[g] \in Group /\ form[g].conditions \in Seq(Condition)
  BY GroupAtHand
<1>3. CASE AddGroup
  <2>1. Append(form, NewGroup) \in Seq(Group) /\ Len(Append(form, NewGroup)) = Len(form) + 1
    BY <1>1, BlankIsCondition
  <2>2. Len(Append(form, NewGroup)) >= 1
    BY <1>1, <2>1
  <2> QED
    BY <1>3, <2>1, <2>2, EditedKeeps DEF AddGroup
<1>4. CASE RemoveGroup(g)
  <2>1. Omit(form, g) \in Seq(Group) /\ Len(Omit(form, g)) = Len(form) - 1
    BY <1>1, OmitKeeps
  <2> QED
    BY <1>1, <1>4, <2>1, EditedKeeps DEF RemoveGroup
<1>5. CASE AddCondition(g)
  <2> DEFINE cs == Append(form[g].conditions, Blank)
             n == [form[g] EXCEPT !.conditions = cs]
  <2>1. cs \in Seq(Condition)
    BY <1>2, BlankIsCondition
  <2>2. n \in Group
    BY <1>2, <2>1 DEF Group
  <2>3. Edited([form EXCEPT ![g] = n])
    BY <1>5 DEF AddCondition
  <2> HIDE DEF n
  <2> QED
    BY <1>1, <2>2, <2>3, GroupAtHand, EditedKeeps
<1>6. CASE ToggleGroupLogic(g)
  <2> DEFINE n == [form[g] EXCEPT !.logic = IF form[g].logic = "AND" THEN "OR" ELSE "AND"]
  <2>1. n \in Group
    BY <1>2 DEF Group
  <2>2. Edited([form EXCEPT ![g] = n])
    BY <1>6 DEF ToggleGroupLogic
  <2> HIDE DEF n
  <2> QED
    BY <1>1, <2>1, <2>2, GroupAtHand, EditedKeeps
<1> QED
  BY <1>3, <1>4, <1>5, <1>6

LEMMA ConditionsKeep ==
  ASSUME RulesInv, NEW g \in DOMAIN form, NEW c \in DOMAIN form[g].conditions,
         \/ RemoveCondition(g, c) \/ SelectField(g, c)
         \/ SelectOperator(g, c) \/ TypeValue(g, c)
  PROVE  RulesInv'
<1> DEFINE old == form[g].conditions[c]
<1>1. form \in Seq(Group) /\ Len(form) >= 1
  BY DEF RulesInv
<1>2. form[g] \in Group /\ form[g].conditions \in Seq(Condition)
  BY GroupAtHand
<1>3. old \in Draft /\ Chosen(old)
  BY ConditionAtHand, BlankIsCondition, InCondition
<1>4. CASE RemoveCondition(g, c)
  <2> DEFINE cs == Omit(form[g].conditions, c)
             n == [form[g] EXCEPT !.conditions = cs]
  <2>1. cs \in Seq(Condition)
    BY <1>2, OmitKeeps
  <2>2. n \in Group
    BY <1>2, <2>1 DEF Group
  <2>3. Edited([form EXCEPT ![g] = n])
    BY <1>4 DEF RemoveCondition
  <2> HIDE DEF n
  <2> QED
    BY <1>1, <2>2, <2>3, GroupAtHand, EditedKeeps
<1>5. ASSUME NEW f \in RuleField, Edited([form EXCEPT ![g].conditions[c] = WithField(old, f)])
      PROVE  RulesInv'
  <2>1. WithField(old, f) \in Condition
    <3>1. WithField(old, f) \in Draft
      BY DEF WithField, Draft, Sign
    <3>2. Chosen(WithField(old, f))
      BY Fields DEF WithField, Chosen
    <3> QED
      BY <3>1, <3>2, InCondition
  <2> QED
    BY <1>1, <1>5, <2>1, ConditionAtHand, EditedKeeps
<1>6. ASSUME old.field # "", NEW op \in OperatorsOf[old.field],
             Edited([form EXCEPT ![g].conditions[c].operator = op])
      PROVE  RulesInv'
  <2> DEFINE n == [old EXCEPT !.operator = op]
  <2>1. n \in Condition
    <3>1. old.field \in RuleField
      BY <1>3, <1>6 DEF Draft
    <3>2. op \in Sign
      BY <1>6, <3>1, Fields
    <3>3. n \in Draft /\ n.field = old.field /\ n.operator = op /\ n.typed = old.typed
      BY <1>3, <3>2 DEF Draft
    <3> HIDE DEF n
    <3>4. Chosen(n)
      BY <1>3, <1>6, <3>3 DEF Chosen
    <3> QED
      BY <3>3, <3>4, InCondition
  <2>2. Edited([form EXCEPT ![g].conditions[c] = n])
    BY <1>6
  <2> HIDE DEF n
  <2> QED
    BY <1>1, <2>1, <2>2, ConditionAtHand, EditedKeeps
<1>7. ASSUME Edited([form EXCEPT ![g].conditions[c].typed = {old.field}])
      PROVE  RulesInv'
  <2> DEFINE n == [old EXCEPT !.typed = {old.field}]
  <2>1. n \in Condition
    <3>1. n \in Draft /\ n.field = old.field /\ n.operator = old.operator /\ n.typed = {old.field}
      BY <1>3 DEF Draft
    <3> HIDE DEF n
    <3>2. Chosen(n)
      BY <1>3, <3>1 DEF Chosen
    <3> QED
      BY <3>1, <3>2, InCondition
  <2>2. Edited([form EXCEPT ![g].conditions[c] = n])
    BY <1>7
  <2> HIDE DEF n
  <2> QED
    BY <1>1, <2>1, <2>2, ConditionAtHand, EditedKeeps
<1> QED
  BY <1>4, <1>5, <1>6, <1>7 DEF SelectField, SelectOperator, TypeValue

LEMMA SavesKeep ==
  ASSUME RulesInv, SaveForm \/ SaveByClient
  PROVE  RulesInv'
<1>1. form' = form /\ edits' = edits
  BY DEF SaveForm, SaveByClient
<1>2. CASE SaveForm
  <2>1. rules' = [NoRules EXCEPT !.from = "form", !.groups = Cleaned]
    BY <1>2 DEF SaveForm
  <2>2. rules'.from = "form" /\ rules'.groups = Cleaned
    BY <2>1 DEF NoRules
  <2>3. ASSUME NEW g \in DOMAIN Cleaned
        PROVE  /\ DOMAIN Cleaned[g].conditions # {}
               /\ \A i \in DOMAIN Cleaned[g].conditions :
                    /\ Cleaned[g].conditions[i].operator \in OperatorsOf[Cleaned[g].conditions[i].field]
                    /\ Cleaned[g].conditions[i].typed \subseteq {Cleaned[g].conditions[i].field}
    <3> DEFINE K == Completed(form[g].conditions)
               cs == [i \in K |-> form[g].conditions[i]]
    <3>1. g \in DOMAIN form /\ K # {}
      BY <2>3 DEF Cleaned
    <3>2. Cleaned[g] = [form[g] EXCEPT !.conditions = cs]
      BY <2>3 DEF Cleaned
    <3>3. form[g] \in Group /\ form[g].conditions \in Seq(Condition)
      BY <3>1, GroupAtHand
    <3>4. Cleaned[g].conditions = cs
      BY <3>2, <3>3 DEF Group
    <3>5. ASSUME NEW i \in K
          PROVE  form[g].conditions[i].operator \in OperatorsOf[form[g].conditions[i].field]
                 /\ form[g].conditions[i].typed \subseteq {form[g].conditions[i].field}
      <4>1. i \in DOMAIN form[g].conditions /\ form[g].conditions[i].operator # ""
        BY <3>5 DEF Completed, Complete
      <4>2. form[g].conditions[i] \in Condition
        BY <3>3, <4>1, ElementOfSeq, LenProperties
      <4> QED
        BY <4>1, <4>2, InCondition DEF Chosen
    <3> HIDE DEF K
    <3> QED
      BY <3>1, <3>4, <3>5
  <2> HIDE DEF Cleaned
  <2>4. SavedFits'
    BY <2>2, <2>3 DEF SavedFits
  <2> QED
    BY <1>1, <2>2, <2>4 DEF RulesInv, SavedByClient
<1>3. CASE SaveByClient
  <2>1. PICK a \in Clause, b \in Clause, c \in Clause, logic \in {"AND", "OR"} :
          rules' = [NoRules EXCEPT !.from = "client", !.logic = logic, !.conditions = {a, b, c}]
    BY <1>3 DEF SaveByClient
  <2>2. /\ rules'.from = "client" /\ rules'.logic = logic /\ rules'.conditions = {a, b, c}
        /\ rules'.groups = <<>>
    BY <2>1 DEF NoRules
  <2>3. IsFiniteSet({a, b, c})
    <3>1. IsFiniteSet({a}) /\ {a, b, c} = ({a} \cup {b}) \cup {c}
      BY FS_Singleton
    <3>2. IsFiniteSet({a} \cup {b})
      BY <3>1, FS_AddElement
    <3> QED
      BY <3>1, <3>2, FS_AddElement
  <2>4. SavedFits'
    BY <2>2 DEF SavedFits
  <2>5. SavedByClient'
    BY <2>2, <2>3, <2>4 DEF SavedByClient
  <2> QED
    BY <1>1, <2>2, <2>4, <2>5 DEF RulesInv
<1> QED
  BY <1>2, <1>3

-----------------------------------------------------------------------------
\* What a client's condition asks for besides balances and roles.
LEMMA ClauseForms ==
  ASSUME NEW c \in Clause
  PROVE  /\ c.field = "tags" => c.operator = "contains"
         /\ c.field = "discord_role" => c.operator \in {"has_role", "not_has_role"}
<1>1. c.operator \in OperatorsOf[c.field]
  <2> DEFINE A(f, V) == {[field |-> f, operator |-> op, value |-> v] : op \in OperatorsOf[f], v \in V}
             X == UNION {A(f, Limits) : f \in Number}
             Y == UNION {A(f, Names) : f \in Text \cup {"nft_collection", "discord_role"}}
             Z == {[field |-> "token_balance", operator |-> op, value |-> [token |-> t, amount |-> n]] :
                      op \in OrderedBy, t \in Names, n \in Limits}
  <2>0. ASSUME NEW f, NEW V, c \in A(f, V) PROVE c.operator \in OperatorsOf[c.field]
    BY <2>0
  <2>1. CASE c \in X
    <3>1. PICK f \in Number : c \in A(f, Limits)
      BY <2>1
    <3> QED
      BY <2>0, <3>1
  <2>2. CASE c \in Y
    <3>1. PICK f \in Text \cup {"nft_collection", "discord_role"} : c \in A(f, Names)
      BY <2>2
    <3> QED
      BY <2>0, <3>1
  <2>3. CASE c \in Z
    <3>1. c.field = "token_balance" /\ c.operator \in OrderedBy
      BY <2>3
    <3> QED
      BY <3>1, Fields
  <2>4. Clause = X \cup Y \cup Z
    BY DEF Clause
  <2> HIDE DEF X, Y, Z
  <2> QED
    BY <2>1, <2>2, <2>3, <2>4
<1> QED
  BY <1>1, Fields

LEMMA RulesInvSafe ==
  ASSUME RulesInv
  PROVE  RulesSafety
<1> DEFINE C == rules.conditions
           T == Of("token_balance")
           D == Of("discord_role")
           O == C \ (T \cup D)
           L == rules.logic
<1>1. SUFFICES ASSUME Evaluable PROVE FindsWhatIsMeant
  BY DEF RulesSafety, RulesInv, FindsWhatIsMeant
<1>2. L \in {"AND", "OR"} /\ C # {} /\ IsFiniteSet(C) /\ C \subseteq Clause
  BY <1>1 DEF RulesInv, SavedByClient, Evaluable
<1>3. C = O \cup T \cup D /\ T \subseteq C /\ D \subseteq C
  BY DEF Of
<1> DEFINE OnRow(w, c) == w.token = c.value.token /\ Compare(c.operator, w.amount, c.value.amount)
           N == Native(L, O)
           B == TokenBalances(L, T)
           R == DiscordRoles(L, D)
<1>4. \A p \in People : \A c \in O : Says(c, p) <=> PrismaWhere(p, c)
  BY DEF Of, Says
<1>5. \A p \in People : \A c \in T : Says(c, p) <=> \E w \in p.wallets : OnRow(w, c)
  BY DEF Of, Says
<1>6. \A p \in People : \A c \in D : Says(c, p) <=> ((c.value \in p.roles) = (c.operator = "has_role"))
  BY DEF Of, Says
<1>7. ASSUME NEW p \in Living PROVE p \in People
  BY DEF Living
<1>8. ASSUME NEW p \in N
      PROVE  p \in Living /\ (L = "AND" => \A c \in O : Says(c, p)) /\ (L = "OR" => \E c \in O : Says(c, p))
  BY <1>4, <1>7 DEF Native, Joined
<1>9. ASSUME NEW p \in B
      PROVE  p \in Living /\ (L = "AND" => \A c \in T : Says(c, p)) /\ (L = "OR" => \E c \in T : Says(c, p))
  <2>1. PICK w \in p.wallets : Joined(L, T, {c \in T : OnRow(w, c)})
    BY DEF TokenBalances
  <2>2. p \in Living
    BY DEF TokenBalances
  <2> QED
    BY <1>5, <1>7, <2>1, <2>2 DEF Joined
<1>10. ASSUME NEW p \in R
       PROVE  p \in Living /\ (L = "AND" => \A c \in D : Says(c, p)) /\ (L = "OR" => \E c \in D : Says(c, p))
  BY <1>6, <1>7 DEF DiscordRoles, Joined
<1> DEFINE Found == (IF O = {} THEN {} ELSE {N}) \cup (IF T = {} THEN {} ELSE {B}) \cup (IF D = {} THEN {} ELSE {R})
<1>11. Evaluated = Combined(L, Found)
  BY DEF Evaluated
<1>12. \A p : p \in Meant <=> /\ p \in Living
                              /\ L = "AND" => \A c \in C : Says(c, p)
                              /\ L = "OR" => \E c \in C : Says(c, p)
  BY <1>2 DEF Meant, Joined
<1>13. ASSUME L = "AND", NEW p
       PROVE  p \in Evaluated <=> (O # {} => p \in N) /\ (T # {} => p \in B) /\ (D # {} => p \in R)
  <2>1. p \in Evaluated <=> (\E S \in Found : p \in S) /\ (\A S \in Found : p \in S)
    BY <1>11, <1>13 DEF Combined
  <2>2. O # {} \/ T # {} \/ D # {}
    BY <1>2, <1>3
  <2> HIDE DEF O, T, D, N, B, R
  <2> QED
    BY <2>1, <2>2
<1>14. ASSUME L = "OR", NEW p
       PROVE  p \in Evaluated <=> (O # {} /\ p \in N) \/ (T # {} /\ p \in B) \/ (D # {} /\ p \in R)
  <2>1. p \in Evaluated <=> \E S \in Found : p \in S
    BY <1>11, <1>14 DEF Combined
  <2> HIDE DEF O, T, D, N, B, R
  <2> QED
    BY <2>1
<1>15. Evaluated \subseteq Meant
  <2> HIDE DEF O, T, D, N, B, R, C
  <2>1. CASE L = "AND"
    BY <1>2, <1>3, <1>8, <1>9, <1>10, <1>12, <1>13, <2>1
  <2>2. CASE L = "OR"
    BY <1>3, <1>8, <1>9, <1>10, <1>12, <1>14, <2>2
  <2> QED
    BY <1>2, <2>1, <2>2
<1>16. ASSUME ~Underrated, NEW p \in Meant PROVE p \in Evaluated
  <2>1. p \in Living /\ p \in People
    BY <1>7, <1>12
  <2>2. ASSUME L = "AND", NEW c \in T, NEW d \in T PROVE c = d
    <3>1. IsFiniteSet(T)
      BY <1>2, <1>3, FS_Subset
    <3>2. ~(Cardinality(T) > 1)
      BY <1>16, <2>2 DEF Underrated
    <3>3. SUFFICES ASSUME c # d PROVE FALSE
      OBVIOUS
    <3>4. {c, d} \subseteq T /\ Cardinality({c, d}) = 2
      <4>1. IsFiniteSet({c}) /\ Cardinality({c}) = 1
        BY FS_Singleton
      <4>2. {c, d} = {c} \cup {d} /\ d \notin {c}
        BY <3>3
      <4>3. Cardinality({c} \cup {d}) = 1 + 1
        BY <4>1, <4>2, FS_AddElement
      <4> QED
        BY <2>2, <4>2, <4>3
    <3>5. Cardinality({c, d}) =< Cardinality(T)
      BY <3>1, <3>4, FS_Subset
    <3>6. Cardinality(T) \in Nat
      BY <3>1, FS_CardinalityType
    <3> QED
      BY <3>2, <3>4, <3>5, <3>6
  <2>3. \A c \in D : c.operator = "has_role"
    BY <1>2, <1>16, ClauseForms DEF Underrated, Of
  <2>4. \A c \in D : Says(c, p) => p.linked /\ c.value \in p.roles
    BY <1>6, <2>1, <2>3, RulesAssumption
  <2>5. CASE L = "AND"
    <3>1. \A c \in C : Says(c, p)
      BY <1>12, <2>5
    <3>2. O # {} => p \in N
      BY <1>3, <1>4, <2>1, <2>5, <3>1 DEF Native, Joined
    <3>3. D # {} => p \in R
      BY <1>3, <1>6, <2>1, <2>4, <2>5, <3>1 DEF DiscordRoles, Joined
    <3>4. T # {} => p \in B
      <4>1. SUFFICES ASSUME NEW c \in T PROVE p \in B
        OBVIOUS
      <4>2. PICK w \in p.wallets : OnRow(w, c)
        BY <1>3, <1>5, <2>1, <3>1, <4>1
      <4>3. {d \in T : OnRow(w, d)} = T
        BY <2>2, <2>5, <4>2
      <4> QED
        BY <2>1, <2>5, <4>3 DEF TokenBalances, Joined
    <3> QED
      BY <1>13, <2>5, <3>2, <3>3, <3>4
  <2>6. CASE L = "OR"
    <3>1. PICK c \in C : Says(c, p)
      BY <1>12, <2>6
    <3>2. CASE c \in O
      <4>1. PrismaWhere(p, c)
        BY <1>4, <2>1, <3>1, <3>2
      <4>2. p \in N
        BY <2>1, <2>6, <3>2, <4>1 DEF Native, Joined
      <4> QED
        BY <1>14, <2>6, <3>2, <4>2
    <3>3. CASE c \in T
      <4>1. PICK w \in p.wallets : OnRow(w, c)
        BY <1>5, <2>1, <3>1, <3>3
      <4>2. p \in B
        BY <2>1, <2>6, <3>3, <4>1 DEF TokenBalances, Joined
      <4> QED
        BY <1>14, <2>6, <3>3, <4>2
    <3>4. CASE c \in D
      <4>1. p.linked /\ ((c.value \in p.roles) = (c.operator = "has_role"))
        BY <1>6, <2>1, <2>4, <3>1, <3>4
      <4>2. p \in R
        BY <2>1, <2>6, <3>4, <4>1 DEF DiscordRoles, Joined
      <4> QED
        BY <1>14, <2>6, <3>4, <4>2
    <3> QED
      BY <1>3, <3>2, <3>3, <3>4
  <2> QED
    BY <1>2, <2>5, <2>6
<1>17. ASSUME L = "AND", NEW p \in Meant PROVE p \in EngineFinds
  <2>1. p \in Living /\ \A c \in C : Says(c, p)
    BY <1>12, <1>17
  <2>2. ASSUME NEW c \in Of("tags") PROVE c.value \in p.has["tags"]
    <3>1. c \in C /\ c.field = "tags" /\ c.operator = "contains"
      BY <1>2, <2>2, ClauseForms DEF Of
    <3>2. PrismaWhere(p, c)
      BY <2>1, <3>1 DEF Says
    <3> QED
      BY <3>1, <3>2 DEF PrismaWhere, Number
  <2> QED
    BY <2>1, <2>2 DEF EngineFinds
<1> QED
  BY <1>15, <1>16, <1>17 DEF FindsWhatIsMeant

LEMMA RulesInvStep ==
  ASSUME RulesInv, [RulesNext]_ruleVars
  PROVE  RulesInv'
<1>1. CASE UNCHANGED ruleVars
  BY <1>1 DEF ruleVars, RulesInv, SavedFits, SavedByClient
<1>2. CASE SaveForm \/ SaveByClient
  BY <1>2, SavesKeep
<1>3. ASSUME NEW g \in DOMAIN form, RemoveGroup(g) \/ AddCondition(g) \/ ToggleGroupLogic(g)
      PROVE  RulesInv'
  BY <1>3, FormKeeps
<1>4. CASE AddGroup
  <2>1. 1 \in DOMAIN form
    BY DEF RulesInv
  <2> QED
    BY <1>4, <2>1, FormKeeps
<1>5. ASSUME NEW g \in DOMAIN form, NEW c \in DOMAIN form[g].conditions,
             \/ RemoveCondition(g, c) \/ SelectField(g, c)
             \/ SelectOperator(g, c) \/ TypeValue(g, c)
      PROVE  RulesInv'
  BY <1>5, ConditionsKeep
<1> QED
  BY <1>1, <1>2, <1>3, <1>4, <1>5 DEF RulesNext

LEMMA RulesInvInit ==
  ASSUME RulesInit
  PROVE  RulesInv
<1>1. <<NewGroup>> \in Seq(Group) /\ Len(<<NewGroup>>) = 1
  BY BlankIsCondition
<1> QED
  BY <1>1, RulesAssumption DEF RulesInit, RulesInv, NoRules, SavedFits, SavedByClient

(* The rules of a segment, however large the form and the workspace: what the *)
(* form saves has an operator and a value for its field in every condition    *)
(* and no empty group, and what the three queries find for a client's rule is *)
(* what the rule means, up to the cases named: two balances at once, and the  *)
(* lack of a role.                                                            *)
THEOREM RulesSafe == RulesSpec => []RulesSafety
<1>1. RulesInit => RulesInv
  BY RulesInvInit
<1>2. RulesInv /\ [RulesNext]_ruleVars => RulesInv'
  BY RulesInvStep
<1>3. RulesInv => RulesSafety
  BY RulesInvSafe
<1> QED
  BY <1>1, <1>2, <1>3, PTL DEF RulesSpec

LEMMA RulesTyped == RulesInv => RulesTypeOK
<1> SUFFICES ASSUME RulesInv PROVE RulesTypeOK
  OBVIOUS
<1>1. form \in Seq(Group) /\ Len(form) >= 1 /\ edits \in 0..MaxEdits /\ rules.from \in {"nobody", "form", "client"}
  BY DEF RulesInv
<1>2. ASSUME NEW g \in DOMAIN form PROVE form[g].logic \in {"AND", "OR"}
  <2>1. form[g] \in Group
    BY <1>1, ElementOfSeq
  <2> QED BY <2>1 DEF Group
<1> QED BY <1>1, <1>2 DEF RulesTypeOK

\* The form and the rules of a segment keep their types.
THEOREM RulesTypesKept == RulesSpec => []RulesTypeOK
BY RulesInvInit, RulesInvStep, RulesTyped, PTL DEF RulesSpec

-----------------------------------------------------------------------------
(* The chain legs.  What is wrong with a transaction does not depend on the  *)
(* state: it follows from the functions the packages have and from what the  *)
(* builders give them.                                                       *)

\* The functions that some builder names and no package has.
LEMMA NoSuchFunction ==
  \A f \in Packages : f.name \notin
    {"core::organization::update", "data::segment::update", "action::campaign::create",
     "action::campaign::update", "vault::vault::enforce_expiry"}
BY DEF Packages, WorkspaceEntries, ProfileEntries, OrganizationEntries, RelationEntries,
   DealEntries, SegmentEntries, CampaignEntries, EscrowEntries, VaultEntries, PolicyEntries, Fun

\* The functions that return a value no builder keeps.
Makers == {"core::workspace::create", "core::profile::create", "core::organization::create",
           "core::relation::create", "core::deal::create_deal", "data::segment::create",
           "vault::policy::create_workspace_policy", "vault::policy::create_address_policy",
           "vault::policy::create_role_policy"}

\* Each of them is in some package, and yields.
LEMMA MakersYield ==
  /\ \A f \in Packages : f.name \in Makers => f.yields
  /\ \A n \in Makers : \E f \in Packages : f.name = n
<1>1. \A f \in Packages : f.name \in Makers => f.yields
  BY DEF Packages, WorkspaceEntries, ProfileEntries, OrganizationEntries, RelationEntries,
     DealEntries, SegmentEntries, CampaignEntries, EscrowEntries, VaultEntries, PolicyEntries,
     Fun, Makers
<1>2. \A n \in Makers : \E f \in Packages : f.name = n
  BY DEF Packages, WorkspaceEntries, ProfileEntries, OrganizationEntries, RelationEntries,
     DealEntries, SegmentEntries, CampaignEntries, EscrowEntries, VaultEntries, PolicyEntries,
     Fun, Makers
<1> QED BY <1>1, <1>2

\* The functions that are called with more or fewer arguments than they take.
LEMMA MiscountedCalls ==
  /\ \E f \in Packages : f.name = "core::workspace::add_member" /\ Len(f.takes) = 5
  /\ \E f \in Packages : f.name = "core::profile::set_metadata" /\ Len(f.takes) = 7
  /\ Len(buildAddMemberTx.gives) = 6 /\ Len(buildUpdateProfileTagsTx.gives) = 6
<1> DEFINE added == Fun("core::workspace::add_member", Admin \o <<"address", "Role">>, FALSE)
           tagged == Fun("core::profile::set_metadata",
                         Admin \o <<"Profile", "u64", "string", "V">>, FALSE)
<1>1. /\ added \in Packages /\ added.name = "core::workspace::add_member"
      /\ Len(added.takes) = 5
  <2>1. added \in Packages
    BY DEF Packages, WorkspaceEntries
  <2>2. Len(Admin \o <<"address", "Role">>) = 5
    BY DEF Admin
  <2> QED BY <2>1, <2>2 DEF Fun
<1>2. /\ tagged \in Packages /\ tagged.name = "core::profile::set_metadata"
      /\ Len(tagged.takes) = 7
  <2>1. tagged \in Packages
    BY DEF Packages, ProfileEntries
  <2>2. Len(Admin \o <<"Profile", "u64", "string", "V">>) = 7
    BY DEF Admin
  <2> QED BY <2>1, <2>2 DEF Fun
<1>3. Len(buildAddMemberTx.gives) = 6
  BY DEF buildAddMemberTx, Build, Admin
<1>4. Len(buildUpdateProfileTagsTx.gives) = 6
  BY DEF buildUpdateProfileTagsTx, Build, Admin
<1> HIDE DEF added, tagged
<1> QED BY <1>1, <1>2, <1>3, <1>4

\* The builders whose function exists, takes what they give, and returns
\* nothing.
Exact == {buildRemoveMemberTx, buildArchiveProfileTx, buildUpdateDealTx, buildArchiveDealTx,
          buildFundEscrowTx, buildReleaseEscrowTx, buildRefundEscrowTx}

\* The one function of that name.
OnlyFunction(name, takes) ==
  /\ Fun(name, takes, FALSE) \in Packages
  /\ \A f \in Packages : f.name = name => f = Fun(name, takes, FALSE)

\* What the packages have under the names the exact builders call.
LEMMA ExactFunctions ==
  /\ OnlyFunction("core::workspace::remove_member", Admin \o <<"address">>)
  /\ OnlyFunction("core::profile::archive", Admin \o <<"Profile", "u64">>)
  /\ OnlyFunction("core::deal::update_deal", Admin \o <<"Deal", "u64", "string", "u64", "u8">>)
  /\ OnlyFunction("core::deal::archive_deal", Admin \o <<"Deal", "u64">>)
  /\ OnlyFunction("escrow::escrow::fund_escrow", <<"Escrow", "Coin", "Clock">>)
  /\ OnlyFunction("escrow::escrow::release", <<"Escrow", "u64", "Clock">>)
  /\ OnlyFunction("escrow::escrow::refund", <<"Escrow", "Clock">>)
<1>1. OnlyFunction("core::workspace::remove_member", Admin \o <<"address">>)
  BY DEF OnlyFunction, Fun, Packages, WorkspaceEntries, ProfileEntries, OrganizationEntries, RelationEntries,
     DealEntries, SegmentEntries, CampaignEntries, EscrowEntries, VaultEntries, PolicyEntries
<1>2. OnlyFunction("core::profile::archive", Admin \o <<"Profile", "u64">>)
  BY DEF OnlyFunction, Fun, Packages, WorkspaceEntries, ProfileEntries, OrganizationEntries, RelationEntries,
     DealEntries, SegmentEntries, CampaignEntries, EscrowEntries, VaultEntries, PolicyEntries
<1>3. OnlyFunction("core::deal::update_deal", Admin \o <<"Deal", "u64", "string", "u64", "u8">>)
  BY DEF OnlyFunction, Fun, Packages, WorkspaceEntries, ProfileEntries, OrganizationEntries, RelationEntries,
     DealEntries, SegmentEntries, CampaignEntries, EscrowEntries, VaultEntries, PolicyEntries
<1>4. OnlyFunction("core::deal::archive_deal", Admin \o <<"Deal", "u64">>)
  BY DEF OnlyFunction, Fun, Packages, WorkspaceEntries, ProfileEntries, OrganizationEntries, RelationEntries,
     DealEntries, SegmentEntries, CampaignEntries, EscrowEntries, VaultEntries, PolicyEntries
<1>5. OnlyFunction("escrow::escrow::fund_escrow", <<"Escrow", "Coin", "Clock">>)
  BY DEF OnlyFunction, Fun, Packages, WorkspaceEntries, ProfileEntries, OrganizationEntries, RelationEntries,
     DealEntries, SegmentEntries, CampaignEntries, EscrowEntries, VaultEntries, PolicyEntries
<1>6. OnlyFunction("escrow::escrow::release", <<"Escrow", "u64", "Clock">>)
  BY DEF OnlyFunction, Fun, Packages, WorkspaceEntries, ProfileEntries, OrganizationEntries, RelationEntries,
     DealEntries, SegmentEntries, CampaignEntries, EscrowEntries, VaultEntries, PolicyEntries
<1>7. OnlyFunction("escrow::escrow::refund", <<"Escrow", "Clock">>)
  BY DEF OnlyFunction, Fun, Packages, WorkspaceEntries, ProfileEntries, OrganizationEntries, RelationEntries,
     DealEntries, SegmentEntries, CampaignEntries, EscrowEntries, VaultEntries, PolicyEntries
<1> QED BY <1>1, <1>2, <1>3, <1>4, <1>5, <1>6, <1>7

\* So nothing is wrong with the calls of the exact builders.
LEMMA ExactCalls ==
  \A t \in Exact :
    /\ \E f \in Packages : f.name = t.name
    /\ \A f \in Packages : f.name = t.name => f.takes = t.gives /\ ~f.yields
<1>1. \A t \in Exact : OnlyFunction(t.name, t.gives)
  <2>1. OnlyFunction(buildRemoveMemberTx.name, buildRemoveMemberTx.gives)
    BY ExactFunctions DEF buildRemoveMemberTx, Build
  <2>2. OnlyFunction(buildArchiveProfileTx.name, buildArchiveProfileTx.gives)
    BY ExactFunctions DEF buildArchiveProfileTx, Build
  <2>3. OnlyFunction(buildUpdateDealTx.name, buildUpdateDealTx.gives)
    BY ExactFunctions DEF buildUpdateDealTx, Build
  <2>4. OnlyFunction(buildArchiveDealTx.name, buildArchiveDealTx.gives)
    BY ExactFunctions DEF buildArchiveDealTx, Build
  <2>5. OnlyFunction(buildFundEscrowTx.name, buildFundEscrowTx.gives)
    BY ExactFunctions DEF buildFundEscrowTx, Build
  <2>6. OnlyFunction(buildReleaseEscrowTx.name, buildReleaseEscrowTx.gives)
    BY ExactFunctions DEF buildReleaseEscrowTx, Build
  <2>7. OnlyFunction(buildRefundEscrowTx.name, buildRefundEscrowTx.gives)
    BY ExactFunctions DEF buildRefundEscrowTx, Build
  <2> QED BY <2>1, <2>2, <2>3, <2>4, <2>5, <2>6, <2>7 DEF Exact
<1> SUFFICES ASSUME NEW t \in Exact
             PROVE  /\ \E f \in Packages : f.name = t.name
                    /\ \A f \in Packages : f.name = t.name => f.takes = t.gives /\ ~f.yields
  OBVIOUS
<1> DEFINE g == Fun(t.name, t.gives, FALSE)
<1>2. g.name = t.name /\ g.takes = t.gives /\ ~g.yields
  BY DEF Fun
<1>3. g \in Packages /\ \A f \in Packages : f.name = t.name => f = g
  BY <1>1 DEF OnlyFunction
<1> HIDE DEF g
<1> QED BY <1>2, <1>3

\* What each kind of fault is.
LEMMA FaultsAre ==
  ASSUME NEW t, NEW rows
  PROVE  /\ "id" \in Faults(t, rows) <=> rows \intersect Range(t.gives) # {}
         /\ "function" \in Faults(t, rows) <=> \A f \in Packages : f.name # t.name
         /\ "arguments" \in Faults(t, rows)
              <=> \E f \in Packages : f.name = t.name /\ ~Takes(f, t)
         /\ "value" \in Faults(t, rows) <=> \E f \in Packages : f.name = t.name /\ f.yields
         /\ Faults(t, rows) \subseteq {"id", "function", "arguments", "value"}
BY DEF Faults

\* With an exact call nothing is wrong but the id of a row.
LEMMA ExactIsFine ==
  ASSUME NEW t \in Exact, NEW rows
  PROVE  Faults(t, rows) = IF rows \intersect Range(t.gives) # {} THEN {"id"} ELSE {}
<1>1. \A f \in Packages : f.name = t.name => Takes(f, t) /\ ~f.yields
  BY ExactCalls DEF Takes
<1>2. "function" \notin Faults(t, rows)
  BY ExactCalls, FaultsAre
<1>3. "arguments" \notin Faults(t, rows) /\ "value" \notin Faults(t, rows)
  BY <1>1, FaultsAre
<1> QED BY <1>2, <1>3, FaultsAre

\* Every builder but the exact ones makes a mistake of its own.
LEMMA OthersFail ==
  ASSUME NEW t, NEW rows,
         \/ t.name \in Makers
         \/ t.name \in {"core::organization::update", "data::segment::update",
                        "action::campaign::create", "action::campaign::update",
                        "vault::vault::enforce_expiry"}
         \/ t \in {buildAddMemberTx, buildUpdateProfileTagsTx}
  PROVE  Faults(t, rows) # {"id"} /\ Faults(t, rows) # {}
<1>1. CASE t.name \in Makers
  <2>1. "value" \in Faults(t, rows)
    BY <1>1, MakersYield, FaultsAre
  <2> QED BY <2>1
<1>2. CASE t.name \in {"core::organization::update", "data::segment::update",
                       "action::campaign::create", "action::campaign::update",
                       "vault::vault::enforce_expiry"}
  <2>1. "function" \in Faults(t, rows)
    BY <1>2, NoSuchFunction, FaultsAre
  <2> QED BY <2>1
<1>3. CASE t \in {buildAddMemberTx, buildUpdateProfileTagsTx}
  <2>1. \E f \in Packages : f.name = t.name /\ Len(t.gives) # Len(f.takes)
    <3>1. CASE t = buildAddMemberTx
      <4>1. t.name = "core::workspace::add_member"
        BY <3>1 DEF buildAddMemberTx, Build
      <4> QED BY <3>1, <4>1, MiscountedCalls
    <3>2. CASE t = buildUpdateProfileTagsTx
      <4>1. t.name = "core::profile::set_metadata"
        BY <3>2 DEF buildUpdateProfileTagsTx, Build
      <4> QED BY <3>2, <4>1, MiscountedCalls
    <3> QED BY <1>3, <3>1, <3>2
  <2>2. "arguments" \in Faults(t, rows)
    BY <2>1, FaultsAre DEF Takes
  <2> QED BY <2>2
<1> QED BY <1>1, <1>2, <1>3

\* The legs whose calls are exact, by what they name by the id of a row.
LEMMA LegsById ==
  \A l \in Legs : l.op \in OnlyTheId =>
    l.tx \in Exact /\ "Workspace" \in l.rows /\ "Workspace" \in Range(l.tx.gives)
<1>1. \A t \in {buildRemoveMemberTx, buildArchiveProfileTx, buildUpdateDealTx,
                buildArchiveDealTx} : t \in Exact /\ "Workspace" \in Range(t.gives)
  <2>1. "Workspace" \in Range(buildRemoveMemberTx.gives)
    BY DEF buildRemoveMemberTx, Build, Admin, Range
  <2>2. "Workspace" \in Range(buildArchiveProfileTx.gives)
    BY DEF buildArchiveProfileTx, Build, Admin, Range
  <2>3. "Workspace" \in Range(buildUpdateDealTx.gives)
    BY DEF buildUpdateDealTx, Build, Admin, Range
  <2>4. "Workspace" \in Range(buildArchiveDealTx.gives)
    BY DEF buildArchiveDealTx, Build, Admin, Range
  <2> QED BY <2>1, <2>2, <2>3, <2>4 DEF Exact
<1>2. \A l \in Legs : l.op \in OnlyTheId =>
        /\ "Workspace" \in l.rows
        /\ l.tx \in {buildRemoveMemberTx, buildArchiveProfileTx, buildUpdateDealTx,
                     buildArchiveDealTx}
  BY DEF Legs, WorkspaceLegs, ProfileLegs, OrganizationLegs, DealLegs, SegmentLegs, CampaignLegs,
     EscrowLegs, PolicyLegs, ExpiryLegs, Leg, OnlyTheId
<1> QED BY <1>1, <1>2

\* The operations on the funds of an escrow, which name no row of the database.
Payments == {"fundEscrow", "releaseEscrow", "refundEscrow"}

\* They name the escrow by what the caller gave.
LEMMA LegsOfPayments ==
  \A l \in Legs : l.op \in Payments => l.tx \in Exact /\ l.rows = {}
BY DEF Legs, WorkspaceLegs, ProfileLegs, OrganizationLegs, DealLegs, SegmentLegs, CampaignLegs,
   EscrowLegs, PolicyLegs, ExpiryLegs, Leg, Payments, Exact

\* All others make one of the mistakes above.
LEMMA LegsThatFail ==
  \A l \in Legs : l.op \notin OnlyTheId \union Payments =>
    \/ l.tx.name \in Makers
    \/ l.tx.name \in {"core::organization::update", "data::segment::update",
                      "action::campaign::create", "action::campaign::update",
                      "vault::vault::enforce_expiry"}
    \/ l.tx \in {buildAddMemberTx, buildUpdateProfileTagsTx}
<1>1. \A l \in Legs : l.op \notin OnlyTheId \union Payments =>
        l.tx \in {buildCreateWorkspaceTx, buildAddMemberTx, buildCreateProfileTx,
                  buildUpdateProfileTagsTx, buildCreateOrganizationTx, buildUpdateOrganizationTx,
                  buildLinkProfileToOrgTx, buildCreateDealTx, buildCreateSegmentTx,
                  buildUpdateSegmentTx, buildCreateCampaignTx, buildUpdateCampaignTx,
                  buildEnforceVaultExpiryTx, buildCreateWorkspacePolicyTx,
                  buildCreateAddressPolicyTx, buildCreateRolePolicyTx}
  BY DEF Legs, WorkspaceLegs, ProfileLegs, OrganizationLegs, DealLegs, SegmentLegs, CampaignLegs,
     EscrowLegs, PolicyLegs, ExpiryLegs, Leg, OnlyTheId, Payments
<1>2. \A t \in {buildCreateWorkspaceTx, buildCreateProfileTx, buildCreateOrganizationTx,
                buildLinkProfileToOrgTx, buildCreateDealTx, buildCreateSegmentTx,
                buildCreateWorkspacePolicyTx, buildCreateAddressPolicyTx,
                buildCreateRolePolicyTx} : t.name \in Makers
  BY DEF buildCreateWorkspaceTx, buildCreateProfileTx, buildCreateOrganizationTx,
     buildLinkProfileToOrgTx, buildCreateDealTx, buildCreateSegmentTx,
     buildCreateWorkspacePolicyTx, buildCreateAddressPolicyTx, buildCreateRolePolicyTx,
     Build, Makers
<1>3. \A t \in {buildUpdateOrganizationTx, buildUpdateSegmentTx, buildCreateCampaignTx,
                buildUpdateCampaignTx, buildEnforceVaultExpiryTx} :
        t.name \in {"core::organization::update", "data::segment::update",
                    "action::campaign::create", "action::campaign::update",
                    "vault::vault::enforce_expiry"}
  BY DEF buildUpdateOrganizationTx, buildUpdateSegmentTx, buildCreateCampaignTx,
     buildUpdateCampaignTx, buildEnforceVaultExpiryTx, Build
<1> QED BY <1>1, <1>2, <1>3

\* So an operation is refused for its ids alone, for more, or for nothing.
LEMMA FaultsOfLegs ==
  ASSUME NEW l \in Legs
  PROVE  /\ l.op \in OnlyTheId <=> Faults(l.tx, l.rows) = {"id"}
         /\ l.op \in Payments <=> Faults(l.tx, l.rows) = {}
<1>1. CASE l.op \in OnlyTheId
  <2>1. Faults(l.tx, l.rows) = {"id"}
    <3>1. l.tx \in Exact /\ l.rows \intersect Range(l.tx.gives) # {}
      BY <1>1, LegsById
    <3> QED BY <3>1, ExactIsFine
  <2> QED BY <1>1, <2>1 DEF OnlyTheId, Payments
<1>2. CASE l.op \in Payments
  <2>1. Faults(l.tx, l.rows) = {}
    <3>1. l.tx \in Exact /\ l.rows \intersect Range(l.tx.gives) = {}
      BY <1>2, LegsOfPayments
    <3> QED BY <3>1, ExactIsFine
  <2> QED BY <1>2, <2>1 DEF OnlyTheId, Payments
<1>3. CASE l.op \notin OnlyTheId \union Payments
  <2>1. Faults(l.tx, l.rows) # {"id"} /\ Faults(l.tx, l.rows) # {}
    BY <1>3, LegsThatFail, OthersFail
  <2> QED BY <1>3, <2>1
<1> QED BY <1>1, <1>2, <1>3

\* The operations that go on without the chain when nothing is linked there.
Unasked == {"releaseEscrow", "refundEscrow", "archiveExpired"}

\* No other leg says to skip.
LEMMA LegsThatSkip == \A l \in Legs : l.unlinked = "skip" => l.op \in Unasked
BY DEF Legs, WorkspaceLegs, ProfileLegs, OrganizationLegs, DealLegs, SegmentLegs, CampaignLegs,
   EscrowLegs, PolicyLegs, ExpiryLegs, Leg, Unasked

\* Without dry run only those three go on without the chain, and only without
\* dry run is anything refused.
ChainInv ==
  /\ ChainTypeOK
  /\ answer = "dry-run" => dryRun
  /\ answer = "skipped" => leg.op \in Unasked
  /\ answer = "written" => dryRun \/ leg.op \in Unasked
  /\ answer = "refused" => ~dryRun

LEMMA ChainInductive ==
  /\ ChainInit => ChainInv
  /\ ChainInv /\ [ChainNext]_chainVars => ChainInv'
<1>1. ChainInit => ChainInv
  BY DEF ChainInit, ChainInv, ChainTypeOK
<1>2. ASSUME ChainInv, [ChainNext]_chainVars PROVE ChainInv'
  <2>1. CASE Unlinked
    BY <1>2, <2>1, LegsThatSkip DEF Unlinked, ChainInv, ChainTypeOK
  <2>2. CASE DryRun
    BY <1>2, <2>2 DEF DryRun, ChainInv, ChainTypeOK
  <2>3. CASE NodeRefuses
    BY <1>2, <2>3 DEF NodeRefuses, ChainInv, ChainTypeOK
  <2>4. CASE WriteRow
    BY <1>2, <2>4 DEF WriteRow, ChainInv, ChainTypeOK
  <2>5. CASE NextLeg
    BY <1>2, <2>5 DEF NextLeg, ChainInv, ChainTypeOK
  <2>6. CASE UNCHANGED chainVars
    BY <1>2, <2>6 DEF chainVars, ChainInv, ChainTypeOK
  <2> QED BY <1>2, <2>1, <2>2, <2>3, <2>4, <2>5, <2>6 DEF ChainNext
<1> QED BY <1>1, <1>2

\* The operation under way is one the BFF has, and its answer one of those known.
THEOREM ChainTypesKept == ChainSpec => []ChainTypeOK
<1>1. ChainInv => ChainTypeOK
  BY DEF ChainInv
<1> QED BY <1>1, ChainInductive, PTL DEF ChainSpec

\* A refused transaction leaves no row, rows are written without the chain only
\* by the three operations that skip it, and each operation fails for what the
\* packages and the builders say and for nothing else.
THEOREM RowsAfterChain == ChainSpec => []RowsFollowTheChain
<1>1. ChainInv => RowsFollowTheChain
  <2> SUFFICES ASSUME ChainInv PROVE RowsFollowTheChain
    OBVIOUS
  <2>1. leg \in Legs
    BY DEF ChainInv, ChainTypeOK
  <2>2. /\ leg.op \in OnlyTheId <=> Faults(leg.tx, leg.rows) = {"id"}
        /\ leg.op \in Payments <=> Faults(leg.tx, leg.rows) = {}
    BY <2>1, FaultsOfLegs
  <2> QED BY <2>2 DEF ChainInv, RowsFollowTheChain, Unasked, Payments
<1> QED BY <1>1, ChainInductive, PTL DEF ChainSpec
=============================================================================
