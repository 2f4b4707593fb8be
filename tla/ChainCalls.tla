----------------------------- MODULE ChainCalls -----------------------------
(* The chain leg of the BFF's operations: the transactions TxBuilderService  *)
(* builds, the entry points the Move packages have, the ids the services     *)
(* put in, and what an operation does with the answer.  An argument is known *)
(* by its type: an object's struct, or what tx.pure writes.  Values, gas and *)
(* the rights of the signer are left out: no transaction gets that far.      *)
EXTENDS Integers, Sequences, FiniteSets, SequencesExt

(* A function of a package: the types of its parameters without the          *)
(* TxContext, and whether it returns a value that has to be kept.            *)
Fun(name, takes, yields) == [name |-> name, takes |-> takes, yields |-> yields]
(* A transaction of one call: the function it names and what it gives.       *)
Build(name, gives) == [name |-> name, gives |-> gives]

Admin  == <<"GlobalConfig", "Workspace", "WorkspaceAdminCap">>
Option(t) == "option " \o t
Vector(t) == "vector " \o t

-----------------------------------------------------------------------------
(* The packages.                                                             *)

WorkspaceEntries == {
  Fun("core::workspace::create", <<"GlobalConfig", "string">>, TRUE),
  Fun("core::workspace::add_member", Admin \o <<"address", "Role">>, FALSE),
  Fun("core::workspace::remove_member", Admin \o <<"address">>, FALSE)}

ProfileEntries == {
  Fun("core::profile::create", Admin \o <<"address", Option("string"), Vector("string")>>, TRUE),
  Fun("core::profile::archive", Admin \o <<"Profile", "u64">>, FALSE),
  Fun("core::profile::set_metadata", Admin \o <<"Profile", "u64", "string", "V">>, FALSE)}

OrganizationEntries == {
  Fun("core::organization::create",
    Admin \o <<"string", Option("string"), Option("string"), Vector("string")>>, TRUE),
  Fun("core::organization::update_name", Admin \o <<"Organization", "u64", "string">>, FALSE)}

RelationEntries == {
  Fun("core::relation::create", Admin \o <<"ID", "ID", "u8", Option("string")>>, TRUE)}

DealEntries == {
  Fun("core::deal::create_deal", Admin \o <<"ID", "string", "u64", "u8">>, TRUE),
  Fun("core::deal::update_deal", Admin \o <<"Deal", "u64", "string", "u64", "u8">>, FALSE),
  Fun("core::deal::archive_deal", Admin \o <<"Deal", "u64">>, FALSE)}

SegmentEntries == {
  Fun("data::segment::create", Admin \o <<"string", Vector("u8"), "bool">>, TRUE),
  Fun("data::segment::update_rule_hash", Admin \o <<"Segment", "u64", Vector("u8")>>, FALSE)}

(* crm_action has airdrops, rewards and badges: campaigns are in crm_data.   *)
CampaignEntries == {
  Fun("data::campaign::create", Admin \o <<"string", "ID", Option("string")>>, TRUE),
  Fun("data::campaign::launch", Admin \o <<"Campaign">>, FALSE)}

EscrowEntries == {
  Fun("escrow::escrow::fund_escrow", <<"Escrow", "Coin", "Clock">>, FALSE),
  Fun("escrow::escrow::release", <<"Escrow", "u64", "Clock">>, FALSE),
  Fun("escrow::escrow::refund", <<"Escrow", "Clock">>, FALSE)}

VaultEntries == {
  Fun("vault::vault::create",
    Admin \o <<"ID", "u8", "string", Option("string"), "u64">>, TRUE),
  Fun("vault::vault::set_blob", Admin \o <<"Vault", "u64", "ID", "ID">>, FALSE),
  Fun("vault::vault::archive", Admin \o <<"Vault", "u64">>, FALSE)}

PolicyEntries == {
  Fun("vault::policy::create_workspace_policy", Admin \o <<"string", "u64">>, TRUE),
  Fun("vault::policy::create_address_policy", Admin \o <<"string", Vector("address"), "u64">>, TRUE),
  Fun("vault::policy::create_role_policy", Admin \o <<"string", "u8", "u64">>, TRUE)}

Packages == WorkspaceEntries \union ProfileEntries \union OrganizationEntries
            \union RelationEntries \union DealEntries \union SegmentEntries
            \union CampaignEntries \union EscrowEntries \union VaultEntries
            \union PolicyEntries

-----------------------------------------------------------------------------
(* The builders.                                                             *)

buildCreateWorkspaceTx == Build("core::workspace::create", <<"GlobalConfig", "string">>)
buildAddMemberTx == Build("core::workspace::add_member", Admin \o <<"address", "u8", "u64">>)
buildRemoveMemberTx == Build("core::workspace::remove_member", Admin \o <<"address">>)
buildCreateProfileTx ==
  Build("core::profile::create", Admin \o <<"address", Option("string"), Vector("string")>>)
buildArchiveProfileTx == Build("core::profile::archive", Admin \o <<"Profile", "u64">>)
buildUpdateProfileTagsTx ==
  Build("core::profile::set_metadata", Admin \o <<"Profile", Vector("string"), "u64">>)
buildCreateOrganizationTx ==
  Build("core::organization::create", Admin \o <<"string", Option("string"), Vector("string")>>)
buildUpdateOrganizationTx ==
  Build("core::organization::update", Admin \o <<"Organization", Option("string"),
    Option("string"), Option(Vector("string")), "u64">>)
buildLinkProfileToOrgTx == Build("core::relation::create", Admin \o <<"Organization", "Profile">>)
buildCreateDealTx ==
  Build("core::deal::create_deal", Admin \o <<"address", "string", "u64", "u8">>)
buildUpdateDealTx ==
  Build("core::deal::update_deal", Admin \o <<"Deal", "u64", "string", "u64", "u8">>)
buildArchiveDealTx == Build("core::deal::archive_deal", Admin \o <<"Deal", "u64">>)
buildCreateSegmentTx ==
  Build("data::segment::create", Admin \o <<"string", "string", "string">>)
buildUpdateSegmentTx ==
  Build("data::segment::update", Admin \o <<"Segment", Option("string"), Option("string"),
    Option("string"), "u64">>)
buildCreateCampaignTx ==
  Build("action::campaign::create", Admin \o <<"string", "string", "Segment">>)
buildUpdateCampaignTx ==
  Build("action::campaign::update", Admin \o <<"Campaign", Option("string"), Option("string"),
    Option("string"), "u64">>)
buildFundEscrowTx == Build("escrow::escrow::fund_escrow", <<"Escrow", "Coin", "Clock">>)
buildReleaseEscrowTx == Build("escrow::escrow::release", <<"Escrow", "u64", "Clock">>)
buildRefundEscrowTx == Build("escrow::escrow::refund", <<"Escrow", "Clock">>)
buildEnforceVaultExpiryTx == Build("vault::vault::enforce_expiry", <<"Vault", "Clock">>)
buildCreateWorkspacePolicyTx ==
  Build("vault::policy::create_workspace_policy", Admin \o <<"string", "u64">>)
buildCreateAddressPolicyTx ==
  Build("vault::policy::create_address_policy", Admin \o <<"string", Vector("address"), "u64">>)
buildCreateRolePolicyTx ==
  Build("vault::policy::create_role_policy", Admin \o <<"string", "u8", "u64">>)

(* What the node finds wrong with a transaction before any Move code runs:   *)
(* an id it has no object for, a function the package lacks, arguments of    *)
(* other types or number, and a value nobody takes.                          *)
SameBytes == {<<"address", "ID">>, <<"string", Vector("u8")>>}
Takes(f, t) ==
  /\ Len(t.gives) = Len(f.takes)
  /\ \A i \in DOMAIN f.takes : t.gives[i] = f.takes[i] \/ <<t.gives[i], f.takes[i]>> \in SameBytes
Faults(t, rows) ==
  LET named == {f \in Packages : f.name = t.name} IN
    (IF rows \intersect Range(t.gives) # {} THEN {"id"} ELSE {})
    \union (IF named = {} THEN {"function"} ELSE {})
    \union (IF \E f \in named : ~Takes(f, t) THEN {"arguments"} ELSE {})
    \union (IF \E f \in named : f.yields THEN {"value"} ELSE {})

-----------------------------------------------------------------------------
(* The operations: what each builds, the objects it names by the id of their *)
(* row, and what it does for a row whose object is not known: "build" all    *)
(* the same, "refuse" the request, or "skip" the chain.                      *)

Leg(op, tx, rows, unlinked) == [op |-> op, tx |-> tx, rows |-> rows, unlinked |-> unlinked]

WorkspaceLegs == {
  Leg("createWorkspace", buildCreateWorkspaceTx, {}, "build"),
  Leg("addMember", buildAddMemberTx, {"Workspace"}, "build"),
  Leg("removeMember", buildRemoveMemberTx, {"Workspace"}, "build")}
ProfileLegs == {
  Leg("createProfile", buildCreateProfileTx, {"Workspace"}, "build"),
  Leg("archiveProfile", buildArchiveProfileTx, {"Workspace", "Profile"}, "build"),
  Leg("updateTags", buildUpdateProfileTagsTx, {"Workspace", "Profile"}, "build")}
OrganizationLegs == {
  Leg("createOrganization", buildCreateOrganizationTx, {"Workspace"}, "build"),
  Leg("updateOrganization", buildUpdateOrganizationTx, {"Workspace", "Organization"}, "build"),
  Leg("linkProfile", buildLinkProfileToOrgTx, {"Workspace", "Organization", "Profile"}, "build")}
DealLegs == {
  Leg("createDeal", buildCreateDealTx, {"Workspace"}, "build"),
  Leg("updateDeal", buildUpdateDealTx, {"Workspace"}, "refuse"),
  Leg("updateStage", buildUpdateDealTx, {"Workspace"}, "refuse"),
  Leg("archiveDeal", buildArchiveDealTx, {"Workspace"}, "refuse")}
SegmentLegs == {
  Leg("createSegment", buildCreateSegmentTx, {"Workspace"}, "build"),
  Leg("updateSegment", buildUpdateSegmentTx, {"Workspace", "Segment"}, "build")}
CampaignLegs == {
  Leg("createCampaign", buildCreateCampaignTx, {"Workspace", "Segment"}, "build"),
  Leg("updateCampaign", buildUpdateCampaignTx, {"Workspace", "Campaign"}, "build")}
(* The services read onChainId of a row that has only a suiObjectId.         *)
EscrowLegs == {
  Leg("fundEscrow", buildFundEscrowTx, {}, "refuse"),
  Leg("releaseEscrow", buildReleaseEscrowTx, {}, "skip"),
  Leg("refundEscrow", buildRefundEscrowTx, {}, "skip")}
PolicyLegs == {
  Leg("createPolicy", t, {"Workspace"}, "build") :
    t \in {buildCreateWorkspacePolicyTx, buildCreateAddressPolicyTx, buildCreateRolePolicyTx}}
ExpiryLegs == { Leg("archiveExpired", buildEnforceVaultExpiryTx, {}, "skip") }

Legs == WorkspaceLegs \union ProfileLegs \union OrganizationLegs \union DealLegs
        \union SegmentLegs \union CampaignLegs \union EscrowLegs \union PolicyLegs
        \union ExpiryLegs

VARIABLES
  dryRun,   \* SUI_DRY_RUN
  leg,      \* the operation under way
  answer    \* what came of its chain leg, then "written" or "refused"

chainVars == <<dryRun, leg, answer>>

ChainInit == dryRun \in BOOLEAN /\ leg \in Legs /\ answer = "none"

(* The object of a deal, escrow or secret is not known: no row has its id.   *)
Unlinked ==
  /\ answer = "none" /\ ~dryRun /\ leg.unlinked # "build"
  /\ answer' = IF leg.unlinked = "skip" THEN "skipped" ELSE "refused"
  /\ UNCHANGED <<dryRun, leg>>

DryRun == answer = "none" /\ dryRun /\ answer' = "dry-run" /\ UNCHANGED <<dryRun, leg>>

(* Slip: the error of a chain leg is logged, and the operation goes on.      *)
NodeRefusesQuietly ==
  /\ answer = "none" /\ ~dryRun /\ leg.unlinked = "build"
  /\ answer' = "skipped"
  /\ UNCHANGED <<dryRun, leg>>

(* The client builds the transaction and the node simulates it: what has a   *)
(* fault is thrown, and no service catches it before it writes.  No leg is   *)
(* without one, so nothing is ever executed.                                 *)
NodeRefuses ==
  /\ answer = "none" /\ ~dryRun /\ leg.unlinked = "build" /\ Faults(leg.tx, leg.rows) # {}
  /\ answer' = "refused"
  /\ UNCHANGED <<dryRun, leg>>

WriteRow == answer \in {"dry-run", "skipped"} /\ answer' = "written" /\ UNCHANGED <<dryRun, leg>>

NextLeg ==
  /\ answer \in {"written", "refused"}
  /\ leg' \in Legs /\ answer' = "none" /\ UNCHANGED dryRun

ChainNext == Unlinked \/ DryRun \/ NodeRefuses \/ WriteRow \/ NextLeg
ChainSpec == ChainInit /\ [][ChainNext]_chainVars

ChainTypeOK ==
  dryRun \in BOOLEAN /\ leg \in Legs
  /\ answer \in {"none", "dry-run", "skipped", "refused", "written"}

-----------------------------------------------------------------------------
(* What takes its id from the row alone: with the object's id the node would *)
(* accept it.                                                                *)
OnlyTheId == {"removeMember", "archiveProfile", "updateDeal", "updateStage", "archiveDeal"}

(* The database follows the chain: a transaction the node refuses leaves no  *)
(* row behind, and without dry run the only rows written are those of        *)
(* releases, refunds and expired secrets, which are written without asking   *)
(* the chain; no operation is refused for a reason but those known: only the *)
(* payments of an escrow are built as the package wants them.                *)
RowsFollowTheChain ==
  /\ answer = "written" => dryRun \/ leg.op \in {"releaseEscrow", "refundEscrow", "archiveExpired"}
  /\ answer = "refused" => ~dryRun
  /\ LET faults == Faults(leg.tx, leg.rows) IN
       /\ leg.op \in OnlyTheId <=> faults = {"id"}
       /\ leg.op \in {"fundEscrow", "releaseEscrow", "refundEscrow"} <=> faults = {}
=============================================================================
