----------------------------- MODULE QuestBadge -----------------------------
(***************************************************************************)
(* Soul-bound quest badges of packages/move/crm_action: the badge objects  *)
(* and the shared QuestRegistry, whose minted table deduplicates by quest  *)
(* and recipient and whose revoked table marks badge IDs.  Every entry     *)
(* function is one transaction, hence one action.  A badge never changes   *)
(* hands (it has no store ability), so its owner is its recipient.         *)
(***************************************************************************)
EXTENDS Integers, FiniteSets, Functions

CONSTANTS
  Badge,      \* object IDs the chain may give to badges
  Quest,      \* quest_id values
  User,       \* addresses badges are minted to
  Foreign,    \* IDs of objects that are not badges
  MaxRevokes  \* bound on the revocations of one key

ASSUME QuestBadgeAssumption == MaxRevokes \in Nat /\ Badge \intersect Foreign = {}

VARIABLES
  paused,   \* GlobalConfig.paused
  issued,   \* the IDs already given to a badge
  live,     \* the badge objects that exist
  keyOf,    \* each issued badge's <<quest_id, recipient>>
  minted,   \* QuestRegistry.minted, a partial function from keys to badges
  revoked,  \* QuestRegistry.revoked
  revokes,  \* history: revocations naming each key
  misnamed  \* history: some revocation named a badge other than the entry's

history == <<revokes, misnamed>>
vars    == <<paused, issued, live, keyOf, minted, revoked, history>>

Keys == Quest \X User

\* BCS prefixes quest_id with its length, so no two pairs share their bytes.
\* Slip: the recipient is not part of the key.
DedupKeyOfQuest(q, u) == <<q>>
DedupKey(q, u) == <<q, u>>

Init ==
  /\ paused = FALSE
  /\ issued = {} /\ live = {} /\ revoked = {}
  /\ keyOf = << >> /\ minted = << >>
  /\ revokes = [k \in Keys |-> 0] /\ misnamed = FALSE

\* Slip: the dedup check is missing, an entry is overwritten.
MintableUnchecked(k) == TRUE
Mintable(k) == k \notin DOMAIN minted

\* The entry of key k leaves the minted table, if there is one.
Without(k) == Restrict(minted, DOMAIN minted \ {k})

-----------------------------------------------------------------------------
\* An admin mints a badge with a fresh ID to u.
MintBadge(b, q, u) ==
  /\ ~paused /\ b \notin issued /\ Mintable(DedupKey(q, u))
  /\ issued' = issued \union {b} /\ live' = live \union {b}
  /\ keyOf' = [c \in issued \union {b} |-> IF c = b THEN <<q, u>> ELSE keyOf[c]]
  /\ minted' = [j \in DOMAIN minted \union {DedupKey(q, u)} |->
                  IF j = DedupKey(q, u) THEN b ELSE minted[j]]
  /\ UNCHANGED <<paused, revoked, history>>

\* An admin of any workspace names an object, a quest and a recipient; nothing
\* compares the object with the entry.
RevokeBadge(b, q, u) ==
  /\ ~paused /\ b \notin revoked /\ DedupKey(q, u) \in DOMAIN minted
  /\ revoked' = revoked \union {b}
  /\ minted' = Without(DedupKey(q, u))
  /\ revokes' = [revokes EXCEPT ![<<q, u>>] = @ + 1]
  /\ misnamed' = (misnamed \/ minted[DedupKey(q, u)] # b)
  /\ UNCHANGED <<paused, issued, live, keyOf>>

\* The owner destroys the badge, paused or not.
\* Slip: the dedup entry stays behind.
BurnKeepingEntry(b) ==
  /\ b \in live
  /\ live' = live \ {b} /\ revoked' = revoked \ {b}
  /\ UNCHANGED <<paused, issued, keyOf, minted, history>>
BurnBadge(b) ==
  /\ b \in live
  /\ live' = live \ {b}
  /\ minted' = Without(DedupKey(keyOf[b][1], keyOf[b][2]))
  /\ revoked' = revoked \ {b}
  /\ UNCHANGED <<paused, issued, keyOf, history>>

SetPaused ==
  /\ paused' = ~paused
  /\ UNCHANGED <<issued, live, keyOf, minted, revoked, history>>

Next ==
  \/ \E b \in Badge, q \in Quest, u \in User : MintBadge(b, q, u)
  \/ \E b \in issued \union Foreign, q \in Quest, u \in User :
       revokes[<<q, u>>] < MaxRevokes /\ RevokeBadge(b, q, u)
  \/ \E b \in Badge : BurnBadge(b)
  \/ SetPaused

Spec == Init /\ [][Next]_vars

-----------------------------------------------------------------------------
(* Properties.                                                             *)

LiveOf(k)  == {b \in live : keyOf[b] = k}
ValidOf(k) == LiveOf(k) \ revoked

TypeOK ==
  /\ paused \in BOOLEAN
  /\ issued \subseteq Badge /\ live \subseteq issued 
  /\ revoked \subseteq issued \union Foreign
  /\ keyOf \in [issued -> Keys]
  /\ DOMAIN minted \subseteq Keys
  /\ revokes \in [Keys -> Nat] /\ misnamed \in BOOLEAN

\* The dedup table never dangles: however mints, revocations and burns of old
\* and new badges interleave, an entry leads to an existing badge of exactly
\* that quest and recipient, so no key is refused for a badge that is gone.
EntryLeadsToBadge ==
  \A k \in DOMAIN minted : minted[k] \in live /\ keyOf[minted[k]] = k

\* Double minting is bounded by what admins revoked: beyond the badge its
\* entry stands for, a recipient holds at most one badge of a quest per
\* revocation that named the quest and the recipient.
CopiesPaidByRevocations ==
  \A k \in Keys :
    Cardinality(LiveOf(k)) <= revokes[k] + (IF k \in DOMAIN minted THEN 1 ELSE 0)

\* docs/security/module-analysis.md:566: "Dedup registry prevents
\* double-minting": as long as every revocation names the registered badge,
\* nobody holds two valid badges of one quest.
OneValidBadge == ~misnamed => \A k \in Keys : Cardinality(ValidOf(k)) <= 1
=============================================================================
