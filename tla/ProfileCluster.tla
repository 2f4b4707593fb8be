--------------------------- MODULE ProfileCluster ---------------------------
(* Profiles of a workspace, the wallets they hold, and what makes two of     *)
(* them one: claims of an address by its signature, candidates for a merge,  *)
(* the merge and what it moves.  A wallet of the model has a name, which may *)
(* be the primary domain of its profile.  The transaction of a merge is one  *)
(* step.                                                                     *)
EXTENDS Integers, FiniteSets

CONSTANTS
  Profile, Address,
  Record,     \* rows of a profile of which it may have many: deals, messages, events
  Tie,        \* rows it has once by key: memberships, links, quests, runs, secrets
  MaxChanges  \* changes of wallets, rows and profiles in one behaviour

VARIABLES
  wallets,    \* <<profile, address>> -> "none", "added" or "verified"
  owner,      \* record -> its profile, or the set {} before it is written
  ties,       \* the pairs <<profile, tie>> there are
  archived,   \* profiles
  domain,     \* profile -> its primary domain as the wallet it names, or {}
  claims,     \* claims that found no other owner, still to be written
  merges,     \* merges that found both profiles, still to be run
  domains,    \* domains found among the wallets, still to be written
  changes,
  odd         \* what happened to an address or a profile that explains the rest

clusterVars == <<wallets, owner, ties, archived, domain, claims, merges, domains, changes, odd>>

ClusterInit ==
  /\ wallets = [h \in Profile \X Address |-> "none"]
  /\ owner = [r \in Record |-> {}] /\ ties = {} /\ archived = {}
  /\ domain = [p \in Profile |-> {}]
  /\ claims = {} /\ merges = {} /\ domains = {} /\ changes = 0 /\ odd = {}

Change == changes < MaxChanges /\ changes' = changes + 1
Notes(what) == odd' = odd \union what
Late(p) == {<<"late", q>> : q \in archived \intersect {p}}

-----------------------------------------------------------------------------
(* Slip: an archived owner is no owner.                                      *)
OtherLiveOwner(p, a) == \E q \in Profile \ (archived \union {p}) : wallets[q, a] = "verified"
(* A claim is refused when another profile, archived or not, has verified    *)
(* the address.                                                              *)
OtherOwner(p, a) == \E q \in Profile \ {p} : wallets[q, a] = "verified"

CheckClaim(p, a) ==
  /\ Change /\ ~OtherOwner(p, a) /\ claims' = claims \union {<<p, a>>}
  /\ Notes({<<"overlap", a>> : c \in {c \in claims : c[2] = a /\ c[1] # p}})
  /\ UNCHANGED <<wallets, owner, ties, archived, domain, merges, domains>>

UpsertClaim(p, a) ==
  /\ <<p, a>> \in claims
  /\ claims' = claims \ {<<p, a>>}
  /\ wallets' = [wallets EXCEPT ![<<p, a>>] = "verified"] /\ Notes(Late(p))
  /\ UNCHANGED <<owner, ties, archived, domain, merges, domains, changes>>

(* Wallets are added unverified, and not twice; any of them may be removed.  *)
AddWallet(p, a) ==
  /\ Change /\ wallets[p, a] = "none" /\ wallets' = [wallets EXCEPT ![<<p, a>>] = "added"]
  /\ Notes(Late(p))
  /\ UNCHANGED <<owner, ties, archived, domain, claims, merges, domains>>

RemoveWallet(p, a) ==
  /\ Change /\ wallets[p, a] # "none" /\ wallets' = [wallets EXCEPT ![<<p, a>>] = "none"]
  /\ Notes({<<"removed", a>>})
  /\ UNCHANGED <<owner, ties, archived, domain, claims, merges, domains>>

(* The domain is one of the names the profile has when it is looked up.      *)
CheckDomain(p, a) ==
  /\ Change /\ wallets[p, a] # "none" /\ domains' = domains \union {<<p, a>>}
  /\ UNCHANGED <<wallets, owner, ties, archived, domain, claims, merges, odd>>

SetDomain(p, a) ==
  /\ <<p, a>> \in domains /\ domains' = domains \ {<<p, a>>}
  /\ domain' = [domain EXCEPT ![p] = {a}]
  /\ UNCHANGED <<wallets, owner, ties, archived, claims, merges, changes, odd>>

(* Rows are written for a profile by others, which do not ask if it lives.   *)
WriteRecord(p, r) ==
  /\ Change /\ owner[r] = {} /\ owner' = [owner EXCEPT ![r] = {p}]
  /\ Notes(Late(p))
  /\ UNCHANGED <<wallets, ties, archived, domain, claims, merges, domains>>

WriteTie(p, k) ==
  /\ Change /\ <<p, k>> \notin ties /\ ties' = ties \union {<<p, k>>}
  /\ Notes(Late(p))
  /\ UNCHANGED <<wallets, owner, archived, domain, claims, merges, domains>>

ArchiveProfile(p) ==
  /\ Change /\ archived' = archived \union {p} /\ Notes({<<"archived", p>>})
  /\ UNCHANGED <<wallets, owner, ties, domain, claims, merges, domains>>

-----------------------------------------------------------------------------
(* The profile a merge is offered with: it has verified the same addresses.  *)
Shared(p, q) == {a \in Address : wallets[p, a] = "verified" /\ wallets[q, a] = "verified"}
Candidates(p) ==
  {q \in Profile \ (archived \union {p}) :
     /\ Shared(p, q) # {}
     /\ \A r \in Profile \ (archived \union {p}) : Cardinality(Shared(p, r)) <= Cardinality(Shared(p, q))}

CheckMerge(t, s) ==
  /\ Change /\ t # s /\ {t, s} \intersect archived = {}
  /\ merges' = merges \union {<<t, s>>}
  /\ UNCHANGED <<wallets, owner, ties, archived, domain, claims, domains, odd>>

(* A wallet the target has is deleted, another one is moved as it is.        *)
MoveWallets(t, s) ==
  [h \in Profile \X Address |->
     CASE h[1] = s -> "none"
       [] h[1] = t /\ wallets[h] = "none" -> wallets[s, h[2]]
       [] OTHER -> wallets[h]]
MoveRecords(t, s) == [r \in Record |-> IF owner[r] = {s} THEN {t} ELSE owner[r]]
(* Slip: a tie the target lacks is deleted with the others.                  *)
DropTies(t, s) == {e \in ties : e[1] # s}
(* A tie the target has is deleted, another one is moved.                    *)
MoveTies(t, s) ==
  {e \in ties : e[1] # s} \union {<<t, e[2]>> : e \in {e \in ties : e[1] = s}}

Downgraded(t, s) == {a \in Address : wallets[s, a] = "verified" /\ wallets[t, a] = "added"}
Merge(t, s) ==
  /\ <<t, s>> \in merges /\ merges' = merges \ {<<t, s>>}
  /\ wallets' = MoveWallets(t, s) /\ owner' = MoveRecords(t, s) /\ ties' = MoveTies(t, s)
  /\ archived' = archived \union {s}
  /\ Notes({<<"crossed", p>> : p \in {t} \intersect archived}
           \union {<<"downgraded", a>> : a \in Downgraded(t, s)}
           \union {<<"overlap", c[2]>> : c \in {c \in claims : wallets[s, c[2]] = "verified"}})
  /\ UNCHANGED <<domain, claims, domains, changes>>

ClusterNext ==
  \/ \E p \in Profile, a \in Address :
       \/ CheckClaim(p, a) \/ UpsertClaim(p, a) \/ AddWallet(p, a) \/ RemoveWallet(p, a)
       \/ CheckDomain(p, a) \/ SetDomain(p, a)
  \/ \E p \in Profile : ArchiveProfile(p) \/ (\E r \in Record : WriteRecord(p, r))
                        \/ (\E k \in Tie : WriteTie(p, k))
  \/ \E t, s \in Profile : CheckMerge(t, s) \/ Merge(t, s)

ClusterSpec == ClusterInit /\ [][ClusterNext]_clusterVars

ClusterTypeOK ==
  /\ wallets \in [Profile \X Address -> {"none", "added", "verified"}]
  /\ owner \in [Record -> {{}} \union {{p} : p \in Profile}]
  /\ ties \subseteq Profile \X Tie /\ archived \subseteq Profile
  /\ claims \subseteq Profile \X Address /\ merges \subseteq Profile \X Profile

-----------------------------------------------------------------------------
(* An address has one verified owner, and so no merge is ever offered, but   *)
(* for claims of it that were under way together, or while a merge moved it. *)
OneVerifiedOwner ==
  \A p, q \in Profile : p # q =>
    /\ \A a \in Shared(p, q) : <<"overlap", a>> \in odd
    /\ q \in Candidates(p) => \E a \in Address : <<"overlap", a>> \in odd

(* Merges leave what they move at a profile that lives: who is archived has  *)
(* neither rows nor wallets, unless it was archived by hand, something was    *)
(* written for it since, or it was the target of a merge that was checked    *)
(* before another one archived it.                                           *)
Explained(p) == \E what \in {"late", "archived", "crossed"} : <<what, p>> \in odd
ArchivedAreEmpty ==
  \A p \in archived : ~Explained(p) =>
    /\ \A r \in Record : owner[r] # {p}
    /\ \A k \in Tie : <<p, k>> \notin ties
    /\ \A a \in Address : wallets[p, a] = "none"

ClusterSafety == OneVerifiedOwner /\ ArchivedAreEmpty

(* A merge loses nothing: what one of the two had, one of the two has, and   *)
(* an address stays verified unless the target had added it unverified.      *)
MergesKeepAll ==
  [][\A t, s \in Profile : <<t, s>> \in merges \ merges' =>
       /\ \A r \in Record : owner[r] # {} => owner'[r] # {}
       /\ \A k \in Tie : (\E p \in Profile : <<p, k>> \in ties)
                         => \E p \in Profile : <<p, k>> \in ties'
       /\ \A a \in Address :
            /\ {wallets[t, a], wallets[s, a]} # {"none"} => wallets'[t, a] # "none"
            /\ wallets[s, a] = "verified" =>
                 wallets'[t, a] = "verified" \/ <<"downgraded", a>> \in odd'
    ]_clusterVars
=============================================================================
