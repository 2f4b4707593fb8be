---------------------------- MODULE RecordProofs ----------------------------
(***************************************************************************)
(* Proofs about quest badges, deals and their escrows, the AI agents,      *)
(* sessions, the profiles of a workspace and what events write about them, *)
(* for any values of their constants.                                      *)
(***************************************************************************)
EXTENDS QuestBadge, DealPipeline, AgentCalls, Sessions, ProfileCluster, EventListeners,
        FiniteSetTheorems, SequenceTheorems, TLAPS

-----------------------------------------------------------------------------
(* Quest badges on chain.  The issued IDs are finitely many, so that the     *)
(* copies of a badge can be counted.                                         *)

BadgeInv ==
  /\ TypeOK /\ IsFiniteSet(issued)
  /\ EntryLeadsToBadge /\ CopiesPaidByRevocations

\* How the dedup bonus of key k counts in CopiesPaidByRevocations.
Entry(k) == IF k \in DOMAIN minted THEN 1 ELSE 0

\* Finitely many badges exist, so they can be counted.
LEMMA LiveFinite ==
  ASSUME BadgeInv, NEW k \in Keys
  PROVE  IsFiniteSet(LiveOf(k)) /\ Cardinality(LiveOf(k)) \in Nat
<1>1. LiveOf(k) \subseteq issued
  BY DEF BadgeInv, TypeOK, LiveOf
<1>2. IsFiniteSet(LiveOf(k))
  BY <1>1, FS_Subset DEF BadgeInv
<1> QED  BY <1>2, FS_CardinalityType

\* Without(k) is the dedup table with the entry of k taken out.
LEMMA WithoutEntry ==
  ASSUME NEW k
  PROVE  /\ DOMAIN Without(k) = DOMAIN minted \ {k}
         /\ \A j \in DOMAIN Without(k) : Without(k)[j] = minted[j]
BY DEF Without, Restrict

\* An empty registry.
LEMMA BadgeInitInv == Init => BadgeInv
<1> SUFFICES ASSUME Init PROVE BadgeInv
  OBVIOUS
<1>1. DOMAIN keyOf = {} /\ DOMAIN minted = {}
  BY DEF Init
<1>2. TypeOK
  <2>1. keyOf \in [issued -> Keys]
    BY <1>1 DEF Init
  <2> QED  BY <1>1, <2>1 DEF Init, TypeOK
<1>3. IsFiniteSet(issued)
  BY FS_EmptySet DEF Init
<1>4. EntryLeadsToBadge
  BY <1>1 DEF EntryLeadsToBadge
<1>5. CopiesPaidByRevocations
  <2>1. \A k \in Keys : LiveOf(k) = {} /\ revokes[k] = 0
    BY DEF Init, LiveOf
  <2> QED  BY <2>1, <1>1, FS_EmptySet DEF CopiesPaidByRevocations
<1> QED  BY <1>2, <1>3, <1>4, <1>5 DEF BadgeInv

\* A mint adds a badge together with its entry.
LEMMA MintPreserves ==
  ASSUME BadgeInv, NEW b \in Badge, NEW q \in Quest, NEW u \in User, MintBadge(b, q, u)
  PROVE  BadgeInv'
<1> DEFINE k == <<q, u>>
<1> USE DEF MintBadge, Mintable, DedupKey, history
<1>1. TypeOK'
  BY DEF BadgeInv, TypeOK, Keys
<1>2. IsFiniteSet(issued')
  BY FS_AddElement DEF BadgeInv
<1>3. EntryLeadsToBadge'
  BY DEF BadgeInv, TypeOK, EntryLeadsToBadge
<1>4. CopiesPaidByRevocations'
  <2> SUFFICES ASSUME NEW j \in Keys
               PROVE  Cardinality(LiveOf(j)') <=
                        revokes'[j] + (IF j \in DOMAIN minted' THEN 1 ELSE 0)
    BY DEF CopiesPaidByRevocations
  <2>1. /\ Cardinality(LiveOf(j)) <= revokes[j] + Entry(j)
        /\ revokes[j] \in Nat /\ Cardinality(LiveOf(j)) \in Nat
        /\ IsFiniteSet(LiveOf(j))
    BY LiveFinite DEF BadgeInv, TypeOK, CopiesPaidByRevocations, Entry
  <2>2. CASE j = k
    <3>1. LiveOf(j)' = LiveOf(j) \union {b} /\ b \notin LiveOf(j)
      BY <2>2 DEF LiveOf, BadgeInv, TypeOK
    <3>2. Cardinality(LiveOf(j)') = Cardinality(LiveOf(j)) + 1
      BY <3>1, <2>1, FS_AddElement
    <3> QED  BY <2>1, <2>2, <3>2 DEF Entry
  <2>3. CASE j # k
    <3>1. LiveOf(j)' = LiveOf(j)
      BY <2>3 DEF LiveOf, BadgeInv, TypeOK
    <3> QED  BY <2>1, <2>3, <3>1 DEF Entry
  <2> QED  BY <2>2, <2>3
<1> QED  BY <1>1, <1>2, <1>3, <1>4 DEF BadgeInv

\* A revocation removes an entry and is counted for its key.
LEMMA RevokePreserves ==
  ASSUME BadgeInv, NEW b \in issued \union Foreign, NEW q \in Quest, NEW u \in User,
         RevokeBadge(b, q, u)
  PROVE  BadgeInv'
<1> DEFINE k == <<q, u>>
<1> USE DEF RevokeBadge, DedupKey
<1>0. /\ DOMAIN minted' = DOMAIN minted \ {k}
      /\ \A j \in DOMAIN minted' : minted'[j] = minted[j]
  BY WithoutEntry
<1>1. TypeOK'
  BY <1>0 DEF BadgeInv, TypeOK
<1>2. IsFiniteSet(issued')
  BY DEF BadgeInv
<1>3. EntryLeadsToBadge'
  BY <1>0 DEF BadgeInv, EntryLeadsToBadge
<1>4. CopiesPaidByRevocations'
  <2> SUFFICES ASSUME NEW j \in Keys
               PROVE  Cardinality(LiveOf(j)') <=
                        revokes'[j] + (IF j \in DOMAIN minted' THEN 1 ELSE 0)
    BY DEF CopiesPaidByRevocations
  <2>1. /\ Cardinality(LiveOf(j)) <= revokes[j] + Entry(j)
        /\ revokes \in [Keys -> Nat] /\ Cardinality(LiveOf(j)) \in Nat
    BY LiveFinite DEF BadgeInv, TypeOK, CopiesPaidByRevocations, Entry
  <2>2. LiveOf(j)' = LiveOf(j)
    BY DEF LiveOf
  <2>3. CASE j = k
    BY <1>0, <2>1, <2>2, <2>3 DEF Entry
  <2>4. CASE j # k
    BY <1>0, <2>1, <2>2, <2>4 DEF Entry
  <2> QED  BY <2>3, <2>4
<1> QED  BY <1>1, <1>2, <1>3, <1>4 DEF BadgeInv

\* A burn removes a badge together with the entry of its key.
LEMMA BurnPreserves ==
  ASSUME BadgeInv, NEW b \in Badge, BurnBadge(b)
  PROVE  BadgeInv'
<1> USE DEF BurnBadge, DedupKey, history
<1>0. keyOf[b] = <<keyOf[b][1], keyOf[b][2]>>
  BY DEF BadgeInv, TypeOK, Keys
<1>00. /\ DOMAIN minted' = DOMAIN minted \ {keyOf[b]}
      /\ \A j \in DOMAIN minted' : minted'[j] = minted[j]
  BY <1>0, WithoutEntry
<1>1. TypeOK'
  BY <1>00 DEF BadgeInv, TypeOK
<1>2. IsFiniteSet(issued')
  BY DEF BadgeInv
<1>3. EntryLeadsToBadge'
  BY <1>00 DEF BadgeInv, EntryLeadsToBadge
<1>4. CopiesPaidByRevocations'
  <2> SUFFICES ASSUME NEW j \in Keys
               PROVE  Cardinality(LiveOf(j)') <=
                        revokes'[j] + (IF j \in DOMAIN minted' THEN 1 ELSE 0)
    BY DEF CopiesPaidByRevocations
  <2>1. /\ Cardinality(LiveOf(j)) <= revokes[j] + Entry(j)
        /\ revokes[j] \in Nat /\ Cardinality(LiveOf(j)) \in Nat
        /\ IsFiniteSet(LiveOf(j))
    BY LiveFinite DEF BadgeInv, TypeOK, CopiesPaidByRevocations, Entry
  <2>2. CASE j = keyOf[b]
    <3>1. LiveOf(j)' = LiveOf(j) \ {b} /\ b \in LiveOf(j)
      BY <2>2 DEF LiveOf
    <3>2. Cardinality(LiveOf(j)') = Cardinality(LiveOf(j)) - 1
      BY <3>1, <2>1, FS_RemoveElement
    <3> QED  BY <1>00, <2>1, <2>2, <3>2 DEF Entry
  <2>3. CASE j # keyOf[b]
    <3>1. LiveOf(j)' = LiveOf(j)
      BY <2>3 DEF LiveOf
    <3> QED  BY <1>00, <2>1, <2>3, <3>1 DEF Entry
  <2> QED  BY <2>2, <2>3
<1> QED  BY <1>1, <1>2, <1>3, <1>4 DEF BadgeInv

\* Pausing touches neither.
LEMMA UnchangedPreserves ==
  ASSUME BadgeInv, UNCHANGED <<issued, live, keyOf, minted, revoked, history>>,
         paused' \in BOOLEAN
  PROVE  BadgeInv'
<1>1. TypeOK'
  BY DEF BadgeInv, TypeOK, history
<1>2. IsFiniteSet(issued')
  BY DEF BadgeInv
<1>3. EntryLeadsToBadge'
  BY DEF BadgeInv, EntryLeadsToBadge
<1>4. CopiesPaidByRevocations'
  BY DEF BadgeInv, CopiesPaidByRevocations, LiveOf, history
<1> QED  BY <1>1, <1>2, <1>3, <1>4 DEF BadgeInv

\* The inductive invariant holds of every reachable registry.
THEOREM BadgesInductive == Spec => []BadgeInv
<1>1. BadgeInv /\ [Next]_vars => BadgeInv'
  <2> SUFFICES ASSUME BadgeInv, [Next]_vars PROVE BadgeInv'
    OBVIOUS
  <2>1. ASSUME NEW b \in Badge, NEW q \in Quest, NEW u \in User, MintBadge(b, q, u) PROVE BadgeInv'
    BY <2>1, MintPreserves
  <2>2. ASSUME NEW b \in issued \union Foreign, NEW q \in Quest, NEW u \in User,
         RevokeBadge(b, q, u)
        PROVE  BadgeInv'
    BY <2>2, RevokePreserves
  <2>3. ASSUME NEW b \in Badge, BurnBadge(b) PROVE BadgeInv'
    BY <2>3, BurnPreserves
  <2>4. CASE SetPaused
    BY <2>4, UnchangedPreserves DEF SetPaused
  <2>5. CASE UNCHANGED vars
    BY <2>5, UnchangedPreserves DEF vars, BadgeInv, TypeOK
  <2> QED  BY <2>1, <2>2, <2>3, <2>4, <2>5 DEF Next
<1> QED  BY <1>1, BadgeInitInv, PTL DEF Spec

\* Every reachable registry is well-formed.
THEOREM TypeCorrect == Spec => []TypeOK
<1>1. BadgeInv => TypeOK
  BY DEF BadgeInv
<1> QED  BY <1>1, BadgesInductive, PTL

\* No order of mints, revocations and burns leaves a dangling dedup entry.
THEOREM EntriesLeadToBadges == Spec => []EntryLeadsToBadge
<1>1. BadgeInv => EntryLeadsToBadge
  BY DEF BadgeInv
<1> QED  BY <1>1, BadgesInductive, PTL

\* Without a revocation naming them, a recipient never gets a second badge of
\* a quest; each such revocation allows at most one more.
THEOREM CopiesBounded == Spec => []CopiesPaidByRevocations
<1>1. BadgeInv => CopiesPaidByRevocations
  BY DEF BadgeInv
<1> QED  BY <1>1, BadgesInductive, PTL

-----------------------------------------------------------------------------
(* Deals and their escrow.                                                 *)

DealRow   == [stage : AllStages, title : Title, archived : BOOLEAN, version : Nat]
EscrowRow == [state : EscrowStates, released : 0..Total, refunded : 0..Total, version : Nat]
Sums      == 0..Total \cup {KEEP}
Edits     == {"update", "stage", "archive"}
Settles   == {"fund", "release", "refund", "dispute", "vote"}
Edit   == [op : Edits, expected : Nat, base : DealRow, stage : AllStages, title : Title]
Settle == [op : Settles, seen : Nat, state : EscrowStates, released : Sums, refunded : Sums]
Errand == {Idle} \cup Edit \cup Settle \cup [op : {"pay"}, amount : 0..Total]

DealTypes ==
  /\ deal \in DealRow /\ escrow \in EscrowRow
  /\ handler \in [Handler -> Errand]
  /\ won \in Nat /\ stale \in BOOLEAN

\* A deal call names no later version than it has read, and what it has read
\* with the present version is the present row.
CallsSawDeal ==
  \A h \in Handler : handler[h].op \in Edits =>
    /\ handler[h].expected =< handler[h].base.version
    /\ handler[h].base.version =< deal.version
    /\ handler[h].base.version = deal.version => handler[h].base = deal

\* What an escrow call that has seen row e with its version may write.
Lawful(c, e) ==
  CASE c.op = "fund"    -> e.state \in FundableStates /\ c.state = "FUNDED"
                           /\ c.released = KEEP /\ c.refunded = KEEP
    [] c.op = "release" -> e.state \in ReleasableStates /\ c.state \in {"COMPLETED", "PARTIALLY_RELEASED"}
                           /\ c.released \in e.released..Total /\ c.refunded = KEEP
    [] c.op = "refund"  -> e.state \in RefundableStates /\ c.state = "REFUNDED"
                           /\ c.released = KEEP /\ c.refunded = Total - e.released
    [] c.op = "dispute" -> e.state \in DisputableStates /\ c.state = "DISPUTED"
                           /\ c.released = KEEP /\ c.refunded = KEEP
    [] c.op = "vote"    -> e.state = "DISPUTED" /\ c.state \in {"FUNDED", "REFUNDED"}
                           /\ c.released = KEEP /\ c.refunded = KEEP

\* As long as no two escrow calls overlapped: calls that are up to date are
\* lawful, only a refunded escrow has a refund, and a payment asks for all that
\* is left at least.
EscrowInLaw ==
  /\ \A h \in Handler : handler[h].op \in Settles => handler[h].seen =< escrow.version
  /\ ~stale =>
       /\ escrow.released + escrow.refunded =< Total
       /\ escrow.state # "REFUNDED" => escrow.refunded = 0
       /\ \A h \in Handler :
            /\ handler[h].op \in Settles /\ handler[h].seen = escrow.version
                 => Lawful(handler[h], escrow)
            /\ handler[h].op = "pay" => handler[h].amount >= Total - escrow.released

DealInv == DealTypes /\ CallsSawDeal /\ EscrowInLaw

LEMMA ErrandFacts ==
  /\ \A e \in Errand : /\ e.op \in Edits <=> e \in Edit
                       /\ e.op \in Settles <=> e \in Settle
                       /\ e.op = "pay" <=> e \in [op : {"pay"}, amount : 0..Total]
                       /\ e.op = "idle" <=> e = Idle
  /\ Idle \in Errand /\ Idle.op = "idle"
<1>1. Idle.op = "idle" /\ Idle \in Errand
  BY DEF Idle, Errand
<1> QED BY <1>1 DEF Errand, Edit, Settle, Edits, Settles

\* A handler goes on with another errand, the others stay.
LEMMA Turns ==
  ASSUME DealTypes, NEW h \in Handler, NEW e \in Errand, handler' = [handler EXCEPT ![h] = e]
  PROVE  /\ handler' \in [Handler -> Errand] /\ handler'[h] = e
         /\ \A g \in Handler \ {h} : handler'[g] = handler[g]
BY DEF DealTypes

\* A deal call reads the row.
LEMMA DealReads ==
  ASSUME DealInv, NEW h \in Handler, NEW op \in Edits, NEW v \in 1..deal.version,
         NEW stage \in AllStages, NEW title \in Title, Read(h, op, v, deal, stage, title)
  PROVE  DealInv'
<1>1. DealTypes /\ CallsSawDeal /\ EscrowInLaw /\ deal \in DealRow /\ deal.version \in Nat
  BY DEF DealInv, DealTypes, DealRow
<1> DEFINE e == [op |-> op, expected |-> v, base |-> deal, stage |-> stage, title |-> title]
<1>2. /\ handler' = [handler EXCEPT ![h] = e]
      /\ deal' = deal /\ escrow' = escrow /\ won' = won /\ stale' = stale
  BY DEF Read
<1>3. e \in Errand /\ e.op \in Edits /\ e.op \notin Settles /\ e.op # "pay" /\ e.expected = v /\ e.base = deal
  BY <1>1 DEF Errand, Edit, Edits, Settles
<1> HIDE DEF e
<1>4. /\ handler' \in [Handler -> Errand] /\ handler'[h] = e
      /\ \A g \in Handler \ {h} : handler'[g] = handler[g]
  BY <1>1, <1>2, <1>3, Turns
<1>5. DealTypes'
  BY <1>1, <1>2, <1>4 DEF DealTypes
<1>6. CallsSawDeal'
  BY <1>1, <1>2, <1>3, <1>4 DEF CallsSawDeal
<1>7. EscrowInLaw'
  BY <1>1, <1>2, <1>3, <1>4 DEF EscrowInLaw
<1> QED BY <1>5, <1>6, <1>7 DEF DealInv

\* An escrow call reads the row, and takes what it may write.
LEMMA EscrowReads ==
  ASSUME DealInv, NEW h \in Handler, NEW op \in Settles, NEW states, NEW state \in EscrowStates,
         NEW released \in Sums, NEW refunded \in Sums,
         Take(h, op, states, state, released, refunded),
         Lawful([op |-> op, seen |-> escrow.version, state |-> state,
                 released |-> released, refunded |-> refunded], escrow) \/ stale
  PROVE  DealInv'
<1>1. DealTypes /\ CallsSawDeal /\ EscrowInLaw /\ escrow.version \in Nat
  BY DEF DealInv, DealTypes, EscrowRow
<1> DEFINE e == [op |-> op, seen |-> escrow.version, state |-> state,
                 released |-> released, refunded |-> refunded]
<1>2. /\ handler' = [handler EXCEPT ![h] = e]
      /\ deal' = deal /\ escrow' = escrow /\ won' = won /\ stale' = stale
      /\ Lawful(e, escrow) \/ stale
  BY DEF Take
<1>3. e \in Errand /\ e.op \notin Edits /\ e.op # "pay" /\ e.seen = escrow.version
  BY <1>1 DEF Errand, Settle, Edits, Settles
<1> HIDE DEF e
<1>4. /\ handler' \in [Handler -> Errand] /\ handler'[h] = e
      /\ \A g \in Handler \ {h} : handler'[g] = handler[g]
  BY <1>1, <1>2, <1>3, Turns
<1>5. DealTypes' /\ CallsSawDeal'
  BY <1>1, <1>2, <1>3, <1>4 DEF DealTypes, CallsSawDeal
<1>6. EscrowInLaw'
  BY <1>1, <1>2, <1>3, <1>4 DEF EscrowInLaw
<1> QED BY <1>5, <1>6 DEF DealInv

\* The body of a release.
LEMMA Releases ==
  ASSUME DealInv, NEW h \in Handler, NEW a \in Nat, TakeRelease(h, a)
  PROVE  DealInv'
<1> DEFINE released == escrow.released + a
<1>1. /\ escrow.released \in 0..Total /\ Total \in Nat /\ KEEP \notin Nat
  BY DealAssumption DEF DealInv, DealTypes, EscrowRow, DealAssumption
<1>2. /\ released =< Total
      /\ Take(h, "release", ReleasableStates,
              IF released >= Total THEN "COMPLETED" ELSE "PARTIALLY_RELEASED", released, KEEP)
  BY DEF TakeRelease
<1>3. released \in escrow.released..Total /\ released \in Sums /\ KEEP \in Sums
  BY <1>1, <1>2 DEF Sums
<1> HIDE DEF released
<1> DEFINE state == IF released >= Total THEN "COMPLETED" ELSE "PARTIALLY_RELEASED"
<1>4. state \in {"COMPLETED", "PARTIALLY_RELEASED"} /\ state \in EscrowStates
  BY DEF EscrowStates, ReleasableStates
<1> HIDE DEF state
<1>5. Take(h, "release", ReleasableStates, state, released, KEEP)
  BY <1>2 DEF state
<1>6. escrow.state \in ReleasableStates /\ "release" \in Settles
  BY <1>5 DEF Take, Settles
<1>7. Lawful([op |-> "release", seen |-> escrow.version, state |-> state,
              released |-> released, refunded |-> KEEP], escrow)
  BY <1>3, <1>4, <1>6 DEF Lawful
<1> QED BY <1>3, <1>4, <1>5, <1>6, <1>7, EscrowReads

LEMMA DealInitInv == DealInit => DealInv
<1> SUFFICES ASSUME DealInit PROVE DealInv
  OBVIOUS
<1>1. deal \in DealRow /\ escrow \in EscrowRow
  BY DealAssumption DEF DealAssumption, DealInit, DealRow, EscrowRow, AllStages, DealStages, EscrowStates
<1>2. \A h \in Handler : handler[h] \in Errand /\ handler[h].op = "idle"
  BY ErrandFacts DEF DealInit
<1>3. DealTypes
  BY <1>1, <1>2 DEF DealInit, DealTypes
<1>4. CallsSawDeal
  BY <1>2 DEF CallsSawDeal, Edits
<1>5. /\ escrow.released = 0 /\ escrow.refunded = 0 /\ Total \in Nat
      /\ \A h \in Handler : handler[h].op \notin Settles /\ handler[h].op # "pay"
  BY <1>2, DealAssumption DEF DealInit, DealAssumption, Settles
<1>6. EscrowInLaw
  BY <1>5 DEF EscrowInLaw
<1> QED BY <1>3, <1>4, <1>6 DEF DealInv

LEMMA DealWrites ==
  ASSUME DealInv, NEW h \in Handler, WriteDeal(h)
  PROVE  DealInv' /\ (deal' # deal => handler[h].base = deal)
<1>1. DealTypes /\ CallsSawDeal /\ EscrowInLaw
  BY DEF DealInv
<1>2. /\ handler[h].op \in Edits /\ handler' = [handler EXCEPT ![h] = Idle]
      /\ escrow' = escrow /\ stale' = stale
  BY DEF WriteDeal, Edits
<1>3. handler[h] \in Edit /\ deal \in DealRow
  BY <1>1, <1>2, ErrandFacts DEF DealTypes
<1>4. /\ handler' \in [Handler -> Errand] /\ handler'[h] = Idle
      /\ \A g \in Handler \ {h} : handler'[g] = handler[g]
  BY <1>1, <1>2, ErrandFacts, Turns
<1>5. won' \in Nat
  BY <1>1 DEF WriteDeal, DealTypes
<1>6. deal' \in DealRow /\ (deal' = deal \/ (Matches(h) /\ deal'.version = deal.version + 1))
  <2>1. CASE ~Matches(h)
    BY <1>3, <2>1 DEF WriteDeal
  <2>2. CASE Matches(h)
    <3> DEFINE r == handler[h]
    <3>1. /\ r.stage \in AllStages /\ r.title \in Title /\ deal.version + 1 \in Nat
      BY <1>3 DEF Edit, DealRow
    <3>2. \/ deal' = [deal EXCEPT !.version = @ + 1, !.stage = r.stage, !.title = r.title]
          \/ deal' = [deal EXCEPT !.version = @ + 1, !.stage = r.stage]
          \/ deal' = [deal EXCEPT !.version = @ + 1, !.archived = TRUE]
      BY <2>2, <1>2 DEF WriteDeal, Edits
    <3> HIDE DEF r
    <3> DEFINE v == deal.version + 1
    <3>3. v \in Nat /\ v = deal.version + 1
      BY <3>1
    <3>4. \/ deal' = [deal EXCEPT !.version = v, !.stage = r.stage, !.title = r.title]
          \/ deal' = [deal EXCEPT !.version = v, !.stage = r.stage]
          \/ deal' = [deal EXCEPT !.version = v, !.archived = TRUE]
      BY <3>2
    <3> HIDE DEF v
    <3>5. deal' \in DealRow /\ deal'.version = v
      BY <1>3, <3>1, <3>3, <3>4 DEF DealRow
    <3> QED BY <2>2, <3>3, <3>5
  <2> QED BY <2>1, <2>2
<1>7. DealTypes'
  BY <1>1, <1>2, <1>4, <1>5, <1>6 DEF DealTypes
<1>8. deal.version \in Nat /\ Idle.op = "idle"
  BY <1>3, ErrandFacts DEF DealRow
<1>9. CallsSawDeal'
  <2> SUFFICES ASSUME NEW g \in Handler, handler'[g].op \in Edits
               PROVE  /\ handler'[g].expected =< handler'[g].base.version
                      /\ handler'[g].base.version =< deal'.version
                      /\ handler'[g].base.version = deal'.version => handler'[g].base = deal'
    BY DEF CallsSawDeal
  <2>1. g # h /\ handler'[g] = handler[g]
    BY <1>4, <1>8 DEF Edits
  <2>2. handler[g] \in Edit
    BY <1>1, <2>1, ErrandFacts DEF DealTypes
  <2>3. handler[g].base.version \in Nat
    BY <2>2 DEF Edit, DealRow
  <2> QED BY <1>1, <1>6, <1>8, <2>1, <2>3 DEF CallsSawDeal
<1>10. EscrowInLaw'
  BY <1>1, <1>2, <1>4, <1>8 DEF EscrowInLaw, Settles
<1>11. deal' # deal => handler[h].base = deal
  <2> SUFFICES ASSUME deal' # deal PROVE handler[h].base = deal
    OBVIOUS
  <2>1. deal.version = handler[h].expected
    BY <1>6 DEF Matches
  <2>2. handler[h].base.version \in Nat
    BY <1>3 DEF Edit, DealRow
  <2> QED BY <1>1, <1>2, <1>8, <2>1, <2>2 DEF CallsSawDeal
<1> QED BY <1>7, <1>9, <1>10, <1>11 DEF DealInv

LEMMA EscrowWrites ==
  ASSUME DealInv, NEW h \in Handler, WriteEscrow(h)
  PROVE  /\ DealInv' /\ handler[h].op \in Settles /\ escrow'.state = handler[h].state
         /\ ~stale' => ~stale /\ Lawful(handler[h], escrow)
<1>1. DealTypes /\ CallsSawDeal /\ EscrowInLaw /\ Total \in Nat /\ KEEP \notin Nat
  BY DealAssumption DEF DealInv, DealAssumption
<1> DEFINE r == handler[h]
<1>2. /\ r.op \in Settles /\ handler' = [handler EXCEPT ![h] = Idle]
      /\ escrow' = [state    |-> r.state, version |-> escrow.version + 1,
                    released |-> Fill(r.released, escrow.released),
                    refunded |-> Fill(r.refunded, escrow.refunded)]
      /\ deal' = deal /\ won' = won /\ stale' = (stale \/ r.seen # escrow.version)
  BY DEF WriteEscrow, Settles
<1>3. r \in Settle /\ escrow \in EscrowRow /\ escrow.version \in Nat
  BY <1>1, <1>2, ErrandFacts DEF DealTypes, EscrowRow
<1> HIDE DEF r
<1>4. /\ handler' \in [Handler -> Errand] /\ handler'[h] = Idle /\ Idle.op = "idle"
      /\ \A g \in Handler \ {h} : handler'[g] = handler[g]
  BY <1>1, <1>2, ErrandFacts, Turns
<1>5. /\ Fill(r.released, escrow.released) \in 0..Total
      /\ Fill(r.refunded, escrow.refunded) \in 0..Total
      /\ escrow.released \in 0..Total /\ escrow.refunded \in 0..Total
  BY <1>3 DEF Fill, Settle, EscrowRow, Sums
<1>6. /\ escrow' \in EscrowRow /\ escrow'.version = escrow.version + 1 /\ escrow'.state = r.state
      /\ escrow'.released = Fill(r.released, escrow.released)
      /\ escrow'.refunded = Fill(r.refunded, escrow.refunded)
  <2>1. escrow.version + 1 \in Nat /\ r.state \in EscrowStates
    BY <1>3 DEF Settle
  <2> QED BY <1>2, <1>5, <2>1 DEF EscrowRow
<1>7. DealTypes' /\ CallsSawDeal'
  BY <1>1, <1>2, <1>4, <1>6 DEF DealTypes, CallsSawDeal, Edits
<1>8. ~stale' => ~stale /\ Lawful(r, escrow)
  BY <1>1, <1>2 DEF EscrowInLaw, r
<1>9. \A g \in Handler : handler'[g].op \in Settles =>
        handler'[g] = handler[g] /\ handler[g].seen =< escrow.version /\ handler[g].seen \in Nat
  BY <1>1, <1>4, ErrandFacts DEF EscrowInLaw, Settles, Settle, DealTypes
<1>10. ASSUME ~stale'
       PROVE  /\ escrow'.released + escrow'.refunded =< Total
              /\ escrow'.state # "REFUNDED" => escrow'.refunded = 0
              /\ escrow'.released >= escrow.released
  <2>1. /\ escrow.released + escrow.refunded =< Total
        /\ escrow.state # "REFUNDED" => escrow.refunded = 0
        /\ Lawful(r, escrow)
    BY <1>1, <1>8, <1>10 DEF EscrowInLaw
  <2>2. CASE r.op = "release"
    <3>1. /\ escrow.state # "REFUNDED" /\ r.released \in escrow.released..Total /\ r.refunded = KEEP
      BY <2>1, <2>2 DEF Lawful, ReleasableStates
    <3>2. escrow'.released = r.released /\ escrow'.refunded = 0
      BY <1>1, <1>5, <1>6, <2>1, <3>1 DEF Fill
    <3> QED BY <1>1, <1>5, <3>1, <3>2
  <2>3. CASE r.op = "refund"
    <3>1. /\ r.state = "REFUNDED" /\ r.released = KEEP /\ r.refunded = Total - escrow.released
      BY <2>1, <2>3 DEF Lawful
    <3>2. r.refunded \in Nat
      BY <1>1, <1>5, <3>1
    <3>3. escrow'.released = escrow.released /\ escrow'.refunded = Total - escrow.released
      BY <1>1, <1>6, <3>1, <3>2 DEF Fill
    <3> QED BY <1>1, <1>5, <1>6, <3>1, <3>3
  <2>4. CASE r.op \in {"fund", "dispute", "vote"}
    <3>1. /\ r.released = KEEP /\ r.refunded = KEEP /\ escrow.state # "REFUNDED"
      BY <2>1, <2>4 DEF Lawful, FundableStates, DisputableStates, ReleasableStates
    <3>2. escrow'.released = escrow.released /\ escrow'.refunded = escrow.refunded
      BY <1>6, <3>1 DEF Fill
    <3> QED BY <1>1, <1>5, <2>1, <3>1, <3>2
  <2> QED BY <1>2, <2>2, <2>3, <2>4 DEF Settles
<1>11. EscrowInLaw'
  <2>1. \A g \in Handler : handler'[g].op \in Settles =>
          handler'[g].seen =< escrow'.version /\ handler'[g].seen # escrow'.version
    BY <1>3, <1>6, <1>9
  <2>2. ASSUME ~stale', NEW g \in Handler, handler'[g].op = "pay"
        PROVE  handler'[g].amount >= Total - escrow'.released
    <3>1. handler'[g] = handler[g]
      BY <1>4, <2>2
    <3>2. handler[g].amount \in Nat
      BY <1>1, <2>2, <3>1, ErrandFacts DEF DealTypes
    <3>3. handler[g].amount >= Total - escrow.released
      BY <1>1, <1>8, <2>2, <3>1 DEF EscrowInLaw
    <3>4. escrow'.released \in 0..Total
      BY <1>5, <1>6
    <3> QED BY <1>1, <1>5, <1>10, <2>2, <3>1, <3>2, <3>3, <3>4
  <2> QED BY <1>10, <2>1, <2>2 DEF EscrowInLaw
<1> QED BY <1>2, <1>6, <1>7, <1>8, <1>11 DEF DealInv, r

\* The listener takes up a won deal, or a handler gives up.
LEMMA Listens ==
  ASSUME DealInv, NEW h \in Handler, HandleWon(h) \/ PayRefused(h)
  PROVE  DealInv' /\ handler'[h].op # "release" /\ UNCHANGED <<deal, escrow>>
<1>1. DealTypes /\ CallsSawDeal /\ EscrowInLaw /\ Total \in Nat
  BY DealAssumption DEF DealInv, DealAssumption
<1>2. /\ deal' = deal /\ escrow' = escrow /\ stale' = stale /\ won' \in Nat
  BY <1>1 DEF HandleWon, PayRefused, DealTypes
<1>3. escrow.released \in 0..Total
  BY <1>1 DEF DealTypes, EscrowRow
<1>4. \E e \in Errand : /\ handler' = [handler EXCEPT ![h] = e]
                        /\ e = Idle \/ (e.op = "pay" /\ e.amount = Total - escrow.released)
  <2>1. Total - escrow.released \in 0..Total
    BY <1>1, <1>3
  <2> DEFINE amount == Total - escrow.released
  <2> DEFINE e == [op |-> "pay", amount |-> amount]
  <2>2. amount \in 0..Total
    BY <2>1
  <2>3. handler' = [handler EXCEPT ![h] = e] \/ handler' = [handler EXCEPT ![h] = Idle]
    BY DEF HandleWon, PayRefused
  <2> HIDE DEF amount
  <2>4. e \in Errand /\ e.op = "pay" /\ e.amount = amount
    BY <2>2 DEF Errand
  <2> HIDE DEF e
  <2> QED BY <2>3, <2>4, ErrandFacts DEF amount
<1>5. PICK e \in Errand : /\ handler' = [handler EXCEPT ![h] = e]
                          /\ e = Idle \/ (e.op = "pay" /\ e.amount = Total - escrow.released)
  BY <1>4
<1>6. /\ handler' \in [Handler -> Errand] /\ handler'[h] = e
      /\ \A g \in Handler \ {h} : handler'[g] = handler[g]
  BY <1>1, <1>5, Turns
<1>7. e.op \notin Edits /\ e.op \notin Settles
  BY <1>5, ErrandFacts DEF Edits, Settles
<1>8. DealTypes' /\ CallsSawDeal'
  BY <1>1, <1>2, <1>6, <1>7 DEF DealTypes, CallsSawDeal
<1>9. e.op = "pay" => e.amount >= Total - escrow.released
  BY <1>1, <1>3, <1>5, ErrandFacts
<1>10. EscrowInLaw'
  BY <1>1, <1>2, <1>6, <1>7, <1>9 DEF EscrowInLaw
<1> QED BY <1>2, <1>6, <1>7, <1>8, <1>10 DEF DealInv, Settles

LEMMA DealCallsRead ==
  ASSUME DealInv, NEW h \in Handler, Reads(h)
  PROVE  DealInv' /\ UNCHANGED <<deal, escrow>> /\ handler[h] = Idle
<1>1. /\ deal \in DealRow /\ escrow \in EscrowRow /\ escrow.released \in 0..Total /\ Total \in Nat
      /\ deal.stage \in AllStages /\ deal.title \in Title
  BY DealAssumption DEF DealAssumption, DealInv, DealTypes, DealRow, EscrowRow
<1>2. CASE ReadForUpdate(h)
  <2>1. PICK v \in 1..deal.version, s \in Opening \cup {KEEP}, t \in Title \cup {KEEP} :
          Read(h, "update", v, deal, Fill(s, deal.stage), Fill(t, deal.title))
    BY <1>2 DEF ReadForUpdate
  <2>2. Fill(s, deal.stage) \in AllStages /\ Fill(t, deal.title) \in Title
    BY <1>1, DealAssumption DEF DealAssumption, Fill, AllStages, DealStages
  <2> QED BY <2>1, <2>2, DealReads DEF Edits, Read, CanCall
<1>3. CASE ReadForStage(h)
  BY <1>1, <1>3, DealReads DEF ReadForStage, Edits, Read, CanCall
<1>4. CASE ReadForArchive(h)
  BY <1>1, <1>4, DealReads DEF ReadForArchive, Edits, Read, CanCall
<1>5. CASE ReadForFund(h)
  <2>1. Take(h, "fund", FundableStates, "FUNDED", KEEP, KEEP) /\ handler[h] = Idle
    BY <1>5 DEF ReadForFund, CanCall
  <2>2. Lawful([op |-> "fund", seen |-> escrow.version, state |-> "FUNDED",
                released |-> KEEP, refunded |-> KEEP], escrow)
    BY <2>1 DEF Lawful, Take
  <2> QED BY <2>1, <2>2, EscrowReads DEF Settles, Sums, EscrowStates, ReleasableStates, Take
<1>6. CASE ReadForRelease(h)
  BY <1>6, Releases, DealAssumption DEF DealAssumption, ReadForRelease, CanCall, TakeRelease, Take
<1>7. CASE ReadForRefund(h)
  <2> DEFINE rest == Total - escrow.released
  <2>1. Take(h, "refund", RefundableStates, "REFUNDED", KEEP, rest) /\ handler[h] = Idle
    BY <1>7 DEF ReadForRefund, CanCall
  <2>2. rest \in 0..Total
    BY <1>1
  <2>3. Lawful([op |-> "refund", seen |-> escrow.version, state |-> "REFUNDED",
                released |-> KEEP, refunded |-> rest], escrow)
    BY <2>1 DEF Lawful, Take
  <2> HIDE DEF rest
  <2> QED BY <2>1, <2>2, <2>3, EscrowReads DEF Settles, Sums, EscrowStates, Take
<1>8. CASE ReadForDispute(h)
  <2>1. Take(h, "dispute", DisputableStates, "DISPUTED", KEEP, KEEP) /\ handler[h] = Idle
    BY <1>8 DEF ReadForDispute, CanCall
  <2>2. Lawful([op |-> "dispute", seen |-> escrow.version, state |-> "DISPUTED",
                released |-> KEEP, refunded |-> KEEP], escrow)
    BY <2>1 DEF Lawful, Take
  <2> QED BY <2>1, <2>2, EscrowReads DEF Settles, Sums, EscrowStates, Take
<1>9. CASE ReadForVote(h)
  <2>1. PICK s \in {"FUNDED", "REFUNDED"} : Take(h, "vote", {"DISPUTED"}, s, KEEP, KEEP)
    BY <1>9 DEF ReadForVote
  <2>2. Lawful([op |-> "vote", seen |-> escrow.version, state |-> s,
                released |-> KEEP, refunded |-> KEEP], escrow)
    BY <2>1 DEF Lawful, Take
  <2>3. handler[h] = Idle /\ s \in EscrowStates
    BY <1>9 DEF ReadForVote, CanCall, EscrowStates, ReleasableStates
  <2> QED BY <2>1, <2>2, <2>3, EscrowReads DEF Settles, Sums, Take
<1> QED BY <1>2, <1>3, <1>4, <1>5, <1>6, <1>7, <1>8, <1>9 DEF Reads

\* The payment for a won deal.
LEMMA Pays ==
  ASSUME DealInv, NEW h \in Handler, Pay(h)
  PROVE  /\ DealInv' /\ UNCHANGED <<deal, escrow>>
         /\ ~stale => handler'[h].released = Total
<1>1. handler[h].op = "pay" /\ handler[h].amount \in Nat /\ TakeRelease(h, handler[h].amount)
  BY ErrandFacts DEF Pay, DealInv, DealTypes
<1>2. escrow.released \in 0..Total /\ Total \in Nat
  BY DealAssumption DEF DealAssumption, DealInv, DealTypes, EscrowRow
<1>3. handler'[h].released = escrow.released + handler[h].amount
  BY <1>1 DEF TakeRelease, Take, DealInv, DealTypes
<1>4. ASSUME ~stale PROVE handler'[h].released = Total
  <2>1. handler[h].amount >= Total - escrow.released
    BY <1>1, <1>4 DEF DealInv, EscrowInLaw
  <2>2. escrow.released + handler[h].amount =< Total
    BY <1>1 DEF TakeRelease
  <2> QED BY <1>1, <1>2, <1>3, <2>1, <2>2
<1> QED BY <1>1, <1>4, Releases DEF TakeRelease, Take

LEMMA DealNextInv == DealInv /\ [DealNext]_dealVars => DealInv'
<1> SUFFICES ASSUME DealInv, [DealNext]_dealVars PROVE DealInv'
  OBVIOUS
<1>1. CASE UNCHANGED dealVars
  BY <1>1 DEF dealVars, DealInv, DealTypes, CallsSawDeal, EscrowInLaw
<1> QED BY <1>1, DealWrites, EscrowWrites, Listens, DealCallsRead, Pays DEF DealNext, Continues

\* A deal is written only over the row its handler has read; without overlapping
\* escrow calls the total is shared once, only a vote ends a dispute and a won
\* deal pays all that is left; for any number of handlers and any total.
THEOREM DealsSafe == DealSpec => DealSafety
<1>1. DealInv => TotalIsShared
  BY DEF DealInv, EscrowInLaw, TotalIsShared
<1>2. DealInv /\ [DealNext]_dealVars =>
        [\A h \in Handler :
           deal' # deal /\ handler'[h] # handler[h] => handler[h].base = deal]_dealVars
  <2> SUFFICES ASSUME DealInv, DealNext, NEW h \in Handler, deal' # deal, handler'[h] # handler[h]
               PROVE  handler[h].base = deal
    OBVIOUS
  <2>1. PICK g \in Handler : WriteDeal(g)
    BY DealCallsRead, Listens, Pays DEF DealNext, Continues, WriteEscrow
  <2>2. g = h
    BY <2>1 DEF WriteDeal, DealInv, DealTypes
  <2> QED BY <2>1, <2>2, DealWrites
<1>3. DealInv /\ [DealNext]_dealVars =>
        [~stale' /\ escrow'.state # escrow.state =>
           /\ escrow.state \notin {"COMPLETED", "REFUNDED"}
           /\ escrow.state = "DISPUTED" =>
                \E h \in Handler : handler[h].op = "vote" /\ handler'[h] = Idle]_dealVars
  <2> SUFFICES ASSUME DealInv, DealNext, ~stale', escrow'.state # escrow.state
               PROVE  /\ escrow.state \notin {"COMPLETED", "REFUNDED"}
                      /\ escrow.state = "DISPUTED" =>
                           \E h \in Handler : handler[h].op = "vote" /\ handler'[h] = Idle
    OBVIOUS
  <2>1. PICK h \in Handler : WriteEscrow(h)
    BY DealCallsRead, Listens, Pays DEF DealNext, Continues, WriteDeal
  <2>2. Lawful(handler[h], escrow) /\ handler[h].op \in Settles
    BY <2>1, EscrowWrites
  <2>3. handler'[h] = Idle
    BY <2>1 DEF WriteEscrow, DealInv, DealTypes
  <2> QED BY <2>2, <2>3 DEF Lawful, Settles, FundableStates, ReleasableStates, RefundableStates,
             DisputableStates
<1>4. DealInv /\ [DealNext]_dealVars =>
        [\A h \in Handler :
           ~stale /\ handler[h].op = "pay" /\ handler'[h].op = "release"
             => handler'[h].released = Total]_dealVars
  <2> SUFFICES ASSUME DealInv, DealNext, NEW h \in Handler,
                      ~stale, handler[h].op = "pay", handler'[h].op = "release"
               PROVE  handler'[h].released = Total
    OBVIOUS
  <2>1. PICK g \in Handler : Reads(g) \/ Continues(g)
    BY DEF DealNext
  <2>2. handler' = [handler EXCEPT ![g] = handler'[g]]
    BY <2>1 DEF Reads, Continues, ReadForUpdate, ReadForStage, ReadForArchive, Read, ReadForFund,
       ReadForRelease, TakeRelease, ReadForRefund, ReadForDispute, ReadForVote, Take, WriteDeal,
       WriteEscrow, HandleWon, Pay, PayRefused, DealInv, DealTypes
  <2>3. g = h
    BY <2>2 DEF DealInv, DealTypes
  <2>4. Pay(h)
    BY <2>1, <2>3, DealCallsRead, Listens, ErrandFacts DEF Continues, WriteDeal, WriteEscrow
  <2> QED BY <2>4, Pays
<1> QED BY <1>1, <1>2, <1>3, <1>4, DealInitInv, DealNextInv, PTL
        DEF DealSpec, DealSafety, WritesOverWhatItRead, OnlyVotesEndDisputes, AutoReleaseIsWhole

\* The rows of deals and escrows and the handlers' errands keep their types.
THEOREM DealTypesKept == DealSpec => []DealTypeOK
<1>1. DealInv => DealTypeOK
  <2> SUFFICES ASSUME DealInv PROVE DealTypeOK
    OBVIOUS
  <2>1. DealTypes
    BY DEF DealInv
  <2>2. \A e \in Errand : e.op \in {"idle", "update", "stage", "archive", "fund",
                                  "release", "refund", "dispute", "vote", "pay"}
    BY DEF Errand, Edit, Edits, Settle, Idle, Settles
  <2> QED BY <2>1, <2>2 DEF DealTypes, DealTypeOK, DealRow, EscrowRow
<1> QED BY <1>1, DealInitInv, DealNextInv, PTL DEF DealSpec

-----------------------------------------------------------------------------
(* AI agents.  A request that has incremented a counter within its limit has *)
(* a place in that window before it passes, and the places and the requests  *)
(* that have passed are at most the count; a call to the model with the     *)
(* platform's key is owed from its check on, and the reset of a month leaves *)
(* what is owed; and while no two executions overlapped, the plan that has   *)
(* become a campaign is gone or about to go.                                 *)
Doing == {"check", "platform", "own", "get", "create", "start", "evict"}
Agent ==
  {Free}
  \cup [at : {"limit"}, kind : {"plan", "execute"}, incr : SUBSET Key, expire : SUBSET Key,
        seen : [Key -> Nat], old : SUBSET Key]
  \cup [at : Doing]

AgentTypes ==
  /\ count \in [Key -> Nat] /\ expires \in [Key -> BOOLEAN] /\ passed \in [Key -> Nat]
  /\ agent \in [Caller -> Agent]
  /\ toLog \in [Payer -> Nat] /\ toCharge \in [Payer -> Nat]
  /\ config \in BOOLEAN /\ quota \in Nat /\ ownKey \in BOOLEAN /\ used \in Nat
  /\ paid \in Nat /\ peak \in Nat /\ top \in Nat
  /\ campaigns \in Nat /\ cuts \in Nat /\ again \in BOOLEAN
  /\ plan \in {"none", "cached", "gone"}

Placed(k) ==
  {c \in Caller : /\ agent[c].at = "limit" /\ k \notin agent[c].incr /\ k \notin agent[c].old
                  /\ agent[c].seen[k] <= Limit[k]}

WindowsCounted ==
  /\ \A k \in Key : /\ passed[k] + Cardinality(Placed(k)) <= count[k]
                    /\ passed[k] + Cardinality(Placed(k)) <= Limit[k]
  /\ \A c \in Caller : agent[c].at = "limit" => agent[c].incr \intersect agent[c].old = {}

Calling == {c \in Caller : agent[c].at = "platform"}
Owed == toLog["platform"] + toCharge["platform"] + Cardinality(Calling)

(* A row that is not there yet has the quota of the schema.                  *)
RowMakesSense ==
  /\ (used > 0 \/ ownKey => config) /\ (~config => quota > 0)
  /\ paid <= used /\ quota <= top

CallsOwed ==
  /\ RowMakesSense /\ Owed <= peak
  /\ paid > 0 \/ Owed > 0 => top > 0 /\ paid + Owed * Cost < top + peak * Cost

PlanFollowed ==
  ~again =>
    /\ \A c, d \in Caller : agent[c].at \in Executing /\ agent[d].at \in Executing => c = d
    /\ campaigns <= 1 /\ \A c \in Caller : agent[c].at = "create" => campaigns = 0
    /\ campaigns > 0 => plan = "gone" \/ \E c \in Caller : agent[c].at \in {"start", "evict"}

AgentInv == AgentTypes /\ WindowsCounted /\ CounterExpires /\ CallsOwed /\ PlanFollowed

LEMMA AgentFacts ==
  /\ Free \in Agent /\ Free.at = "free"
  /\ \A a \in Doing : [at |-> a] \in Agent
  /\ \A n \in Agent : n.at = "limit" =>
       /\ n.kind \in {"plan", "execute"} /\ n.incr \in SUBSET Key /\ n.expire \in SUBSET Key
       /\ n.seen \in [Key -> Nat] /\ n.old \in SUBSET Key
       /\ n \in [at : {"limit"}, kind : {"plan", "execute"}, incr : SUBSET Key, expire : SUBSET Key,
                 seen : [Key -> Nat], old : SUBSET Key]
<1>1. Free \in Agent /\ Free.at = "free"
  BY DEF Agent, Free
<1>2. \A a \in Doing : [at |-> a] \in Agent
  BY DEF Agent
<1>3. \A n \in Agent : n.at = "limit" =>
        n \in [at : {"limit"}, kind : {"plan", "execute"}, incr : SUBSET Key, expire : SUBSET Key,
               seen : [Key -> Nat], old : SUBSET Key]
  BY DEF Agent, Free, Doing
<1> QED BY <1>1, <1>2, <1>3

\* One request goes on, the others stay.
LEMMA AgentTurns ==
  ASSUME agent \in [Caller -> Agent], NEW c \in Caller, NEW n \in Agent, Become(c, n)
  PROVE  /\ agent' \in [Caller -> Agent] /\ agent'[c] = n
         /\ \A d \in Caller \ {c} : agent'[d] = agent[d]
  BY DEF Become

LEMMA PlacedIsFinite ==
  /\ \A k : IsFiniteSet(Placed(k)) /\ Cardinality(Placed(k)) \in Nat
  /\ IsFiniteSet(Calling) /\ Cardinality(Calling) \in Nat
<1>1. IsFiniteSet(Caller) /\ Calling \subseteq Caller /\ \A k : Placed(k) \subseteq Caller
  BY AgentAssumption DEF AgentAssumption, Placed, Calling
<1> QED BY <1>1, FS_Subset, FS_CardinalityType

LEMMA UnchargedIsOwed == Uncharged = Owed
  BY DEF Uncharged, Owed, Calling, Quantify

LEMMA OwedIsNat ==
  /\ AgentTypes => Owed \in Nat
  /\ AgentTypes' => Owed' \in Nat
<1>1. ASSUME NEW a \in Nat, NEW b \in Nat, NEW x \in Nat PROVE a + b + x \in Nat
  OBVIOUS
<1>2. Cardinality(Calling) \in Nat /\ Cardinality(Calling') \in Nat
  <2>1. IsFiniteSet(Caller) /\ Calling \subseteq Caller /\ Calling' \subseteq Caller
    BY AgentAssumption DEF AgentAssumption, Calling
  <2> QED BY <2>1, FS_Subset, FS_CardinalityType
<1>3. AgentTypes => toLog["platform"] \in Nat /\ toCharge["platform"] \in Nat
  BY DEF AgentTypes, Payer
<1>4. AgentTypes' => toLog'["platform"] \in Nat /\ toCharge'["platform"] \in Nat
  BY DEF AgentTypes, Payer
<1> QED BY <1>1, <1>2, <1>3, <1>4 DEF Owed

\* When nobody takes a place in a window, its count holds.
LEMMA FewerPlaced ==
  ASSUME AgentTypes, NEW k \in Key, Placed(k)' \subseteq Placed(k),
         passed'[k] = passed[k], count'[k] \in Nat, count'[k] >= count[k],
         passed[k] + Cardinality(Placed(k)) <= count[k],
         passed[k] + Cardinality(Placed(k)) <= Limit[k]
  PROVE  /\ passed'[k] + Cardinality(Placed(k)') <= count'[k]
         /\ passed'[k] + Cardinality(Placed(k)') <= Limit[k]
<1>1. IsFiniteSet(Placed(k)) /\ Cardinality(Placed(k)) \in Nat
  BY PlacedIsFinite
<1>2. Cardinality(Placed(k)') \in Nat /\ Cardinality(Placed(k)') <= Cardinality(Placed(k))
  BY <1>1, FS_Subset, FS_CardinalityType
<1>3. passed[k] \in Nat /\ count[k] \in Nat /\ Limit[k] \in Nat
  BY AgentAssumption DEF AgentTypes, AgentAssumption
<1> DEFINE x == Cardinality(Placed(k))
           y == Cardinality(Placed(k)')
<1> x \in Nat /\ y \in Nat /\ y <= x /\ passed[k] + x <= count[k] /\ passed[k] + x <= Limit[k]
  BY <1>1, <1>2
<1> SUFFICES passed[k] + y <= count'[k] /\ passed[k] + y <= Limit[k]
  OBVIOUS
<1> HIDE DEF x, y
<1> QED BY <1>3

LEMMA AgentInitInv == AgentInit => AgentInv
<1> SUFFICES ASSUME AgentInit PROVE AgentInv
  OBVIOUS
<1>1. AgentTypes
  <2>1. DefaultQuota \in Nat
    BY AgentAssumption DEF AgentAssumption
  <2> QED BY <2>1, AgentFacts DEF AgentInit, AgentTypes
<1>2. (\A k \in Key : Placed(k) = {}) /\ \A c \in Caller : agent[c].at = "free"
  BY AgentFacts DEF AgentInit, Placed
<1>3. WindowsCounted
  <2> SUFFICES ASSUME NEW k \in Key
               PROVE  /\ passed[k] + Cardinality(Placed(k)) <= count[k]
                      /\ passed[k] + Cardinality(Placed(k)) <= Limit[k]
    BY <1>2 DEF WindowsCounted
  <2>1. Cardinality(Placed(k)) = 0 /\ passed[k] = 0 /\ count[k] = 0 /\ Limit[k] \in Nat
    BY <1>2, FS_EmptySet, AgentAssumption DEF AgentInit, AgentAssumption
  <2> QED BY <2>1
<1>4. CounterExpires /\ PlanFollowed
  BY <1>2 DEF AgentInit, CounterExpires, PlanFollowed, Executing
<1>5. CallsOwed
  <2>1. Calling = {}
    BY <1>2 DEF Calling
  <2>2. Cardinality(Calling) = 0
    BY <2>1, FS_EmptySet
  <2>3. Owed = 0
    BY <2>2 DEF Owed, AgentInit, Payer
  <2>4. RowMakesSense /\ paid = 0 /\ peak = 0
    BY AgentAssumption DEF AgentInit, AgentAssumption, RowMakesSense
  <2> QED BY <2>3, <2>4 DEF CallsOwed
<1> QED BY <1>1, <1>3, <1>4, <1>5 DEF AgentInv

\* What an increment makes of its request.
LEMMA Counts ==
  ASSUME AgentTypes, NEW c \in Caller, NEW k \in Key, Incr(c, k)
  PROVE  /\ agent[c].at = "limit" /\ k \in agent[c].incr
         /\ count' \in [Key -> Nat] /\ count'[k] = count[k] + 1
         /\ \A j \in Key \ {k} : count'[j] = count[j]
         /\ agent' \in [Caller -> Agent] /\ \A d \in Caller \ {c} : agent'[d] = agent[d]
         /\ agent'[c].at = "limit" /\ agent'[c].incr = agent[c].incr \ {k}
         /\ agent'[c].old = agent[c].old /\ agent'[c].kind = agent[c].kind
         /\ agent'[c].seen[k] = count[k] + 1
         /\ \A j \in Key \ {k} : agent'[c].seen[j] = agent[c].seen[j]
         /\ agent[c].expire \subseteq agent'[c].expire
         /\ count[k] = 0 => k \in agent'[c].expire
<1>1. /\ agent[c].at = "limit" /\ k \in agent[c].incr /\ count' = [count EXCEPT ![k] = count[k] + 1]
      /\ count \in [Key -> Nat] /\ agent \in [Caller -> Agent]
  BY DEF Incr, AgentTypes
<1> DEFINE v == count[k] + 1
<1>2. v \in Nat /\ count' = [count EXCEPT ![k] = v]
  BY <1>1
<1> DEFINE a == agent[c]
           s == [a.seen EXCEPT ![k] = v]
           e == IF v = 1 THEN a.expire \cup {k} ELSE a.expire
           i == a.incr \ {k}
           n == [a EXCEPT !.incr = i, !.seen = s, !.expire = e]
<1>3. a \in [at : {"limit"}, kind : {"plan", "execute"}, incr : SUBSET Key, expire : SUBSET Key,
             seen : [Key -> Nat], old : SUBSET Key]
  BY <1>1, AgentFacts
<1>4. Become(c, [a EXCEPT !.incr = @ \ {k}, !.seen[k] = v,
                          !.expire = IF v = 1 THEN @ \cup {k} ELSE @])
  <2>1. count'[k] = v
    BY <1>1, <1>2
  <2> HIDE DEF v
  <2> QED BY <2>1 DEF Incr, FirstOfWindow
<1>5. [a EXCEPT !.incr = @ \ {k}, !.seen[k] = v, !.expire = IF v = 1 THEN @ \cup {k} ELSE @] = n
  OBVIOUS
<1>6. s \in [Key -> Nat] /\ s[k] = v /\ \A j \in Key \ {k} : s[j] = a.seen[j]
  <2> HIDE DEF v, a
  <2> QED BY <1>2, <1>3
<1>7. e \in SUBSET Key /\ a.expire \subseteq e /\ (v = 1 => k \in e)
  <2> HIDE DEF v, a
  <2> QED BY <1>3
<1>8. /\ n \in Agent
      /\ n.at = "limit" /\ n.incr = i /\ n.old = a.old /\ n.kind = a.kind
      /\ n.seen = s /\ n.expire = e
  <2> i \in SUBSET Key
    BY <1>3
  <2> HIDE DEF s, e, a, v, i
  <2> QED BY <1>3, <1>6, <1>7 DEF Agent
<1>10. /\ count' \in [Key -> Nat] /\ count'[k] = v
       /\ \A j \in Key \ {k} : count'[j] = count[j]
  <2> HIDE DEF v
  <2> QED BY <1>1, <1>2
<1>11. Become(c, n)
  BY <1>4, <1>5
<1> HIDE DEF n
<1>12. /\ agent' \in [Caller -> Agent] /\ agent'[c] = n
       /\ \A d \in Caller \ {c} : agent'[d] = agent[d]
  BY <1>1, <1>8, <1>11, AgentTurns
<1>13. count[k] = 0 => v = 1
  BY <1>1
<1> HIDE DEF s, e
<1> QED BY <1>1, <1>6, <1>7, <1>8, <1>10, <1>12, <1>13

\* What a new request, an expiry and a decision make of their request.
LEMMA Asks ==
  ASSUME AgentTypes, NEW c \in Caller, NEW kind \in {"plan", "execute"}, Request(c, kind)
  PROVE  /\ agent' \in [Caller -> Agent] /\ \A d \in Caller \ {c} : agent'[d] = agent[d]
         /\ agent[c].at = "free" /\ agent'[c].at = "limit"
         /\ agent'[c].incr = Key /\ agent'[c].old = {}
<1> DEFINE n == [at |-> "limit", kind |-> kind, incr |-> Key, expire |-> {},
                 seen |-> [k \in Key |-> 0], old |-> {}]
<1>1. n \in Agent /\ n.at = "limit" /\ n.incr = Key /\ n.old = {}
  <2>1. [k \in Key |-> 0] \in [Key -> Nat]
    OBVIOUS
  <2> QED BY <2>1 DEF Agent
<1>2. Become(c, n) /\ agent[c] = Free
  BY DEF Request
<1> HIDE DEF n
<1> QED BY <1>1, <1>2, AgentTurns, AgentFacts DEF AgentTypes

LEMMA SetsExpiry ==
  ASSUME AgentTypes, NEW c \in Caller, NEW k \in Key, Expire(c, k)
  PROVE  /\ agent' \in [Caller -> Agent] /\ \A d \in Caller \ {c} : agent'[d] = agent[d]
         /\ agent[c].at = "limit" /\ agent'[c].at = "limit" /\ agent'[c].incr = agent[c].incr
         /\ agent'[c].old = agent[c].old /\ agent'[c].seen = agent[c].seen
         /\ agent'[c].expire = agent[c].expire \ {k}
<1> DEFINE a == agent[c]
           e == a.expire \ {k}
           n == [a EXCEPT !.expire = e]
<1>1. a.at = "limit" /\ Become(c, n)
  BY DEF Expire
<1>2. a \in [at : {"limit"}, kind : {"plan", "execute"}, incr : SUBSET Key, expire : SUBSET Key,
             seen : [Key -> Nat], old : SUBSET Key]
  BY <1>1, AgentFacts DEF AgentTypes
<1>3. /\ n \in Agent /\ n.at = "limit" /\ n.incr = a.incr /\ n.old = a.old /\ n.seen = a.seen
      /\ n.expire = e
  <2> e \in SUBSET Key
    BY <1>2
  <2> HIDE DEF a, e
  <2> QED BY <1>2 DEF Agent
<1> HIDE DEF n
<1> QED BY <1>1, <1>3, AgentTurns DEF AgentTypes

LEMMA Decides ==
  ASSUME AgentTypes, NEW c \in Caller, Decide(c)
  PROVE  /\ agent' \in [Caller -> Agent] /\ \A d \in Caller \ {c} : agent'[d] = agent[d]
         /\ agent[c].at = "limit" /\ agent[c].incr = {} /\ agent[c].expire = {}
         /\ agent'[c].at \in {"free", "check", "get"}
         /\ agent'[c].at = "get" => agent[c].kind = "execute"
         /\ passed' \in [Key -> Nat]
         /\ \/ /\ passed' = passed /\ \E k \in Key : agent[c].seen[k] > Limit[k]
            \/ /\ \A k \in Key : agent[c].seen[k] <= Limit[k]
               /\ \A k \in Key : passed'[k] = IF k \in agent[c].old THEN passed[k] ELSE passed[k] + 1
<1>1. /\ agent[c].at = "limit" /\ agent[c].incr = {} /\ agent[c].expire = {}
      /\ agent[c] \in Agent /\ agent \in [Caller -> Agent] /\ passed \in [Key -> Nat]
  BY DEF Decide, AgentTypes
<1>2. agent[c].kind \in {"plan", "execute"} /\ agent[c].seen \in [Key -> Nat]
  BY <1>1, AgentFacts
<1>3. PICK n : /\ n \in {Free, [at |-> "check"], [at |-> "get"]} /\ Become(c, n)
               /\ n = [at |-> "get"] => agent[c].kind # "plan"
  BY DEF Decide, Free
<1>4. n \in Agent /\ n.at \in {"free", "check", "get"} /\ (n.at = "get" => n = [at |-> "get"])
  BY <1>3, AgentFacts DEF Doing
<1>5. /\ agent' \in [Caller -> Agent] /\ agent'[c] = n
      /\ \A d \in Caller \ {c} : agent'[d] = agent[d]
  BY <1>1, <1>3, <1>4, AgentTurns
<1>6. CASE OverLimit(c)
  BY <1>1, <1>2, <1>3, <1>4, <1>5, <1>6 DEF Decide, OverLimit
<1>7. CASE ~OverLimit(c)
  <2>1. \A k \in Key : agent[c].seen[k] \in Nat /\ Limit[k] \in Nat
    BY <1>2, AgentAssumption DEF AgentAssumption
  <2>2. \A k \in Key : agent[c].seen[k] <= Limit[k]
    BY <1>7, <2>1 DEF OverLimit
  <2>3. passed' = [k \in Key |-> IF k \in agent[c].old THEN passed[k] ELSE passed[k] + 1]
    BY <1>7 DEF Decide
  <2>4. passed' \in [Key -> Nat]
    BY <1>1, <2>3
  <2> QED BY <1>1, <1>2, <1>3, <1>4, <1>5, <2>2, <2>3, <2>4
<1> QED BY <1>6, <1>7

LEMMA WindowCloses ==
  ASSUME AgentTypes, NEW k \in Key, WindowEnds(k)
  PROVE  /\ agent' \in [Caller -> Agent]
         /\ \A c \in Caller :
              /\ agent'[c].at = agent[c].at
              /\ agent[c].at = "limit" =>
                   /\ agent'[c].incr = agent[c].incr /\ agent'[c].expire = agent[c].expire
                   /\ agent'[c].seen = agent[c].seen
                   /\ agent'[c].old = IF k \in agent[c].incr THEN agent[c].old
                                      ELSE agent[c].old \cup {k}
<1>1. agent' = [c \in Caller |-> IF agent[c].at = "limit" /\ k \notin agent[c].incr
                                 THEN [agent[c] EXCEPT !.old = @ \cup {k}] ELSE agent[c]]
  BY DEF WindowEnds
<1>2. ASSUME NEW c \in Caller, agent[c].at = "limit"
      PROVE  LET n == [agent[c] EXCEPT !.old = @ \cup {k}] IN
             /\ n \in Agent /\ n.at = "limit" /\ n.incr = agent[c].incr /\ n.seen = agent[c].seen
             /\ n.expire = agent[c].expire /\ n.old = agent[c].old \cup {k}
  <2> DEFINE a == agent[c]
             o == a.old \cup {k}
  <2>1. a \in [at : {"limit"}, kind : {"plan", "execute"}, incr : SUBSET Key, expire : SUBSET Key,
               seen : [Key -> Nat], old : SUBSET Key]
    BY <1>2, AgentFacts DEF AgentTypes
  <2>2. o \in SUBSET Key
    BY <2>1
  <2> HIDE DEF a, o
  <2>3. LET n == [a EXCEPT !.old = o] IN
        /\ n \in Agent /\ n.at = "limit" /\ n.incr = a.incr /\ n.seen = a.seen
        /\ n.expire = a.expire /\ n.old = o
    BY <2>1, <2>2 DEF Agent
  <2> QED BY <2>3 DEF a, o
<1> QED BY <1>1, <1>2 DEF AgentTypes

\* A request that has passed works, is done or is cut off.
Works(c) ==
  CheckQuota(c) \/ StorePlan(c) \/ GetPlan(c) \/ CreateCampaign(c) \/ StartPlan(c) \/ EvictPlan(c)

LEMMA WorkGoesOn ==
  ASSUME AgentTypes, NEW c \in Caller, Works(c) \/ CallIsCut(c)
  PROVE  /\ agent' \in [Caller -> Agent] /\ \A d \in Caller \ {c} : agent'[d] = agent[d]
         /\ agent'[c].at \in Doing \cup {"free"}
         /\ CallIsCut(c) => agent'[c].at = "free"
         /\ count' = count /\ expires' = expires /\ passed' = passed
<1>1. PICK n : n \in {Free} \cup [at : Doing] /\ Become(c, n) /\ (CallIsCut(c) => n = Free)
  <2>1. \A a \in Doing : [at |-> a] \in [at : Doing]
    OBVIOUS
  <2>2. KeyInUse \in Doing
    BY DEF KeyInUse, Doing
  <2> QED BY <2>1, <2>2 DEF Works, CheckQuota, StorePlan, GetPlan, CreateCampaign, StartPlan,
          EvictPlan, CallIsCut, Doing
<1>2. n \in Agent /\ n.at \in Doing \cup {"free"}
  BY <1>1, AgentFacts DEF Agent
<1>3. count' = count /\ expires' = expires /\ passed' = passed
  BY DEF Works, CheckQuota, StorePlan, GetPlan, CreateCampaign, StartPlan, EvictPlan, CallIsCut,
     limitVars
<1> QED BY <1>1, <1>2, <1>3, AgentTurns, AgentFacts DEF AgentTypes

\* What moves without a request.
Runs ==
  \/ \E p \in Payer : LogUsage(p) \/ ChargeUsage(p) \/ UsageIsLost(p)
  \/ \E key \in BOOLEAN, q \in Quotas \cup {quota} : UpdateConfig(key, q)
  \/ MonthStarts \/ PlanExpires

LEMMA AgentTypesNext == AgentTypes /\ AgentNext => AgentTypes'
<1> SUFFICES ASSUME AgentTypes, AgentNext PROVE AgentTypes'
  OBVIOUS
<1>1. /\ count \in [Key -> Nat] /\ expires \in [Key -> BOOLEAN] /\ passed \in [Key -> Nat]
      /\ agent \in [Caller -> Agent]
      /\ toLog \in [Payer -> Nat] /\ toCharge \in [Payer -> Nat]
      /\ config \in BOOLEAN /\ quota \in Nat /\ ownKey \in BOOLEAN /\ used \in Nat
      /\ paid \in Nat /\ peak \in Nat /\ top \in Nat
      /\ campaigns \in Nat /\ cuts \in Nat /\ again \in BOOLEAN
      /\ plan \in {"none", "cached", "gone"} /\ Cost \in Nat /\ Quotas \subseteq Nat
  BY AgentAssumption DEF AgentTypes, AgentAssumption
<1>2. ASSUME NEW c \in Caller, NEW kind \in {"plan", "execute"}, Request(c, kind)
      PROVE  AgentTypes'
  BY <1>1, <1>2, Asks DEF Request, AgentTypes, limitVars, quotaVars, rowVars, paidVars, planVars
<1>3. ASSUME NEW c \in Caller, NEW k \in Key, Incr(c, k)
      PROVE  AgentTypes'
  BY <1>1, <1>3, Counts DEF Incr, AgentTypes, quotaVars, rowVars, paidVars, planVars
<1>4. ASSUME NEW c \in Caller, NEW k \in Key, Expire(c, k)
      PROVE  AgentTypes'
  <2>1. expires' \in [Key -> BOOLEAN] /\ count' = count /\ passed' = passed
    BY <1>1, <1>4 DEF Expire
  <2>2. agent' \in [Caller -> Agent]
    BY <1>4, SetsExpiry
  <2> QED BY <1>1, <1>4, <2>1, <2>2 DEF Expire, AgentTypes, quotaVars, rowVars, paidVars, planVars
<1>5. ASSUME NEW c \in Caller, Decide(c)
      PROVE  AgentTypes'
  <2>1. again' \in BOOLEAN
    BY <1>5 DEF Decide
  <2> QED BY <1>1, <1>5, <2>1, Decides DEF Decide, AgentTypes, quotaVars, rowVars, paidVars
<1>6. ASSUME NEW k \in Key, WindowEnds(k)
      PROVE  AgentTypes'
  BY <1>1, <1>6, WindowCloses DEF WindowEnds, AgentTypes, quotaVars, rowVars, paidVars, planVars
<1>7. ASSUME NEW c \in Caller, Works(c) \/ CallIsCut(c)
      PROVE  AgentTypes'
  <2>1. /\ agent' \in [Caller -> Agent] /\ count' = count /\ expires' = expires /\ passed' = passed
    BY <1>7, WorkGoesOn
  <2>2. /\ toLog' \in [Payer -> Nat] /\ toCharge' = toCharge
        /\ UNCHANGED <<config, quota, ownKey, used, paid, top>>
    <3>1. /\ UNCHANGED <<toCharge, config, quota, ownKey, used, paid, top>>
          /\ toLog' = toLog \/ StorePlan(c)
      BY <1>7 DEF Works, CheckQuota, StorePlan, GetPlan, CreateCampaign, StartPlan, EvictPlan,
         CallIsCut, quotaVars, rowVars, paidVars
    <3>2. StorePlan(c) => toLog' \in [Payer -> Nat]
      BY <1>1 DEF StorePlan
    <3> QED BY <1>1, <3>1, <3>2
  <2>3. peak' \in Nat
    <3>1. Uncharged \in Nat
      BY UnchargedIsOwed, OwedIsNat
    <3>2. peak' = peak \/ peak' = Uncharged + 1
      BY <1>7 DEF Works, CheckQuota, StorePlan, GetPlan, CreateCampaign, StartPlan, EvictPlan,
         CallIsCut, quotaVars, paidVars
    <3> QED BY <1>1, <3>1, <3>2
  <2>4. /\ campaigns' \in {campaigns, campaigns + 1} /\ cuts' \in {cuts, cuts + 1}
        /\ plan' \in {"none", "cached", "gone"}
    BY <1>1, <1>7 DEF Works, CheckQuota, StorePlan, GetPlan, CreateCampaign, StartPlan, EvictPlan,
       CallIsCut, planVars
  <2>5. again' \in BOOLEAN
    BY <1>1, <1>7 DEF Works, CheckQuota, StorePlan, GetPlan, CreateCampaign, StartPlan, EvictPlan,
       CallIsCut, planVars
  <2> QED BY <1>1, <2>1, <2>2, <2>3, <2>4, <2>5 DEF AgentTypes
<1>8. CASE Runs
  <2>1. /\ count' = count /\ expires' = expires /\ passed' = passed /\ agent' = agent
        /\ campaigns' = campaigns /\ again' = again
        /\ plan' \in {plan, "gone"} /\ config' \in {config, TRUE}
        /\ cuts' \in {cuts, cuts + 1} /\ ownKey' \in BOOLEAN
    BY <1>1, <1>8 DEF Runs, LogUsage, ChargeUsage, AddUsage, UsageIsLost, UpdateConfig, MonthStarts,
       PlanExpires, limitVars, quotaVars, rowVars, planVars
  <2>2. ASSUME NEW p \in Payer, LogUsage(p) \/ ChargeUsage(p) \/ UsageIsLost(p)
        PROVE  toLog' \in [Payer -> Nat] /\ toCharge' \in [Payer -> Nat]
    BY <1>1, <2>2 DEF LogUsage, ChargeUsage, AddUsage, UsageIsLost
  <2>3. toLog' \in [Payer -> Nat] /\ toCharge' \in [Payer -> Nat]
    BY <1>1, <1>8, <2>2 DEF Runs, UpdateConfig, MonthStarts, PlanExpires, quotaVars
  <2>4. Uncharged \in Nat
    BY UnchargedIsOwed, OwedIsNat
  <2>5. ASSUME NEW p \in Payer, ChargeUsage(p)
        PROVE  used' \in Nat /\ paid' \in Nat
    BY <1>1, <2>5 DEF ChargeUsage, AddUsage
  <2>6. used' \in Nat /\ paid' \in Nat
    BY <1>1, <1>8, <2>5 DEF Runs, LogUsage, UsageIsLost, UpdateConfig, MonthStarts, PlanExpires,
       quotaVars, rowVars, paidVars
  <2>7. quota' \in Nat /\ peak' \in Nat /\ top' \in Nat
    <3>1. ASSUME NEW key \in BOOLEAN, NEW q \in Quotas \cup {quota}, UpdateConfig(key, q)
          PROVE  quota' \in Nat /\ peak' \in Nat /\ top' \in Nat
      <4>1. q \in Nat
        BY <1>1, AgentAssumption DEF AgentAssumption
      <4>2. quota' = q /\ peak' = peak /\ top' \in {q, top}
        BY <3>1 DEF UpdateConfig
      <4> QED BY <1>1, <4>1, <4>2
    <3>2. CASE MonthStarts
      <4>1. quota' = quota /\ peak' \in {peak, Uncharged} /\ top' \in {top, quota}
        BY <3>2 DEF MonthStarts, paidVars
      <4> QED BY <1>1, <2>4, <4>1
    <3>3. ASSUME NEW p \in Payer, LogUsage(p) \/ ChargeUsage(p) \/ UsageIsLost(p)
          PROVE  quota' \in Nat /\ peak' \in Nat /\ top' \in Nat
      BY <1>1, <3>3 DEF LogUsage, ChargeUsage, AddUsage, UsageIsLost, rowVars, paidVars
    <3>4. CASE PlanExpires
      BY <1>1, <3>4 DEF PlanExpires, quotaVars, rowVars, paidVars
    <3>5. CASE \E key \in BOOLEAN, q \in Quotas \cup {quota} : UpdateConfig(key, q)
      BY <3>1, <3>5, Zenon
    <3>6. CASE \E p \in Payer : LogUsage(p) \/ ChargeUsage(p) \/ UsageIsLost(p)
      BY <3>3, <3>6, Zenon
    <3> QED BY <1>8, <3>2, <3>4, <3>5, <3>6, Zenon DEF Runs
  <2>8. /\ count' \in [Key -> Nat] /\ expires' \in [Key -> BOOLEAN]
        /\ passed' \in [Key -> Nat] /\ agent' \in [Caller -> Agent]
    BY <1>1, <2>1
  <2>9. /\ plan' \in {"none", "cached", "gone"} /\ config' \in BOOLEAN
        /\ campaigns' \in Nat /\ cuts' \in Nat /\ again' \in BOOLEAN
    <3>1. config' = config \/ config' = TRUE
      BY <2>1, Zenon
    <3>2. config' \in BOOLEAN /\ again' \in BOOLEAN
      BY <1>1, <2>1, <3>1, Zenon
    <3>3. plan' \in {"none", "cached", "gone"}
      BY <1>1, <2>1, Zenon
    <3>4. campaigns' \in Nat /\ cuts' \in Nat
      <4>1. campaigns' = campaigns /\ (cuts' = cuts \/ cuts' = cuts + 1)
        BY <2>1, Zenon
      <4> QED BY <1>1, <4>1
    <3> QED BY <3>2, <3>3, <3>4, Zenon
  <2> QED BY <2>1, <2>3, <2>6, <2>7, <2>8, <2>9 DEF AgentTypes
<1> QED BY <1>2, <1>3, <1>4, <1>5, <1>6, <1>7, <1>8 DEF AgentNext, Works, Runs

LEMMA WindowsNext ==
  ASSUME AgentTypes, WindowsCounted, AgentNext
  PROVE  WindowsCounted'
<1>1. /\ count \in [Key -> Nat] /\ passed \in [Key -> Nat] /\ agent \in [Caller -> Agent]
      /\ \A k \in Key : Limit[k] \in Nat
  BY AgentAssumption DEF AgentTypes, AgentAssumption
<1>2. \A k \in Key : /\ passed[k] + Cardinality(Placed(k)) <= count[k]
                     /\ passed[k] + Cardinality(Placed(k)) <= Limit[k]
  BY DEF WindowsCounted
<1>3. \A c \in Caller : agent[c].at = "limit" => agent[c].incr \intersect agent[c].old = {}
  BY DEF WindowsCounted
<1>4. ASSUME passed' = passed, count' = count, \A k \in Key : Placed(k)' \subseteq Placed(k),
             \A c \in Caller : agent'[c].at = "limit" =>
                                 agent'[c].incr \intersect agent'[c].old = {}
      PROVE  WindowsCounted'
  <2> SUFFICES ASSUME NEW k \in Key
               PROVE  /\ passed'[k] + Cardinality(Placed(k)') <= count'[k]
                      /\ passed'[k] + Cardinality(Placed(k)') <= Limit[k]
    BY <1>4 DEF WindowsCounted
  <2>1. count'[k] \in Nat /\ count'[k] >= count[k]
    BY <1>1, <1>4
  <2> QED BY <1>2, <1>4, <2>1, FewerPlaced
<1>5. ASSUME NEW c \in Caller, NEW kind \in {"plan", "execute"}, Request(c, kind)
      PROVE  WindowsCounted'
  <2>1. passed' = passed /\ count' = count
    BY <1>5 DEF Request, limitVars
  <2>2. /\ \A d \in Caller \ {c} : agent'[d] = agent[d]
        /\ agent'[c].at = "limit" /\ agent'[c].incr = Key /\ agent'[c].old = {}
    BY <1>5, Asks
  <2>3. \A k \in Key : Placed(k)' \subseteq Placed(k)
    BY <2>2 DEF Placed
  <2>4. \A d \in Caller : agent'[d].at = "limit" => agent'[d].incr \intersect agent'[d].old = {}
    BY <1>3, <2>2
  <2> QED BY <1>4, <2>1, <2>3, <2>4
<1>6. ASSUME NEW c \in Caller, NEW k \in Key, Expire(c, k)
      PROVE  WindowsCounted'
  <2>1. passed' = passed /\ count' = count
    BY <1>6 DEF Expire
  <2>2. /\ \A d \in Caller \ {c} : agent'[d] = agent[d]
        /\ agent[c].at = "limit" /\ agent'[c].at = "limit" /\ agent'[c].incr = agent[c].incr
        /\ agent'[c].old = agent[c].old /\ agent'[c].seen = agent[c].seen
    BY <1>6, SetsExpiry
  <2>3. \A j \in Key : Placed(j)' \subseteq Placed(j)
    BY <2>2 DEF Placed
  <2>4. \A d \in Caller : agent'[d].at = "limit" => agent'[d].incr \intersect agent'[d].old = {}
    BY <1>3, <2>2
  <2> QED BY <1>4, <2>1, <2>3, <2>4
<1>7. ASSUME NEW c \in Caller, Works(c) \/ CallIsCut(c)
      PROVE  WindowsCounted'
  <2>1. /\ passed' = passed /\ count' = count /\ \A d \in Caller \ {c} : agent'[d] = agent[d]
        /\ agent'[c].at # "limit"
    BY <1>7, WorkGoesOn DEF Doing
  <2>2. \A k \in Key : Placed(k)' \subseteq Placed(k)
    BY <2>1 DEF Placed
  <2>3. \A d \in Caller : agent'[d].at = "limit" => agent'[d].incr \intersect agent'[d].old = {}
    BY <1>3, <2>1
  <2> QED BY <1>4, <2>1, <2>2, <2>3
<1>8. CASE Runs
  <2>1. passed' = passed /\ count' = count /\ agent' = agent
    BY <1>8 DEF Runs, LogUsage, ChargeUsage, AddUsage, UsageIsLost, UpdateConfig, MonthStarts,
       PlanExpires, limitVars
  <2>2. \A k \in Key : Placed(k)' \subseteq Placed(k)
    BY <2>1 DEF Placed
  <2> QED BY <1>3, <1>4, <2>1, <2>2
<1>9. ASSUME NEW c \in Caller, NEW k \in Key, Incr(c, k)
      PROVE  WindowsCounted'
  <2>1. /\ agent[c].at = "limit" /\ k \in agent[c].incr
        /\ count' \in [Key -> Nat] /\ count'[k] = count[k] + 1
        /\ \A j \in Key \ {k} : count'[j] = count[j]
        /\ \A d \in Caller \ {c} : agent'[d] = agent[d]
        /\ agent'[c].at = "limit" /\ agent'[c].incr = agent[c].incr \ {k}
        /\ agent'[c].old = agent[c].old /\ agent'[c].seen[k] = count[k] + 1
        /\ \A j \in Key \ {k} : agent'[c].seen[j] = agent[c].seen[j]
    BY <1>9, Counts
  <2>2. passed' = passed
    BY <1>9 DEF Incr
  <2>3. \A d \in Caller : agent'[d].at = "limit" => agent'[d].incr \intersect agent'[d].old = {}
    BY <1>3, <2>1
  <2>4. ASSUME NEW j \in Key
        PROVE  /\ passed'[j] + Cardinality(Placed(j)') <= count'[j]
               /\ passed'[j] + Cardinality(Placed(j)') <= Limit[j]
    <3>1. CASE j # k \/ count[k] + 1 > Limit[k]
      <4>1. Placed(j)' \subseteq Placed(j)
        <5>1. ASSUME NEW d \in Caller, d \in Placed(j)' PROVE d \in Placed(j)
          <6>1. CASE d # c
            BY <2>1, <5>1, <6>1 DEF Placed
          <6>2. CASE d = c /\ j # k
            BY <2>1, <5>1, <6>2 DEF Placed
          <6>3. CASE d = c /\ j = k
            <7>1. count[k] + 1 <= Limit[k]
              BY <2>1, <5>1, <6>3 DEF Placed
            <7> QED BY <1>1, <3>1, <6>3, <7>1
          <6> QED BY <6>1, <6>2, <6>3
        <5> QED BY <5>1 DEF Placed
      <4>2. count'[j] \in Nat /\ count'[j] >= count[j]
        BY <1>1, <2>1
      <4> QED BY <1>2, <2>2, <4>1, <4>2, FewerPlaced
    <3>2. CASE j = k /\ count[k] + 1 <= Limit[k]
      <4>1. k \notin agent[c].old
        BY <1>3, <2>1
      <4>2. c \notin Placed(k) /\ Placed(k)' = Placed(k) \cup {c}
        BY <2>1, <3>2, <4>1 DEF Placed
      <4>3. /\ Cardinality(Placed(k)') = Cardinality(Placed(k)) + 1
            /\ Cardinality(Placed(k)) \in Nat
        BY <4>2, PlacedIsFinite, FS_AddElement
      <4> DEFINE x == Cardinality(Placed(k))
                 y == Cardinality(Placed(k)')
      <4> x \in Nat /\ y = x + 1 /\ passed[k] + x <= count[k]
        BY <1>2, <4>3
      <4> SUFFICES passed'[k] + y <= count'[k] /\ passed'[k] + y <= Limit[k]
        BY <3>2
      <4> HIDE DEF x, y
      <4> passed[k] \in Nat /\ count[k] \in Nat /\ Limit[k] \in Nat
        BY <1>1
      <4> QED BY <2>1, <2>2, <3>2
    <3> QED BY <1>1, <3>1, <3>2
  <2> QED BY <2>3, <2>4 DEF WindowsCounted
<1>10. ASSUME NEW c \in Caller, Decide(c)
       PROVE  WindowsCounted'
  <2>1. /\ \A d \in Caller \ {c} : agent'[d] = agent[d]
        /\ agent[c].at = "limit" /\ agent[c].incr = {} /\ agent'[c].at # "limit"
        /\ \/ passed' = passed
           \/ /\ \A k \in Key : agent[c].seen[k] <= Limit[k]
              /\ \A k \in Key : passed'[k] = IF k \in agent[c].old THEN passed[k] ELSE passed[k] + 1
    BY <1>10, Decides
  <2>2. count' = count
    BY <1>10 DEF Decide
  <2>3. \A d \in Caller : agent'[d].at = "limit" => agent'[d].incr \intersect agent'[d].old = {}
    BY <1>3, <2>1
  <2>4. \A j \in Key : Placed(j)' = Placed(j) \ {c}
    BY <2>1 DEF Placed
  <2>5. ASSUME NEW j \in Key
        PROVE  /\ passed'[j] + Cardinality(Placed(j)') <= count'[j]
               /\ passed'[j] + Cardinality(Placed(j)') <= Limit[j]
    <3>1. CASE passed'[j] = passed[j]
      <4>1. count'[j] \in Nat /\ count'[j] >= count[j] /\ Placed(j)' \subseteq Placed(j)
        BY <1>1, <2>2, <2>4
      <4> QED BY <1>2, <3>1, <4>1, FewerPlaced
    <3>2. CASE passed'[j] # passed[j]
      <4>1. passed'[j] = passed[j] + 1 /\ c \in Placed(j)
        BY <2>1, <3>2 DEF Placed
      <4>2. /\ Cardinality(Placed(j)') = Cardinality(Placed(j)) - 1
            /\ Cardinality(Placed(j)) \in Nat
        BY <2>4, <4>1, PlacedIsFinite, FS_RemoveElement
      <4> DEFINE x == Cardinality(Placed(j))
                 y == Cardinality(Placed(j)')
      <4> x \in Nat /\ y = x - 1 /\ passed[j] + x <= count[j] /\ passed[j] + x <= Limit[j]
        BY <1>2, <4>2
      <4> SUFFICES passed'[j] + y <= count'[j] /\ passed'[j] + y <= Limit[j]
        OBVIOUS
      <4> HIDE DEF x, y
      <4> passed[j] \in Nat /\ count[j] \in Nat /\ Limit[j] \in Nat
        BY <1>1
      <4> QED BY <2>2, <4>1
    <3> QED BY <3>1, <3>2
  <2> QED BY <2>3, <2>5 DEF WindowsCounted
<1>11. ASSUME NEW k \in Key, WindowEnds(k)
       PROVE  WindowsCounted'
  <2>1. \A c \in Caller :
          /\ agent'[c].at = agent[c].at
          /\ agent[c].at = "limit" =>
               /\ agent'[c].incr = agent[c].incr /\ agent'[c].seen = agent[c].seen
               /\ agent'[c].old = IF k \in agent[c].incr THEN agent[c].old
                                  ELSE agent[c].old \cup {k}
    BY <1>11, WindowCloses
  <2>2. /\ count' = [count EXCEPT ![k] = 0] /\ passed' = [passed EXCEPT ![k] = 0]
    BY <1>11 DEF WindowEnds
  <2>3. \A d \in Caller : agent'[d].at = "limit" => agent'[d].incr \intersect agent'[d].old = {}
    BY <1>3, <2>1
  <2>4. ASSUME NEW j \in Key
        PROVE  /\ passed'[j] + Cardinality(Placed(j)') <= count'[j]
               /\ passed'[j] + Cardinality(Placed(j)') <= Limit[j]
    <3>1. CASE j # k
      <4>1. count'[j] = count[j] /\ passed'[j] = passed[j] /\ count[j] \in Nat
        BY <1>1, <2>2, <3>1
      <4>2. Placed(j)' \subseteq Placed(j)
        BY <2>1, <3>1 DEF Placed
      <4> QED BY <1>2, <4>1, <4>2, FewerPlaced
    <3>2. CASE j = k
      <4>1. Placed(k)' = {}
        BY <2>1 DEF Placed
      <4>2. Cardinality(Placed(k)') = 0
        BY <4>1, FS_EmptySet
      <4>3. passed'[k] = 0 /\ count'[k] = 0 /\ Limit[k] \in Nat
        BY <1>1, <2>2
      <4> QED BY <3>2, <4>2, <4>3
    <3> QED BY <3>1, <3>2
  <2> QED BY <2>3, <2>4 DEF WindowsCounted
<1> QED BY <1>5, <1>6, <1>7, <1>8, <1>9, <1>10, <1>11 DEF AgentNext, Works, Runs

\* A counter that has begun is never left without its expiry, but by a cut.
LEMMA ExpiryNext ==
  ASSUME AgentTypes, CounterExpires, AgentNext
  PROVE  CounterExpires'
<1> DEFINE Kept(k) ==
      count[k] > 0 /\ cuts = 0 =>
        expires[k] \/ \E c \in Caller : agent[c].at = "limit" /\ k \in agent[c].expire
<1>1. /\ \A k \in Key : Kept(k) /\ count[k] \in Nat
      /\ cuts \in Nat /\ count \in [Key -> Nat] /\ expires \in [Key -> BOOLEAN]
  BY DEF AgentTypes, CounterExpires
<1>2. ASSUME count' = count, expires' = expires, cuts' = cuts,
             \A d \in Caller : agent[d].at = "limit" =>
               agent'[d].at = "limit" /\ agent[d].expire \subseteq agent'[d].expire
      PROVE  CounterExpires'
  BY <1>1, <1>2 DEF CounterExpires
<1>3. ASSUME NEW c \in Caller, NEW kind \in {"plan", "execute"}, Request(c, kind)
      PROVE  CounterExpires'
  BY <1>2, <1>3, Asks DEF Request, limitVars
<1>4. ASSUME NEW c \in Caller, NEW j \in Key, Incr(c, j)
      PROVE  CounterExpires'
  <2>1. /\ agent[c].at = "limit" /\ agent'[c].at = "limit"
        /\ agent[c].expire \subseteq agent'[c].expire
        /\ count[j] = 0 => j \in agent'[c].expire
        /\ \A k \in Key \ {j} : count'[k] = count[k]
        /\ \A d \in Caller \ {c} : agent'[d] = agent[d]
    BY <1>4, Counts
  <2>2. expires' = expires /\ cuts' = cuts
    BY <1>4 DEF Incr
  <2> SUFFICES ASSUME NEW k \in Key, count'[k] > 0, cuts = 0, ~expires[k]
               PROVE  \E d \in Caller : agent'[d].at = "limit" /\ k \in agent'[d].expire
    BY <2>2 DEF CounterExpires
  <2>3. CASE k = j /\ count[j] = 0
    BY <2>1, <2>3
  <2>4. CASE ~(k = j /\ count[j] = 0)
    <3>1. count[k] > 0
      BY <1>1, <2>1, <2>4
    <3>2. PICK d \in Caller : agent[d].at = "limit" /\ k \in agent[d].expire
      BY <1>1, <3>1
    <3> QED BY <2>1, <3>2
  <2> QED BY <2>3, <2>4
<1>5. ASSUME NEW c \in Caller, NEW j \in Key, Expire(c, j)
      PROVE  CounterExpires'
  <2>1. /\ agent'[c].at = "limit" /\ agent'[c].expire = agent[c].expire \ {j}
        /\ \A d \in Caller \ {c} : agent'[d] = agent[d]
    BY <1>5, SetsExpiry
  <2>2. count' = count /\ expires' = [expires EXCEPT ![j] = count[j] > 0] /\ cuts' = cuts
    BY <1>5 DEF Expire
  <2> SUFFICES ASSUME NEW k \in Key, count[k] > 0, cuts = 0, ~expires'[k]
               PROVE  \E d \in Caller : agent'[d].at = "limit" /\ k \in agent'[d].expire
    BY <2>2 DEF CounterExpires
  <2>3. k # j /\ ~expires[k]
    BY <1>1, <2>2
  <2>4. PICK d \in Caller : agent[d].at = "limit" /\ k \in agent[d].expire
    BY <1>1, <2>3
  <2> QED BY <2>1, <2>3, <2>4
<1>6. ASSUME NEW c \in Caller, Decide(c)
      PROVE  CounterExpires'
  <2>1. agent[c].expire = {} /\ \A d \in Caller \ {c} : agent'[d] = agent[d]
    BY <1>6, Decides
  <2>2. count' = count /\ expires' = expires /\ cuts' = cuts
    BY <1>6 DEF Decide
  <2> SUFFICES ASSUME NEW k \in Key, count[k] > 0, cuts = 0, ~expires[k]
               PROVE  \E d \in Caller : agent'[d].at = "limit" /\ k \in agent'[d].expire
    BY <2>2 DEF CounterExpires
  <2>3. PICK d \in Caller : agent[d].at = "limit" /\ k \in agent[d].expire
    BY <1>1
  <2> QED BY <2>1, <2>3
<1>7. ASSUME NEW j \in Key, WindowEnds(j)
      PROVE  CounterExpires'
  <2>1. \A d \in Caller : agent[d].at = "limit" =>
          agent'[d].at = "limit" /\ agent'[d].expire = agent[d].expire
    BY <1>7, WindowCloses
  <2>2. /\ count' = [count EXCEPT ![j] = 0] /\ expires' = [expires EXCEPT ![j] = FALSE]
        /\ cuts' = cuts
    BY <1>7 DEF WindowEnds
  <2> SUFFICES ASSUME NEW k \in Key, count'[k] > 0, cuts = 0, ~expires'[k]
               PROVE  \E d \in Caller : agent'[d].at = "limit" /\ k \in agent'[d].expire
    BY <2>2 DEF CounterExpires
  <2>3. k # j /\ count[k] > 0 /\ ~expires[k]
    BY <1>1, <2>2
  <2>4. PICK d \in Caller : agent[d].at = "limit" /\ k \in agent[d].expire
    BY <1>1, <2>3
  <2> QED BY <2>1, <2>4
<1>8. ASSUME NEW c \in Caller, CallIsCut(c)
      PROVE  CounterExpires'
  <2>1. cuts' # 0
    BY <1>1, <1>8 DEF CallIsCut
  <2> QED BY <2>1 DEF CounterExpires
<1>9. ASSUME NEW c \in Caller, Works(c)
      PROVE  CounterExpires'
  <2>1. /\ count' = count /\ expires' = expires /\ \A d \in Caller \ {c} : agent'[d] = agent[d]
    BY <1>9, WorkGoesOn
  <2>2. agent[c].at # "limit" /\ cuts' = cuts
    BY <1>9 DEF Works, CheckQuota, StorePlan, GetPlan, CreateCampaign, StartPlan, EvictPlan, Payer
  <2> QED BY <1>2, <2>1, <2>2
<1>10. CASE Runs
  <2>1. count' = count /\ expires' = expires /\ agent' = agent
    BY <1>10 DEF Runs, LogUsage, ChargeUsage, AddUsage, UsageIsLost, UpdateConfig, MonthStarts,
       PlanExpires, limitVars
  <2>2. cuts' = cuts \/ cuts' # 0
    BY <1>1, <1>10 DEF Runs, LogUsage, ChargeUsage, AddUsage, UsageIsLost, UpdateConfig, MonthStarts,
       PlanExpires
  <2>3. CASE cuts' = cuts
    BY <1>2, <2>1, <2>3
  <2>4. CASE cuts' # 0
    BY <2>4 DEF CounterExpires
  <2> QED BY <2>2, <2>3, <2>4
<1> QED BY <1>3, <1>4, <1>5, <1>6, <1>7, <1>8, <1>9, <1>10 DEF AgentNext, Works, Runs

LEMMA Products ==
  ASSUME NEW u \in Nat, NEW v \in Nat, NEW c \in Nat
  PROVE  /\ u * c \in Nat /\ v * c \in Nat /\ (u + 1) * c = u * c + c
         /\ u <= v => u * c <= v * c
<1>1. u * c \in Nat /\ v * c \in Nat
  OBVIOUS
<1>2. (u + 1) * c = u * c + c
  OBVIOUS
<1>3. ASSUME u <= v PROVE u * c <= v * c
  <2>1. PICK d \in Nat : v = u + d
    BY <1>3
  <2>2. v * c = u * c + d * c /\ d * c \in Nat
    BY <2>1
  <2> QED BY <1>1, <2>2
<1> QED BY <1>1, <1>2, <1>3

LEMMA PricesFall ==
  ASSUME NEW a \in Nat, NEW b \in Nat, NEW x \in Nat, NEW y \in Nat,
         NEW q \in Nat, NEW r \in Nat, NEW z \in Nat, NEW w \in Nat,
         a <= b, x <= y, q <= r, z <= w, b + y < q + z
  PROVE  a + x < r + w
  OBVIOUS

\* Fewer calls are owed, or as many, and the bound does not fall.
LEMMA LessOwed ==
  ASSUME AgentTypes, AgentTypes', CallsOwed, RowMakesSense',
         paid' <= paid, top <= top', peak <= peak', Owed' <= Owed
  PROVE  CallsOwed'
<1> DEFINE o == Owed
           p == Owed'
<1>1. o \in Nat /\ p \in Nat /\ p <= o
  BY OwedIsNat
<1>2. /\ paid \in Nat /\ paid' \in Nat /\ top \in Nat /\ top' \in Nat
      /\ peak \in Nat /\ peak' \in Nat /\ Cost \in Nat
  BY AgentAssumption DEF AgentTypes, AgentAssumption
<1>3. o <= peak /\ (paid > 0 \/ o > 0 => top > 0 /\ paid + o * Cost < top + peak * Cost)
  BY DEF CallsOwed
<1> HIDE DEF o, p
<1>4. p <= peak'
  BY <1>1, <1>2, <1>3
<1>5. ASSUME paid' > 0 \/ p > 0
      PROVE  top' > 0 /\ paid' + p * Cost < top' + peak' * Cost
  <2>1. paid > 0 \/ o > 0
    BY <1>1, <1>2, <1>5
  <2>2. /\ p * Cost <= o * Cost /\ p * Cost \in Nat /\ o * Cost \in Nat
        /\ peak * Cost <= peak' * Cost /\ peak * Cost \in Nat /\ peak' * Cost \in Nat
    BY <1>1, <1>2, Products
  <2>3. top > 0 /\ paid + o * Cost < top + peak * Cost
    BY <1>3, <2>1
  <2> QED BY <1>2, <2>2, <2>3, PricesFall
<1> QED BY <1>4, <1>5 DEF CallsOwed, p

\* Nobody begins a call, and the row stays.
LEMMA NobodyCalls ==
  ASSUME AgentTypes, AgentTypes', CallsOwed, Calling' \subseteq Calling,
         UNCHANGED <<toLog, toCharge, config, quota, ownKey, used, paid, peak, top>>
  PROVE  CallsOwed'
<1>1. /\ Cardinality(Calling') <= Cardinality(Calling)
      /\ Cardinality(Calling) \in Nat /\ Cardinality(Calling') \in Nat
  BY PlacedIsFinite, FS_Subset, FS_CardinalityType
<1>2. toLog["platform"] \in Nat /\ toCharge["platform"] \in Nat
  BY DEF AgentTypes, Payer
<1> DEFINE x == Cardinality(Calling)
           y == Cardinality(Calling')
           a == toLog["platform"]
           b == toCharge["platform"]
<1>3. a + b + y <= a + b + x
  <2> a \in Nat /\ b \in Nat /\ x \in Nat /\ y \in Nat /\ y <= x
    BY <1>1, <1>2
  <2> HIDE DEF a, b, x, y
  <2> QED OBVIOUS
<1>4. Owed' <= Owed
  BY <1>3 DEF Owed
<1>5. RowMakesSense' /\ paid' <= paid /\ top <= top' /\ peak <= peak'
  BY DEF CallsOwed, RowMakesSense, AgentTypes
<1> QED BY <1>4, <1>5, LessOwed

\* A call with the platform's key begins only below the quota.
LEMMA CallBegins ==
  ASSUME AgentTypes, AgentTypes', CallsOwed, NEW c \in Caller, CheckQuota(c)
  PROVE  CallsOwed'
<1>1. /\ UNCHANGED <<toLog, toCharge, config, quota, ownKey, used, paid, top>>
      /\ agent[c].at = "check"
      /\ \A d \in Caller \ {c} : agent'[d] = agent[d]
  BY WorkGoesOn DEF CheckQuota, Works, rowVars
<1>2. CASE ~BelowQuota \/ ownKey
  <2>1. peak' = peak /\ agent'[c].at # "platform"
    BY <1>2, AgentFacts DEF CheckQuota, Become, AgentTypes, KeyInUse
  <2>2. Calling' \subseteq Calling
    BY <1>1, <2>1 DEF Calling
  <2> QED BY <1>1, <2>1, <2>2, NobodyCalls
<1>3. CASE BelowQuota /\ ~ownKey
  <2>1. /\ peak' = IF Owed >= peak THEN Owed + 1 ELSE peak
        /\ agent'[c].at = "platform"
    BY <1>3, UnchargedIsOwed DEF CheckQuota, Become, AgentTypes, KeyInUse
  <2>2. Calling' = Calling \cup {c} /\ c \notin Calling
    BY <1>1, <2>1 DEF Calling
  <2>3. Cardinality(Calling') = Cardinality(Calling) + 1 /\ Cardinality(Calling) \in Nat
    BY <2>2, PlacedIsFinite, FS_AddElement
  <2> DEFINE o == Owed
             p == Owed'
  <2>4. p = o + 1 /\ o \in Nat
    <3> DEFINE x == Cardinality(Calling)
               y == Cardinality(Calling')
               a == toLog["platform"]
               b == toCharge["platform"]
    <3>1. a + b + y = (a + b + x) + 1
      <4> a \in Nat /\ b \in Nat /\ x \in Nat /\ y = x + 1
        BY <2>3 DEF AgentTypes, Payer
      <4> HIDE DEF a, b, x, y
      <4> QED OBVIOUS
    <3> QED BY <1>1, <3>1, OwedIsNat DEF Owed
  <2>5. peak' = IF o >= peak THEN o + 1 ELSE peak
    BY <2>1
  <2> HIDE DEF o, p
  <2>6. peak \in Nat /\ Cost \in Nat /\ paid \in Nat /\ top \in Nat /\ used \in Nat /\ quota \in Nat
    BY AgentAssumption DEF AgentTypes, AgentAssumption
  <2>7. p \in Nat /\ peak' \in Nat /\ p <= peak'
    BY <2>4, <2>5, <2>6
  <2>8. p * Cost <= peak' * Cost /\ p * Cost \in Nat /\ peak' * Cost \in Nat
    BY <2>6, <2>7, Products
  <2>9. paid < top
    <3>1. RowMakesSense
      BY DEF CallsOwed
    <3>2. CASE config
      BY <1>3, <2>6, <3>1, <3>2 DEF BelowQuota, RowMakesSense
    <3>3. CASE ~config
      BY <2>6, <3>1, <3>3 DEF RowMakesSense
    <3> QED BY <3>2, <3>3
  <2>10. paid + p * Cost < top + peak' * Cost
    <3> DEFINE x == p * Cost
               z == peak' * Cost
    <3> x <= z /\ x \in Nat /\ z \in Nat
      BY <2>8
    <3> SUFFICES paid + x < top + z
      OBVIOUS
    <3> HIDE DEF x, z
    <3> QED BY <2>6, <2>9
  <2>11. top > 0
    BY <2>6, <2>9
  <2>12. RowMakesSense'
    BY <1>1 DEF CallsOwed, RowMakesSense
  <2> QED BY <1>1, <2>7, <2>10, <2>11, <2>12 DEF CallsOwed, p
<1> QED BY <1>2, <1>3

\* An answer turns its call into usage that is owed.
LEMMA CallEnds ==
  ASSUME AgentTypes, AgentTypes', CallsOwed, NEW c \in Caller, StorePlan(c)
  PROVE  CallsOwed'
<1>1. /\ UNCHANGED <<toCharge, config, quota, ownKey, used, paid, peak, top>>
      /\ agent[c].at \in Payer /\ agent'[c].at = "free"
      /\ toLog' = [toLog EXCEPT ![agent[c].at] = toLog[agent[c].at] + 1]
  BY AgentFacts DEF StorePlan, Become, AgentTypes, rowVars, paidVars
<1>2. \A d \in Caller \ {c} : agent'[d] = agent[d]
  BY WorkGoesOn DEF Works
<1>3. CASE agent[c].at # "platform"
  <2>1. Calling' = Calling /\ toLog'["platform"] = toLog["platform"]
    BY <1>1, <1>2, <1>3 DEF Calling, AgentTypes, Payer
  <2>2. Owed' <= Owed
    BY <1>1, <2>1, OwedIsNat DEF Owed
  <2> QED BY <1>1, <2>2, LessOwed DEF CallsOwed, RowMakesSense, AgentTypes
<1>4. CASE agent[c].at = "platform"
  <2>1. /\ Calling' = Calling \ {c} /\ c \in Calling
        /\ toLog'["platform"] = toLog["platform"] + 1
    BY <1>1, <1>2, <1>4 DEF Calling, AgentTypes, Payer
  <2>2. Cardinality(Calling') = Cardinality(Calling) - 1
    BY <2>1, PlacedIsFinite, FS_RemoveElement
  <2> DEFINE x == Cardinality(Calling)
             y == Cardinality(Calling')
             a == toLog["platform"]
             b == toCharge["platform"]
  <2>3. (a + 1) + b + y <= a + b + x
    <3> a \in Nat /\ b \in Nat /\ x \in Nat /\ y = x - 1
      BY <2>2, PlacedIsFinite DEF AgentTypes, Payer
    <3> HIDE DEF a, b, x, y
    <3> QED OBVIOUS
  <2>4. Owed' <= Owed
    BY <1>1, <2>1, <2>3 DEF Owed
  <2> QED BY <1>1, <2>4, LessOwed DEF CallsOwed, RowMakesSense, AgentTypes
<1> QED BY <1>3, <1>4

\* Usage that is written to the log or lost is owed still, or no more.
LEMMA UsageGoesOn ==
  ASSUME AgentTypes, AgentTypes', CallsOwed, NEW p \in Payer, LogUsage(p) \/ UsageIsLost(p)
  PROVE  CallsOwed'
<1>1. UNCHANGED <<agent, config, quota, ownKey, used, paid, peak, top>>
  BY DEF LogUsage, UsageIsLost, rowVars, paidVars
<1> DEFINE a == toLog["platform"]
           b == toCharge["platform"]
           x == Cardinality(Calling)
<1>2. a \in Nat /\ b \in Nat /\ x \in Nat
  BY PlacedIsFinite DEF AgentTypes, Payer
<1>3. toLog'["platform"] \in Nat /\ toCharge'["platform"] \in Nat
      /\ toLog'["platform"] + toCharge'["platform"] <= a + b
  BY <1>2 DEF LogUsage, UsageIsLost, AgentTypes, Payer
<1>4. Calling' = Calling
  BY <1>1 DEF Calling
<1>5. toLog'["platform"] + toCharge'["platform"] + x <= a + b + x
  <2> HIDE DEF a, b, x
  <2> QED BY <1>2, <1>3
<1>6. Owed' <= Owed
  BY <1>4, <1>5 DEF Owed
<1> QED BY <1>1, <1>6, LessOwed DEF CallsOwed, RowMakesSense, AgentTypes

\* A charge pays what was owed of one call, or is of a key of the workspace.
LEMMA UsageIsCharged ==
  ASSUME AgentTypes, AgentTypes', CallsOwed, NEW p \in Payer, ChargeUsage(p)
  PROVE  CallsOwed'
<1>1. PICK cost \in 0..Cost :
        /\ used' = used + cost /\ paid' = IF p = "platform" THEN paid + cost ELSE paid
  BY DEF ChargeUsage, AddUsage
<1>2. /\ UNCHANGED <<agent, toLog, quota, ownKey, peak, top>> /\ config'
      /\ toCharge[p] > 0 /\ toCharge' = [toCharge EXCEPT ![p] = toCharge[p] - 1]
  BY DEF ChargeUsage, AddUsage
<1>3. /\ used \in Nat /\ paid \in Nat /\ cost \in Nat /\ cost <= Cost /\ Cost \in Nat
      /\ top \in Nat /\ peak \in Nat
  BY AgentAssumption DEF AgentTypes, AgentAssumption
<1>4. RowMakesSense'
  BY <1>1, <1>2, <1>3 DEF CallsOwed, RowMakesSense
<1>5. Calling' = Calling
  BY <1>2 DEF Calling
<1>6. CASE p # "platform"
  <2>1. toCharge'["platform"] = toCharge["platform"]
    BY <1>2, <1>6 DEF AgentTypes, Payer
  <2>2. Owed' <= Owed
    BY <1>2, <1>5, <2>1, OwedIsNat DEF Owed
  <2> QED BY <1>1, <1>2, <1>3, <1>4, <1>6, <2>2, LessOwed
<1>7. CASE p = "platform"
  <2> DEFINE o == Owed
             n == Owed'
  <2>1. o = n + 1 /\ o \in Nat /\ n \in Nat
    <3> DEFINE a == toLog["platform"]
               b == toCharge["platform"]
               x == Cardinality(Calling)
    <3>1. a \in Nat /\ b \in Nat /\ b > 0 /\ x \in Nat /\ toCharge'["platform"] = b - 1
      BY <1>2, <1>7, PlacedIsFinite DEF AgentTypes, Payer
    <3>2. a + b + x = (a + (b - 1) + x) + 1
      <4> HIDE DEF a, b, x
      <4> QED BY <3>1
    <3> QED BY <1>2, <1>5, <3>1, <3>2, OwedIsNat DEF Owed
  <2>2. o <= peak /\ (paid > 0 \/ o > 0 => top > 0 /\ paid + o * Cost < top + peak * Cost)
    BY DEF CallsOwed
  <2> HIDE DEF o, n
  <2>3. top > 0 /\ paid + o * Cost < top + peak * Cost
    BY <2>1, <2>2
  <2>4. o * Cost = n * Cost + Cost /\ n * Cost \in Nat /\ peak * Cost \in Nat
    BY <1>3, <2>1, Products
  <2>5. paid' + n * Cost < top + peak * Cost
    <3> DEFINE x == n * Cost
               z == peak * Cost
    <3> x \in Nat /\ z \in Nat /\ paid + (x + Cost) < top + z
      BY <2>3, <2>4
    <3> SUFFICES paid' + x < top + z
      OBVIOUS
    <3> HIDE DEF x, z
    <3> QED BY <1>1, <1>3, <1>7
  <2>6. n <= peak
    BY <1>3, <2>1, <2>2
  <2> QED BY <1>2, <1>4, <2>3, <2>5, <2>6 DEF CallsOwed, n
<1> QED BY <1>6, <1>7

\* A new month begins with what is owed.
LEMMA MonthBegins ==
  ASSUME AgentTypes, AgentTypes', CallsOwed, MonthStarts
  PROVE  CallsOwed'
<1>1. UNCHANGED <<agent, toLog, toCharge, config, quota, ownKey>>
  BY DEF MonthStarts
<1>2. Calling' = Calling
  BY <1>1 DEF Calling
<1>3. Owed' = Owed /\ Owed \in Nat
  BY <1>1, <1>2, OwedIsNat DEF Owed
<1>4. CASE UNCHANGED <<used, paidVars>>
  BY <1>1, <1>3, <1>4, LessOwed DEF CallsOwed, RowMakesSense, AgentTypes, paidVars
<1>5. CASE /\ used' = 0 /\ paid' = 0 /\ peak' = Owed
           /\ top' = IF Owed = 0 THEN quota ELSE top
  <2> DEFINE o == Owed
  <2>1. o \in Nat /\ Owed' = o /\ peak' = o /\ top' = IF o = 0 THEN quota ELSE top
    BY <1>3, <1>5
  <2>2. RowMakesSense /\ (o > 0 => top > 0)
    BY DEF CallsOwed
  <2> HIDE DEF o
  <2>3. quota \in Nat /\ top \in Nat /\ Cost \in Nat
    BY AgentAssumption DEF AgentTypes, AgentAssumption
  <2>4. RowMakesSense'
    BY <1>1, <1>5, <2>1, <2>2, <2>3 DEF RowMakesSense
  <2>5. o > 0 => top' > 0 /\ 0 + o * Cost < top' + o * Cost
    <3>1. o * Cost \in Nat
      BY <2>1, <2>3, Products
    <3> DEFINE x == o * Cost
    <3> HIDE DEF x
    <3>2. x \in Nat => (o > 0 => top' > 0 /\ 0 + x < top' + x)
      BY <2>1, <2>2, <2>3
    <3> QED BY <3>1, <3>2 DEF x
  <2>6. o <= o
    BY <2>1
  <2> QED BY <1>5, <2>1, <2>4, <2>5, <2>6 DEF CallsOwed
<1> QED BY <1>4, <1>5, UnchargedIsOwed DEF MonthStarts

LEMMA CallsNext ==
  ASSUME AgentTypes, CallsOwed, AgentNext
  PROVE  CallsOwed'
<1>1. AgentTypes'
  BY AgentTypesNext
<1>2. ASSUME UNCHANGED quotaVars, Calling' \subseteq Calling PROVE CallsOwed'
  BY <1>1, <1>2, NobodyCalls DEF quotaVars, rowVars, paidVars
<1>3. ASSUME NEW c \in Caller, NEW kind \in {"plan", "execute"}, Request(c, kind)
      PROVE  CallsOwed'
  <2>1. Calling' \subseteq Calling
    BY <1>3, Asks DEF Calling
  <2> QED BY <1>2, <1>3, <2>1 DEF Request
<1>4. ASSUME NEW c \in Caller, NEW k \in Key, Incr(c, k)
      PROVE  CallsOwed'
  <2>1. Calling' \subseteq Calling
    BY <1>4, Counts DEF Calling
  <2> QED BY <1>2, <1>4, <2>1 DEF Incr
<1>5. ASSUME NEW c \in Caller, NEW k \in Key, Expire(c, k)
      PROVE  CallsOwed'
  <2>1. Calling' \subseteq Calling
    BY <1>5, SetsExpiry DEF Calling
  <2> QED BY <1>2, <1>5, <2>1 DEF Expire
<1>6. ASSUME NEW c \in Caller, Decide(c)
      PROVE  CallsOwed'
  <2>1. Calling' \subseteq Calling
    BY <1>6, Decides DEF Calling
  <2> QED BY <1>2, <1>6, <2>1 DEF Decide
<1>7. ASSUME NEW k \in Key, WindowEnds(k)
      PROVE  CallsOwed'
  <2>1. Calling' \subseteq Calling
    BY <1>7, WindowCloses DEF Calling
  <2> QED BY <1>2, <1>7, <2>1 DEF WindowEnds
<1>8. ASSUME NEW c \in Caller,
             GetPlan(c) \/ CreateCampaign(c) \/ StartPlan(c) \/ EvictPlan(c) \/ CallIsCut(c)
      PROVE  CallsOwed'
  <2>1. agent'[c].at # "platform"
    BY <1>8, AgentFacts DEF AgentTypes, GetPlan, CreateCampaign, StartPlan, EvictPlan, CallIsCut,
       Become
  <2>2. \A d \in Caller \ {c} : agent'[d] = agent[d]
    BY <1>8, WorkGoesOn DEF Works
  <2>3. Calling' \subseteq Calling
    BY <2>1, <2>2 DEF Calling
  <2> QED BY <1>2, <1>8, <2>3 DEF GetPlan, CreateCampaign, StartPlan, EvictPlan, CallIsCut
<1>9. CASE PlanExpires
  BY <1>2, <1>9 DEF PlanExpires, Calling
<1>10. ASSUME NEW key \in BOOLEAN, NEW q \in Quotas \cup {quota}, UpdateConfig(key, q)
       PROVE  CallsOwed'
  <2>1. /\ UNCHANGED <<agent, toLog, toCharge, used, paid, peak>>
        /\ config' /\ quota' = q /\ top' = IF q > top THEN q ELSE top
    BY <1>10 DEF UpdateConfig
  <2>2. q \in Nat /\ top \in Nat /\ peak \in Nat /\ paid \in Nat
    BY AgentAssumption DEF AgentTypes, AgentAssumption
  <2>3. RowMakesSense' /\ paid' <= paid /\ top <= top' /\ peak <= peak'
    BY <2>1, <2>2 DEF CallsOwed, RowMakesSense
  <2>4. Calling' = Calling
    BY <2>1 DEF Calling
  <2>5. Owed' <= Owed
    BY <2>1, <2>4, OwedIsNat DEF Owed
  <2> QED BY <1>1, <2>3, <2>5, LessOwed
<1> QED BY <1>1, <1>3, <1>4, <1>5, <1>6, <1>7, <1>8, <1>9, <1>10, CallBegins, CallEnds, UsageGoesOn,
        UsageIsCharged, MonthBegins DEF AgentNext

LEMMA PlanNext ==
  ASSUME AgentTypes, PlanFollowed, AgentNext
  PROVE  PlanFollowed'
<1>1. campaigns \in Nat /\ again \in BOOLEAN /\ agent \in [Caller -> Agent]
  BY DEF AgentTypes
<1>2. ASSUME again => again', campaigns' = campaigns, plan = "gone" => plan' = "gone",
             \A c \in Caller : \/ agent'[c].at = agent[c].at
                               \/ {agent[c].at, agent'[c].at} \intersect Executing = {}
      PROVE  PlanFollowed'
  BY <1>1, <1>2 DEF PlanFollowed, Executing
<1>3. ASSUME NEW c \in Caller, NEW kind \in {"plan", "execute"}, Request(c, kind)
      PROVE  PlanFollowed'
  BY <1>2, <1>3, Asks DEF Request, planVars, Executing
<1>4. ASSUME NEW c \in Caller, NEW k \in Key, Incr(c, k)
      PROVE  PlanFollowed'
  BY <1>2, <1>4, Counts DEF Incr, planVars
<1>5. ASSUME NEW c \in Caller, NEW k \in Key, Expire(c, k)
      PROVE  PlanFollowed'
  BY <1>2, <1>5, SetsExpiry DEF Expire, planVars
<1>6. ASSUME NEW k \in Key, WindowEnds(k)
      PROVE  PlanFollowed'
  BY <1>2, <1>6, WindowCloses DEF WindowEnds, planVars
<1>7. ASSUME NEW c \in Caller, Decide(c)
      PROVE  PlanFollowed'
  <2>1. /\ agent[c].at = "limit" /\ agent'[c].at \in {"free", "check", "get"}
        /\ agent'[c].at = "get" => agent[c].kind = "execute"
        /\ \A d \in Caller \ {c} : agent'[d] = agent[d]
    BY <1>7, Decides
  <2>2. /\ campaigns' = campaigns /\ plan' = plan /\ (again => again')
        /\ agent[c].kind = "execute" /\ (\E d \in Caller : agent[d].at \in Executing) => again'
    BY <1>7 DEF Decide
  <2>3. CASE agent'[c].at # "get"
    BY <1>2, <2>1, <2>2, <2>3 DEF Executing
  <2>4. CASE agent'[c].at = "get" /\ ~again'
    <3>1. \A d \in Caller : agent[d].at \notin Executing
      BY <2>1, <2>2, <2>4
    <3>2. \A d \in Caller : agent'[d].at \in Executing => d = c
      BY <2>1, <3>1
    <3>3. campaigns > 0 => plan = "gone"
      BY <2>2, <2>4, <3>1 DEF PlanFollowed, Executing
    <3> QED BY <2>2, <2>4, <3>2, <3>3 DEF PlanFollowed, Executing
  <2> QED BY <2>3, <2>4 DEF PlanFollowed
<1>8. ASSUME NEW c \in Caller, CheckQuota(c) \/ StorePlan(c)
      PROVE  PlanFollowed'
  <2>1. /\ agent[c].at \in {"check", "platform", "own"}
        /\ agent'[c].at \in {"platform", "own", "free"} /\ again' = again
        /\ campaigns' = campaigns /\ (plan = "gone" => plan' = "gone")
    BY <1>1, <1>8, AgentFacts DEF CheckQuota, StorePlan, Become, KeyInUse, Payer, planVars
  <2>2. \A d \in Caller \ {c} : agent'[d] = agent[d]
    BY <1>8, WorkGoesOn DEF Works
  <2> QED BY <1>2, <2>1, <2>2 DEF Executing
<1>9. ASSUME NEW c \in Caller, GetPlan(c)
      PROVE  PlanFollowed'
  <2>1. /\ agent[c].at = "get" /\ agent'[c].at \in {"create", "free"}
        /\ agent'[c].at = "create" => plan = "cached"
        /\ again' = again /\ campaigns' = campaigns /\ plan' = plan
    BY <1>1, <1>9, AgentFacts DEF GetPlan, Become, planVars
  <2>2. \A d \in Caller \ {c} : agent'[d] = agent[d]
    BY <1>9, WorkGoesOn DEF Works
  <2> SUFFICES ASSUME ~again PROVE PlanFollowed'
    BY <2>1 DEF PlanFollowed
  <2>3. \A d \in Caller : agent[d].at \in Executing => d = c
    BY <2>1 DEF PlanFollowed, Executing
  <2>4. campaigns > 0 => plan = "gone"
    BY <2>1, <2>3 DEF PlanFollowed, Executing
  <2>5. \A d \in Caller : agent'[d].at \in Executing => d = c
    BY <2>2, <2>3
  <2> QED BY <1>1, <2>1, <2>4, <2>5 DEF PlanFollowed, Executing
<1>10. ASSUME NEW c \in Caller, CreateCampaign(c)
       PROVE  PlanFollowed'
  <2>1. /\ agent[c].at = "create" /\ agent'[c].at = "start"
        /\ again' = again /\ campaigns' = campaigns + 1 /\ plan' = plan
    BY <1>1, <1>10 DEF CreateCampaign, Become
  <2>2. \A d \in Caller \ {c} : agent'[d] = agent[d]
    BY <1>10, WorkGoesOn DEF Works
  <2> SUFFICES ASSUME ~again PROVE PlanFollowed'
    BY <2>1 DEF PlanFollowed
  <2>3. campaigns = 0 /\ \A d \in Caller : agent[d].at \in Executing => d = c
    BY <2>1 DEF PlanFollowed, Executing
  <2>4. \A d \in Caller : agent'[d].at \in Executing => d = c
    BY <2>2, <2>3
  <2> QED BY <2>1, <2>3, <2>4 DEF PlanFollowed, Executing
<1>11. ASSUME NEW c \in Caller, StartPlan(c)
       PROVE  PlanFollowed'
  <2>1. /\ agent[c].at = "start" /\ agent'[c].at = "evict"
        /\ again' = again /\ campaigns' = campaigns /\ plan' = plan
    BY <1>1, <1>11 DEF StartPlan, Become, planVars
  <2>2. \A d \in Caller \ {c} : agent'[d] = agent[d]
    BY <1>11, WorkGoesOn DEF Works
  <2> SUFFICES ASSUME ~again PROVE PlanFollowed'
    BY <2>1 DEF PlanFollowed
  <2>3. \A d \in Caller : agent[d].at \in Executing => d = c
    BY <2>1 DEF PlanFollowed, Executing
  <2>4. \A d \in Caller : agent'[d].at \in Executing => d = c
    BY <2>2, <2>3
  <2> QED BY <2>1, <2>4 DEF PlanFollowed, Executing
<1>12. ASSUME NEW c \in Caller, EvictPlan(c)
       PROVE  PlanFollowed'
  <2>1. /\ agent[c].at = "evict" /\ agent'[c].at = "free"
        /\ again' = again /\ campaigns' = campaigns /\ plan' = "gone"
    BY <1>1, <1>12, AgentFacts DEF EvictPlan, Become
  <2>2. \A d \in Caller \ {c} : agent'[d] = agent[d]
    BY <1>12, WorkGoesOn DEF Works
  <2>3. \A d \in Caller : agent'[d].at \in Executing => agent'[d] = agent[d]
    BY <2>1, <2>2 DEF Executing
  <2> QED BY <2>1, <2>3 DEF PlanFollowed, Executing
<1>13. ASSUME NEW c \in Caller, CallIsCut(c)
       PROVE  PlanFollowed'
  <2>1. /\ agent'[c].at = "free" /\ campaigns' = campaigns /\ plan' = plan
        /\ again' = (again \/ agent[c].at \in Executing)
    BY <1>1, <1>13, AgentFacts DEF CallIsCut, Become
  <2>2. \A d \in Caller \ {c} : agent'[d] = agent[d]
    BY <1>13, WorkGoesOn
  <2>3. CASE agent[c].at \in Executing
    BY <2>1, <2>3 DEF PlanFollowed
  <2>4. CASE agent[c].at \notin Executing
    BY <1>2, <2>1, <2>2, <2>4 DEF Executing
  <2> QED BY <2>3, <2>4
<1>14. CASE Runs
  <2>1. agent' = agent /\ campaigns' = campaigns /\ again' = again /\ (plan = "gone" => plan' = "gone")
    BY <1>14 DEF Runs, LogUsage, ChargeUsage, AddUsage, UsageIsLost, UpdateConfig, MonthStarts,
       PlanExpires, planVars
  <2> QED BY <1>2, <2>1
<1> QED BY <1>3, <1>4, <1>5, <1>6, <1>7, <1>8, <1>9, <1>10, <1>11, <1>12, <1>13, <1>14
        DEF AgentNext, Runs

LEMMA AgentNextInv == AgentInv /\ [AgentNext]_agentVars => AgentInv'
<1> SUFFICES ASSUME AgentInv, [AgentNext]_agentVars PROVE AgentInv'
  OBVIOUS
<1>1. AgentTypes /\ WindowsCounted /\ CounterExpires /\ CallsOwed /\ PlanFollowed
  BY DEF AgentInv
<1>2. CASE AgentNext
  BY <1>1, <1>2, AgentTypesNext, WindowsNext, ExpiryNext, CallsNext, PlanNext DEF AgentInv
<1>3. CASE UNCHANGED agentVars
  <2>1. /\ count' = count /\ expires' = expires /\ passed' = passed /\ agent' = agent
        /\ toLog' = toLog /\ toCharge' = toCharge
        /\ UNCHANGED <<config, quota, ownKey, used, paid, peak, top>>
        /\ plan' = plan /\ campaigns' = campaigns /\ again' = again /\ cuts' = cuts
    BY <1>3 DEF agentVars, limitVars, quotaVars, rowVars, paidVars, planVars
  <2>2. AgentTypes' /\ CounterExpires' /\ PlanFollowed'
    BY <1>1, <2>1 DEF AgentTypes, CounterExpires, PlanFollowed
  <2>3. Calling' = Calling /\ \A k \in Key : Placed(k)' = Placed(k)
    BY <2>1 DEF Calling, Placed
  <2>4. WindowsCounted' /\ CallsOwed'
    BY <1>1, <2>1, <2>3 DEF WindowsCounted, CallsOwed, Owed, RowMakesSense
  <2> QED BY <2>2, <2>4 DEF AgentInv
<1> QED BY <1>2, <1>3

\* No window lets more requests pass than its limit, a counter that has begun
\* expires unless its request was cut off, what the platform pays for a workspace
\* goes beyond its highest quota by no more than calls that were under way at
\* one time, and a plan runs once unless executions overlap; for any number of
\* requests and changes of the settings, any limits, quotas and costs.
THEOREM AgentsSafe == AgentSpec => []AgentSafety
<1>1. AgentInv => AgentSafety
  <2> SUFFICES ASSUME AgentInv PROVE AgentSafety
    OBVIOUS
  <2>1. WindowHoldsLimit
    <3> SUFFICES ASSUME NEW k \in Key PROVE passed[k] <= Limit[k]
      BY DEF WindowHoldsLimit
    <3> DEFINE x == Cardinality(Placed(k))
    <3>1. passed[k] + x <= Limit[k] /\ x \in Nat /\ passed[k] \in Nat /\ Limit[k] \in Nat
      BY PlacedIsFinite, AgentAssumption DEF AgentInv, WindowsCounted, AgentTypes, AgentAssumption
    <3> HIDE DEF x
    <3> QED BY <3>1
  <2>2. OverrunIsBounded
    <3> SUFFICES ASSUME paid > 0 PROVE paid < top + peak * Cost
      BY DEF OverrunIsBounded
    <3> DEFINE o == Owed
    <3>1. paid + o * Cost < top + peak * Cost /\ o \in Nat
      BY OwedIsNat DEF AgentInv, CallsOwed
    <3>2. paid \in Nat /\ peak \in Nat /\ Cost \in Nat /\ top \in Nat
      BY AgentAssumption DEF AgentInv, AgentTypes, AgentAssumption
    <3> HIDE DEF o
    <3> DEFINE x == o * Cost
               z == peak * Cost
    <3>3. x \in Nat /\ z \in Nat /\ paid + x < top + z
      BY <3>1, <3>2, Products
    <3> SUFFICES paid < top + z
      OBVIOUS
    <3> HIDE DEF x, z
    <3> QED BY <3>2, <3>3
  <2>3. CounterExpires /\ PlanRunsOnce
    BY DEF AgentInv, PlanFollowed, PlanRunsOnce
  <2> QED BY <2>1, <2>2, <2>3 DEF AgentSafety
<1> QED BY <1>1, AgentInitInv, AgentNextInv, PTL DEF AgentSpec

(* A counter of the agents counts a request at most once: what it holds and   *)
(* what is about to be added to it are of as many requests.                   *)
Waiting(k) == {c \in Caller : agent[c].at = "limit" /\ k \in agent[c].incr}

CountedOnce ==
  /\ requests \in 0..MaxRequests
  /\ \A k \in Key : count[k] + Cardinality(Waiting(k)) =< requests

LEMMA WaitingIsFinite ==
  ASSUME NEW k
  PROVE  /\ IsFiniteSet(Waiting(k)) /\ Cardinality(Waiting(k)) \in Nat
         /\ IsFiniteSet(Waiting(k)') /\ Cardinality(Waiting(k)') \in Nat
<1>1. IsFiniteSet(Caller) /\ Waiting(k) \subseteq Caller /\ Waiting(k)' \subseteq Caller
  BY AgentAssumption DEF AgentAssumption, Waiting
<1> QED BY <1>1, FS_Subset, FS_CardinalityType

\* A counter is not raised, and nobody comes to it.
LEMMA NobodyComes ==
  ASSUME CountedOnce, AgentTypes, AgentTypes', NEW k \in Key,
         Waiting(k)' \subseteq Waiting(k), count'[k] =< count[k], requests' = requests
  PROVE  count'[k] + Cardinality(Waiting(k)') =< requests'
<1> DEFINE x == Cardinality(Waiting(k))
           y == Cardinality(Waiting(k)')
<1>1. y =< x /\ x \in Nat /\ y \in Nat
  BY WaitingIsFinite, FS_Subset
<1>2. count[k] \in Nat /\ count'[k] \in Nat /\ requests \in Nat /\ count[k] + x =< requests
  BY DEF AgentTypes, CountedOnce
<1> SUFFICES count'[k] + y =< requests
  OBVIOUS
<1> HIDE DEF x, y
<1> QED BY <1>1, <1>2

LEMMA CountedNext ==
  ASSUME CountedOnce, AgentTypes, AgentTypes', AgentNext
  PROVE  CountedOnce'
<1>1. /\ count \in [Key -> Nat] /\ agent \in [Caller -> Agent]
      /\ count' \in [Key -> Nat] /\ agent' \in [Caller -> Agent]
      /\ requests \in 0..MaxRequests /\ MaxRequests \in Nat
  BY AgentAssumption DEF AgentTypes, CountedOnce, AgentAssumption
<1>2. ASSUME NEW c \in Caller, NEW kind \in {"plan", "execute"}, Request(c, kind)
      PROVE  CountedOnce'
  <2>1. requests' = requests + 1 /\ requests < MaxRequests /\ count' = count
    BY <1>2 DEF Request, limitVars
  <2>2. requests' \in 0..MaxRequests
    BY <1>1, <2>1
  <2>3. ASSUME NEW k \in Key PROVE count'[k] + Cardinality(Waiting(k)') =< requests'
    <3>1. \A d \in Caller \ {c} : agent'[d] = agent[d]
      BY <1>2, Asks
    <3>2. Waiting(k)' \subseteq Waiting(k) \cup {c}
      BY <3>1 DEF Waiting
    <3>3. IsFiniteSet(Waiting(k) \cup {c})
          /\ Cardinality(Waiting(k) \cup {c}) \in {Cardinality(Waiting(k)), Cardinality(Waiting(k)) + 1}
      BY WaitingIsFinite, FS_AddElement
    <3>4. Cardinality(Waiting(k)') =< Cardinality(Waiting(k) \cup {c})
      BY <3>2, <3>3, FS_Subset
    <3> DEFINE x == Cardinality(Waiting(k))
               y == Cardinality(Waiting(k)')
               z == Cardinality(Waiting(k) \cup {c})
    <3>5. x \in Nat /\ y \in Nat /\ z \in {x, x + 1} /\ y =< z
      BY <3>3, <3>4, WaitingIsFinite
    <3>6. count[k] \in Nat /\ count[k] + x =< requests /\ count'[k] = count[k]
      BY <1>1, <2>1 DEF CountedOnce
    <3> SUFFICES count'[k] + y =< requests'
      OBVIOUS
    <3> HIDE DEF x, y, z
    <3> QED BY <1>1, <2>1, <3>5, <3>6
  <2> QED BY <2>2, <2>3 DEF CountedOnce
<1>3. ASSUME NEW c \in Caller, NEW k \in Key, Incr(c, k)
      PROVE  CountedOnce'
  <2>1. /\ agent[c].at = "limit" /\ k \in agent[c].incr /\ count'[k] = count[k] + 1
        /\ \A j \in Key \ {k} : count'[j] = count[j]
        /\ \A d \in Caller \ {c} : agent'[d] = agent[d]
        /\ agent'[c].incr = agent[c].incr \ {k} /\ agent'[c].at = "limit"
    BY <1>3, Counts
  <2>2. requests' = requests
    BY <1>3 DEF Incr
  <2>3. ASSUME NEW j \in Key \ {k} PROVE count'[j] + Cardinality(Waiting(j)') =< requests'
    <3>1. Waiting(j)' \subseteq Waiting(j) /\ count'[j] = count[j] /\ count[j] \in Nat
      BY <1>1, <2>1 DEF Waiting
    <3>2. count'[j] =< count[j]
      BY <3>1
    <3> QED BY <2>2, <3>1, <3>2, NobodyComes
  <2>4. count'[k] + Cardinality(Waiting(k)') =< requests'
    <3>1. c \in Waiting(k) /\ Waiting(k)' = Waiting(k) \ {c}
      BY <2>1 DEF Waiting
    <3>2. Cardinality(Waiting(k)') = Cardinality(Waiting(k)) - 1
      BY <3>1, WaitingIsFinite, FS_RemoveElement
    <3> DEFINE x == Cardinality(Waiting(k))
               y == Cardinality(Waiting(k)')
    <3>3. x \in Nat /\ y = x - 1 /\ count[k] + x =< requests
      BY <3>2, WaitingIsFinite DEF CountedOnce
    <3> SUFFICES count'[k] + y =< requests'
      OBVIOUS
    <3> HIDE DEF x, y
    <3> QED BY <1>1, <2>1, <2>2, <3>3
  <2> QED BY <1>1, <2>2, <2>3, <2>4 DEF CountedOnce
<1>4. ASSUME requests' = requests, \A k \in Key : count'[k] =< count[k],
             \A k \in Key : Waiting(k)' \subseteq Waiting(k)
      PROVE  CountedOnce'
  <2>1. \A k \in Key : count'[k] + Cardinality(Waiting(k)') =< requests'
    BY <1>4, NobodyComes
  <2> QED BY <1>1, <1>4, <2>1 DEF CountedOnce
<1>5. ASSUME NEW c \in Caller, NEW k \in Key, Expire(c, k)
      PROVE  CountedOnce'
  <2>1. requests' = requests /\ count' = count
    BY <1>5 DEF Expire
  <2>2. \A j \in Key : Waiting(j)' \subseteq Waiting(j)
    BY <1>5, SetsExpiry DEF Waiting
  <2>3. \A j \in Key : count'[j] =< count[j]
    BY <1>1, <2>1
  <2> QED BY <1>4, <2>1, <2>2, <2>3
<1>6. ASSUME NEW c \in Caller, Decide(c)
      PROVE  CountedOnce'
  <2>1. requests' = requests /\ count' = count
    BY <1>6 DEF Decide
  <2>2. \A j \in Key : Waiting(j)' \subseteq Waiting(j)
    BY <1>6, Decides DEF Waiting
  <2>3. \A j \in Key : count'[j] =< count[j]
    BY <1>1, <2>1
  <2> QED BY <1>4, <2>1, <2>2, <2>3
<1>7. ASSUME NEW k \in Key, WindowEnds(k)
      PROVE  CountedOnce'
  <2>1. requests' = requests /\ count' = [count EXCEPT ![k] = 0]
    BY <1>7 DEF WindowEnds
  <2>2. \A j \in Key : Waiting(j)' \subseteq Waiting(j)
    BY <1>7, WindowCloses DEF Waiting
  <2>3. \A j \in Key : count'[j] =< count[j]
    BY <1>1, <2>1
  <2> QED BY <1>4, <2>1, <2>2, <2>3
<1>8. ASSUME NEW c \in Caller, Works(c) \/ CallIsCut(c)
      PROVE  CountedOnce'
  <2>1. requests' = requests
    BY <1>8 DEF Works, CheckQuota, StorePlan, GetPlan, CreateCampaign, StartPlan, EvictPlan, CallIsCut
  <2>2. \A j \in Key : Waiting(j)' \subseteq Waiting(j)
    <3>1. /\ \A d \in Caller \ {c} : agent'[d] = agent[d]
          /\ agent'[c].at \in Doing \cup {"free"}
      BY <1>8, WorkGoesOn
    <3> QED BY <3>1 DEF Waiting, Doing
  <2>3. \A j \in Key : count'[j] =< count[j]
    <3>1. count' = count
      BY <1>8, WorkGoesOn
    <3> QED BY <1>1, <3>1
  <2> QED BY <1>4, <2>1, <2>2, <2>3
<1>9. CASE Runs
  <2>1. requests' = requests /\ count' = count /\ agent' = agent
    BY <1>9 DEF Runs, LogUsage, ChargeUsage, AddUsage, UsageIsLost, UpdateConfig, MonthStarts,
       PlanExpires, limitVars
  <2>2. \A j \in Key : Waiting(j)' \subseteq Waiting(j)
    BY <2>1 DEF Waiting
  <2>3. \A j \in Key : count'[j] =< count[j]
    BY <1>1, <2>1
  <2> QED BY <1>4, <2>1, <2>2, <2>3
<1> QED BY <1>2, <1>3, <1>5, <1>6, <1>7, <1>8, <1>9 DEF AgentNext, Works, Runs

LEMMA CountedAlways ==
  /\ AgentInit => CountedOnce
  /\ AgentInv /\ CountedOnce /\ [AgentNext]_agentVars => CountedOnce'
  /\ AgentInv /\ CountedOnce => AgentTypeOK
<1>1. AgentInit => CountedOnce
  <2> SUFFICES ASSUME AgentInit PROVE CountedOnce
    OBVIOUS
  <2>1. requests = 0 /\ MaxRequests \in Nat
    BY AgentAssumption DEF AgentInit, AgentAssumption
  <2>2. ASSUME NEW k \in Key PROVE count[k] + Cardinality(Waiting(k)) =< requests
    <3>1. count[k] = 0 /\ Waiting(k) = {}
      BY AgentFacts DEF AgentInit, Waiting
    <3>2. Cardinality(Waiting(k)) = 0
      BY <3>1, FS_EmptySet
    <3> QED BY <2>1, <3>1, <3>2
  <2> QED BY <2>1, <2>2 DEF CountedOnce
<1>2. AgentInv /\ CountedOnce /\ [AgentNext]_agentVars => CountedOnce'
  <2> SUFFICES ASSUME AgentInv, CountedOnce, [AgentNext]_agentVars PROVE CountedOnce'
    OBVIOUS
  <2>1. AgentTypes /\ AgentTypes'
    BY AgentNextInv DEF AgentInv
  <2>2. CASE UNCHANGED agentVars
    BY <2>2 DEF agentVars, limitVars, CountedOnce, Waiting
  <2> QED BY <2>1, <2>2, CountedNext
<1>3. AgentInv /\ CountedOnce => AgentTypeOK
  <2> SUFFICES ASSUME AgentInv, CountedOnce PROVE AgentTypeOK
    OBVIOUS
  <2>1. AgentTypes /\ (used > 0 \/ ownKey => config)
    BY DEF AgentInv, CallsOwed, RowMakesSense
  <2>2. count \in [Key -> 0..MaxRequests]
    <3> SUFFICES ASSUME NEW k \in Key PROVE count[k] \in 0..MaxRequests
      BY <2>1 DEF AgentTypes
    <3> DEFINE x == Cardinality(Waiting(k))
    <3>1. /\ count[k] \in Nat /\ count[k] + x =< requests /\ x \in Nat
          /\ requests \in 0..MaxRequests /\ MaxRequests \in Nat
      BY <2>1, WaitingIsFinite, AgentAssumption DEF AgentTypes, CountedOnce, AgentAssumption
    <3> HIDE DEF x
    <3> QED BY <3>1
  <2>3. \A c \in Caller : agent[c].at \in Executing \cup Payer \cup {"free", "limit", "check"}
    <3>1. \A n \in Agent : n.at \in Executing \cup Payer \cup {"free", "limit", "check"}
      BY DEF Agent, Free, Doing, Executing, Payer
    <3> QED BY <2>1, <3>1 DEF AgentTypes
  <2> QED BY <2>1, <2>2, <2>3 DEF AgentTypes, AgentTypeOK
<1> QED BY <1>1, <1>2, <1>3

\* The counters, rows and requests of the agents keep their types, and what is
\* used is in a row, for any number of requests.
THEOREM AgentTypesKept == AgentSpec => []AgentTypeOK
BY AgentInitInv, AgentNextInv, CountedAlways, PTL DEF AgentSpec

-----------------------------------------------------------------------------
(* Sessions.  A login that founds is counted before it has founded, so that  *)
(* the bound holds while several are under way; a login only founds while    *)
(* there is no membership, and memberships do not go away.                   *)
LoginAt ==
  {Here("idle"), Here("asked"), Here("founding")} \cup [at : {"granted"}, workspace : Nat]
CallAt ==
  {Here("idle")}
  \cup [at : {"sent"}, kind : {"data", "create"}, live : BOOLEAN, again : BOOLEAN]
  \cup [at : {"waiting"}, kind : {"data", "create"}]
  \cup [at : {"switching"}, workspace : Nat, live : BOOLEAN]

AccessTyped == DOMAIN access = {"workspace", "live"} /\ access.live \in BOOLEAN

SessionTypes ==
  /\ joined \in Seq(Nat) /\ made \in Nat /\ founded \in Nat /\ overlaps \in Nat /\ lost \in Nat
  /\ AccessTyped
  /\ tab \in [Tab -> [in : BOOLEAN, active : Nat]]
  /\ login \in [Tab -> LoginAt] /\ call \in [Tab \X Slot -> CallAt]

Founding == {t \in Tab : login[t].at = "founding"}

FoundersCounted ==
  /\ founded + Cardinality(Founding) <= 1 + overlaps
  /\ joined = <<>> => founded = 0

SessionInv == SessionTypes /\ FoundersCounted

LEMMA LoginFacts ==
  /\ Here("idle") \in LoginAt /\ Here("asked") \in LoginAt /\ Here("founding") \in LoginAt
  /\ \A w \in Nat : [at |-> "granted", workspace |-> w] \in LoginAt
  /\ \A n \in LoginAt : n.at = "granted" => n.workspace \in Nat
  /\ Here("idle").at = "idle" /\ Here("asked").at = "asked" /\ Here("founding").at = "founding"
  BY DEF LoginAt, Here

LEMMA CallFacts ==
  /\ Here("idle") \in CallAt /\ Here("idle").at = "idle"
  /\ \A n \in CallAt : /\ n.at \in {"sent", "waiting"} => n.kind \in {"data", "create"}
                       /\ n.at = "switching" => n.workspace \in Nat
  BY DEF CallAt, Here

\* The founding logins are finitely many.
LEMMA FoundingIsFinite == SessionTypes => IsFiniteSet(Founding) /\ Cardinality(Founding) \in Nat
<1> IsFiniteSet(Tab) /\ Founding \subseteq Tab
  BY SessionAssumption DEF SessionAssumption, Founding
<1> QED BY FS_Subset, FS_CardinalityType

\* When no login starts to found, the count of those that do does not grow.
LEMMA FewerFound ==
  ASSUME SessionInv, Founding' \subseteq Founding,
         joined' = joined, founded' = founded, overlaps' = overlaps
  PROVE  FoundersCounted'
<1>1. IsFiniteSet(Founding) /\ Cardinality(Founding) \in Nat
  BY FoundingIsFinite DEF SessionInv
<1>2. Cardinality(Founding') \in Nat /\ Cardinality(Founding') =< Cardinality(Founding)
  BY <1>1, FS_Subset, FS_CardinalityType
<1> DEFINE x == Cardinality(Founding)
           y == Cardinality(Founding')
<1>3. founded + x =< 1 + overlaps /\ founded \in Nat /\ overlaps \in Nat
  BY DEF SessionInv, FoundersCounted, SessionTypes
<1>4. founded + y =< 1 + overlaps
  <2> x \in Nat /\ y \in Nat /\ y =< x
    BY <1>1, <1>2
  <2> HIDE DEF x, y
  <2> QED BY <1>3
<1> QED BY <1>4 DEF SessionInv, FoundersCounted

LEMMA SessionInitInv == SessionInit => SessionInv
<1> SUFFICES ASSUME SessionInit PROVE SessionInv
  OBVIOUS
<1>1. SessionTypes
  <2>1. AccessTyped
    BY DEF SessionInit, AccessTyped, NoCookie
  <2> QED BY <2>1, LoginFacts, CallFacts DEF SessionInit, SessionTypes
<1>2. Founding = {}
  BY LoginFacts DEF SessionInit, Founding
<1>3. Cardinality(Founding) = 0
  BY <1>2, FS_EmptySet
<1> QED BY <1>1, <1>3 DEF SessionInv, FoundersCounted, SessionInit

\* One tab's login goes on, the calls and the stores stay.
LEMMA LoginMoves ==
  ASSUME SessionTypes, NEW t \in Tab, NEW n \in LoginAt, login' = [login EXCEPT ![t] = n],
         joined' \in Seq(Nat), made' \in Nat, founded' \in Nat, overlaps' \in Nat, lost' \in Nat,
         AccessTyped', tab' \in [Tab -> [in : BOOLEAN, active : Nat]], call' = call
  PROVE  /\ SessionTypes' /\ login'[t] = n
         /\ Founding' = IF n.at = "founding" THEN Founding \union {t} ELSE Founding \ {t}
<1>1. SessionTypes'
  BY DEF SessionTypes
<1>2. login'[t] = n /\ \A u \in Tab \ {t} : login'[u] = login[u]
  BY DEF SessionTypes
<1> QED BY <1>1, <1>2 DEF Founding

LEMMA LoginsGoOn ==
  ASSUME SessionInv, NEW t \in Tab,
         AskLogin(t) \/ ResolveMembership(t) \/ FoundWorkspace(t) \/ LoggedIn(t) \/ LoginFails(t)
  PROVE  SessionInv' /\ \A u \in Tab : tab[u].in => tab'[u].in
<1>1. SessionTypes /\ FoundersCounted
  BY DEF SessionInv
<1>2. /\ joined \in Seq(Nat) /\ made \in Nat /\ founded \in Nat /\ overlaps \in Nat /\ lost \in Nat
      /\ AccessTyped /\ tab \in [Tab -> [in : BOOLEAN, active : Nat]]
      /\ login[t] \in LoginAt /\ login \in [Tab -> LoginAt]
  BY <1>1 DEF SessionTypes
<1>3. CASE AskLogin(t) \/ LoginFails(t)
  <2>1. /\ joined' = joined /\ made' = made /\ founded' = founded /\ overlaps' = overlaps
        /\ AccessTyped' /\ tab' = tab /\ call' = call /\ lost' \in Nat
    BY <1>2, <1>3 DEF AskLogin, LoginFails, Lose, AccessTyped
  <2>2. PICK n \in LoginAt : login' = [login EXCEPT ![t] = n] /\ n.at # "founding"
    BY <1>3, LoginFacts DEF AskLogin, LoginFails
  <2>3. SessionTypes' /\ Founding' \subseteq Founding
    BY <1>1, <1>2, <2>1, <2>2, LoginMoves
  <2> QED BY <2>1, <2>3, FewerFound DEF SessionInv
<1>4. CASE LoggedIn(t)
  <2>1. /\ joined' = joined /\ made' = made /\ founded' = founded /\ overlaps' = overlaps
        /\ lost' = lost /\ call' = call /\ login' = [login EXCEPT ![t] = Here("idle")]
        /\ AccessTyped'
    BY <1>4 DEF LoggedIn, SetCookies, AccessTyped
  <2>2. login[t].workspace \in Nat
    BY <1>2, <1>4, LoginFacts DEF LoggedIn
  <2>3. /\ tab' \in [Tab -> [in : BOOLEAN, active : Nat]]
        /\ \A u \in Tab : tab[u].in => tab'[u].in
    BY <1>2, <1>4, <2>2 DEF LoggedIn
  <2>4. SessionTypes' /\ Founding' \subseteq Founding
    BY <1>1, <1>2, <2>1, <2>3, LoginMoves, LoginFacts
  <2> QED BY <2>1, <2>3, <2>4, FewerFound DEF SessionInv
<1>5. CASE ResolveMembership(t) /\ joined # <<>>
  <2>1. /\ joined' = joined /\ made' = made /\ founded' = founded /\ overlaps' = overlaps
        /\ access' = access /\ tab' = tab /\ call' = call /\ lost' = lost
        /\ login' = [login EXCEPT ![t] = [at |-> "granted", workspace |-> joined[1]]]
    BY <1>5 DEF ResolveMembership, Oldest
  <2>2. joined[1] \in Nat
    BY <1>2, <1>5
  <2> DEFINE n == [at |-> "granted", workspace |-> joined[1]]
  <2>3. n \in LoginAt /\ n.at # "founding"
    BY <2>2, LoginFacts
  <2> HIDE DEF n
  <2>4. login' = [login EXCEPT ![t] = n] /\ joined' \in Seq(Nat) /\ AccessTyped'
    BY <1>2, <2>1 DEF n, AccessTyped
  <2>5. SessionTypes' /\ Founding' = Founding \ {t}
    BY <1>1, <1>2, <2>1, <2>3, <2>4, LoginMoves
  <2> QED BY <2>1, <2>5, FewerFound DEF SessionInv
<1>6. CASE ResolveMembership(t) /\ joined = <<>>
  <2>1. /\ joined' = joined /\ made' = made /\ founded' = founded
        /\ AccessTyped' /\ tab' = tab /\ call' = call /\ lost' = lost
        /\ login' = [login EXCEPT ![t] = Here("founding")] /\ login[t].at = "asked"
        /\ overlaps' = overlaps + (IF \E o \in Tab : login[o].at = "founding" THEN 1 ELSE 0)
    BY <1>2, <1>6 DEF ResolveMembership, AccessTyped
  <2>2. overlaps' \in Nat /\ overlaps' = overlaps + (IF Founding # {} THEN 1 ELSE 0)
    BY <1>2, <2>1 DEF Founding
  <2>3. SessionTypes' /\ Founding' = Founding \union {t} /\ t \notin Founding
    BY <1>1, <1>2, <2>1, <2>2, LoginMoves, LoginFacts DEF Founding
  <2>4. Cardinality(Founding') = Cardinality(Founding) + 1 /\ Cardinality(Founding) \in Nat
    BY <1>1, <2>3, FoundingIsFinite, FS_AddElement
  <2>5. Founding = {} => Cardinality(Founding) = 0
    BY FS_EmptySet
  <2>6. founded = 0 /\ founded + Cardinality(Founding) =< 1 + overlaps
    BY <1>1, <1>6 DEF FoundersCounted
  <2> DEFINE x == Cardinality(Founding)
             y == Cardinality(Founding')
  <2>7. founded + y =< 1 + overlaps'
    <3> x \in Nat /\ y = x + 1 /\ (Founding = {} => x = 0) /\ founded + x =< 1 + overlaps
      BY <2>4, <2>5, <2>6
    <3> HIDE DEF x, y
    <3> QED BY <1>2, <2>2, <2>6
  <2> QED BY <2>1, <2>3, <2>6, <2>7 DEF SessionInv, FoundersCounted
<1>7. CASE FoundWorkspace(t)
  <2>1. /\ joined' = Append(joined, made + 1) /\ made' = made + 1 /\ founded' = founded + 1
        /\ overlaps' = overlaps /\ AccessTyped' /\ tab' = tab /\ call' = call /\ lost' = lost
        /\ login' = [login EXCEPT ![t] = [at |-> "granted", workspace |-> made + 1]]
        /\ login[t].at = "founding"
    BY <1>2, <1>7 DEF FoundWorkspace, Join, AccessTyped
  <2>2. joined' \in Seq(Nat) /\ joined' # <<>> /\ made' \in Nat /\ founded' \in Nat
    BY <1>2, <2>1
  <2> DEFINE n == [at |-> "granted", workspace |-> made + 1]
  <2>3. n \in LoginAt /\ n.at # "founding"
    BY <1>2, LoginFacts
  <2> HIDE DEF n
  <2>4. SessionTypes' /\ Founding' = Founding \ {t} /\ t \in Founding
    BY <1>1, <1>2, <2>1, <2>2, <2>3, LoginMoves DEF n, Founding
  <2>5. Cardinality(Founding') = Cardinality(Founding) - 1 /\ Cardinality(Founding) \in Nat
    BY <1>1, <2>4, FoundingIsFinite, FS_RemoveElement
  <2> DEFINE x == Cardinality(Founding)
             y == Cardinality(Founding')
  <2>6. founded' + y =< 1 + overlaps'
    <3> x \in Nat /\ y = x - 1 /\ founded + x =< 1 + overlaps
      BY <1>1, <2>5 DEF FoundersCounted
    <3> HIDE DEF x, y
    <3> QED BY <1>2, <2>1
  <2> QED BY <2>1, <2>2, <2>4, <2>6 DEF SessionInv, FoundersCounted
<1> QED BY <1>3, <1>4, <1>5, <1>6, <1>7

\* What is under way of the requests goes on; only a switch writes a store.
LEMMA CallsGoOn ==
  ASSUME SessionInv, NEW t \in Tab,
         \/ Refresh(t) \/ Refreshed(t)
         \/ \E s \in Slot : Send(t, s) \/ Served(t, s) \/ Refused(t, s) \/ Switched(t, s)
  PROVE  SessionInv' /\ \A u \in Tab : tab[u].in => tab'[u].in
<1>1. SessionTypes /\ FoundersCounted
  BY DEF SessionInv
<1>2. /\ joined \in Seq(Nat) /\ made \in Nat /\ founded \in Nat /\ overlaps \in Nat /\ lost \in Nat
      /\ AccessTyped /\ tab \in [Tab -> [in : BOOLEAN, active : Nat]]
      /\ login \in [Tab -> LoginAt] /\ call \in [Tab \X Slot -> CallAt]
  BY <1>1 DEF SessionTypes
<1>3. founded' = founded /\ overlaps' = overlaps /\ login' = login
  BY DEF Refresh, Refreshed, Send, Served, Refused, Switched
<1>4. /\ joined' \in Seq(Nat) /\ made' \in Nat /\ lost' \in Nat
      /\ joined' = joined \/ joined' = Append(joined, made + 1)
  <2>1. /\ joined' = joined \/ joined' = Append(joined, made + 1)
        /\ made' \in {made, made + 1} /\ lost' \in {lost, lost + 1}
    BY DEF Refresh, Refreshed, Send, Served, Refused, Switched, Join, JoinNobody, Lose
  <2>2. made' \in Nat /\ lost' \in Nat
    BY <1>2, <2>1
  <2>3. joined' \in Seq(Nat)
    <3>1. made + 1 \in Nat
      BY <1>2
    <3>2. Append(joined, made + 1) \in Seq(Nat)
      BY <1>2, <3>1
    <3> QED BY <1>2, <2>1, <3>2
  <2> QED BY <2>1, <2>2, <2>3
<1>5. AccessTyped'
  <2>1. access' = access \/ \E w : access' = [workspace |-> w, live |-> TRUE]
    BY DEF Refresh, Refreshed, Send, Served, Refused, Switched, SetCookies
  <2>2. CASE access' = access
    BY <1>2, <2>2 DEF AccessTyped
  <2>3. CASE \E w : access' = [workspace |-> w, live |-> TRUE]
    BY <2>3 DEF AccessTyped
  <2> QED BY <2>1, <2>2, <2>3
<1>6. call' \in [Tab \X Slot -> CallAt]
  <2>1. CASE Refresh(t)
    BY <1>2, <2>1 DEF Refresh
  <2>2. CASE Refreshed(t)
    <3> SUFFICES ASSUME NEW c \in Tab \X Slot, call[c].at = "waiting"
                 PROVE  [at |-> "sent", kind |-> call[c].kind, live |-> TRUE, again |-> TRUE] \in CallAt
      BY <1>2, <2>2 DEF Refreshed
    <3>1. call[c].kind \in {"data", "create"}
      BY <1>2, CallFacts
    <3> QED BY <3>1 DEF CallAt
  <2>3. ASSUME NEW s \in Slot, Send(t, s) PROVE call' \in [Tab \X Slot -> CallAt]
    <3>1. PICK kind \in {"data", "create"} :
            call' = [call EXCEPT ![<<t, s>>] =
                      [at |-> "sent", kind |-> kind, live |-> access.live, again |-> FALSE]]
      BY <2>3 DEF Send
    <3>2. [at |-> "sent", kind |-> kind, live |-> access.live, again |-> FALSE] \in CallAt
      BY <1>2 DEF CallAt, AccessTyped
    <3> QED BY <1>2, <3>1, <3>2
  <2>4. ASSUME NEW s \in Slot, Served(t, s) PROVE call' \in [Tab \X Slot -> CallAt]
    <3>1. PICK n \in {Here("idle"), [at |-> "switching", workspace |-> made + 1, live |-> access.live]} :
            call' = [call EXCEPT ![<<t, s>>] = n]
      BY <2>4 DEF Served
    <3>2. n \in CallAt
      BY <1>2, CallFacts DEF CallAt, AccessTyped
    <3> QED BY <1>2, <3>1, <3>2
  <2>5. ASSUME NEW s \in Slot, Refused(t, s) PROVE call' \in [Tab \X Slot -> CallAt]
    <3>1. PICK n \in {Here("idle"), [at |-> "waiting", kind |-> call[t, s].kind]} :
            call' = [call EXCEPT ![<<t, s>>] = n]
      BY <2>5 DEF Refused
    <3>2. call[t, s].kind \in {"data", "create"}
      BY <1>2, <2>5, CallFacts DEF Refused
    <3>3. n \in CallAt
      <4> DEFINE kind == call[t, s].kind
      <4>1. [at |-> "waiting", kind |-> kind] \in CallAt
        <5> HIDE DEF kind
        <5> QED BY <3>2 DEF CallAt, kind
      <4> QED BY <4>1, CallFacts
    <3> QED BY <1>2, <3>1, <3>3
  <2>6. ASSUME NEW s \in Slot, Switched(t, s) PROVE call' \in [Tab \X Slot -> CallAt]
    BY <1>2, <2>6, CallFacts DEF Switched
  <2> QED BY <2>1, <2>2, <2>3, <2>4, <2>5, <2>6
<1>7. tab' \in [Tab -> [in : BOOLEAN, active : Nat]] /\ \A u \in Tab : tab[u].in => tab'[u].in
  <2>1. CASE tab' = tab
    BY <1>2, <2>1
  <2>2. CASE tab' # tab
    <3>1. PICK s \in Slot : /\ call[t, s].at = "switching"
                            /\ tab' = [tab EXCEPT ![t].active = call[t, s].workspace]
      BY <2>2 DEF Refresh, Refreshed, Send, Served, Refused, Switched
    <3>2. call[t, s].workspace \in Nat
      BY <1>2, <3>1, CallFacts
    <3> QED BY <1>2, <3>1, <3>2
  <2> QED BY <2>1, <2>2
<1>8. SessionTypes'
  BY <1>2, <1>3, <1>4, <1>5, <1>6, <1>7 DEF SessionTypes
<1>9. Founding' = Founding
  BY <1>3 DEF Founding
<1>10. joined' = <<>> => joined = <<>>
  <2> DEFINE w == made + 1
  <2>1. Append(joined, w) # <<>>
    <3> w \in Nat
      BY <1>2
    <3> HIDE DEF w
    <3> QED BY <1>2
  <2> QED BY <1>4, <2>1
<1>11. FoundersCounted'
  BY <1>1, <1>3, <1>9, <1>10 DEF FoundersCounted
<1> QED BY <1>7, <1>8, <1>11 DEF SessionInv

\* A session ends: the user leaves, a refresh fails, or a token's time is over.
LEMMA SessionsEnd ==
  ASSUME SessionInv, AccessEnds \/ RefreshEnds \/ \E t \in Tab : LogOut(t) \/ RefreshFails(t)
  PROVE  /\ SessionInv'
         /\ \A u \in Tab : tab[u].in /\ ~tab'[u].in =>
              \/ tab'[u].active = 0 /\ call' = call
              \/ renew[u].at # "none" /\ (lost' # lost \/ ~renew[u].valid)
<1>1. SessionTypes /\ FoundersCounted
  BY DEF SessionInv
<1>2. /\ joined \in Seq(Nat) /\ made \in Nat /\ founded \in Nat /\ overlaps \in Nat /\ lost \in Nat
      /\ AccessTyped /\ tab \in [Tab -> [in : BOOLEAN, active : Nat]]
      /\ login \in [Tab -> LoginAt] /\ call \in [Tab \X Slot -> CallAt]
  BY <1>1 DEF SessionTypes
<1>3. joined' = joined /\ made' = made /\ founded' = founded /\ overlaps' = overlaps /\ lost' \in Nat
  BY <1>2 DEF AccessEnds, RefreshEnds, LogOut, RefreshFails, ToLogin, Lose
<1>4. AccessTyped'
  <2>1. \/ access' = access \/ access' = NoCookie \/ access' = [access EXCEPT !.live = FALSE]
    BY DEF AccessEnds, RefreshEnds, LogOut, RefreshFails
  <2>2. CASE access' = access
    BY <1>2, <2>2 DEF AccessTyped
  <2>3. CASE access' = NoCookie
    BY <2>3 DEF NoCookie, AccessTyped
  <2>4. CASE access' = [access EXCEPT !.live = FALSE]
    BY <1>2, <2>4 DEF AccessTyped
  <2> QED BY <2>1, <2>2, <2>3, <2>4
<1>5. /\ tab' \in [Tab -> [in : BOOLEAN, active : Nat]] /\ login' \in [Tab -> LoginAt]
      /\ call' \in [Tab \X Slot -> CallAt]
      /\ \A u \in Tab : login'[u] \in {login[u], Here("idle")}
  <2>1. CASE AccessEnds \/ RefreshEnds
    BY <1>2, <2>1 DEF AccessEnds, RefreshEnds
  <2>2. ASSUME NEW t \in Tab, LogOut(t)
        PROVE  tab' \in [Tab -> [in : BOOLEAN, active : Nat]] /\ login' = login /\ call' = call
    BY <1>2, <2>2 DEF LogOut
  <2>3. ASSUME NEW t \in Tab, RefreshFails(t)
        PROVE  /\ tab' \in [Tab -> [in : BOOLEAN, active : Nat]] /\ login' \in [Tab -> LoginAt]
               /\ call' \in [Tab \X Slot -> CallAt]
               /\ \A u \in Tab : login'[u] \in {login[u], Here("idle")}
    <3>1. tab' \in [Tab -> [in : BOOLEAN, active : Nat]]
      <4>1. tab' = [tab EXCEPT ![t].in = FALSE]
        BY <2>3 DEF RefreshFails, ToLogin
      <4> QED BY <1>2, <4>1
    <3>2. login' = [login EXCEPT ![t] = Here("idle")]
      BY <2>3 DEF RefreshFails, ToLogin
    <3>3. call' \in [Tab \X Slot -> CallAt]
      BY <1>2, <2>3, CallFacts DEF RefreshFails, ToLogin
    <3> QED BY <1>2, <3>1, <3>2, <3>3, LoginFacts
  <2> QED BY <1>2, <2>1, <2>2, <2>3
<1>6. SessionTypes' /\ Founding' \subseteq Founding
  BY <1>2, <1>3, <1>4, <1>5, LoginFacts DEF SessionTypes, Founding
<1>7. FoundersCounted'
  BY <1>3, <1>6, FewerFound
<1>8. ASSUME NEW u \in Tab, tab[u].in, ~tab'[u].in
      PROVE  \/ tab'[u].active = 0 /\ call' = call
             \/ renew[u].at # "none" /\ (lost' # lost \/ ~renew[u].valid)
  <2>1. ~(AccessEnds \/ RefreshEnds)
    BY <1>8 DEF AccessEnds, RefreshEnds
  <2>2. PICK t \in Tab : LogOut(t) \/ RefreshFails(t)
    BY <2>1
  <2>3. t = u
    <3>1. \/ tab' = [tab EXCEPT ![t] = [in |-> FALSE, active |-> 0]]
          \/ tab' = [tab EXCEPT ![t].in = FALSE]
      BY <2>2 DEF LogOut, RefreshFails, ToLogin
    <3> QED BY <1>2, <1>8, <3>1
  <2>4. CASE LogOut(u)
    BY <1>2, <2>4 DEF LogOut
  <2>5. CASE RefreshFails(u)
    BY <1>2, <2>5 DEF RefreshFails, Lose
  <2> QED BY <2>2, <2>3, <2>4, <2>5
<1> QED BY <1>6, <1>7, <1>8 DEF SessionInv

LEMMA SessionNextInv == SessionInv /\ [SessionNext]_sessionVars => SessionInv'
<1> SUFFICES ASSUME SessionInv, [SessionNext]_sessionVars PROVE SessionInv'
  OBVIOUS
<1>1. CASE UNCHANGED sessionVars
  BY <1>1 DEF sessionVars, SessionInv, SessionTypes, AccessTyped, FoundersCounted, Founding
<1> QED BY <1>1, LoginsGoOn, CallsGoOn, SessionsEnd DEF SessionNext

\* A user's first logins make one workspace, and one more for each that overlapped
\* another; a tab is logged out by its user or by a refresh that failed; for any
\* number of tabs and requests.
THEOREM SessionsSafe == SessionSpec => SessionSafety
<1>1. SessionInv => OneFirstWorkspace
  <2> SUFFICES ASSUME SessionInv PROVE OneFirstWorkspace
    OBVIOUS
  <2> DEFINE x == Cardinality(Founding)
  <2>1. x \in Nat /\ founded + x =< 1 + overlaps /\ founded \in Nat /\ overlaps \in Nat
    BY FoundingIsFinite DEF SessionInv, SessionTypes, FoundersCounted
  <2> HIDE DEF x
  <2> QED BY <2>1 DEF OneFirstWorkspace
<1>2. SessionInv /\ [SessionNext]_sessionVars =>
        [\A t \in Tab : tab[t].in /\ ~tab'[t].in =>
           \/ tab'[t].active = 0 /\ call' = call
           \/ renew[t].at # "none" /\ (lost' # lost \/ ~refresh \/ ~renew[t].valid)]_sessionVars
  BY LoginsGoOn, CallsGoOn, SessionsEnd DEF SessionNext
<1> QED BY <1>1, <1>2, SessionInitInv, SessionNextInv, PTL
        DEF SessionSpec, SessionSafety, SessionsEndForCause

(* Every state of a session is typed.  The workspace of a cookie is read off *)
(* the oldest membership, so that its type rests on there being one:         *)
(* memberships never go away, and nobody has a refresh token, or is about to *)
(* get one, before there is a membership.                                    *)
LoginStep ==
  {Here("idle"), Here("asked"), Here("founding")} \cup [at : {"granted"}, workspace : Workspace]
CallStep ==
  {Here("idle")}
  \cup [at : {"sent"}, kind : {"data", "create"}, live : BOOLEAN, again : BOOLEAN]
  \cup [at : {"waiting"}, kind : {"data", "create"}]
  \cup [at : {"switching"}, workspace : Workspace, live : BOOLEAN]
RenewStep ==
  {Here("none")} \cup [at : {"sent"}, valid : BOOLEAN] \cup [at : {"granted"}, workspace : Workspace]
Cookie == [workspace : {0} \cup Workspace, live : BOOLEAN]
Store  == [in : BOOLEAN, active : {0} \cup Workspace]

Grants(n) == n.at = "granted" \/ (n.at = "sent" /\ n.valid)

\* Whoever has a session, or is on the way to one, is a member somewhere.
SessionsAreMembers ==
  joined = <<>> =>
    /\ ~refresh
    /\ \A t \in Tab : login[t].at # "granted" /\ ~Grants(renew[t])
    /\ \A c \in Tab \X Slot : call[c].at # "switching"

SessionTyped == SessionTypeOK /\ SessionsAreMembers

LEMMA StepFacts ==
  /\ Here("idle") \in LoginStep /\ Here("asked") \in LoginStep /\ Here("founding") \in LoginStep
  /\ Here("idle") \in CallStep /\ Here("none") \in RenewStep
  /\ Here("idle").at = "idle" /\ Here("asked").at = "asked" /\ Here("founding").at = "founding"
  /\ Here("none").at = "none" /\ ~Grants(Here("none"))
  /\ \A w \in Workspace : /\ [at |-> "granted", workspace |-> w] \in LoginStep
                          /\ [at |-> "granted", workspace |-> w] \in RenewStep
  /\ \A w \in Workspace, b \in BOOLEAN :
       [at |-> "switching", workspace |-> w, live |-> b] \in CallStep
  /\ \A b \in BOOLEAN : [at |-> "sent", valid |-> b] \in RenewStep
  /\ \A k \in {"data", "create"} : [at |-> "waiting", kind |-> k] \in CallStep
  /\ \A k \in {"data", "create"}, b \in BOOLEAN, a \in BOOLEAN :
       [at |-> "sent", kind |-> k, live |-> b, again |-> a] \in CallStep
<1>1. /\ Here("idle") \in LoginStep /\ Here("asked") \in LoginStep /\ Here("founding") \in LoginStep
      /\ Here("idle") \in CallStep /\ Here("none") \in RenewStep
  BY DEF LoginStep, CallStep, RenewStep
<1>2. /\ Here("idle").at = "idle" /\ Here("asked").at = "asked" /\ Here("founding").at = "founding"
      /\ Here("none").at = "none" /\ ~Grants(Here("none"))
  BY DEF Here, Grants
<1>3. \A w \in Workspace : /\ [at |-> "granted", workspace |-> w] \in LoginStep
                           /\ [at |-> "granted", workspace |-> w] \in RenewStep
  BY DEF LoginStep, RenewStep
<1>4. \A w \in Workspace, b \in BOOLEAN :
        [at |-> "switching", workspace |-> w, live |-> b] \in CallStep
  BY DEF CallStep
<1>5. \A b \in BOOLEAN : [at |-> "sent", valid |-> b] \in RenewStep
  BY DEF RenewStep
<1>6. \A k \in {"data", "create"} : [at |-> "waiting", kind |-> k] \in CallStep
  BY DEF CallStep
<1>7. \A k \in {"data", "create"}, b \in BOOLEAN, a \in BOOLEAN :
        [at |-> "sent", kind |-> k, live |-> b, again |-> a] \in CallStep
  BY DEF CallStep
<1> QED BY <1>1, <1>2, <1>3, <1>4, <1>5, <1>6, <1>7

LEMMA StepParts ==
  /\ \A n \in LoginStep : n.at = "granted" => n.workspace \in Workspace
  /\ \A n \in RenewStep : /\ n.at = "granted" => n.workspace \in Workspace
                          /\ n.at = "sent" => n.valid \in BOOLEAN
  /\ \A n \in CallStep : /\ n.at \in {"sent", "waiting"} => n.kind \in {"data", "create"}
                         /\ n.at = "switching" => n.workspace \in Workspace
BY DEF LoginStep, RenewStep, CallStep, Here

LEMMA TypedParts ==
  SessionTypeOK <=>
    /\ joined \in Seq(Workspace) /\ made \in Nat /\ founded \in Nat /\ overlaps \in Nat
    /\ access \in Cookie /\ refresh \in BOOLEAN /\ tab \in [Tab -> Store]
    /\ login \in [Tab -> LoginStep] /\ call \in [Tab \X Slot -> CallStep]
    /\ renew \in [Tab -> RenewStep]
<1> {0} \cup Workspace = Nat
  BY DEF Workspace
<1> QED BY DEF SessionTypeOK, LoginStep, CallStep, RenewStep, Cookie, Store

LEMMA SessionTypedInit == SessionInit => SessionTyped
<1> SUFFICES ASSUME SessionInit PROVE SessionTyped
  OBVIOUS
<1>1. access \in Cookie
  BY DEF SessionInit, NoCookie, Cookie
<1>2. tab \in [Tab -> Store]
  BY DEF SessionInit, Store
<1>3. /\ login \in [Tab -> LoginStep] /\ call \in [Tab \X Slot -> CallStep]
      /\ renew \in [Tab -> RenewStep]
  BY StepFacts DEF SessionInit
<1>4. joined \in Seq(Workspace) /\ made \in Nat /\ founded \in Nat /\ overlaps \in Nat /\ refresh \in BOOLEAN
  BY EmptySeq DEF SessionInit
<1>5. SessionTypeOK
  BY <1>1, <1>2, <1>3, <1>4, TypedParts
<1>6. SessionsAreMembers
  BY StepFacts DEF SessionInit, SessionsAreMembers
<1> QED BY <1>5, <1>6 DEF SessionTyped

\* A new workspace joins behind the oldest.
LEMMA Joins ==
  ASSUME joined \in Seq(Workspace), made \in Nat
  PROVE  /\ made + 1 \in Workspace /\ Append(joined, made + 1) \in Seq(Workspace)
         /\ Append(joined, made + 1) # <<>>
         /\ joined # <<>> => Oldest \in Workspace
<1> DEFINE w == made + 1
<1>1. w \in Workspace
  BY DEF Workspace
<1> HIDE DEF w
<1>2. Append(joined, w) \in Seq(Workspace) /\ Append(joined, w) # <<>>
  BY <1>1, AppendProperties
<1>3. joined # <<>> => Oldest \in Workspace
  BY ElementOfSeq DEF Oldest
<1> QED BY <1>1, <1>2, <1>3 DEF w

LEMMA LoginsTyped ==
  ASSUME SessionTyped, NEW t \in Tab,
         AskLogin(t) \/ ResolveMembership(t) \/ FoundWorkspace(t) \/ LoggedIn(t) \/ LoginFails(t)
  PROVE  SessionTyped'
<1>1. /\ joined \in Seq(Workspace) /\ made \in Nat /\ founded \in Nat /\ overlaps \in Nat
      /\ access \in Cookie /\ refresh \in BOOLEAN /\ tab \in [Tab -> Store]
      /\ login \in [Tab -> LoginStep] /\ call \in [Tab \X Slot -> CallStep]
      /\ renew \in [Tab -> RenewStep] /\ SessionsAreMembers
  BY TypedParts DEF SessionTyped
<1>2. call' = call /\ renew' = renew
  BY DEF AskLogin, ResolveMembership, FoundWorkspace, LoggedIn, LoginFails
<1>3. /\ made + 1 \in Workspace /\ Append(joined, made + 1) \in Seq(Workspace)
      /\ Append(joined, made + 1) # <<>> /\ (joined # <<>> => Oldest \in Workspace)
  BY <1>1, Joins
<1>4. joined' \in Seq(Workspace) /\ made' \in Nat /\ (joined' = <<>> => joined = <<>>)
  <2>1. \/ joined' = joined /\ made' = made
        \/ joined' = Append(joined, made + 1) /\ made' = made + 1
    BY DEF AskLogin, ResolveMembership, FoundWorkspace, LoggedIn, LoginFails, Join
  <2> QED BY <1>1, <1>3, <2>1 DEF Workspace
<1>5. founded' \in Nat
  BY <1>1 DEF AskLogin, ResolveMembership, FoundWorkspace, LoggedIn, LoginFails
<1>6. overlaps' \in Nat
  BY <1>1 DEF AskLogin, ResolveMembership, FoundWorkspace, LoggedIn, LoginFails
<1>7. PICK n \in LoginStep :
        /\ login' = [login EXCEPT ![t] = n]
        /\ n.at = "granted" => joined' # <<>>
  <2>1. CASE AskLogin(t) \/ LoginFails(t) \/ LoggedIn(t)
    BY <2>1, StepFacts DEF AskLogin, LoginFails, LoggedIn
  <2>2. CASE ResolveMembership(t)
    <3>1. joined' = joined
      BY <2>2 DEF ResolveMembership
    <3>2. CASE joined = <<>>
      BY <2>2, <3>2, StepFacts DEF ResolveMembership
    <3>3. CASE joined # <<>>
      <4>1. login' = [login EXCEPT ![t] = [at |-> "granted", workspace |-> Oldest]]
        BY <2>2, <3>3 DEF ResolveMembership
      <4>2. [at |-> "granted", workspace |-> Oldest] \in LoginStep
        BY <1>3, <3>3, StepFacts
      <4> QED BY <3>1, <3>3, <4>1, <4>2
    <3> QED BY <3>2, <3>3
  <2>3. CASE FoundWorkspace(t)
    <3>1. /\ joined' = Append(joined, made + 1)
          /\ login' = [login EXCEPT ![t] = [at |-> "granted", workspace |-> made + 1]]
      BY <2>3 DEF FoundWorkspace, Join
    <3>2. [at |-> "granted", workspace |-> made + 1] \in LoginStep
      BY <1>3, StepFacts
    <3> QED BY <1>3, <3>1, <3>2
  <2> QED BY <2>1, <2>2, <2>3
<1>8. login' \in [Tab -> LoginStep] /\ \A u \in Tab : login'[u] = IF u = t THEN n ELSE login[u]
  BY <1>1, <1>7
<1>9. /\ access' \in Cookie /\ refresh' \in BOOLEAN /\ tab' \in [Tab -> Store]
      /\ refresh' => refresh \/ joined # <<>>
  <2>1. CASE LoggedIn(t)
    <3> DEFINE w == login[t].workspace
    <3>1. login[t].at = "granted" /\ login[t] \in LoginStep
      BY <1>1, <2>1 DEF LoggedIn
    <3>2. w \in Workspace
      BY <3>1, StepParts
    <3>3. joined # <<>>
      BY <1>1, <3>1 DEF SessionsAreMembers
    <3>4. access' = [workspace |-> w, live |-> TRUE] /\ refresh' = TRUE
      BY <2>1 DEF LoggedIn, SetCookies
    <3>5. \/ tab' = [tab EXCEPT ![t].in = TRUE, ![t].active = w]
          \/ tab' = [tab EXCEPT ![t].in = TRUE]
      BY <2>1 DEF LoggedIn
    <3> HIDE DEF w
    <3>6. access' \in Cookie
      BY <3>2, <3>4 DEF Cookie
    <3>7. tab' \in [Tab -> Store]
      BY <1>1, <3>2, <3>5 DEF Store
    <3> QED BY <3>3, <3>4, <3>6, <3>7
  <2>2. CASE ~LoggedIn(t)
    <3>1. access' = access /\ refresh' = refresh /\ tab' = tab
      BY <2>2 DEF AskLogin, ResolveMembership, FoundWorkspace, LoginFails
    <3> QED BY <1>1, <3>1
  <2> QED BY <2>1, <2>2
<1>10. SessionTypeOK'
  <2>1. call' \in [Tab \X Slot -> CallStep] /\ renew' \in [Tab -> RenewStep]
    BY <1>1, <1>2
  <2> QED BY <1>4, <1>5, <1>6, <1>8, <1>9, <2>1, TypedParts
          DEF SessionTypeOK, Cookie, Store, LoginStep, CallStep, RenewStep, Workspace
<1>11. SessionsAreMembers'
  <2> SUFFICES ASSUME joined' = <<>>
               PROVE  /\ ~refresh'
                      /\ \A u \in Tab : login'[u].at # "granted" /\ ~Grants(renew'[u])
                      /\ \A c \in Tab \X Slot : call'[c].at # "switching"
    BY DEF SessionsAreMembers, Grants
  <2>1. joined = <<>> /\ n.at # "granted"
    BY <1>4, <1>7
  <2>2. /\ ~refresh
        /\ \A u \in Tab : login[u].at # "granted" /\ ~Grants(renew[u])
        /\ \A c \in Tab \X Slot : call[c].at # "switching"
    BY <1>1, <2>1 DEF SessionsAreMembers
  <2> QED BY <1>2, <1>8, <1>9, <2>1, <2>2
<1> QED BY <1>10, <1>11 DEF SessionTyped

LEMMA CallsTyped ==
  ASSUME SessionTyped, NEW t \in Tab,
         \/ Refresh(t) \/ Refreshed(t)
         \/ \E s \in Slot : Send(t, s) \/ Served(t, s) \/ Refused(t, s) \/ Switched(t, s)
  PROVE  SessionTyped'
<1>1. /\ joined \in Seq(Workspace) /\ made \in Nat /\ founded \in Nat /\ overlaps \in Nat
      /\ access \in Cookie /\ refresh \in BOOLEAN /\ tab \in [Tab -> Store]
      /\ login \in [Tab -> LoginStep] /\ call \in [Tab \X Slot -> CallStep]
      /\ renew \in [Tab -> RenewStep] /\ SessionsAreMembers
  BY TypedParts DEF SessionTyped
<1>2. founded' = founded /\ overlaps' = overlaps /\ login' = login
  BY DEF Refresh, Refreshed, Send, Served, Refused, Switched
<1>3. /\ made + 1 \in Workspace /\ Append(joined, made + 1) \in Seq(Workspace)
      /\ Append(joined, made + 1) # <<>> /\ (joined # <<>> => Oldest \in Workspace)
  BY <1>1, Joins
<1>4. joined' \in Seq(Workspace) /\ made' \in Nat /\ (joined' = <<>> => joined = <<>>)
  <2>1. /\ joined' = joined \/ joined' = Append(joined, made + 1)
        /\ made' \in {made, made + 1}
    BY DEF Refresh, Refreshed, Send, Served, Refused, Switched, Join, JoinNobody
  <2> QED BY <1>1, <1>3, <2>1 DEF Workspace
<1>5. access.live \in BOOLEAN
  BY <1>1 DEF Cookie
<1>6. ASSUME NEW s \in Slot PROVE <<t, s>> \in Tab \X Slot /\ call[t, s] \in CallStep
  BY <1>1
<1>7. /\ access' \in Cookie /\ refresh' \in BOOLEAN /\ tab' \in [Tab -> Store]
      /\ refresh' => refresh \/ joined # <<>>
  <2>1. CASE access' = access /\ refresh' = refresh /\ tab' = tab
    BY <1>1, <2>1
  <2>2. CASE Refreshed(t)
    <3> DEFINE w == renew[t].workspace
    <3>1. renew[t].at = "granted" /\ renew[t] \in RenewStep
      BY <1>1, <2>2 DEF Refreshed
    <3>2. w \in Workspace
      BY <3>1, StepParts
    <3>3. joined # <<>>
      <4>1. Grants(renew[t])
        BY <3>1 DEF Grants
      <4> QED BY <1>1, <4>1 DEF SessionsAreMembers
    <3>4. access' = [workspace |-> w, live |-> TRUE] /\ refresh' = TRUE /\ tab' = tab
      BY <2>2 DEF Refreshed, SetCookies
    <3> HIDE DEF w
    <3> QED BY <1>1, <3>2, <3>3, <3>4 DEF Cookie
  <2>3. ASSUME NEW s \in Slot, Switched(t, s), call[t, s].live
        PROVE  /\ access' \in Cookie /\ refresh' \in BOOLEAN /\ tab' \in [Tab -> Store]
               /\ refresh' => refresh \/ joined # <<>>
    <3> DEFINE w == call[t, s].workspace
    <3>1. call[t, s].at = "switching"
      BY <2>3 DEF Switched
    <3>2. w \in Workspace
      BY <1>6, <3>1, StepParts
    <3>3. joined # <<>>
      BY <1>1, <1>6, <3>1 DEF SessionsAreMembers
    <3>4. /\ access' = [workspace |-> w, live |-> TRUE] /\ refresh' = TRUE
          /\ tab' = [tab EXCEPT ![t].active = w]
      BY <2>3 DEF Switched, SetCookies
    <3> HIDE DEF w
    <3>5. access' \in Cookie
      BY <3>2, <3>4 DEF Cookie
    <3>6. tab' \in [Tab -> Store]
      BY <1>1, <3>2, <3>4 DEF Store
    <3> QED BY <3>3, <3>4, <3>5, <3>6
  <2>4. \/ access' = access /\ refresh' = refresh /\ tab' = tab
        \/ Refreshed(t)
        \/ \E s \in Slot : Switched(t, s) /\ call[t, s].live
    BY DEF Refresh, Send, Served, Refused, Switched
  <2> QED BY <2>1, <2>2, <2>3, <2>4
<1>8. /\ renew' \in [Tab -> RenewStep]
      /\ \A u \in Tab : Grants(renew'[u]) => Grants(renew[u]) \/ refresh
  <2>1. CASE renew' = renew
    BY <1>1, <2>1
  <2>2. ASSUME NEW n \in RenewStep, renew' = [renew EXCEPT ![t] = n],
               Grants(n) => Grants(renew[t]) \/ refresh
        PROVE  /\ renew' \in [Tab -> RenewStep]
               /\ \A u \in Tab : Grants(renew'[u]) => Grants(renew[u]) \/ refresh
    BY <1>1, <2>2
  <2>3. CASE Refresh(t)
    <3>1. joined # <<>> /\ Grants(renew[t])
      BY <1>1, <2>3 DEF Refresh, SessionsAreMembers, Grants
    <3>2. [at |-> "granted", workspace |-> Oldest] \in RenewStep
      BY <1>3, <3>1, StepFacts
    <3>3. renew' = [renew EXCEPT ![t] = [at |-> "granted", workspace |-> Oldest]]
      BY <2>3 DEF Refresh
    <3> QED BY <2>2, <3>1, <3>2, <3>3
  <2>4. CASE Refreshed(t)
    <3>1. renew' = [renew EXCEPT ![t] = Here("none")]
      BY <2>4 DEF Refreshed
    <3> QED BY <2>2, <3>1, StepFacts
  <2>5. ASSUME NEW s \in Slot, Refused(t, s), renew' # renew
        PROVE  /\ renew' \in [Tab -> RenewStep]
               /\ \A u \in Tab : Grants(renew'[u]) => Grants(renew[u]) \/ refresh
    <3> DEFINE n == [at |-> "sent", valid |-> refresh]
    <3>1. renew' = [renew EXCEPT ![t] = n]
      BY <2>5 DEF Refused
    <3>2. n \in RenewStep /\ (Grants(n) => refresh)
      BY <1>1, StepFacts DEF Grants
    <3> QED BY <2>2, <3>1, <3>2
  <2>6. \/ renew' = renew \/ Refresh(t) \/ Refreshed(t)
        \/ \E s \in Slot : Refused(t, s) /\ renew' # renew
    BY DEF Send, Served, Switched
  <2> QED BY <2>1, <2>3, <2>4, <2>5, <2>6
<1>9. /\ call' \in [Tab \X Slot -> CallStep]
      /\ joined' = <<>> => \A c \in Tab \X Slot : call'[c].at = "switching" => call[c].at = "switching"
  <2>1. CASE call' = call
    BY <1>1, <2>1
  <2>2. CASE Refreshed(t)
    <3>1. call' = [c \in Tab \X Slot |->
            IF c[1] = t /\ call[c].at = "waiting"
            THEN [at |-> "sent", kind |-> call[c].kind, live |-> TRUE, again |-> TRUE]
            ELSE call[c]]
      BY <2>2 DEF Refreshed
    <3>2. ASSUME NEW c \in Tab \X Slot
          PROVE  /\ call'[c] \in CallStep
                 /\ call'[c].at = "switching" => call[c].at = "switching"
      <4> DEFINE k == call[c].kind
      <4>1. call[c] \in CallStep /\ (call[c].at = "waiting" => k \in {"data", "create"})
        BY <1>1, StepParts
      <4>2. k \in {"data", "create"} => [at |-> "sent", kind |-> k, live |-> TRUE, again |-> TRUE] \in CallStep
        BY StepFacts
      <4>3. call'[c] = IF c[1] = t /\ call[c].at = "waiting"
                       THEN [at |-> "sent", kind |-> k, live |-> TRUE, again |-> TRUE]
                       ELSE call[c]
        BY <3>1
      <4> HIDE DEF k
      <4> QED BY <4>1, <4>2, <4>3
    <3> QED BY <3>1, <3>2
  <2>3. ASSUME NEW s \in Slot, NEW n \in CallStep, call' = [call EXCEPT ![<<t, s>>] = n],
               n.at = "switching" => joined' # <<>>
        PROVE  /\ call' \in [Tab \X Slot -> CallStep]
               /\ joined' = <<>> =>
                    \A c \in Tab \X Slot : call'[c].at = "switching" => call[c].at = "switching"
    BY <1>1, <1>6, <2>3
  <2>4. ASSUME NEW s \in Slot, Send(t, s)
        PROVE  \E n \in CallStep : call' = [call EXCEPT ![<<t, s>>] = n] /\ n.at # "switching"
    <3>1. PICK kind \in {"data", "create"} :
            call' = [call EXCEPT ![<<t, s>>] =
                      [at |-> "sent", kind |-> kind, live |-> access.live, again |-> FALSE]]
      BY <2>4 DEF Send
    <3>2. [at |-> "sent", kind |-> kind, live |-> access.live, again |-> FALSE] \in CallStep
      BY <1>5, StepFacts
    <3> QED BY <3>1, <3>2
  <2>5. ASSUME NEW s \in Slot, Served(t, s)
        PROVE  \E n \in CallStep : /\ call' = [call EXCEPT ![<<t, s>>] = n]
                                   /\ n.at = "switching" => joined' # <<>>
    <3>1. \/ call' = [call EXCEPT ![<<t, s>>] = Here("idle")]
          \/ /\ joined' = Append(joined, made + 1)
             /\ call' = [call EXCEPT ![<<t, s>>] =
                          [at |-> "switching", workspace |-> made + 1, live |-> access.live]]
      BY <2>5 DEF Served, Join
    <3>2. [at |-> "switching", workspace |-> made + 1, live |-> access.live] \in CallStep
      BY <1>3, <1>5, StepFacts
    <3> QED BY <1>3, <3>1, <3>2, StepFacts
  <2>6. ASSUME NEW s \in Slot, Refused(t, s)
        PROVE  \E n \in CallStep : call' = [call EXCEPT ![<<t, s>>] = n] /\ n.at # "switching"
    <3> DEFINE k == call[t, s].kind
               n == [at |-> "waiting", kind |-> k]
    <3>1. k \in {"data", "create"}
      BY <1>6, <2>6, StepParts DEF Refused
    <3>2. n \in CallStep /\ n.at = "waiting"
      BY <3>1, StepFacts
    <3>3. call' = [call EXCEPT ![<<t, s>>] = Here("idle")] \/ call' = [call EXCEPT ![<<t, s>>] = n]
      BY <2>6 DEF Refused
    <3> HIDE DEF n
    <3> QED BY <3>2, <3>3, StepFacts
  <2>7. ASSUME NEW s \in Slot, Switched(t, s)
        PROVE  call' = [call EXCEPT ![<<t, s>>] = Here("idle")]
    BY <2>7 DEF Switched
  <2>8. \/ call' = call \/ Refreshed(t)
        \/ \E s \in Slot : Send(t, s) \/ Served(t, s) \/ Refused(t, s) \/ Switched(t, s)
    BY DEF Refresh
  <2> QED BY <2>1, <2>2, <2>3, <2>4, <2>5, <2>6, <2>7, <2>8, StepFacts
<1>10. SessionTypeOK'
  <2>1. login' \in [Tab -> LoginStep] /\ founded' \in Nat /\ overlaps' \in Nat
    BY <1>1, <1>2
  <2> QED BY <1>4, <1>7, <1>8, <1>9, <2>1
          DEF SessionTypeOK, Cookie, Store, LoginStep, CallStep, RenewStep, Workspace
<1>11. SessionsAreMembers'
  <2> SUFFICES ASSUME joined' = <<>>
               PROVE  /\ ~refresh'
                      /\ \A u \in Tab : login'[u].at # "granted" /\ ~Grants(renew'[u])
                      /\ \A c \in Tab \X Slot : call'[c].at # "switching"
    BY DEF SessionsAreMembers, Grants
  <2>1. joined = <<>>
    BY <1>4
  <2>2. /\ ~refresh
        /\ \A u \in Tab : login[u].at # "granted" /\ ~Grants(renew[u])
        /\ \A c \in Tab \X Slot : call[c].at # "switching"
    BY <1>1, <2>1 DEF SessionsAreMembers
  <2> QED BY <1>2, <1>7, <1>8, <1>9, <2>1, <2>2
<1> QED BY <1>10, <1>11 DEF SessionTyped

LEMMA EndsTyped ==
  ASSUME SessionTyped, AccessEnds \/ RefreshEnds \/ \E t \in Tab : LogOut(t) \/ RefreshFails(t)
  PROVE  SessionTyped'
<1>1. /\ joined \in Seq(Workspace) /\ made \in Nat /\ founded \in Nat /\ overlaps \in Nat
      /\ access \in Cookie /\ refresh \in BOOLEAN /\ tab \in [Tab -> Store]
      /\ login \in [Tab -> LoginStep] /\ call \in [Tab \X Slot -> CallStep]
      /\ renew \in [Tab -> RenewStep] /\ SessionsAreMembers
  BY TypedParts DEF SessionTyped
<1>2. joined' = joined /\ made' = made /\ founded' = founded /\ overlaps' = overlaps
  BY DEF AccessEnds, RefreshEnds, LogOut, RefreshFails
<1>3. access' \in Cookie
  <2>1. access' = access \/ access' = NoCookie \/ access' = [access EXCEPT !.live = FALSE]
    BY DEF AccessEnds, RefreshEnds, LogOut, RefreshFails
  <2>2. CASE access' = access
    BY <1>1, <2>2
  <2>3. CASE access' = NoCookie
    BY <2>3 DEF Cookie, NoCookie
  <2>4. CASE access' = [access EXCEPT !.live = FALSE]
    BY <1>1, <2>4 DEF Cookie
  <2> QED BY <2>1, <2>2, <2>3, <2>4
<1>4. refresh' \in BOOLEAN /\ (refresh' => refresh)
  <2>1. refresh' = refresh \/ refresh' = FALSE
    BY DEF AccessEnds, RefreshEnds, LogOut, RefreshFails
  <2>2. refresh \in BOOLEAN
    BY <1>1
  <2>3. CASE refresh' = refresh
    BY <2>2, <2>3
  <2>4. CASE refresh' = FALSE
    BY <2>4
  <2> QED BY <2>1, <2>3, <2>4
<1>5. tab' \in [Tab -> Store]
  <2>1. CASE AccessEnds \/ RefreshEnds
    BY <1>1, <2>1 DEF AccessEnds, RefreshEnds
  <2>2. ASSUME NEW t \in Tab, LogOut(t) PROVE tab' \in [Tab -> Store]
    <3>1. tab' = [tab EXCEPT ![t] = [in |-> FALSE, active |-> 0]]
      BY <2>2 DEF LogOut
    <3> QED BY <1>1, <3>1 DEF Store
  <2>3. ASSUME NEW t \in Tab, RefreshFails(t) PROVE tab' \in [Tab -> Store]
    <3>1. tab' = [tab EXCEPT ![t].in = FALSE]
      BY <2>3 DEF RefreshFails, ToLogin
    <3> QED BY <1>1, <3>1 DEF Store
  <2> QED BY <2>1, <2>2, <2>3
<1>6. /\ login' \in [Tab -> LoginStep] /\ renew' \in [Tab -> RenewStep]
      /\ call' \in [Tab \X Slot -> CallStep]
      /\ \A u \in Tab : login'[u] \in {login[u], Here("idle")} /\ renew'[u] \in {renew[u], Here("none")}
      /\ \A c \in Tab \X Slot : call'[c] \in {call[c], Here("idle")}
  <2>1. CASE login' = login /\ call' = call /\ renew' = renew
    BY <1>1, <2>1
  <2>2. ASSUME NEW t \in Tab, RefreshFails(t)
        PROVE  /\ renew' = [renew EXCEPT ![t] = Here("none")]
               /\ login' = [login EXCEPT ![t] = Here("idle")]
               /\ call' = [c \in Tab \X Slot |-> IF c[1] = t THEN Here("idle") ELSE call[c]]
    BY <2>2 DEF RefreshFails, ToLogin
  <2>3. (login' = login /\ call' = call /\ renew' = renew) \/ \E t \in Tab : RefreshFails(t)
    BY DEF AccessEnds, RefreshEnds, LogOut
  <2> QED BY <1>1, <2>1, <2>2, <2>3, StepFacts
<1>7. SessionTypeOK'
  BY <1>1, <1>2, <1>3, <1>4, <1>5, <1>6
     DEF SessionTypeOK, Cookie, Store, LoginStep, CallStep, RenewStep, Workspace
<1>8. SessionsAreMembers'
  <2> SUFFICES ASSUME joined' = <<>>
               PROVE  /\ ~refresh'
                      /\ \A u \in Tab : login'[u].at # "granted" /\ ~Grants(renew'[u])
                      /\ \A c \in Tab \X Slot : call'[c].at # "switching"
    BY DEF SessionsAreMembers, Grants
  <2>1. /\ ~refresh
        /\ \A u \in Tab : login[u].at # "granted" /\ ~Grants(renew[u])
        /\ \A c \in Tab \X Slot : call[c].at # "switching"
    BY <1>1, <1>2 DEF SessionsAreMembers
  <2> QED BY <1>4, <1>6, <2>1, StepFacts
<1> QED BY <1>7, <1>8 DEF SessionTyped

LEMMA SessionTypedNext == SessionTyped /\ [SessionNext]_sessionVars => SessionTyped'
<1> SUFFICES ASSUME SessionTyped, [SessionNext]_sessionVars PROVE SessionTyped'
  OBVIOUS
<1>1. CASE UNCHANGED sessionVars
  BY <1>1 DEF sessionVars, SessionTyped, SessionTypeOK, SessionsAreMembers, Grants
<1> QED BY <1>1, LoginsTyped, CallsTyped, EndsTyped DEF SessionNext

\* The memberships, cookies, stores and requests of a session keep their types,
\* for any number of tabs and requests.
THEOREM SessionTypesKept == SessionSpec => []SessionTypeOK
BY SessionTypedInit, SessionTypedNext, PTL DEF SessionSpec, SessionTyped

\* Nobody has a session, or is about to get one, without a membership: a refresh
\* always finds the oldest one (auth.service.ts, resolveOrCreateMembership).
THEOREM SessionsOfMembers == SessionSpec => []SessionsAreMembers
BY SessionTypedInit, SessionTypedNext, PTL DEF SessionSpec, SessionTyped

-----------------------------------------------------------------------------
(* Profiles.  Two claims of one address that are under way, or a claim of an *)
(* address another profile has verified, have left their note; a merge has   *)
(* two different profiles.                                                   *)
ClaimsNoted ==
  \A c \in claims, q \in Profile :
    q # c[1] /\ (wallets[q, c[2]] = "verified" \/ <<q, c[2]>> \in claims)
      => <<"overlap", c[2]>> \in odd

OwnersNoted ==
  \A p, q \in Profile, a \in Address :
    p # q /\ wallets[p, a] = "verified" /\ wallets[q, a] = "verified" => <<"overlap", a>> \in odd

MergesTwo == \A m \in merges : m[1] # m[2]

ClusterInv == ClusterTypeOK /\ ClaimsNoted /\ OwnersNoted /\ MergesTwo /\ ArchivedAreEmpty

LEMMA ClusterInitInv == ClusterInit => ClusterInv
  BY DEF ClusterInit, ClusterInv, ClusterTypeOK, ClaimsNoted, OwnersNoted, MergesTwo, ArchivedAreEmpty

\* What a change of one wallet leaves of the others.
LEMMA OneWallet ==
  ASSUME NEW W, W \in [Profile \X Address -> {"none", "added", "verified"}],
         NEW p \in Profile, NEW a \in Address, NEW x \in {"none", "added", "verified"},
         NEW V, V = [W EXCEPT ![<<p, a>>] = x]
  PROVE  /\ V \in [Profile \X Address -> {"none", "added", "verified"}]
         /\ V[p, a] = x
         /\ \A q \in Profile, b \in Address : q # p \/ b # a => V[q, b] = W[q, b]
<1>1. \A h \in Profile \X Address : V[h] = IF h = <<p, a>> THEN x ELSE W[h]
  OBVIOUS
<1>2. V \in [Profile \X Address -> {"none", "added", "verified"}]
  OBVIOUS
<1>3. ASSUME NEW q \in Profile, NEW b \in Address, q # p \/ b # a
      PROVE  V[q, b] = W[q, b]
  <2>1. <<q, b>> \in Profile \X Address /\ <<q, b>> # <<p, a>>
    BY <1>3
  <2> QED BY <1>1, <2>1
<1> QED BY <1>1, <1>2, <1>3

LEMMA ClaimsChecked ==
  ASSUME ClusterInv, NEW p \in Profile, NEW a \in Address, CheckClaim(p, a)
  PROVE  ClusterInv'
<1>1. ClusterTypeOK /\ ClaimsNoted /\ OwnersNoted /\ MergesTwo /\ ArchivedAreEmpty
  BY DEF ClusterInv
<1>2. /\ claims' = claims \union {<<p, a>>} /\ wallets' = wallets /\ owner' = owner
      /\ ties' = ties /\ archived' = archived /\ merges' = merges
      /\ odd' = odd \union {<<"overlap", a>> : c \in {c \in claims : c[2] = a /\ c[1] # p}}
  BY DEF CheckClaim, Notes
<1>3. ClusterTypeOK' /\ OwnersNoted' /\ MergesTwo' /\ ArchivedAreEmpty'
  <2>1. ClusterTypeOK'
    BY <1>1, <1>2 DEF ClusterTypeOK
  <2>2. OwnersNoted' /\ MergesTwo'
    BY <1>1, <1>2 DEF OwnersNoted, MergesTwo
  <2>3. ArchivedAreEmpty'
    BY <1>1, <1>2 DEF ArchivedAreEmpty, Explained
  <2> QED BY <2>1, <2>2, <2>3
<1>4. ClaimsNoted'
  <2> SUFFICES ASSUME NEW c \in claims', NEW q \in Profile, q # c[1],
                      wallets[q, c[2]] = "verified" \/ <<q, c[2]>> \in claims'
               PROVE  <<"overlap", c[2]>> \in odd'
    BY <1>2 DEF ClaimsNoted
  <2>1. CASE c \in claims /\ (wallets[q, c[2]] = "verified" \/ <<q, c[2]>> \in claims)
    BY <1>1, <1>2, <2>1 DEF ClaimsNoted
  <2>2. CASE c \in claims /\ <<q, c[2]>> = <<p, a>>
    BY <1>2, <2>2
  <2>3. CASE c = <<p, a>>
    <3>1. wallets[q, a] # "verified"
      BY <2>3 DEF CheckClaim, OtherOwner
    <3>2. <<q, a>> \in claims
      BY <1>2, <2>3, <3>1
    <3>3. <<q, a>>[1] = q /\ <<q, a>>[2] = a /\ q # p /\ c[2] = a
      BY <2>3
    <3> QED BY <1>2, <3>2, <3>3
  <2> QED BY <1>2, <2>1, <2>2, <2>3
<1> QED BY <1>3, <1>4 DEF ClusterInv

LEMMA ClaimsWritten ==
  ASSUME ClusterInv, NEW p \in Profile, NEW a \in Address, UpsertClaim(p, a)
  PROVE  ClusterInv'
<1>1. ClusterTypeOK /\ ClaimsNoted /\ OwnersNoted /\ MergesTwo /\ ArchivedAreEmpty
  BY DEF ClusterInv
<1>2. /\ <<p, a>> \in claims /\ claims' = claims \ {<<p, a>>} /\ owner' = owner
      /\ wallets' = [wallets EXCEPT ![<<p, a>>] = "verified"]
      /\ ties' = ties /\ archived' = archived /\ merges' = merges
      /\ odd' = odd \union {<<"late", q>> : q \in archived \intersect {p}}
  BY DEF UpsertClaim, Notes, Late
<1>3. /\ wallets' \in [Profile \X Address -> {"none", "added", "verified"}]
      /\ \A q \in Profile, b \in Address : q # p \/ b # a => wallets'[q, b] = wallets[q, b]
  BY <1>1, <1>2, OneWallet DEF ClusterTypeOK
<1>4. ClusterTypeOK' /\ MergesTwo'
  BY <1>1, <1>2, <1>3 DEF ClusterTypeOK, MergesTwo
<1>5. ClaimsNoted'
  <2> SUFFICES ASSUME NEW c \in claims', NEW q \in Profile, q # c[1],
                      wallets'[q, c[2]] = "verified" \/ <<q, c[2]>> \in claims'
               PROVE  <<"overlap", c[2]>> \in odd'
    BY DEF ClaimsNoted
  <2>1. c \in claims /\ c[2] \in Address
    BY <1>1, <1>2 DEF ClusterTypeOK
  <2>2. wallets[q, c[2]] = "verified" \/ <<q, c[2]>> \in claims
    <3>1. CASE q = p /\ c[2] = a
      BY <1>2, <3>1
    <3>2. CASE q # p \/ c[2] # a
      BY <1>2, <1>3, <2>1, <3>2
    <3> QED BY <3>1, <3>2
  <2> QED BY <1>1, <1>2, <2>1, <2>2 DEF ClaimsNoted
<1>6. OwnersNoted'
  <2> SUFFICES ASSUME NEW x \in Profile, NEW y \in Profile, NEW b \in Address, x # y,
                      wallets'[x, b] = "verified", wallets'[y, b] = "verified"
               PROVE  <<"overlap", b>> \in odd'
    BY DEF OwnersNoted
  <2>1. CASE b # a \/ p \notin {x, y}
    <3>1. wallets[x, b] = "verified" /\ wallets[y, b] = "verified"
      BY <1>3, <2>1
    <3> QED BY <1>1, <1>2, <3>1 DEF OwnersNoted
  <2>2. CASE b = a /\ p \in {x, y}
    <3>1. PICK q \in {x, y} : q # p
      OBVIOUS
    <3>2. wallets[q, a] = "verified"
      BY <1>3, <2>2, <3>1
    <3> QED BY <1>1, <1>2, <2>2, <3>1, <3>2 DEF ClaimsNoted
  <2> QED BY <2>1, <2>2
<1>7. ArchivedAreEmpty'
  <2> SUFFICES ASSUME NEW q \in archived, ~Explained(q)'
               PROVE  /\ \A r \in Record : owner[r] # {q}
                      /\ \A k \in Tie : <<q, k>> \notin ties
                      /\ \A b \in Address : wallets'[q, b] = "none"
    BY <1>2 DEF ArchivedAreEmpty
  <2>1. ~Explained(q) /\ q # p /\ q \in Profile
    BY <1>1, <1>2 DEF Explained, ClusterTypeOK
  <2>2. /\ \A r \in Record : owner[r] # {q}
        /\ \A k \in Tie : <<q, k>> \notin ties
        /\ \A b \in Address : wallets[q, b] = "none"
    BY <1>1, <2>1 DEF ArchivedAreEmpty
  <2>3. \A b \in Address : wallets'[q, b] = "none"
    BY <1>3, <2>1, <2>2
  <2> QED BY <2>2, <2>3
<1> QED BY <1>4, <1>5, <1>6, <1>7 DEF ClusterInv

\* A wallet that is added or removed verifies nothing.
LEMMA WalletsChange ==
  ASSUME ClusterInv, NEW p \in Profile, NEW a \in Address, AddWallet(p, a) \/ RemoveWallet(p, a)
  PROVE  ClusterInv'
<1>1. ClusterTypeOK /\ ClaimsNoted /\ OwnersNoted /\ MergesTwo /\ ArchivedAreEmpty
  BY DEF ClusterInv
<1>2. /\ claims' = claims /\ owner' = owner /\ ties' = ties /\ archived' = archived
      /\ merges' = merges /\ odd \subseteq odd'
  BY DEF AddWallet, RemoveWallet, Notes
<1>3. PICK x \in {"added", "none"} : wallets' = [wallets EXCEPT ![<<p, a>>] = x]
  BY DEF AddWallet, RemoveWallet
<1>4. /\ wallets' \in [Profile \X Address -> {"none", "added", "verified"}] /\ wallets'[p, a] = x
      /\ \A q \in Profile, b \in Address : q # p \/ b # a => wallets'[q, b] = wallets[q, b]
  BY <1>1, <1>3, OneWallet DEF ClusterTypeOK
<1>5. \A q \in Profile, b \in Address : wallets'[q, b] = "verified" => wallets[q, b] = "verified"
  BY <1>4
<1>6. ClusterTypeOK' /\ MergesTwo' /\ OwnersNoted'
  BY <1>1, <1>2, <1>4, <1>5 DEF ClusterTypeOK, MergesTwo, OwnersNoted
<1>7. ClaimsNoted'
  BY <1>1, <1>2, <1>5 DEF ClaimsNoted, ClusterTypeOK
<1>8. ArchivedAreEmpty'
  <2> SUFFICES ASSUME NEW q \in archived, ~Explained(q)'
               PROVE  /\ \A r \in Record : owner[r] # {q}
                      /\ \A k \in Tie : <<q, k>> \notin ties
                      /\ \A b \in Address : wallets'[q, b] = "none"
    BY <1>2 DEF ArchivedAreEmpty
  <2>1. ~Explained(q) /\ q \in Profile
    BY <1>1, <1>2 DEF Explained, ClusterTypeOK
  <2>2. CASE q = p /\ AddWallet(p, a)
    BY <2>2 DEF AddWallet, Notes, Late, Explained
  <2>3. CASE q # p \/ RemoveWallet(p, a)
    <3>1. wallets[p, a] # "none" \/ q # p
      BY <2>3 DEF RemoveWallet
    <3> QED BY <1>1, <1>4, <2>1, <3>1 DEF ArchivedAreEmpty
  <2> QED BY <2>2, <2>3
<1> QED BY <1>6, <1>7, <1>8 DEF ClusterInv

\* Rows are written, a profile is archived, a domain or a merge is looked up.
LEMMA OthersWrite ==
  ASSUME ClusterInv, NEW p \in Profile,
         \/ \E a \in Address : CheckDomain(p, a) \/ SetDomain(p, a)
         \/ ArchiveProfile(p)
         \/ \E r \in Record : WriteRecord(p, r)
         \/ \E k \in Tie : WriteTie(p, k)
         \/ \E s \in Profile : CheckMerge(p, s)
  PROVE  ClusterInv' /\ merges \subseteq merges'
<1>1. ClusterTypeOK /\ ClaimsNoted /\ OwnersNoted /\ MergesTwo /\ ArchivedAreEmpty
  BY DEF ClusterInv
<1>2. claims' = claims /\ wallets' = wallets /\ odd \subseteq odd' /\ merges \subseteq merges'
  BY DEF CheckDomain, SetDomain, ArchiveProfile, WriteRecord, WriteTie, CheckMerge, Notes
<1>3. ClusterTypeOK' /\ ClaimsNoted' /\ OwnersNoted' /\ MergesTwo'
  <2>1. archived' \subseteq Profile /\ ties' \subseteq Profile \X Tie
    <3>1. archived' = archived \/ archived' = archived \union {p}
      BY DEF CheckDomain, SetDomain, ArchiveProfile, WriteRecord, WriteTie, CheckMerge
    <3>2. ties' = ties \/ \E k \in Tie : ties' = ties \union {<<p, k>>}
      BY DEF CheckDomain, SetDomain, ArchiveProfile, WriteRecord, WriteTie, CheckMerge
    <3>3. \A k \in Tie : <<p, k>> \in Profile \X Tie
      OBVIOUS
    <3> QED BY <1>1, <3>1, <3>2, <3>3 DEF ClusterTypeOK
  <2>2. merges' \subseteq Profile \X Profile /\ MergesTwo'
    <3>1. \/ merges' = merges
          \/ \E s \in Profile : p # s /\ merges' = merges \union {<<p, s>>}
      BY DEF CheckDomain, SetDomain, ArchiveProfile, WriteRecord, WriteTie, CheckMerge
    <3>2. \A s \in Profile : /\ <<p, s>> \in Profile \X Profile
                             /\ <<p, s>>[1] = p /\ <<p, s>>[2] = s
      OBVIOUS
    <3> QED BY <1>1, <3>1, <3>2 DEF ClusterTypeOK, MergesTwo
  <2>3. owner' \in [Record -> {{}} \union {{q} : q \in Profile}]
    <3>1. owner' = owner \/ \E r \in Record : owner' = [owner EXCEPT ![r] = {p}]
      BY DEF CheckDomain, SetDomain, ArchiveProfile, WriteRecord, WriteTie, CheckMerge
    <3> QED BY <1>1, <3>1 DEF ClusterTypeOK
  <2>4. ClusterTypeOK'
    BY <1>1, <1>2, <2>1, <2>2, <2>3 DEF ClusterTypeOK
  <2>5. ClaimsNoted' /\ OwnersNoted'
    BY <1>1, <1>2 DEF ClaimsNoted, OwnersNoted
  <2> QED BY <2>2, <2>4, <2>5
<1>4. ArchivedAreEmpty'
  <2> SUFFICES ASSUME NEW q \in archived', ~Explained(q)'
               PROVE  /\ \A r \in Record : owner'[r] # {q}
                      /\ \A k \in Tie : <<q, k>> \notin ties'
                      /\ \A b \in Address : wallets[q, b] = "none"
    BY <1>2 DEF ArchivedAreEmpty
  <2>1. ~Explained(q)
    BY <1>2 DEF Explained
  <2>2. q \in archived
    BY DEF CheckDomain, SetDomain, ArchiveProfile, WriteRecord, WriteTie, CheckMerge, Notes, Explained
  <2>3. q # p \/ (owner' = owner /\ ties' = ties)
    BY <2>2 DEF CheckDomain, SetDomain, ArchiveProfile, WriteRecord, WriteTie, CheckMerge, Notes,
       Explained, Late
  <2>4. /\ \A r \in Record : owner[r] # {q}
        /\ \A k \in Tie : <<q, k>> \notin ties
        /\ \A b \in Address : wallets[q, b] = "none"
    BY <1>1, <2>1, <2>2 DEF ArchivedAreEmpty
  <2>5. CASE q = p
    BY <2>3, <2>4, <2>5
  <2>6. CASE q # p
    <3>1. owner' = owner \/ \E r \in Record : owner' = [owner EXCEPT ![r] = {p}]
      BY DEF CheckDomain, SetDomain, ArchiveProfile, WriteRecord, WriteTie, CheckMerge
    <3>2. ASSUME NEW r \in Record PROVE owner'[r] # {q}
      <4>1. owner'[r] = owner[r] \/ owner'[r] = {p}
        BY <1>1, <3>1 DEF ClusterTypeOK
      <4> QED BY <2>4, <2>6, <4>1
    <3>3. ties' = ties \/ \E k \in Tie : ties' = ties \union {<<p, k>>}
      BY DEF CheckDomain, SetDomain, ArchiveProfile, WriteRecord, WriteTie, CheckMerge
    <3>4. ASSUME NEW k \in Tie PROVE <<q, k>> \notin ties'
      <4>1. \A l \in Tie : <<q, k>> \notin {<<p, l>>}
        BY <2>6
      <4>2. CASE ties' = ties
        BY <2>4, <4>2
      <4>3. CASE \E l \in Tie : ties' = ties \union {<<p, l>>}
        BY <2>4, <4>1, <4>3
      <4> QED BY <3>3, <4>2, <4>3
    <3> QED BY <2>4, <3>2, <3>4
  <2> QED BY <2>5, <2>6
<1> QED BY <1>2, <1>3, <1>4 DEF ClusterInv

\* Where a merge leaves the wallets, the rows and the ties of two profiles.
LEMMA WalletsMove ==
  ASSUME ClusterInv, NEW t \in Profile, NEW s \in Profile, Merge(t, s)
  PROVE  /\ t # s /\ wallets' \in [Profile \X Address -> {"none", "added", "verified"}]
         /\ \A a \in Address :
              /\ wallets'[s, a] = "none"
              /\ wallets'[t, a] = IF wallets[t, a] = "none" THEN wallets[s, a] ELSE wallets[t, a]
         /\ \A q \in Profile \ {t, s}, a \in Address : wallets'[q, a] = wallets[q, a]
<1>1. ClusterTypeOK /\ t # s /\ wallets' = MoveWallets(t, s)
  BY DEF ClusterInv, MergesTwo, Merge
<1>2. ASSUME NEW q \in Profile, NEW a \in Address
      PROVE  wallets'[q, a] = IF q = s THEN "none"
                              ELSE IF q = t /\ wallets[q, a] = "none" THEN wallets[s, a]
                              ELSE wallets[q, a]
  <2>1. <<q, a>> \in Profile \X Address /\ <<q, a>>[1] = q /\ <<q, a>>[2] = a
    OBVIOUS
  <2> QED BY <1>1, <2>1 DEF MoveWallets
<1>3. wallets' \in [Profile \X Address -> {"none", "added", "verified"}]
  <2> SUFFICES ASSUME NEW h \in Profile \X Address
               PROVE  MoveWallets(t, s)[h] \in {"none", "added", "verified"}
    BY <1>1 DEF MoveWallets
  <2>1. <<s, h[2]>> \in Profile \X Address
    OBVIOUS
  <2> QED BY <1>1, <2>1 DEF MoveWallets, ClusterTypeOK
<1> QED BY <1>1, <1>2, <1>3

LEMMA RowsMove ==
  ASSUME ClusterInv, NEW t \in Profile, NEW s \in Profile, Merge(t, s)
  PROVE  /\ \A r \in Record : owner'[r] = IF owner[r] = {s} THEN {t} ELSE owner[r]
         /\ \A q \in Profile, k \in Tie :
              <<q, k>> \in ties' <=> \/ q # s /\ <<q, k>> \in ties
                                     \/ q = t /\ <<s, k>> \in ties
<1>1. owner' = MoveRecords(t, s) /\ ties' = MoveTies(t, s) /\ ClusterTypeOK
  BY DEF Merge, ClusterInv
<1>2. \A r \in Record : owner'[r] = IF owner[r] = {s} THEN {t} ELSE owner[r]
  BY <1>1 DEF MoveRecords
<1>3. ASSUME NEW q \in Profile, NEW k \in Tie
      PROVE  <<q, k>> \in ties' <=> \/ q # s /\ <<q, k>> \in ties
                                    \/ q = t /\ <<s, k>> \in ties
  <2>1. <<q, k>>[1] = q /\ <<s, k>>[1] = s /\ <<s, k>>[2] = k
    OBVIOUS
  <2>2. ASSUME NEW e \in ties, e[1] = s PROVE e = <<s, e[2]>>
    BY <1>1, <2>2 DEF ClusterTypeOK
  <2> QED BY <1>1, <2>1, <2>2 DEF MoveTies
<1> QED BY <1>2, <1>3

LEMMA MergesRun ==
  ASSUME ClusterInv, NEW t \in Profile, NEW s \in Profile, Merge(t, s)
  PROVE  ClusterInv'
<1>1. ClusterTypeOK /\ ClaimsNoted /\ OwnersNoted /\ MergesTwo /\ ArchivedAreEmpty
  BY DEF ClusterInv
<1>2. /\ claims' = claims /\ merges' = merges \ {<<t, s>>} /\ archived' = archived \union {s}
      /\ odd \subseteq odd' /\ (t \in archived => <<"crossed", t>> \in odd')
      /\ \A c \in claims : wallets[s, c[2]] = "verified" => <<"overlap", c[2]>> \in odd'
  BY DEF Merge, Notes
<1>9. /\ t # s
      /\ \A a \in Address :
           /\ wallets'[s, a] = "none"
           /\ wallets'[t, a] = IF wallets[t, a] = "none" THEN wallets[s, a] ELSE wallets[t, a]
      /\ \A q \in Profile \ {t, s}, a \in Address : wallets'[q, a] = wallets[q, a]
  BY WalletsMove
<1>3. ClusterTypeOK'
  <2>1. ties' \subseteq Profile \X Tie
    <3> SUFFICES ASSUME NEW e \in MoveTies(t, s) PROVE e \in Profile \X Tie
      BY DEF Merge
    <3>1. \A d \in ties : d \in Profile \X Tie /\ <<t, d[2]>> \in Profile \X Tie
      BY <1>1 DEF ClusterTypeOK
    <3> QED BY <3>1 DEF MoveTies
  <2>2. owner' \in [Record -> {{}} \union {{q} : q \in Profile}]
    BY <1>1 DEF Merge, MoveRecords, ClusterTypeOK
  <2> QED BY <1>1, <1>2, <2>1, <2>2, WalletsMove DEF ClusterTypeOK
<1>4. \A q \in Profile, a \in Address :
        wallets'[q, a] = "verified" =>
          /\ q # s
          /\ wallets[q, a] = "verified" \/ (q = t /\ wallets[s, a] = "verified")
  BY <1>9
<1>5. ClaimsNoted'
  <2> SUFFICES ASSUME NEW c \in claims, NEW q \in Profile, q # c[1],
                      wallets'[q, c[2]] = "verified" \/ <<q, c[2]>> \in claims
               PROVE  <<"overlap", c[2]>> \in odd'
    BY <1>2 DEF ClaimsNoted
  <2>1. c[2] \in Address
    BY <1>1 DEF ClusterTypeOK
  <2> QED BY <1>1, <1>2, <1>4, <2>1 DEF ClaimsNoted
<1>6. OwnersNoted'
  BY <1>1, <1>2, <1>4 DEF OwnersNoted
<1>7. MergesTwo'
  BY <1>1, <1>2 DEF MergesTwo
<1>8. ArchivedAreEmpty'
  <2> SUFFICES ASSUME NEW q \in archived', ~Explained(q)'
               PROVE  /\ \A r \in Record : owner'[r] # {q}
                      /\ \A k \in Tie : <<q, k>> \notin ties'
                      /\ \A a \in Address : wallets'[q, a] = "none"
    BY DEF ArchivedAreEmpty
  <2>1. ~Explained(q) /\ q \in Profile
    BY <1>1, <1>2 DEF Explained, ClusterTypeOK
  <2>2. CASE q = s
    <3>1. t # s /\ \A a \in Address : wallets'[s, a] = "none"
      BY <1>9
    <3>2. \A r \in Record : owner'[r] # {s}
      BY <3>1, RowsMove
    <3>3. \A k \in Tie : <<s, k>> \notin ties'
      BY <3>1, RowsMove
    <3> QED BY <2>2, <3>1, <3>2, <3>3
  <2>3. CASE q # s
    <3>1. q \in archived /\ q # t
      BY <1>2, <2>3 DEF Explained
    <3>2. /\ \A r \in Record : owner[r] # {q}
          /\ \A k \in Tie : <<q, k>> \notin ties
          /\ \A a \in Address : wallets[q, a] = "none"
      BY <1>1, <2>1, <3>1 DEF ArchivedAreEmpty
    <3>3. \A a \in Address : wallets'[q, a] = "none"
      BY <2>1, <2>3, <3>1, <3>2, <1>9
    <3>4. \A r \in Record : owner'[r] # {q}
      BY <3>1, <3>2, RowsMove
    <3>5. \A k \in Tie : <<q, k>> \notin ties'
      BY <2>1, <3>1, <3>2, RowsMove
    <3> QED BY <3>3, <3>4, <3>5
  <2> QED BY <2>2, <2>3
<1> QED BY <1>3, <1>5, <1>6, <1>7, <1>8 DEF ClusterInv

LEMMA ClusterNextInv == ClusterInv /\ [ClusterNext]_clusterVars => ClusterInv'
<1> SUFFICES ASSUME ClusterInv, [ClusterNext]_clusterVars PROVE ClusterInv'
  OBVIOUS
<1>1. CASE UNCHANGED clusterVars
  BY <1>1 DEF clusterVars, ClusterInv, ClusterTypeOK, ClaimsNoted, OwnersNoted, MergesTwo,
     ArchivedAreEmpty, Explained
<1> QED BY <1>1, ClaimsChecked, ClaimsWritten, WalletsChange, OthersWrite, MergesRun DEF ClusterNext

\* An address has two verified owners, and a merge is offered, only after claims
\* overlapped, and a profile that was merged away is empty unless what happened
\* since explains it; for any number of profiles, addresses and rows.
THEOREM ClustersSafe == ClusterSpec => []ClusterSafety
<1>1. ClusterInv => OneVerifiedOwner
  <2> SUFFICES ASSUME ClusterInv, NEW p \in Profile, NEW q \in Profile, p # q
               PROVE  /\ \A a \in Shared(p, q) : <<"overlap", a>> \in odd
                      /\ q \in Candidates(p) => \E a \in Address : <<"overlap", a>> \in odd
    BY DEF OneVerifiedOwner
  <2>1. \A a \in Shared(p, q) : <<"overlap", a>> \in odd
    BY DEF ClusterInv, OwnersNoted, Shared
  <2>2. q \in Candidates(p) => \E a \in Address : a \in Shared(p, q)
    BY DEF Candidates, Shared
  <2> QED BY <2>1, <2>2
<1>2. ClusterInv => ClusterSafety
  BY <1>1 DEF ClusterSafety, ClusterInv
<1> QED BY <1>2, ClusterInitInv, ClusterNextInv, PTL DEF ClusterSpec

\* A merge leaves every row, tie and wallet of the two profiles at one of them,
\* and a verified address verified unless the target had it unverified.
THEOREM MergesLoseNothing == ClusterSpec => MergesKeepAll
<1> DEFINE Kept ==
      \A t, s \in Profile : <<t, s>> \in merges \ merges' =>
       /\ \A r \in Record : owner[r] # {} => owner'[r] # {}
       /\ \A k \in Tie : (\E p \in Profile : <<p, k>> \in ties)
                         => \E p \in Profile : <<p, k>> \in ties'
       /\ \A a \in Address :
            /\ {wallets[t, a], wallets[s, a]} # {"none"} => wallets'[t, a] # "none"
            /\ wallets[s, a] = "verified" =>
                 wallets'[t, a] = "verified" \/ <<"downgraded", a>> \in odd'
<1>1. ASSUME ClusterInv, ClusterNext, NEW t \in Profile, NEW s \in Profile,
             <<t, s>> \in merges, <<t, s>> \notin merges'
      PROVE  /\ \A r \in Record : owner[r] # {} => owner'[r] # {}
             /\ \A k \in Tie : (\E p \in Profile : <<p, k>> \in ties)
                               => \E p \in Profile : <<p, k>> \in ties'
             /\ \A a \in Address :
                  /\ {wallets[t, a], wallets[s, a]} # {"none"} => wallets'[t, a] # "none"
                  /\ wallets[s, a] = "verified" =>
                       wallets'[t, a] = "verified" \/ <<"downgraded", a>> \in odd'
  <2>1. \A p \in Profile, a \in Address :
          CheckClaim(p, a) \/ UpsertClaim(p, a) \/ AddWallet(p, a) \/ RemoveWallet(p, a)
            => merges' = merges
    BY DEF CheckClaim, UpsertClaim, AddWallet, RemoveWallet
  <2>2. PICK x \in Profile, y \in Profile : Merge(x, y)
    BY <1>1, <2>1, OthersWrite DEF ClusterNext
  <2>3. x = t /\ y = s
    BY <1>1, <2>2 DEF Merge
  <2>4. Merge(t, s)
    BY <2>2, <2>3
  <2>5. \A r \in Record : owner[r] # {} => owner'[r] # {}
    <3> SUFFICES ASSUME NEW r \in Record, owner[r] # {} PROVE owner'[r] # {}
      OBVIOUS
    <3>1. \A o \in Record : owner'[o] = IF owner[o] = {s} THEN {t} ELSE owner[o]
      BY <1>1, <2>4, RowsMove
    <3> QED BY <3>1
  <2>6. \A p \in Profile, k \in Tie : <<p, k>> \in ties => <<p, k>> \in ties' \/ <<t, k>> \in ties'
    BY <1>1, <2>4, RowsMove
  <2>7. ASSUME NEW a \in Address
        PROVE  /\ {wallets[t, a], wallets[s, a]} # {"none"} => wallets'[t, a] # "none"
               /\ wallets[s, a] = "verified" =>
                    wallets'[t, a] = "verified" \/ <<"downgraded", a>> \in odd'
    <3>1. wallets'[t, a] = IF wallets[t, a] = "none" THEN wallets[s, a] ELSE wallets[t, a]
      BY <1>1, <2>4, WalletsMove
    <3>2. wallets[t, a] \in {"none", "added", "verified"}
      BY <1>1 DEF ClusterInv, ClusterTypeOK
    <3>3. wallets[s, a] = "verified" /\ wallets[t, a] = "added" => <<"downgraded", a>> \in odd'
      BY <2>4 DEF Merge, Notes, Downgraded
    <3> QED BY <3>1, <3>2, <3>3
  <2> QED BY <2>5, <2>6, <2>7
<1>2. ClusterInv /\ [ClusterNext]_clusterVars => [Kept]_clusterVars
  BY <1>1
<1> QED BY <1>2, ClusterInitInv, ClusterNextInv, PTL DEF ClusterSpec, MergesKeepAll

\* The profiles of a workspace and the merges and claims under way keep their types.
THEOREM ClusterTypesKept == ClusterSpec => []ClusterTypeOK
<1>1. ClusterInv => ClusterTypeOK
  BY DEF ClusterInv
<1> QED BY <1>1, ClusterInitInv, ClusterNextInv, PTL DEF ClusterSpec

-----------------------------------------------------------------------------
(* What the events of the indexer lead to.                                 *)

Steps   == {"ingest", "calculate", "persist", "snapshot", "match", "whale", "threshold", "tags"}
AnyTag  == ManualTag \union AllAutoTags
AnyTask == [does : {"ingest", "whale", "recalc"}, of : Payloads \union {Payload("swap", "whale_alert", {})},
            profile : BOOLEAN, at : Steps, rows : SUBSET rows, tags : SUBSET AnyTag]
ListenTypes == ListenTypeOK /\ tasks \subseteq AnyTask

Running == {"persist", "snapshot"}
Upset   == muddled \intersect {"overlap", "failure"} # {}
Pending == \E t \in tasks : t.at = "calculate"

\* Two recalculations that write at a time have overlapped.
OneRuns == "overlap" \notin muddled =>
  \A t, u \in tasks : t.at \in Running /\ u.at \in Running => t = u

\* Unless one is about to begin: what a recalculation has read is all there is,
\* and one that is under way has written its score unless it is about to.
ScoresInHand == ~Upset /\ ~Pending =>
  /\ \A t \in tasks : t.at \in Running => t.rows = rows
  /\ \/ \E t \in tasks : t.at = "persist"
     \/ score = rows /\ ((\E t \in tasks : t.at = "snapshot") \/ snapshot = rows)

TagsInHand == ManualTagsKept /\ saved \subseteq ManualTag

\* The one notice, and the one campaign it starts.
Whale  == <<"whale", WhaleAlert>>
Spread == Payload("swap", "whale_alert", {})
WhalesOnly ==
  /\ rows \subseteq Payloads
  /\ tags \intersect AllAutoTags = {}
  /\ notices \subseteq {Whale}
  /\ started \subseteq {<<"whale_alert", Spread>>}
  /\ started # {} => Whale \in notices
  /\ \A t \in tasks :
       /\ t.at # "threshold"
       /\ t.at = "ingest" => t.of \in Payloads /\ t.of \in seen
       /\ t.at = "whale"  => t.does = "whale" /\ t.of = WhaleAlert
       /\ t.at = "match"  => t.of = Spread /\ Whale \in notices

ListenInv == OneRuns /\ ScoresInHand /\ TagsInHand /\ WhalesOnly

-----------------------------------------------------------------------------
\* The full names of the types are not those the listeners ask for.
LEMMA PostedNames ==
  ASSUME NEW p \in Payloads
  PROVE  /\ p.type \in {"0x2::m::StakeEvent", "0x2::m::SwapEvent", "WhaleAlert", "wallet_connect"}
         /\ "amount" \notin p.fields
         /\ p.type = "WhaleAlert" => p = WhaleAlert
BY DEF Payloads, Posted, Login, WhaleAlert, Payload, RawFields

\* So an event writes a row, and an alert notifies; nothing else is called.
LEMMA WhatIsCalled ==
  ASSUME NEW p \in Payloads, NEW profile
  PROVE  /\ Called(p, profile) \subseteq {"ingest", "whale"}
         /\ "whale" \in Called(p, profile) => p = WhaleAlert
<1>1. Emitted(p) \subseteq {<<"indexer.event">>, <<"indexer.event", p.type>>}
  BY DEF Emitted
<1>2. ASSUME NEW l \in Listeners, NEW n \in Emitted(p), Hears(l, n)
      PROVE  \/ l.does \in {"ingest", "match", "threshold"}
             \/ l.does = "whale" /\ p = WhaleAlert
  <2>1. <<"indexer.event", p.type>> # <<"indexer.event">>
    BY SMT
  <2>2. <<"indexer.event", p.type>> # <<"indexer.event", "wallet_connected">>
    BY PostedNames, SMT
  <2>3. <<"indexer.event", p.type>> # <<"indexer.event", "*">>
    BY PostedNames, SMT
  <2>4. <<"indexer.event", p.type>> = <<"indexer.event", "WhaleAlert">> => p = WhaleAlert
    BY PostedNames, SMT
  <2>5. /\ <<"indexer.event">> # <<"indexer.event", "WhaleAlert">>
        /\ <<"indexer.event">> # <<"indexer.event", "wallet_connected">>
        /\ <<"indexer.event">> # <<"indexer.event", "*">>
    BY SMT
  <2>6. /\ l.on = <<"indexer.event">> => l.does \in {"ingest", "match", "threshold"}
        /\ l.does \in {"ingest", "match", "threshold"}
           \/ l = Listener(<<"indexer.event", "WhaleAlert">>, "whale")
           \/ l = Listener(<<"indexer.event", "wallet_connected">>, "gas")
           \/ l = Listener(<<"indexer.event", "*">>, "tags")
    BY <2>5 DEF Listeners, Listener
  <2>7. l.on \in {<<"indexer.event">>, <<"indexer.event", p.type>>}
    BY <1>1, <1>2 DEF Hears
  <2> QED
    BY <2>2, <2>3, <2>4, <2>5, <2>6, <2>7 DEF Listener
<1>3. ASSUME NEW does \in Called(p, profile)
      PROVE  does \in {"ingest", "whale"} /\ (does = "whale" => p = WhaleAlert)
  <2>1. PICK l \in Listeners, n \in Emitted(p) : Hears(l, n) /\ l.does = does
    BY <1>3 DEF Called
  <2>2. GoesOn(does, p, profile)
    BY <1>3 DEF Called
  <2>3. does \notin {"match", "threshold"}
    BY <2>2, PostedNames DEF GoesOn, TriggerTypes
  <2> QED
    BY <1>2, <2>1, <2>3
<1> QED
  BY <1>3

\* No rule counts any of them.
LEMMA NoAutoTag ==
  ASSUME NEW R, R \subseteq Payloads
  PROVE  AutoTags(R) = {} /\ Counted(R) = {}
<1>1. \A p \in R : p.type \notin NftTypes \union VoteTypes \union SwapTypes \union {"StakeEvent", "UnstakeEvent"}
  BY PostedNames DEF NftTypes, VoteTypes, SwapTypes
<1>2. ASSUME NEW r \in TagRules PROVE ~(Cardinality({p \in R : p.type \in r.types}) >= r.least)
  <2>1. r.types \subseteq NftTypes \union VoteTypes \union SwapTypes \union {"StakeEvent"}
    BY DEF TagRules, Rule
  <2>2. {p \in R : p.type \in r.types} = {}
    BY <1>1, <2>1
  <2>3. Cardinality({p \in R : p.type \in r.types}) = 0
    BY <2>2, FS_EmptySet
  <2>4. r.least \in {1, 3, 5, 10}
    BY DEF TagRules, Rule
  <2> QED
    BY <2>3, <2>4
<1> QED
  BY <1>1, <1>2 DEF AutoTags, Counted

-----------------------------------------------------------------------------
LEMMA ListenInvInit ==
  ASSUME ListenInit
  PROVE  ListenInv
BY DEF ListenInit, ListenInv, OneRuns, ScoresInHand, TagsInHand, ManualTagsKept, WhalesOnly

\* A handler keeps its record.
LEMMA TaskAtHand ==
  ASSUME ListenTypes, NEW t \in tasks
  PROVE  /\ \A step \in Steps : [t EXCEPT !.at = step] \in AnyTask
         /\ [t EXCEPT !.at = "persist", !.rows = rows] \in AnyTask
         /\ t.does = "whale" /\ t.of = WhaleAlert =>
              [t EXCEPT !.at = "match", !.of = Payload(t.of.kind, "whale_alert", {})] \in AnyTask
<1>1. t \in AnyTask
  BY DEF ListenTypes
<1>2. Payload(WhaleAlert.kind, "whale_alert", {}) = Payload("swap", "whale_alert", {})
  BY DEF WhaleAlert, Payload
<1>3. \A step \in Steps : [t EXCEPT !.at = step] \in AnyTask
  BY <1>1 DEF AnyTask
<1>4. [t EXCEPT !.at = "persist", !.rows = rows] \in AnyTask
  BY <1>1 DEF AnyTask, Steps
<1>5. ASSUME t.of = WhaleAlert
      PROVE  [t EXCEPT !.at = "match", !.of = Payload(t.of.kind, "whale_alert", {})] \in AnyTask
  <2> DEFINE d == Payload(t.of.kind, "whale_alert", {})
  <2>1. d \in Payloads \union {Payload("swap", "whale_alert", {})}
    BY <1>2, <1>5
  <2> HIDE DEF d
  <2>2. [t EXCEPT !.at = "match", !.of = d] \in AnyTask
    BY <1>1, <2>1 DEF AnyTask, Steps
  <2> QED
    BY <2>2 DEF d
<1> QED
  BY <1>3, <1>4, <1>5

\* What has been written stays, and so do the records of the handlers.
LEMMA TasksStay ==
  ASSUME rows \subseteq rows'
  PROVE  AnyTask \subseteq AnyTask'
BY DEF AnyTask, AnyTag

LEMMA TypesStay ==
  ASSUME ListenTypes, tasks' \subseteq AnyTask, seen \subseteq seen', seen' \subseteq Payloads,
         rows \subseteq rows', rows' \subseteq seen',
         score' \subseteq rows', snapshot' \subseteq rows', tags' \subseteq AnyTag,
         saved' \subseteq ManualTag, muddled' \subseteq {"overlap", "tags", "failure", "nameless"}
  PROVE  ListenTypes'
<1>1. tasks' \subseteq AnyTask'
  BY TasksStay
<1>2. \A t \in tasks' : t.at \in Steps
  BY DEF AnyTask
<1>3. ListenTypeOK'
  BY <1>2 DEF ListenTypeOK, Steps, AnyTag
<1> QED
  BY <1>1, <1>3 DEF ListenTypes

LEMMA ListenTypesInit ==
  ASSUME ListenInit
  PROVE  ListenTypes
BY DEF ListenInit, ListenTypes, ListenTypeOK

LEMMA DeliverKeeps ==
  ASSUME ListenInv, NEW p \in Payloads, NEW profile \in BOOLEAN, Deliver(p, profile)
  PROVE  ListenInv'
<1> DEFINE New == {Task(does, p, profile) : does \in Called(p, profile)}
<1>1. /\ rows' = rows /\ score' = score /\ snapshot' = snapshot /\ tags' = tags
      /\ notices' = notices /\ started' = started /\ saved' = saved
      /\ muddled \subseteq muddled' /\ muddled' \subseteq muddled \union {"nameless"}
      /\ tasks' = tasks \union New /\ seen' = seen \union {p}
  BY DEF Deliver
<1>2. \A u \in New : /\ u.at \in {"ingest", "whale"} /\ u.of = p
                     /\ u.at = "whale" => u.does = "whale" /\ u.of = WhaleAlert
  BY WhatIsCalled DEF Task
<1> HIDE DEF New
<1>3. OneRuns'
  BY <1>1, <1>2 DEF ListenInv, OneRuns, Running
<1>4. Pending' <=> Pending
  BY <1>1, <1>2 DEF Pending
<1>5. Upset' <=> Upset
  BY <1>1 DEF Upset
<1>6. ScoresInHand'
  BY <1>1, <1>2, <1>4, <1>5 DEF ListenInv, ScoresInHand, Running
<1>7. TagsInHand'
  BY <1>1 DEF ListenInv, TagsInHand, ManualTagsKept
<1>8. WhalesOnly'
  BY <1>1, <1>2 DEF ListenInv, WhalesOnly
<1> QED
  BY <1>3, <1>6, <1>7, <1>8 DEF ListenInv

\* Steps that leave the scores alone and end, or begin, no recalculation.
LEMMA ScoresAside ==
  ASSUME OneRuns, ScoresInHand, rows' = rows, score' = score, snapshot' = snapshot,
         muddled \subseteq muddled', muddled' \subseteq muddled \union {"tags"},
         \A u \in tasks' : u \in tasks \/ u.at \notin Running,
         \A u \in tasks : u.at \in Running \union {"calculate"} => u \in tasks'
  PROVE  OneRuns' /\ ScoresInHand'
<1>1. OneRuns'
  BY DEF OneRuns
<1>2. Pending => Pending'
  BY DEF Pending
<1>3. Upset' <=> Upset
  BY DEF Upset
<1>4. ScoresInHand'
  BY <1>2, <1>3 DEF ScoresInHand, Running
<1> QED
  BY <1>1, <1>4

LEMMA IngestKeeps ==
  ASSUME ListenTypes, ListenInv, NEW t \in tasks, Ingest(t)
  PROVE  ListenInv'
<1> DEFINE u == [t EXCEPT !.at = "calculate"]
<1>1. /\ seen' = seen /\ rows' = rows \union {t.of} /\ score' = score /\ snapshot' = snapshot /\ tags' = tags
      /\ notices' = notices /\ started' = started /\ saved' = saved /\ muddled' = muddled
      /\ tasks' = (tasks \ {t}) \union {u} /\ t.at = "ingest"
  BY DEF Ingest, Goes, Under
<1>2. u.at = "calculate"
  BY DEF ListenTypes, AnyTask
<1> HIDE DEF u
<1>3. OneRuns'
  BY <1>1, <1>2 DEF ListenInv, OneRuns, Running
<1>4. Pending'
  BY <1>1, <1>2 DEF Pending
<1>5. ScoresInHand'
  BY <1>4 DEF ScoresInHand
<1>6. TagsInHand'
  BY <1>1 DEF ListenInv, TagsInHand, ManualTagsKept
<1>7. WhalesOnly'
  BY <1>1, <1>2 DEF ListenInv, WhalesOnly
<1> QED
  BY <1>3, <1>5, <1>6, <1>7 DEF ListenInv

LEMMA CalculateScoreKeeps ==
  ASSUME ListenTypes, ListenInv, NEW t \in tasks, CalculateScore(t)
  PROVE  ListenInv'
<1> DEFINE u == [t EXCEPT !.at = "persist", !.rows = rows]
<1>1. /\ seen' = seen /\ rows' = rows /\ score' = score /\ snapshot' = snapshot /\ tags' = tags
      /\ notices' = notices /\ started' = started /\ saved' = saved
      /\ tasks' = (tasks \ {t}) \union {u} /\ t.at = "calculate"
  BY DEF CalculateScore, Under
<1>2. /\ muddled \subseteq muddled' /\ muddled' \subseteq muddled \union {"overlap"}
      /\ "overlap" \notin muddled' => \A w \in tasks : w.at \notin Running
  BY DEF CalculateScore, Running
<1>3. u.at = "persist" /\ u.rows = rows
  BY DEF ListenTypes, AnyTask
<1> HIDE DEF u
<1>4. "overlap" \notin muddled' => \A w \in tasks' : w.at \in Running => w = u
  BY <1>1, <1>2
<1>5. OneRuns'
  BY <1>4 DEF OneRuns
<1>6. ~Upset' => "overlap" \notin muddled'
  BY DEF Upset
<1>7. u \in tasks'
  BY <1>1
<1>8. ScoresInHand'
  BY <1>1, <1>3, <1>4, <1>6, <1>7 DEF ScoresInHand
<1>9. TagsInHand'
  BY <1>1, <1>2 DEF ListenInv, TagsInHand, ManualTagsKept
<1>10. WhalesOnly'
  BY <1>1, <1>3 DEF ListenInv, WhalesOnly
<1> QED
  BY <1>5, <1>8, <1>9, <1>10 DEF ListenInv

LEMMA PersistScoreKeeps ==
  ASSUME ListenTypes, ListenInv, NEW t \in tasks, PersistScore(t)
  PROVE  ListenInv'
<1> DEFINE u == [t EXCEPT !.at = "snapshot"]
<1>1. /\ seen' = seen /\ rows' = rows /\ score' = t.rows /\ snapshot' = snapshot /\ tags' = tags
      /\ notices' = notices /\ started' = started /\ saved' = saved /\ muddled' = muddled
      /\ tasks' = (tasks \ {t}) \union {u} /\ t.at = "persist"
  BY DEF PersistScore, Under, Goes
<1>2. u.at = "snapshot" /\ u.rows = t.rows
  BY DEF ListenTypes, AnyTask
<1> HIDE DEF u
<1>3. OneRuns'
  BY <1>1, <1>2 DEF ListenInv, OneRuns, Running
<1>4. Pending => Pending'
  BY <1>1 DEF Pending
<1>5. Upset' <=> Upset
  BY <1>1 DEF Upset
<1>6. ScoresInHand'
  <2>1. SUFFICES ASSUME ~Upset, ~Pending
                 PROVE  /\ \A w \in tasks' : w.at \in Running => w.rows = rows
                        /\ score' = rows /\ \E w \in tasks' : w.at = "snapshot"
    BY <1>1, <1>4, <1>5 DEF ScoresInHand
  <2>2. \A w \in tasks : w.at \in Running => w.rows = rows
    BY <2>1 DEF ListenInv, ScoresInHand
  <2>3. t.rows = rows
    BY <1>1, <2>2 DEF Running
  <2> QED
    BY <1>1, <1>2, <2>2, <2>3
<1>7. TagsInHand'
  BY <1>1 DEF ListenInv, TagsInHand, ManualTagsKept
<1>8. WhalesOnly'
  BY <1>1, <1>2 DEF ListenInv, WhalesOnly
<1> QED
  BY <1>3, <1>6, <1>7, <1>8 DEF ListenInv

LEMMA WriteSnapshotKeeps ==
  ASSUME ListenInv, NEW t \in tasks, WriteSnapshot(t)
  PROVE  ListenInv'
<1>1. /\ seen' = seen /\ rows' = rows /\ score' = score /\ snapshot' = t.rows /\ tags' = tags
      /\ notices' = notices /\ started' = started /\ saved' = saved /\ muddled' = muddled
      /\ tasks' = tasks \ {t} /\ t.at = "snapshot"
  BY DEF WriteSnapshot, Under, Ends
<1>2. OneRuns'
  BY <1>1 DEF ListenInv, OneRuns, Running
<1>3. Pending => Pending'
  BY <1>1 DEF Pending
<1>4. Upset' <=> Upset
  BY <1>1 DEF Upset
<1>5. ScoresInHand'
  <2>1. SUFFICES ASSUME ~Upset, ~Pending
                 PROVE  /\ \A w \in tasks' : w.at \in Running => w.rows = rows
                        /\ score' = rows /\ snapshot' = rows
    BY <1>1, <1>3, <1>4 DEF ScoresInHand
  <2>2. \A w \in tasks : w.at \in Running => w = t
    BY <1>1, <2>1 DEF ListenInv, OneRuns, Running, Upset
  <2>3. t.rows = rows /\ score = rows
    BY <1>1, <2>1, <2>2 DEF ListenInv, ScoresInHand, Running
  <2> QED
    BY <1>1, <2>2, <2>3
<1>6. TagsInHand'
  BY <1>1 DEF ListenInv, TagsInHand, ManualTagsKept
<1>7. WhalesOnly'
  BY <1>1 DEF ListenInv, WhalesOnly
<1> QED
  BY <1>2, <1>5, <1>6, <1>7 DEF ListenInv

\* A campaign of the one alert is started, or the alert is notified.
LEMMA MatchKeeps ==
  ASSUME ListenInv, NEW t \in tasks, Match(t)
  PROVE  ListenInv'
<1>1. /\ seen' = seen /\ rows' = rows /\ score' = score /\ snapshot' = snapshot /\ tags' = tags
      /\ notices' = notices /\ saved' = saved /\ muddled' = muddled
      /\ started' = started \union {<<t.of.type, t.of>>}
      /\ tasks' = tasks \ {t} /\ t.at = "match"
  BY DEF Match, Under, Ends
<1>2. \A u \in tasks : u.at \in Running \union {"calculate"} => u \in tasks'
  BY <1>1 DEF Running
<1>3. OneRuns' /\ ScoresInHand'
  BY <1>1, <1>2, ScoresAside DEF ListenInv
<1>4. TagsInHand'
  BY <1>1 DEF ListenInv, TagsInHand, ManualTagsKept
<1>5. t.of = Spread /\ Spread.type = "whale_alert" /\ Whale \in notices
  BY <1>1 DEF ListenInv, WhalesOnly, Spread, Payload
<1>6. WhalesOnly'
  BY <1>1, <1>5 DEF ListenInv, WhalesOnly
<1> QED
  BY <1>3, <1>4, <1>6 DEF ListenInv

LEMMA NotifyKeeps ==
  ASSUME ListenTypes, ListenInv, NEW t \in tasks, Notify(t)
  PROVE  ListenInv'
<1> DEFINE u == [t EXCEPT !.at = "match", !.of = Payload(t.of.kind, "whale_alert", {})]
<1>1. /\ seen' = seen /\ rows' = rows /\ score' = score /\ snapshot' = snapshot /\ tags' = tags
      /\ started' = started /\ saved' = saved /\ muddled' = muddled
      /\ notices' = notices \union {<<t.does, t.of>>}
      /\ tasks' = (tasks \ {t}) \union {u} /\ t.at \in {"whale", "threshold"}
  BY DEF Notify
<1>2. t.does = "whale" /\ t.of = WhaleAlert
  BY <1>1 DEF ListenInv, WhalesOnly
<1>3. u.at = "match" /\ u.of = Spread
  BY <1>2 DEF WhaleAlert, Payload, Spread, ListenTypes, AnyTask
<1> HIDE DEF u
<1>4. \A w \in tasks' : w \in tasks \/ w.at \notin Running
  BY <1>1, <1>3 DEF Running
<1>5. \A w \in tasks : w.at \in Running \union {"calculate"} => w \in tasks'
  BY <1>1 DEF Running
<1>6. OneRuns' /\ ScoresInHand'
  BY <1>1, <1>4, <1>5, ScoresAside DEF ListenInv
<1>7. TagsInHand'
  BY <1>1 DEF ListenInv, TagsInHand, ManualTagsKept
<1>8. notices' = notices \union {Whale}
  BY <1>1, <1>2 DEF Whale
<1>9. WhalesOnly'
  BY <1>1, <1>3, <1>8 DEF ListenInv, WhalesOnly
<1> QED
  BY <1>6, <1>7, <1>9 DEF ListenInv

LEMMA NotifyNobodyKeeps ==
  ASSUME ListenInv, NEW t \in tasks, NotifyNobody(t)
  PROVE  ListenInv'
<1>1. /\ seen' = seen /\ rows' = rows /\ score' = score /\ snapshot' = snapshot /\ tags' = tags
      /\ notices' = notices /\ started' = started /\ saved' = saved /\ muddled' = muddled
      /\ tasks' = tasks \ {t} /\ t.at = "whale"
  BY DEF NotifyNobody, Under, Ends
<1>2. \A u \in tasks : u.at \in Running \union {"calculate"} => u \in tasks'
  BY <1>1 DEF Running
<1>3. OneRuns' /\ ScoresInHand'
  BY <1>1, <1>2, ScoresAside DEF ListenInv
<1>4. TagsInHand' /\ WhalesOnly'
  BY <1>1 DEF ListenInv, TagsInHand, ManualTagsKept, WhalesOnly
<1> QED
  BY <1>3, <1>4 DEF ListenInv

LEMMA TaskFailsKeeps ==
  ASSUME ListenInv, NEW t \in tasks, TaskFails(t)
  PROVE  ListenInv'
<1>1. /\ seen' = seen /\ rows' = rows /\ score' = score /\ snapshot' = snapshot /\ tags' = tags
      /\ notices' = notices /\ started' = started /\ saved' = saved
      /\ muddled' = muddled \union {"failure"} /\ tasks' = tasks \ {t}
  BY DEF TaskFails, Ends
<1>2. OneRuns' /\ Upset'
  BY <1>1 DEF ListenInv, OneRuns, Upset
<1>3. TagsInHand' /\ WhalesOnly'
  BY <1>1 DEF ListenInv, TagsInHand, ManualTagsKept, WhalesOnly
<1> QED
  BY <1>2, <1>3 DEF ListenInv, ScoresInHand

\* Automatic tags are merged into those that were read, which are the members'
\* own as long as they are still there.
LEMMA UpdateAutoTagsKeeps ==
  ASSUME ListenTypes, ListenInv, NEW t \in tasks, UpdateAutoTags(t)
  PROVE  ListenInv'
<1> DEFINE u == [t EXCEPT !.at = "calculate"]
<1>1. /\ seen' = seen /\ rows' = rows /\ score' = score /\ snapshot' = snapshot
      /\ notices' = notices /\ started' = started /\ saved' = saved
      /\ tags' = MergeTags(t.tags, AutoTags(rows)) /\ t.at = "tags"
      /\ muddled' = IF tags = t.tags THEN muddled ELSE muddled \union {"tags"}
      /\ tasks' = (tasks \ {t}) \union {u} \/ tasks' = tasks \ {t}
  BY DEF UpdateAutoTags, Under, Ends, Goes
<1>2. u.at = "calculate"
  BY DEF ListenTypes, AnyTask
<1> HIDE DEF u
<1>3. \A w \in tasks' : w \in tasks \/ w = u
  BY <1>1
<1>4. \A w \in tasks : w.at \in Running \union {"calculate"} => w \in tasks'
  BY <1>1 DEF Running
<1>5. muddled \subseteq muddled' /\ muddled' \subseteq muddled \union {"tags"}
  BY <1>1
<1>6. OneRuns' /\ ScoresInHand'
  BY <1>1, <1>2, <1>3, <1>4, <1>5, ScoresAside DEF ListenInv, Running
<1>7. AutoTags(rows) = {}
  BY NoAutoTag DEF ListenInv, WhalesOnly
<1>8. tags' = t.tags \ AllAutoTags
  BY <1>1, <1>7 DEF MergeTags
<1>9. TagsInHand'
  BY <1>1, <1>8, ListenAssumption DEF ListenInv, TagsInHand, ManualTagsKept
<1>10. WhalesOnly'
  BY <1>1, <1>2, <1>3, <1>8 DEF ListenInv, WhalesOnly
<1> QED
  BY <1>6, <1>9, <1>10 DEF ListenInv

LEMMA SaveTagsKeeps ==
  ASSUME ListenInv, NEW manual \in SUBSET ManualTag, SaveTags(manual)
  PROVE  ListenInv'
<1>1. /\ seen' = seen /\ rows' = rows /\ score' = score /\ snapshot' = snapshot /\ tasks' = tasks
      /\ notices' = notices /\ started' = started /\ muddled' = muddled
      /\ saved' = manual /\ tags' = MergeTags(manual, tags \ ManualTag)
  BY DEF SaveTags
<1>2. OneRuns' /\ ScoresInHand'
  BY <1>1, ScoresAside DEF ListenInv, Running
<1>3. tags' = manual \union (tags \ ManualTag)
  BY <1>1, ListenAssumption DEF MergeTags
<1>4. TagsInHand'
  BY <1>1, <1>3 DEF ListenInv, TagsInHand, ManualTagsKept
<1>5. WhalesOnly'
  BY <1>1, <1>3, ListenAssumption DEF ListenInv, WhalesOnly
<1> QED
  BY <1>2, <1>4, <1>5 DEF ListenInv

LEMMA StartRecalcKeeps ==
  ASSUME ListenInv, StartRecalc
  PROVE  ListenInv'
<1> DEFINE u == [Task("recalc", Login, TRUE) EXCEPT !.at = "tags"]
<1>1. /\ seen' = seen /\ rows' = rows /\ score' = score /\ snapshot' = snapshot /\ tags' = tags
      /\ notices' = notices /\ started' = started /\ saved' = saved /\ muddled' = muddled
      /\ tasks' = tasks \union {u}
  BY DEF StartRecalc
<1>2. u.at = "tags"
  BY DEF Task
<1> HIDE DEF u
<1>3. OneRuns' /\ ScoresInHand'
  BY <1>1, <1>2, ScoresAside DEF ListenInv, Running
<1>4. TagsInHand'
  BY <1>1 DEF ListenInv, TagsInHand, ManualTagsKept
<1>5. WhalesOnly'
  BY <1>1, <1>2 DEF ListenInv, WhalesOnly
<1> QED
  BY <1>3, <1>4, <1>5 DEF ListenInv

\* The types, step by step; that only the alert is notified is the invariant's.
LEMMA ListenTypesStep ==
  ASSUME ListenTypes, ListenInv, [ListenNext]_listenVars
  PROVE  ListenTypes'
<1> DEFINE M == {"overlap", "tags", "failure", "nameless"}
<1>1. /\ seen \subseteq Payloads /\ rows \subseteq seen /\ score \subseteq rows
      /\ snapshot \subseteq rows /\ tags \subseteq AnyTag /\ saved \subseteq ManualTag
      /\ muddled \subseteq M /\ tasks \subseteq AnyTask
  BY DEF ListenTypes, ListenTypeOK, AnyTag
<1>2. AutoTags(rows) \subseteq AllAutoTags
  BY DEF AutoTags, AllAutoTags
<1>3. CASE UNCHANGED listenVars
  BY <1>1, <1>3, TypesStay DEF listenVars
<1>4. ASSUME NEW p \in Payloads, NEW profile \in BOOLEAN, Deliver(p, profile) PROVE ListenTypes'
  <2>1. ASSUME NEW does \in {"ingest", "whale"} PROVE Task(does, p, profile) \in AnyTask
    BY DEF Task, AnyTask, Steps
  <2>2. {Task(does, p, profile) : does \in Called(p, profile)} \subseteq AnyTask
    BY <2>1, WhatIsCalled
  <2>3. tasks' \subseteq AnyTask /\ seen' = seen \union {p} /\ muddled' \subseteq M
    BY <1>1, <1>4, <2>2 DEF Deliver
  <2> QED
    BY <1>1, <1>4, <2>3, TypesStay DEF Deliver
<1>5. ASSUME NEW t \in tasks, Ingest(t) PROVE ListenTypes'
  <2>1. tasks' \subseteq AnyTask
    BY <1>1, <1>5, TaskAtHand DEF Ingest, Goes, Steps
  <2>2. t.of \in seen
    BY <1>5 DEF Ingest, Under, ListenInv, WhalesOnly
  <2>3. rows \subseteq rows' /\ rows' \subseteq seen
    BY <1>1, <1>5, <2>2 DEF Ingest
  <2> QED
    BY <1>1, <1>5, <2>1, <2>3, TypesStay DEF Ingest
<1>6. ASSUME NEW t \in tasks, CalculateScore(t) PROVE ListenTypes'
  <2>1. tasks' \subseteq AnyTask /\ muddled' \subseteq M
    BY <1>1, <1>6, TaskAtHand DEF CalculateScore
  <2> QED
    BY <1>1, <1>6, <2>1, TypesStay DEF CalculateScore
<1>7. ASSUME NEW t \in tasks, PersistScore(t) PROVE ListenTypes'
  <2>1. tasks' \subseteq AnyTask
    BY <1>1, <1>7, TaskAtHand DEF PersistScore, Goes, Steps
  <2>2. t.rows \subseteq rows
    BY <1>1 DEF AnyTask
  <2> QED
    BY <1>1, <1>7, <2>1, <2>2, TypesStay DEF PersistScore
<1>8. ASSUME NEW t \in tasks, WriteSnapshot(t) PROVE ListenTypes'
  <2>1. tasks' \subseteq AnyTask /\ t.rows \subseteq rows
    BY <1>1, <1>8 DEF WriteSnapshot, Ends, AnyTask
  <2> QED
    BY <1>1, <1>8, <2>1, TypesStay DEF WriteSnapshot
<1>9. ASSUME NEW t \in tasks, Match(t) \/ NotifyNobody(t) PROVE ListenTypes'
  <2>1. tasks' \subseteq AnyTask
    BY <1>1, <1>9 DEF Match, NotifyNobody, Ends
  <2> QED
    BY <1>1, <1>9, <2>1, TypesStay DEF Match, NotifyNobody
<1>10. ASSUME NEW t \in tasks, Notify(t) PROVE ListenTypes'
  <2>1. t.does = "whale" /\ t.of = WhaleAlert
    BY <1>10 DEF Notify, ListenInv, WhalesOnly
  <2>2. tasks' \subseteq AnyTask
    BY <1>1, <1>10, <2>1, TaskAtHand DEF Notify
  <2> QED
    BY <1>1, <1>10, <2>2, TypesStay DEF Notify
<1>11. ASSUME NEW t \in tasks, UpdateAutoTags(t) PROVE ListenTypes'
  <2>1. tasks' \subseteq AnyTask
    BY <1>1, <1>11, TaskAtHand DEF UpdateAutoTags, Goes, Ends, Steps
  <2>2. t.tags \subseteq AnyTag
    BY <1>1 DEF AnyTask
  <2>3. tags' \subseteq AnyTag /\ muddled' \subseteq M
    BY <1>1, <1>2, <1>11, <2>2 DEF UpdateAutoTags, MergeTags, AnyTag
  <2> QED
    BY <1>1, <1>11, <2>1, <2>3, TypesStay DEF UpdateAutoTags
<1>12. ASSUME NEW t \in tasks, TaskFails(t) PROVE ListenTypes'
  <2>1. tasks' \subseteq AnyTask /\ muddled' \subseteq M
    BY <1>1, <1>12 DEF TaskFails, Ends
  <2> QED
    BY <1>1, <1>12, <2>1, TypesStay DEF TaskFails
<1>13. CASE StartRecalc
  <2> DEFINE u == [Task("recalc", Login, TRUE) EXCEPT !.at = "tags"]
  <2>1. u \in AnyTask
    BY <1>1 DEF Task, AnyTask, Steps, Payloads, AnyTag
  <2>2. tasks' \subseteq AnyTask
    BY <1>1, <1>13, <2>1 DEF StartRecalc
  <2> QED
    BY <1>1, <1>13, <2>2, TypesStay DEF StartRecalc
<1>14. ASSUME NEW manual \in SUBSET ManualTag, SaveTags(manual) PROVE ListenTypes'
  <2>1. tags' \subseteq AnyTag
    BY <1>1, <1>14 DEF SaveTags, MergeTags, AnyTag
  <2> QED
    BY <1>1, <1>14, <2>1, TypesStay DEF SaveTags
<1> QED
  BY <1>3, <1>4, <1>5, <1>6, <1>7, <1>8, <1>9, <1>10, <1>11, <1>12, <1>13, <1>14 DEF ListenNext

LEMMA ListenInvStep ==
  ASSUME ListenTypes, ListenInv, [ListenNext]_listenVars
  PROVE  ListenInv'
<1>1. CASE UNCHANGED listenVars
  BY <1>1 DEF listenVars, ListenInv, OneRuns, ScoresInHand, TagsInHand, ManualTagsKept,
       WhalesOnly, Upset, Pending
<1>2. ASSUME NEW p \in Payloads, NEW profile \in BOOLEAN, Deliver(p, profile) PROVE ListenInv'
  BY <1>2, DeliverKeeps
<1>3. ASSUME NEW t \in tasks, Ingest(t) \/ Match(t) \/ Notify(t) \/ NotifyNobody(t) PROVE ListenInv'
  BY <1>3, IngestKeeps, MatchKeeps, NotifyKeeps, NotifyNobodyKeeps
<1>4. ASSUME NEW t \in tasks, CalculateScore(t) \/ PersistScore(t) \/ WriteSnapshot(t) PROVE ListenInv'
  BY <1>4, CalculateScoreKeeps, PersistScoreKeeps, WriteSnapshotKeeps
<1>5. ASSUME NEW t \in tasks, UpdateAutoTags(t) \/ TaskFails(t) PROVE ListenInv'
  BY <1>5, UpdateAutoTagsKeeps, TaskFailsKeeps
<1>6. CASE StartRecalc
  BY <1>6, StartRecalcKeeps
<1>7. ASSUME NEW manual \in SUBSET ManualTag, SaveTags(manual) PROVE ListenInv'
  BY <1>7, SaveTagsKeeps
<1> QED
  BY <1>1, <1>2, <1>3, <1>4, <1>5, <1>6, <1>7 DEF ListenNext

LEMMA ListenInvSafe ==
  ASSUME ListenInv
  PROVE  ListenersSafety
<1>1. ScoreIsCurrent
  BY DEF ListenInv, ScoresInHand, ScoreIsCurrent, AllHandled, Upset, Pending
<1>2. ManualTagsKept
  BY DEF ListenInv, TagsInHand
<1>3. Counted(rows) = {} /\ tags \intersect AllAutoTags = {}
  BY NoAutoTag DEF ListenInv, WhalesOnly
<1>4. \A s \in started : s[1] = "whale_alert"
  BY DEF ListenInv, WhalesOnly
<1>5. Cardinality(started) <= Cardinality(notices)
  <2>1. CASE started = {}
    <3>1. notices = {} \/ notices = {Whale}
      BY DEF ListenInv, WhalesOnly
    <3>2. Cardinality(started) = 0 /\ Cardinality(notices) \in {0, 1}
      BY <2>1, <3>1, FS_EmptySet, FS_Singleton
    <3> QED
      BY <3>2
  <2>2. CASE started # {}
    <3>1. started = {<<"whale_alert", Spread>>} /\ notices = {Whale}
      BY <2>2 DEF ListenInv, WhalesOnly
    <3>2. Cardinality(started) = 1 /\ Cardinality(notices) = 1
      BY <3>1, FS_Singleton
    <3> QED
      BY <3>2
  <2> QED
    BY <2>1, <2>2
<1> QED
  BY <1>1, <1>2, <1>3, <1>4, <1>5 DEF ListenersSafety, OnlyWhalesStart, ListenInv, WhalesOnly, Whale

(* What the events of the indexer lead to: when every handler is through, the *)
(* score and its snapshot count the rows there are, unless a handler failed   *)
(* or two recalculations overlapped; members keep the tags they saved, unless *)
(* one saved between the read and the write of the job; and no event counts   *)
(* for a tag, a score or a campaign but the alerts of whales.                 *)
THEOREM EventsSafe == ListenSpec => []ListenersSafety
<1>1. ListenInit => ListenTypes /\ ListenInv
  BY ListenTypesInit, ListenInvInit
<1>2. ListenTypes /\ ListenInv /\ [ListenNext]_listenVars => (ListenTypes /\ ListenInv)'
  BY ListenTypesStep, ListenInvStep
<1>3. ListenInv => ListenersSafety
  BY ListenInvSafe
<1> QED
  BY <1>1, <1>2, <1>3, PTL DEF ListenSpec

\* What events write about a profile keeps its types.
THEOREM ListenTypesKept == ListenSpec => []ListenTypeOK
<1>1. ListenInit => ListenTypes /\ ListenInv
  BY ListenTypesInit, ListenInvInit
<1>2. ListenTypes /\ ListenInv /\ [ListenNext]_listenVars => (ListenTypes /\ ListenInv)'
  BY ListenTypesStep, ListenInvStep
<1>3. ListenTypes => ListenTypeOK
  BY DEF ListenTypes
<1> QED BY <1>1, <1>2, <1>3, PTL DEF ListenSpec
=============================================================================
