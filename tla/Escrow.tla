------------------------------- MODULE Escrow -------------------------------
(***************************************************************************)
(* The on-chain escrow of packages/move/crm_escrow: one shared Escrow<T>   *)
(* object, the coins it holds, its vesting schedule and its arbitration    *)
(* record (the two dynamic fields), and the Sui clock.  A transaction on a *)
(* shared object is atomic, so every entry function is one action; an      *)
(* abort leaves no trace, so it is a disabled action.                      *)
(***************************************************************************)
EXTENDS Integers, Sequences, FiniteSets

CONSTANTS
  Address,       \* every address that may send a transaction
  Admins,        \* the addresses that hold a WorkspaceAdminCap of the workspace
  Amounts,       \* coin values the payer may deposit
  Requests,      \* amounts the payer may ask to release
  Expiries,      \* expiry timestamps offered at creation
  Deadlines,     \* reveal deadlines offered with a commitment
  Offers,        \* vesting schedules the payer may attach (start not yet set)
  MinLock,       \* MIN_LOCK_DURATION_MS
  ClaimWindow,   \* CLAIM_WINDOW_MS
  MaxThreshold,  \* bound on the threshold offered at creation
  MaxTime,       \* bound on the clock
  NONE           \* no address, Option::none

ASSUME EscrowAssumption ==
  /\ IsFiniteSet(Address) /\ Admins \subseteq Address
  /\ NONE \notin Address /\ NONE \notin Nat /\ NONE \notin {"RELEASE", "REFUND"}
  /\ Amounts \subseteq Nat /\ Requests \subseteq Nat
  /\ Expiries \subseteq Nat /\ Deadlines \subseteq Nat
  /\ MinLock \in Nat /\ ClaimWindow \in Nat
  /\ MaxThreshold \in Nat /\ MaxTime \in Nat
  /\ Offers \subseteq [kind : {"LINEAR", "MILESTONE", "OTHER"}, cliff : Nat,
                      duration : Nat, milestones : Seq([pct : Nat, done : BOOLEAN])]
  \* new_milestone is the only constructor of a Milestone.
  /\ \A o \in Offers : \A i \in DOMAIN o.milestones : ~o.milestones[i].done

VARIABLES
  now,        \* Clock.timestamp_ms
  terms,      \* payer, payee, arbitrators, threshold, expiry: fixed at creation
  state,      \* Escrow.state
  balance,    \* Escrow.balance
  released,   \* Escrow.released_amount
  refunded,   \* Escrow.refunded_amount
  fundedAt,   \* Escrow.funded_at
  schedule,   \* the VestingSchedule field; kind "NONE" is has_vesting = false
  arb,        \* the ArbitrationState field; raised is FALSE until it is added
  deposit,    \* history: the coin that funded the escrow
  direct      \* history: what the payer paid with plain release calls

money == <<balance, released, refunded>>
vars  == <<now, terms, state, balance, released, refunded, fundedAt,
           schedule, arb, deposit, direct>>

States    == {"ABSENT", "CREATED", "FUNDED", "PARTIALLY_RELEASED",
              "COMPLETED", "REFUNDED", "DISPUTED"}
Live      == {"FUNDED", "PARTIALLY_RELEASED"}
Decisions == {"RELEASE", "REFUND"}
BasisPointsTotal == 10000

NoTerms    == [payer |-> NONE, payee |-> NONE, arbitrators |-> {},
               threshold |-> 0, expiry |-> NONE]
NoSchedule == [kind |-> "NONE", cliff |-> 0, duration |-> 0,
               milestones |-> <<>>, start |-> 0]
NoDispute  == [raised |-> FALSE, votesRelease |-> <<>>, votesRefund |-> <<>>,
               resolved |-> FALSE, resolution |-> NONE,
               commitments |-> [a \in Address |-> NONE], deadline |-> 0]

Init ==
  /\ now = 0
  /\ terms = NoTerms /\ state = "ABSENT"
  /\ balance = 0 /\ released = 0 /\ refunded = 0 /\ fundedAt = 0
  /\ schedule = NoSchedule /\ arb = NoDispute
  /\ deposit = 0 /\ direct = 0

-----------------------------------------------------------------------------
(* Helpers.                                                                *)

HasExpiry == terms.expiry # NONE
Expired   == HasExpiry /\ now >= terms.expiry

\* The escrow pays amt to the payee, or gives amt back to the payer.
PayPayee(amt) == /\ balance' = balance - amt
                 /\ released' = released + amt
                 /\ refunded' = refunded
\* Slip: the refund forgets its own bookkeeping.
PayPayerUncounted(amt) == balance' = balance - amt /\ UNCHANGED <<released, refunded>>
PayPayer(amt) == /\ balance' = balance - amt
                 /\ refunded' = refunded + amt
                 /\ released' = released

\* Slip: an emptied escrow stays open.
AfterReleaseAlwaysPartial == "PARTIALLY_RELEASED"
AfterRelease == IF balance' = 0 THEN "COMPLETED" ELSE "PARTIALLY_RELEASED"

\* Vesting arithmetic: floor division, everything once the duration is over.
LinearVested(total, elapsed, duration) ==
  IF elapsed >= duration THEN total ELSE (total * elapsed) \div duration

MilestoneBp(ms, I) ==
  LET sum[n \in 0 .. Len(ms)] ==
        IF n = 0 THEN 0 ELSE sum[n - 1] + IF n \in I THEN ms[n].pct ELSE 0
  IN  sum[Len(ms)]
CompletedBp(ms)    == MilestoneBp(ms, {i \in DOMAIN ms : ms[i].done})
ValidMilestones(ms) == MilestoneBp(ms, DOMAIN ms) = BasisPointsTotal

Elapsed(s, t) == IF t > s.start THEN t - s.start ELSE 0

\* Any kind that is not LINEAR is released by its completed milestones.
Vested(s, total, t) ==
  IF s.kind = "LINEAR"
  THEN IF Elapsed(s, t) < s.cliff THEN 0
       ELSE LinearVested(total, Elapsed(s, t), s.duration)
  ELSE (total * CompletedBp(s.milestones)) \div BasisPointsTotal

Voters(votes)   == {votes[i] : i \in DOMAIN votes}
HasVoted(a)     == a \in Voters(arb.votesRelease) \union Voters(arb.votesRefund)
HasCommitted(a) == arb.commitments[a] # NONE

\* Slips: one vote more than the threshold; the sides exchanged.
ThresholdExceeded(rel, ref) ==
  IF Len(rel) > terms.threshold THEN "RELEASE"
  ELSE IF Len(ref) > terms.threshold THEN "REFUND" ELSE NONE
ThresholdOfEitherSide(rel, ref) ==
  IF Len(rel) + Len(ref) >= terms.threshold
  THEN IF Len(rel) > 0 THEN "RELEASE" ELSE "REFUND" ELSE NONE
\* A release decision is looked for first.
ThresholdReached(rel, ref) ==
  IF Len(rel) >= terms.threshold THEN "RELEASE"
  ELSE IF Len(ref) >= terms.threshold THEN "REFUND" ELSE NONE

-----------------------------------------------------------------------------
(* Creation and funding.  The pause of crm_core::capabilities is the       *)
(* environment's: it can refuse a creation at any moment, and nothing else *)
(* here looks at it.                                                       *)

CreateEscrow(s, payee, arbs, threshold, expiry) ==
  /\ state = "ABSENT"
  /\ s \in Admins
  /\ arbs # {} => threshold \in 1 .. Cardinality(arbs)
  /\ s \notin arbs /\ payee \notin arbs
  /\ expiry # NONE => expiry >= now + MinLock
  /\ terms' = [payer |-> s, payee |-> payee, arbitrators |-> arbs,
               threshold |-> threshold, expiry |-> expiry]
  /\ state' = "CREATED"
  /\ UNCHANGED <<now, money, fundedAt, schedule, arb, deposit, direct>>

FundEscrow(s, amt) ==
  /\ state = "CREATED" /\ s = terms.payer /\ amt > 0
  /\ balance' = balance + amt /\ deposit' = deposit + amt
  /\ state' = "FUNDED" /\ fundedAt' = now
  /\ UNCHANGED <<now, terms, released, refunded, schedule, arb, direct>>

(* Payments.                                                               *)

\* Slips: a plain release forgets the balance check, or the state check.
ReleaseOverdrawn(s, amt) ==
  /\ state \in Live /\ s = terms.payer
  /\ amt > 0 /\ now - fundedAt >= MinLock
  /\ PayPayee(amt) /\ state' = AfterRelease
  /\ direct' = direct + amt
  /\ UNCHANGED <<now, terms, fundedAt, schedule, arb, deposit>>
ReleaseUnchecked(s, amt) ==
  /\ s = terms.payer
  /\ amt > 0 /\ now - fundedAt >= MinLock /\ amt <= balance
  /\ PayPayee(amt) /\ state' = AfterRelease
  /\ direct' = direct + amt
  /\ UNCHANGED <<now, terms, fundedAt, schedule, arb, deposit>>

Release(s, amt) ==
  /\ state \in Live /\ s = terms.payer
  /\ amt > 0 /\ now - fundedAt >= MinLock /\ amt <= balance
  /\ PayPayee(amt) /\ state' = AfterRelease
  /\ direct' = direct + amt
  /\ UNCHANGED <<now, terms, fundedAt, schedule, arb, deposit>>

InClaimWindow ==
  /\ terms.expiry >= ClaimWindow
  /\ now >= terms.expiry - ClaimWindow /\ now < terms.expiry

ClaimBeforeExpiry(s) ==
  /\ state \in Live /\ s = terms.payee
  /\ HasExpiry /\ InClaimWindow /\ balance > 0
  /\ PayPayee(balance) /\ state' = "COMPLETED"
  /\ UNCHANGED <<now, terms, fundedAt, schedule, arb, deposit, direct>>

\* Slip: the expiry no longer guards a funded escrow.
MayRefundAnyLive == state = "CREATED" \/ Expired \/ state \in Live
\* The expiry alone opens a refund, whatever the state.
MayRefund ==
  \/ state = "CREATED"
  \/ Expired
  \/ state \in Live /\ ~HasExpiry

Refund(s) ==
  /\ s = terms.payer /\ MayRefund
  /\ PayPayer(balance) /\ state' = "REFUNDED"
  /\ UNCHANGED <<now, terms, fundedAt, schedule, arb, deposit, direct>>

(* Vesting.                                                                *)

HasVesting == schedule.kind # "NONE"

AddVesting(s, offer) ==
  /\ state = "FUNDED" /\ s = terms.payer /\ ~HasVesting
  /\ offer.kind = "MILESTONE" => ValidMilestones(offer.milestones)
  /\ schedule' = [kind |-> offer.kind, cliff |-> offer.cliff,
                  duration |-> offer.duration, milestones |-> offer.milestones,
                  start |-> now]
  /\ UNCHANGED <<now, terms, state, money, fundedAt, arb, deposit, direct>>

\* Slip: the total is read after earlier payments left.
TotalHeld == balance
TotalFunded == balance + released
\* Slip: what was already released is due again.
DueGross == Vested(schedule, TotalFunded, now)
DueNow      == Vested(schedule, TotalFunded, now) - released

\* Both EOverRelease checks: something is due, and the escrow holds it.
ReleaseVested(s) ==
  /\ state \in Live /\ s = terms.payer /\ HasVesting
  /\ DueNow \in 1 .. balance
  /\ PayPayee(DueNow) /\ state' = AfterRelease
  /\ UNCHANGED <<now, terms, fundedAt, schedule, arb, deposit, direct>>

CompleteMilestone(s, i) ==
  /\ state \in Live /\ s = terms.payer /\ HasVesting
  /\ i \in DOMAIN schedule.milestones
  /\ schedule' = [schedule EXCEPT !.milestones[i].done = TRUE]
  /\ UNCHANGED <<now, terms, state, money, fundedAt, arb, deposit, direct>>

(* Disputes.  A commitment is the vote its hash hides: a reveal whose hash *)
(* does not match aborts, so a salt adds nothing.                          *)

RaiseDispute(s) ==
  /\ state \in Live /\ s \in {terms.payer, terms.payee}
  /\ ~arb.raised
  /\ arb' = [NoDispute EXCEPT !.raised = TRUE]
  /\ state' = "DISPUTED"
  /\ UNCHANGED <<now, terms, money, fundedAt, schedule, deposit, direct>>

Settle(decision) ==
  IF decision = NONE \/ balance = 0 THEN UNCHANGED <<state, money>>
  ELSE IF decision = "RELEASE" THEN PayPayee(balance) /\ state' = "COMPLETED"
  ELSE PayPayer(balance) /\ state' = "REFUNDED"

RecordVote(s, vote, commitments) ==
  LET rel == IF vote = "RELEASE" THEN Append(arb.votesRelease, s)
                                 ELSE arb.votesRelease
      ref == IF vote = "RELEASE" THEN arb.votesRefund
                                 ELSE Append(arb.votesRefund, s)
      decision == ThresholdReached(rel, ref)
  IN  /\ arb' = [arb EXCEPT !.votesRelease = rel, !.votesRefund = ref,
                            !.commitments = commitments,
                            !.resolved = @ \/ decision # NONE,
                            !.resolution = IF decision # NONE THEN decision ELSE @]
      /\ Settle(decision)
      /\ UNCHANGED <<now, terms, fundedAt, schedule, deposit, direct>>

\* Slip: who has committed may only reveal.
MayVoteUncommitted(s) ==
  state = "DISPUTED" /\ s \in terms.arbitrators /\ ~HasVoted(s) /\ ~HasCommitted(s)
\* A direct vote neither looks at the voter's commitment nor withdraws it.
MayVote(s) == state = "DISPUTED" /\ s \in terms.arbitrators /\ ~HasVoted(s)

VoteOnDispute(s, vote) == MayVote(s) /\ RecordVote(s, vote, arb.commitments)

CommitVote(s, vote, deadline) ==
  /\ state = "DISPUTED" /\ s \in terms.arbitrators
  /\ ~HasVoted(s) /\ ~HasCommitted(s)
  /\ arb' = [arb EXCEPT !.commitments[s] = vote,
                        !.deadline = IF deadline > @ THEN deadline ELSE @]
  /\ UNCHANGED <<now, terms, state, money, fundedAt, schedule, deposit, direct>>

\* A reveal looks at the commitment only, not at an earlier direct vote.
MayReveal(s, vote) ==
  /\ state = "DISPUTED"
  /\ HasCommitted(s) /\ now < arb.deadline
  /\ arb.commitments[s] = vote

RevealVote(s, vote) ==
  /\ MayReveal(s, vote)
  /\ RecordVote(s, vote, [arb.commitments EXCEPT ![s] = NONE])

(* The environment: the Sui clock.                                         *)

Tick ==
  /\ now < MaxTime /\ now' = now + 1
  /\ UNCHANGED <<terms, state, money, fundedAt, schedule, arb, deposit, direct>>

Next ==
  \/ \E s \in Address :
       \/ /\ state = "ABSENT"
          /\ \E payee \in Address, arbs \in SUBSET Address,
                th \in 0 .. MaxThreshold, exp \in Expiries \union {NONE} :
                CreateEscrow(s, payee, arbs, th, exp)
       \/ \E amt \in Amounts : FundEscrow(s, amt)
       \/ \E amt \in Requests : Release(s, amt)
       \/ ClaimBeforeExpiry(s)
       \/ Refund(s)
       \/ \E offer \in Offers : AddVesting(s, offer)
       \/ ReleaseVested(s)
       \/ \E i \in DOMAIN schedule.milestones : CompleteMilestone(s, i)
       \/ RaiseDispute(s)
       \/ \E vote \in Decisions : VoteOnDispute(s, vote)
       \/ \E vote \in Decisions, d \in Deadlines : CommitVote(s, vote, d)
       \/ \E vote \in Decisions : RevealVote(s, vote)
  \/ Tick

Spec == Init /\ [][Next]_vars

-----------------------------------------------------------------------------
(* Properties.                                                             *)

Schedules == [kind : {"NONE", "LINEAR", "MILESTONE", "OTHER"}, cliff : Nat,
              duration : Nat, start : Nat,
              milestones : Seq([pct : Nat, done : BOOLEAN])]
Disputes  == [raised : BOOLEAN, votesRelease : Seq(Address),
              votesRefund : Seq(Address), resolved : BOOLEAN,
              resolution : Decisions \union {NONE}, deadline : Nat,
              commitments : [Address -> Decisions \union {NONE}]]
Terms     == [payer : Address \union {NONE}, payee : Address \union {NONE},
              arbitrators : SUBSET Address, threshold : Nat,
              expiry : Nat \union {NONE}]

\* Every variable stays in its type: amounts never go below zero, so no
\* payment exceeds what the escrow holds.
TypeOK ==
  /\ now \in Nat /\ terms \in Terms /\ state \in States
  /\ balance \in Nat /\ released \in Nat /\ refunded \in Nat
  /\ fundedAt \in Nat /\ deposit \in Nat /\ direct \in Nat
  /\ schedule \in Schedules /\ arb \in Disputes

\* No coin is created or lost over any sequence of releases, vested releases,
\* claims, refunds and dispute settlements: what was deposited is what is
\* still held plus what both parties were paid.
AccountingIdentity == deposit = balance + released + refunded

\* The state field says where the money is: coins are held exactly while the
\* escrow is funded, partly released or disputed.
CustodyMatchesState == balance > 0 <=> state \in Live \union {"DISPUTED"}

\* raise_dispute adds its record once per escrow: a live escrow has none yet
\* (a second add would abort and make the money undisputable), and an open
\* dispute is one no threshold has decided.
DisputeRecordMatchesState ==
  /\ state \in Live => ~arb.raised
  /\ state = "DISPUTED" =>
       /\ arb.raised /\ ~arb.resolved
       /\ terms.arbitrators # {} => /\ Len(arb.votesRelease) < terms.threshold
                                   /\ Len(arb.votesRefund)  < terms.threshold

\* A decided dispute paid the whole remainder to the side the tally chose.
OutcomeFollowsTally ==
  arb.resolved =>
    /\ balance = 0
    /\ arb.resolution = "RELEASE" => /\ Len(arb.votesRelease) >= terms.threshold
                                     /\ refunded = 0
    /\ arb.resolution = "REFUND"  => /\ Len(arb.votesRefund) >= terms.threshold
                                     /\ refunded > 0

\* claim_before_expiry protects the payee only if the payer cannot take the
\* money first: until the expiry, a funded escrow with an expiry gives money
\* back only by an arbitrated decision.
NoRefundBeforeExpiry ==
  [][refunded' > refunded /\ HasExpiry /\ now < terms.expiry
       => arb'.resolved /\ arb'.resolution = "REFUND"]_vars

\* An open dispute freezes the money: only the arbitrators' decision or the
\* expiry refund moves it.
DisputeFreezesFunds ==
  [][state = "DISPUTED" /\ balance' # balance
       => arb'.resolved \/ (Expired /\ released' = released)]_vars

\* The arbitrators who can still be tallied bring one side to its threshold.
CanDecide(vote) ==
  LET cast == Len(IF vote = "RELEASE" THEN arb.votesRelease ELSE arb.votesRefund)
  IN  /\ cast < terms.threshold
      /\ cast + Cardinality({a \in terms.arbitrators : MayVote(a) \/ MayReveal(a, vote)})
           >= terms.threshold

\* An escrow without an expiry has no way out of a dispute but a decision.  As
\* long as the threshold is no more than a majority, no order of votes,
\* commitments, reveals and missed deadlines shuts both decisions out: a
\* dispute locks its coins for good only where there are no arbitrators, or
\* where the threshold lets their votes split.
LocksOnlyBySplit ==
  /\ state = "DISPUTED" /\ terms.arbitrators # {}
  /\ 2 * terms.threshold <= Cardinality(terms.arbitrators) + 1
  => \E vote \in Decisions : CanDecide(vote)

\* However plain releases, vested releases and milestone completions mix, the
\* schedule never pays ahead of itself.
VestedNeverAhead ==
  state \in Live /\ HasVesting
    => released <= direct + Vested(schedule, deposit, now)

\* A vested release made once everything has vested empties the escrow, so
\* rounding and earlier payments leave no coin behind.
FullyVestedPaysAll ==
  [][(\E s \in Address : ReleaseVested(s))
       /\ Vested(schedule, deposit, now) = deposit
       => balance' = 0 /\ state' = "COMPLETED"]_vars

\* The escrow implements the abstract custody: one deposit, payments out of
\* what is held, and a refund that is always the whole remainder.
Custody == INSTANCE EscrowCustody WITH
  held <- balance, toPayee <- released, toPayer <- refunded, opened <- deposit > 0
ImplementsCustody == Custody!Spec

\* docs/security/module-analysis.md:361: arbitrators vote once per arbitrator.
OneVotePerArbitrator ==
  Len(arb.votesRelease) + Len(arb.votesRefund)
    = Cardinality(Voters(arb.votesRelease) \union Voters(arb.votesRefund))
=============================================================================
