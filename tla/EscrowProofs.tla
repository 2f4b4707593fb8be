----------------------------- MODULE EscrowProofs -----------------------------
(***************************************************************************)
(* Proofs about Escrow for every set of addresses, amounts, schedules and  *)
(* timestamps.  The inductive invariant is the type invariant with the     *)
(* books, the custody and the dispute record tied to the state field.      *)
(***************************************************************************)
EXTENDS Escrow, SequenceTheorems, FiniteSetTheorems, WellFoundedInduction, TLAPS

\* The actions of one sender, without the choice of their parameters.
Step(s) ==
  \/ \E payee \in Address, arbs \in SUBSET Address,
        th \in 0 .. MaxThreshold, exp \in Expiries \union {NONE} :
        CreateEscrow(s, payee, arbs, th, exp)
  \/ \E amt \in Amounts : FundEscrow(s, amt)
  \/ \E amt \in Requests : Release(s, amt)
  \/ ClaimBeforeExpiry(s)
  \/ Refund(s)
  \/ \E offer \in Offers : AddVesting(s, offer)
  \/ ReleaseVested(s)
  \/ \E i \in DOMAIN schedule.milestones : CompleteMilestone(s, i)
  \/ RaiseDispute(s)
  \/ \E vote \in Decisions : VoteOnDispute(s, vote)
  \/ \E vote \in Decisions, d \in Deadlines : CommitVote(s, vote, d)
  \/ \E vote \in Decisions : RevealVote(s, vote)

\* What the steps below need of the constants.
LEMMA Constants ==
  /\ Amounts \subseteq Nat /\ Requests \subseteq Nat
  /\ Expiries \subseteq Nat /\ Deadlines \subseteq Nat
  /\ MaxThreshold \in Nat
  /\ NONE # "RELEASE" /\ NONE # "REFUND"
  BY EscrowAssumption DEF EscrowAssumption

\* Every step is some sender's, or the clock's.
LEMMA NextIsStep == Next => (\E s \in Address : Step(s)) \/ Tick
  BY DEF Next, Step

-----------------------------------------------------------------------------
(* Type correctness.                                                       *)

\* The escrow that does not exist yet is well typed.
LEMMA InitTypeOK == Init => TypeOK
  BY EscrowAssumption DEF Init, TypeOK, NoTerms, NoSchedule, NoDispute, Terms,
     States, Schedules, Disputes

\* A vote keeps the types whoever casts it.
LEMMA RecordVoteTypeOK ==
  ASSUME TypeOK, NEW s \in Address, NEW vote \in Decisions,
         NEW C \in [Address -> Decisions \union {NONE}],
         RecordVote(s, vote, C)
  PROVE  TypeOK'
  <1> DEFINE rel == IF vote = "RELEASE" THEN Append(arb.votesRelease, s)
                                        ELSE arb.votesRelease
             ref == IF vote = "RELEASE" THEN arb.votesRefund
                                        ELSE Append(arb.votesRefund, s)
             decision == ThresholdReached(rel, ref)
  <1>1. rel \in Seq(Address) /\ ref \in Seq(Address)
    BY DEF TypeOK, Disputes
  <1>2. decision \in Decisions \union {NONE}
    BY DEF ThresholdReached, Decisions
  <1>3. arb' \in Disputes
    <2> HIDE DEF rel, ref, decision
    <2>1. arb' = [arb EXCEPT !.votesRelease = rel, !.votesRefund = ref,
                             !.commitments = C,
                             !.resolved = @ \/ decision # NONE,
                             !.resolution = IF decision # NONE THEN decision ELSE @]
      BY DEF RecordVote, rel, ref, decision
    <2>2. (arb.resolved \/ decision # NONE) \in BOOLEAN
      OBVIOUS
    <2> QED
      BY <2>1, <2>2, <1>1, <1>2 DEF TypeOK, Disputes
  <1>4. Settle(decision) /\ UNCHANGED <<now, terms, fundedAt, schedule, deposit, direct>>
    BY DEF RecordVote
  <1>5. /\ balance' \in Nat /\ released' \in Nat /\ refunded' \in Nat
        /\ state' \in States
    <2> HIDE DEF decision
    <2> QED
      BY <1>4 DEF Settle, PayPayee, PayPayer, TypeOK, States, money
  <1> QED
    BY <1>3, <1>4, <1>5 DEF TypeOK

\* Each entry function keeps the types.
LEMMA StepTypeOK ==
  ASSUME TypeOK, NEW s \in Address, Step(s)
  PROVE  TypeOK'
  <1>1. ASSUME NEW payee \in Address, NEW arbs \in SUBSET Address,
               NEW th \in 0 .. MaxThreshold, NEW exp \in Expiries \union {NONE},
               CreateEscrow(s, payee, arbs, th, exp)
        PROVE  TypeOK'
    <2>1. th \in Nat /\ exp \in Nat \union {NONE}
      BY Constants
    <2>2. terms' \in Terms
      BY <1>1, <2>1 DEF CreateEscrow, Terms
    <2>3. state' \in States
      BY <1>1 DEF CreateEscrow, States
    <2> QED
      BY <1>1, <2>2, <2>3 DEF CreateEscrow, TypeOK, money
  <1>2. ASSUME NEW amt \in Amounts, FundEscrow(s, amt) PROVE TypeOK'
    BY <1>2, Constants DEF FundEscrow, TypeOK, States
  <1>3. ASSUME NEW amt \in Requests, Release(s, amt) PROVE TypeOK'
    BY <1>3, Constants DEF Release, PayPayee, AfterRelease, TypeOK, States
  <1>4. CASE ClaimBeforeExpiry(s)
    BY <1>4 DEF ClaimBeforeExpiry, PayPayee, TypeOK, States
  <1>5. CASE Refund(s)
    BY <1>5 DEF Refund, PayPayer, TypeOK, States
  <1>6. ASSUME NEW offer \in Offers, AddVesting(s, offer) PROVE TypeOK'
    BY <1>6, EscrowAssumption DEF EscrowAssumption, AddVesting, TypeOK, Schedules, money
  <1>7. CASE ReleaseVested(s)
    BY <1>7 DEF ReleaseVested, PayPayee, AfterRelease, TypeOK, States
  <1>8. ASSUME NEW i \in DOMAIN schedule.milestones, CompleteMilestone(s, i)
        PROVE  TypeOK'
    <2> DEFINE ms == schedule.milestones
    <2>1. ms \in Seq([pct : Nat, done : BOOLEAN])
      BY DEF TypeOK, Schedules
    <2>2. [ms[i] EXCEPT !.done = TRUE] \in [pct : Nat, done : BOOLEAN]
      <3>1. i \in 1 .. Len(ms)
        BY <2>1
      <3>2. ms[i] \in [pct : Nat, done : BOOLEAN]
        BY <2>1, <3>1, ElementOfSeq
      <3> QED
        BY <3>2
    <2>3. [ms EXCEPT ![i] = [ms[i] EXCEPT !.done = TRUE]]
            \in Seq([pct : Nat, done : BOOLEAN])
      BY <2>1, <2>2
    <2>4. schedule' = [schedule EXCEPT !.milestones =
                         [ms EXCEPT ![i] = [ms[i] EXCEPT !.done = TRUE]]]
      BY <1>8 DEF CompleteMilestone
    <2>5. schedule' \in Schedules
      BY <2>3, <2>4 DEF TypeOK, Schedules
    <2> QED
      BY <1>8, <2>5 DEF CompleteMilestone, TypeOK, money
  <1>9. CASE RaiseDispute(s)
    <2>1. NoDispute \in Disputes
      BY DEF NoDispute, Disputes
    <2>2. arb' \in Disputes
      BY <1>9, <2>1 DEF RaiseDispute, Disputes
    <2> QED
      BY <1>9, <2>2 DEF RaiseDispute, TypeOK, States, money
  <1>10. ASSUME NEW vote \in Decisions, VoteOnDispute(s, vote) PROVE TypeOK'
    <2>1. arb.commitments \in [Address -> Decisions \union {NONE}]
      BY DEF TypeOK, Disputes
    <2> QED
      BY <1>10, <2>1, RecordVoteTypeOK DEF VoteOnDispute
  <1>11. ASSUME NEW vote \in Decisions, NEW d \in Deadlines, CommitVote(s, vote, d)
         PROVE  TypeOK'
    BY <1>11, Constants DEF CommitVote, TypeOK, Disputes, money
  <1>12. ASSUME NEW vote \in Decisions, RevealVote(s, vote) PROVE TypeOK'
    <2>1. [arb.commitments EXCEPT ![s] = NONE] \in [Address -> Decisions \union {NONE}]
      BY DEF TypeOK, Disputes
    <2> QED
      BY <1>12, <2>1, RecordVoteTypeOK DEF RevealVote
  <1> QED
    BY <1>1, <1>2, <1>3, <1>4, <1>5, <1>6, <1>7, <1>8, <1>9, <1>10, <1>11, <1>12
    DEF Step

\* So does every step.
LEMMA TypeOKInductive == TypeOK /\ [Next]_vars => TypeOK'
  <1>1. ASSUME TypeOK, NEW s \in Address, Step(s) PROVE TypeOK'
    BY <1>1, StepTypeOK
  <1>2. ASSUME TypeOK, Tick PROVE TypeOK'
    BY <1>2 DEF Tick, TypeOK, money
  <1>3. ASSUME TypeOK, UNCHANGED vars PROVE TypeOK'
    BY <1>3 DEF vars, money, TypeOK
  <1> QED
    BY <1>1, <1>2, <1>3, NextIsStep

\* The amounts and records of the escrow keep their types for ever: no
\* sequence of calls makes an amount negative.
THEOREM TypeCorrect == Spec => []TypeOK
  BY InitTypeOK, TypeOKInductive, PTL DEF Spec

-----------------------------------------------------------------------------
(* The books, the custody and the dispute record.                          *)

\* Before it is funded an escrow has moved no money and has no record; while
\* it holds money nothing was given back; only an open dispute is undecided.
StateHistory ==
  /\ state \in {"ABSENT", "CREATED"} => deposit = 0 /\ ~arb.raised
  /\ state \in Live \union {"DISPUTED"} => refunded = 0
  /\ arb.resolved => arb.raised
  /\ terms.arbitrators # {} => terms.threshold >= 1

\* The inductive invariant.
IInv == /\ TypeOK
        /\ AccountingIdentity
        /\ CustodyMatchesState
        /\ DisputeRecordMatchesState
        /\ OutcomeFollowsTally
        /\ StateHistory

\* No money and no record to begin with.
LEMMA InitIInv == Init => IInv
  <1> SUFFICES ASSUME Init PROVE IInv
    OBVIOUS
  <1>1. TypeOK
    BY InitTypeOK
  <1>2. balance = 0 /\ released = 0 /\ refunded = 0 /\ deposit = 0 /\ state = "ABSENT"
    BY DEF Init
  <1>3. arb.raised = FALSE /\ arb.resolved = FALSE /\ terms.arbitrators = {}
    BY DEF Init, NoDispute, NoTerms
  <1> QED
    BY <1>1, <1>2, <1>3 DEF IInv, AccountingIdentity, CustodyMatchesState, Live,
       DisputeRecordMatchesState, OutcomeFollowsTally, StateHistory

\* A step that pays from a live escrow, by whatever entry function.
LEMMA PaymentIInv ==
  ASSUME IInv, TypeOK', NEW amt \in 1 .. balance, state \in Live,
         PayPayee(amt), state' = AfterRelease, UNCHANGED <<terms, arb, deposit>>
  PROVE  IInv'
  <1> USE DEF IInv, TypeOK
  <1>1. AccountingIdentity' /\ CustodyMatchesState' /\ StateHistory'
    BY DEF PayPayee, AfterRelease, Live, AccountingIdentity, CustodyMatchesState,
       StateHistory
  <1>2. DisputeRecordMatchesState' /\ OutcomeFollowsTally'
    BY DEF PayPayee, AfterRelease, Live, DisputeRecordMatchesState,
       OutcomeFollowsTally, StateHistory
  <1> QED
    BY <1>1, <1>2

\* A vote, direct or revealed, and the settlement it may trigger.
LEMMA VoteIInv ==
  ASSUME IInv, TypeOK', NEW s \in Address, NEW vote \in Decisions,
         NEW C, state = "DISPUTED", RecordVote(s, vote, C)
  PROVE  IInv'
  <1> DEFINE rel == IF vote = "RELEASE" THEN Append(arb.votesRelease, s)
                                        ELSE arb.votesRelease
             ref == IF vote = "RELEASE" THEN arb.votesRefund
                                        ELSE Append(arb.votesRefund, s)
             decision == ThresholdReached(rel, ref)
  <1>1. /\ arb'.votesRelease = rel /\ arb'.votesRefund = ref
        /\ arb'.raised = arb.raised
        /\ arb'.resolved = (arb.resolved \/ decision # NONE)
        /\ arb'.resolution = IF decision # NONE THEN decision ELSE arb.resolution
    BY DEF RecordVote, IInv, TypeOK, Disputes
  <1>2. Settle(decision) /\ UNCHANGED <<terms, deposit>>
    BY DEF RecordVote
  <1>3. /\ decision = "RELEASE" => Len(rel) >= terms.threshold
        /\ decision = "REFUND" => Len(ref) >= terms.threshold
        /\ decision = NONE => /\ ~(Len(rel) >= terms.threshold)
                             /\ ~(Len(ref) >= terms.threshold)
        /\ decision \in {"RELEASE", "REFUND", NONE}
    BY Constants DEF ThresholdReached
  <1>4. /\ Len(rel) \in Nat /\ Len(ref) \in Nat /\ terms.threshold \in Nat
    BY DEF IInv, TypeOK, Disputes, Terms
  <1> HIDE DEF rel, ref, decision
  <1>5. balance > 0 /\ arb.raised /\ ~arb.resolved /\ refunded = 0
    BY DEF IInv, CustodyMatchesState, DisputeRecordMatchesState, StateHistory, Live
  <1>6. CASE decision = NONE
    <2>1. UNCHANGED <<state, money>>
      BY <1>2, <1>6 DEF Settle
    <2>2. arb'.resolved = FALSE /\ arb'.raised = TRUE
      BY <1>1, <1>5, <1>6 DEF IInv, TypeOK, Disputes
    <2>3. Len(rel) < terms.threshold /\ Len(ref) < terms.threshold
      BY <1>3, <1>4, <1>6
    <2>4. DisputeRecordMatchesState' /\ OutcomeFollowsTally'
      BY <1>1, <1>2, <2>1, <2>2, <2>3
      DEF DisputeRecordMatchesState, OutcomeFollowsTally, Live
    <2> QED
      BY <1>2, <1>5, <2>1, <2>2, <2>4
      DEF IInv, AccountingIdentity, CustodyMatchesState, money, StateHistory, Live
  <1>7. CASE decision = "RELEASE"
    <2>1. PayPayee(balance) /\ state' = "COMPLETED"
      BY <1>2, <1>3, <1>5, <1>7, Constants
      DEF Settle, IInv, TypeOK
    <2> QED
      BY <1>1, <1>2, <1>3, <1>4, <1>5, <1>7, <2>1
      DEF IInv, TypeOK, AccountingIdentity, CustodyMatchesState, PayPayee,
          DisputeRecordMatchesState, OutcomeFollowsTally, StateHistory, Live
  <1>8. CASE decision = "REFUND"
    <2>1. PayPayer(balance) /\ state' = "REFUNDED"
      BY <1>2, <1>3, <1>5, <1>8, Constants
      DEF Settle, IInv, TypeOK
    <2> QED
      BY <1>1, <1>2, <1>3, <1>4, <1>5, <1>8, <2>1
      DEF IInv, TypeOK, AccountingIdentity, CustodyMatchesState, PayPayer,
          DisputeRecordMatchesState, OutcomeFollowsTally, StateHistory, Live
  <1> QED
    BY <1>3, <1>6, <1>7, <1>8

\* Each entry function keeps books, custody and dispute record together.
LEMMA StepIInv ==
  ASSUME IInv, TypeOK', NEW s \in Address, Step(s)
  PROVE  IInv'
  <1> USE DEF AccountingIdentity, CustodyMatchesState, DisputeRecordMatchesState,
              OutcomeFollowsTally, StateHistory, Live, money
  <1>1. ASSUME NEW payee \in Address, NEW arbs \in SUBSET Address,
               NEW th \in 0 .. MaxThreshold, NEW exp \in Expiries \union {NONE},
               CreateEscrow(s, payee, arbs, th, exp)
        PROVE  IInv'
    BY <1>1 DEF CreateEscrow, IInv, TypeOK
  <1>2. ASSUME NEW amt \in Amounts, FundEscrow(s, amt) PROVE IInv'
    <2>1. amt \in Nat /\ amt > 0
      BY <1>2, Constants DEF FundEscrow
    <2>2. /\ balance = 0 /\ released = 0 /\ refunded = 0 /\ deposit = 0
          /\ ~arb.raised /\ ~arb.resolved
      BY <1>2 DEF FundEscrow, IInv, TypeOK
    <2>3. /\ balance' = amt /\ deposit' = amt /\ state' = "FUNDED"
          /\ UNCHANGED <<released, refunded, arb, terms>>
      BY <1>2, <2>1, <2>2 DEF FundEscrow
    <2> QED
      BY <2>1, <2>2, <2>3 DEF IInv
  <1>3. ASSUME NEW amt \in Requests, Release(s, amt) PROVE IInv'
    <2>1. amt \in 1 .. balance
      BY <1>3, Constants DEF Release, IInv, TypeOK
    <2> QED
      BY <1>3, <2>1, PaymentIInv DEF Release
  <1>4. CASE ClaimBeforeExpiry(s)
    <2>1. balance \in 1 .. balance
      BY <1>4 DEF ClaimBeforeExpiry, IInv, TypeOK
    <2>2. PayPayee(balance) /\ state' = AfterRelease
      BY <1>4 DEF ClaimBeforeExpiry, PayPayee, AfterRelease, IInv, TypeOK
    <2> QED
      BY <1>4, <2>1, <2>2, PaymentIInv DEF ClaimBeforeExpiry
  <1>5. CASE Refund(s)
    BY <1>5 DEF Refund, PayPayer, IInv, TypeOK, Disputes
  <1>6. ASSUME NEW offer \in Offers, AddVesting(s, offer) PROVE IInv'
    BY <1>6 DEF AddVesting, IInv
  <1>7. CASE ReleaseVested(s)
    BY <1>7, PaymentIInv DEF ReleaseVested
  <1>8. ASSUME NEW i \in DOMAIN schedule.milestones, CompleteMilestone(s, i)
        PROVE  IInv'
    BY <1>8 DEF CompleteMilestone, IInv
  <1>9. CASE RaiseDispute(s)
    <2>1. /\ arb'.raised /\ ~arb'.resolved
          /\ Len(arb'.votesRelease) = 0 /\ Len(arb'.votesRefund) = 0
      BY <1>9 DEF RaiseDispute, NoDispute
    <2> QED
      BY <1>9, <2>1 DEF RaiseDispute, IInv, TypeOK, Terms
  <1>10. ASSUME NEW vote \in Decisions, VoteOnDispute(s, vote) PROVE IInv'
    BY <1>10, VoteIInv DEF VoteOnDispute, MayVote
  <1>11. ASSUME NEW vote \in Decisions, NEW d \in Deadlines, CommitVote(s, vote, d)
         PROVE  IInv'
    BY <1>11 DEF CommitVote, IInv, TypeOK, Disputes
  <1>12. ASSUME NEW vote \in Decisions, RevealVote(s, vote) PROVE IInv'
    BY <1>12, VoteIInv DEF RevealVote, MayReveal
  <1> QED
    BY <1>1, <1>2, <1>3, <1>4, <1>5, <1>6, <1>7, <1>8, <1>9, <1>10, <1>11, <1>12
    DEF Step

\* So does every step: IInv is inductive.
LEMMA IInvInductive == IInv /\ [Next]_vars => IInv'
  <1> SUFFICES ASSUME IInv, [Next]_vars PROVE IInv'
    OBVIOUS
  <1>1. TypeOK'
    BY TypeOKInductive DEF IInv
  <1>2. ASSUME NEW s \in Address, Step(s) PROVE IInv'
    BY <1>1, <1>2, StepIInv
  <1>3. CASE Tick \/ UNCHANGED vars
    BY <1>1, <1>3 DEF Tick, vars, money, IInv, AccountingIdentity,
       CustodyMatchesState, DisputeRecordMatchesState, OutcomeFollowsTally,
       StateHistory
  <1> QED
    BY <1>2, <1>3, NextIsStep

\* The inductive invariant holds of every reachable escrow.
THEOREM Invariance == Spec => []IInv
  BY InitIInv, IInvInductive, PTL DEF Spec

\* No interleaving of the entry functions creates or loses a coin.
THEOREM AccountingCorrect == Spec => []AccountingIdentity
  BY Invariance, PTL DEF IInv

\* The state field says whether there are coins: a funded, partly released or
\* disputed escrow holds some, no other does.
THEOREM CustodyCorrect == Spec => []CustodyMatchesState
  BY Invariance, PTL DEF IInv

\* raise_dispute always finds room for its record, and a dispute stays open
\* only below the threshold.
THEOREM DisputeRecordCorrect == Spec => []DisputeRecordMatchesState
  BY Invariance, PTL DEF IInv

\* A resolved dispute was paid out once, to the side that reached the
\* threshold.
THEOREM OutcomeCorrect == Spec => []OutcomeFollowsTally
  BY Invariance, PTL DEF IInv

-----------------------------------------------------------------------------
(* Who locks the coins of a dispute.  Everyone who has not been tallied may *)
(* still vote, commitment or not; those who have been are no more than the *)
(* votes cast, which an open dispute keeps below the threshold.            *)

\* A side has at most one voter per vote.
LEMMA VotersAreFew ==
  ASSUME NEW votes \in Seq(Address)
  PROVE  IsFiniteSet(Voters(votes)) /\ Cardinality(Voters(votes)) <= Len(votes)
  <1>1. DOMAIN votes = 1 .. Len(votes) /\ Len(votes) \in Nat
    OBVIOUS
  <1>2. votes \in Surjection(1 .. Len(votes), Voters(votes))
    BY <1>1 DEF Voters, Surjection
  <1>3. IsFiniteSet(1 .. Len(votes)) /\ Cardinality(1 .. Len(votes)) = Len(votes)
    BY <1>1, FS_Interval
  <1> QED
    BY <1>2, <1>3, FS_Surjection

\* A side below the threshold that enough arbitrators could still join.
LEMMA SideCanDecide ==
  ASSUME TypeOK, NEW vote \in Decisions, NEW free \in SUBSET terms.arbitrators,
         \A a \in free : MayVote(a),
         NEW votes, votes = IF vote = "RELEASE" THEN arb.votesRelease ELSE arb.votesRefund,
         Len(votes) < terms.threshold,
         Len(votes) + Cardinality(free) >= terms.threshold
  PROVE  CanDecide(vote)
  <1> DEFINE able == {a \in terms.arbitrators : MayVote(a) \/ MayReveal(a, vote)}
  <1>1. IsFiniteSet(able)
    <2>1. terms.arbitrators \in SUBSET Address /\ IsFiniteSet(Address)
      BY EscrowAssumption DEF EscrowAssumption, TypeOK, Terms
    <2> QED
      BY <2>1, FS_Subset
  <1>2. free \in SUBSET able
    OBVIOUS
  <1>3. /\ Cardinality(free) <= Cardinality(able)
        /\ Cardinality(free) \in Nat /\ Cardinality(able) \in Nat
    BY <1>1, <1>2, FS_Subset, FS_CardinalityType
  <1>4. Len(votes) \in Nat /\ terms.threshold \in Nat
    BY DEF TypeOK, Disputes, Terms
  <1>5. Len(votes) + Cardinality(able) >= terms.threshold
    <2> HIDE DEF able
    <2> QED
      BY <1>3, <1>4
  <1> QED
    BY <1>5 DEF CanDecide

\* An open dispute below a majority's threshold can still be decided.
LEMMA StillDecidable ==
  ASSUME TypeOK, DisputeRecordMatchesState
  PROVE  LocksOnlyBySplit
  <1> SUFFICES ASSUME state = "DISPUTED", terms.arbitrators # {},
                      2 * terms.threshold <= Cardinality(terms.arbitrators) + 1
               PROVE  \E vote \in Decisions : CanDecide(vote)
    BY DEF LocksOnlyBySplit
  <1> DEFINE all  == terms.arbitrators
             rel  == Voters(arb.votesRelease)
             ref  == Voters(arb.votesRefund)
             free == all \ (rel \union ref)
  <1>1. /\ arb.votesRelease \in Seq(Address) /\ arb.votesRefund \in Seq(Address)
        /\ terms.threshold \in Nat
        /\ Len(arb.votesRelease) \in Nat /\ Len(arb.votesRefund) \in Nat
    BY DEF TypeOK, Disputes, Terms
  <1>2. /\ Len(arb.votesRelease) < terms.threshold
        /\ Len(arb.votesRefund) < terms.threshold
    BY DEF DisputeRecordMatchesState
  <1>3. IsFiniteSet(all) /\ Cardinality(all) \in Nat
    <2>1. all \in SUBSET Address /\ IsFiniteSet(Address)
      BY EscrowAssumption DEF EscrowAssumption, TypeOK, Terms
    <2> QED
      BY <2>1, FS_Subset, FS_CardinalityType
  <1>4. /\ IsFiniteSet(rel) /\ Cardinality(rel) <= Len(arb.votesRelease)
        /\ IsFiniteSet(ref) /\ Cardinality(ref) <= Len(arb.votesRefund)
        /\ Cardinality(rel) \in Nat /\ Cardinality(ref) \in Nat
    BY <1>1, VotersAreFew, FS_CardinalityType
  <1> HIDE DEF rel, ref
  <1>5. /\ IsFiniteSet(rel \union ref) /\ Cardinality(rel \union ref) \in Nat
        /\ Cardinality(rel \union ref) <= Cardinality(rel) + Cardinality(ref)
    <2>1. IsFiniteSet(rel \union ref) /\ IsFiniteSet(rel \intersect ref)
      BY <1>4, FS_Union, FS_Subset
    <2>2. Cardinality(rel \union ref)
            = Cardinality(rel) + Cardinality(ref) - Cardinality(rel \intersect ref)
      BY <1>4, FS_Union
    <2>3. Cardinality(rel \intersect ref) \in Nat /\ Cardinality(rel \union ref) \in Nat
      BY <2>1, FS_CardinalityType
    <2> QED
      BY <2>1, <2>2, <2>3, <1>4
  <1>6. /\ Cardinality(free) \in Nat
        /\ Cardinality(all) <= Cardinality(free) + Cardinality(rel) + Cardinality(ref)
    <2> DEFINE told == all \intersect (rel \union ref)
    <2>1. IsFiniteSet(free) /\ Cardinality(free) = Cardinality(all) - Cardinality(told)
      BY <1>3, FS_Difference
    <2>2. told \in SUBSET (rel \union ref)
      OBVIOUS
    <2>3. IsFiniteSet(told) /\ Cardinality(told) <= Cardinality(rel \union ref)
      BY <2>2, <1>5, FS_Subset
    <2>4. Cardinality(free) \in Nat /\ Cardinality(told) \in Nat
      BY <2>1, <2>3, FS_CardinalityType
    <2> HIDE DEF told, free, all
    <2> QED
      BY <2>1, <2>3, <2>4, <1>3, <1>4, <1>5
  <1>7. \A a \in free : MayVote(a)
    BY DEF MayVote, HasVoted, rel, ref
  <1>8. \/ Len(arb.votesRelease) + Cardinality(free) >= terms.threshold
        \/ Len(arb.votesRefund) + Cardinality(free) >= terms.threshold
    <2> DEFINE t == terms.threshold
               r == Len(arb.votesRelease)
               f == Len(arb.votesRefund)
               n == Cardinality(all)
               m == Cardinality(free)
    <2>1. t \in Nat /\ r \in Nat /\ f \in Nat /\ n \in Nat /\ m \in Nat
      BY <1>1, <1>3, <1>6
    <2>2. 2 * t <= n + 1
      OBVIOUS
    <2>3. n <= m + r + f
      <3> HIDE DEF all, free
      <3> QED
        BY <1>1, <1>3, <1>4, <1>6
    <2> HIDE DEF t, r, f, n, m
    <2>4. r + m >= t \/ f + m >= t
      BY <2>1, <2>2, <2>3
    <2> QED
      BY <2>4 DEF t, r, f, m
  <1>9. free \in SUBSET terms.arbitrators
    OBVIOUS
  <1> HIDE DEF free, all
  <1>10. CASE Len(arb.votesRelease) + Cardinality(free) >= terms.threshold
    BY <1>2, <1>7, <1>9, <1>10, SideCanDecide DEF Decisions
  <1>11. CASE Len(arb.votesRefund) + Cardinality(free) >= terms.threshold
    BY <1>2, <1>7, <1>9, <1>11, SideCanDecide DEF Decisions
  <1> QED
    BY <1>8, <1>10, <1>11

\* Whoever votes, commits, reveals or misses the deadline, a dispute that no
\* expiry ends can be decided, unless its threshold lets the votes split.
THEOREM LocksExplained == Spec => []LocksOnlyBySplit
  <1>1. TypeOK /\ DisputeRecordMatchesState => LocksOnlyBySplit
    BY StillDecidable
  <1> QED
    BY <1>1, TypeCorrect, DisputeRecordCorrect, PTL

-----------------------------------------------------------------------------
(* What a step may do to the money.                                        *)

\* Every step that moves money is one of these: the deposit, a payment out of
\* what is held, or the return of the whole remainder, which before the
\* expiry only a resolved dispute or an escrow without expiry allows.
Deposits == deposit = 0 /\ balance' \in Nat \ {0} /\ deposit' = balance'
            /\ UNCHANGED <<released, refunded>>
Pays(amt) == PayPayee(amt) /\ deposit' = deposit
Returns   == PayPayer(balance) /\ deposit' = deposit
MoneyStep ==
  \/ Deposits /\ state = "CREATED"
  \/ \E amt \in 1 .. balance :
       Pays(amt) /\ (state = "DISPUTED" => arb'.resolved)
  \/ /\ Returns
     /\ balance > 0 /\ HasExpiry /\ now < terms.expiry
          => arb'.resolved /\ arb'.resolution = "REFUND"
     /\ state = "DISPUTED" => arb'.resolved \/ Expired
  \/ UNCHANGED <<balance, released, refunded, deposit>>

\* A vote moves no money, or the whole balance to the side it decides for.
LEMMA VoteMoneyStep ==
  ASSUME IInv, NEW s \in Address, NEW vote \in Decisions, NEW C,
         state = "DISPUTED", RecordVote(s, vote, C)
  PROVE  MoneyStep
  <1> PICK decision \in {"RELEASE", "REFUND", NONE} :
        /\ Settle(decision)
        /\ decision # NONE => arb'.resolved /\ arb'.resolution = decision
        /\ deposit' = deposit
    <2> DEFINE rel == IF vote = "RELEASE" THEN Append(arb.votesRelease, s)
                                          ELSE arb.votesRelease
               ref == IF vote = "RELEASE" THEN arb.votesRefund
                                          ELSE Append(arb.votesRefund, s)
               d == ThresholdReached(rel, ref)
    <2>1. d \in {"RELEASE", "REFUND", NONE}
      BY DEF ThresholdReached
    <2>2. /\ Settle(d) /\ deposit' = deposit
          /\ arb'.resolved = (arb.resolved \/ d # NONE)
          /\ arb'.resolution = IF d # NONE THEN d ELSE arb.resolution
      BY DEF RecordVote, IInv, TypeOK, Disputes
    <2> HIDE DEF d
    <2> QED
      BY <2>1, <2>2
  <1>1. CASE decision = NONE
    BY <1>1 DEF Settle, MoneyStep, money
  <1>2. CASE decision = "RELEASE"
    <2>1. balance > 0 /\ balance \in 1 .. balance
      BY DEF IInv, TypeOK, CustodyMatchesState
    <2>2. PayPayee(balance)
      BY <1>2, <2>1, Constants DEF Settle
    <2> QED
      BY <1>2, <2>1, <2>2, Constants DEF MoneyStep, Pays
  <1>3. CASE decision = "REFUND"
    <2>1. balance > 0
      BY DEF IInv, TypeOK, CustodyMatchesState
    <2>2. PayPayer(balance)
      BY <1>3, <2>1, Constants DEF Settle, IInv, TypeOK
    <2> QED
      BY <1>3, <2>1, <2>2, Constants DEF MoneyStep, Returns
  <1> QED
    BY <1>1, <1>2, <1>3

\* No step moves money in another way.
LEMMA NextMoneyStep ==
  ASSUME IInv, [Next]_vars
  PROVE  MoneyStep
  <1>1. ASSUME NEW s \in Address, NEW amt \in Amounts, FundEscrow(s, amt)
        PROVE  MoneyStep
    <2>1. amt \in Nat \ {0}
      BY <1>1, Constants DEF FundEscrow
    <2>2. balance = 0 /\ deposit = 0
      BY <1>1 DEF FundEscrow, IInv, TypeOK, CustodyMatchesState, StateHistory, Live
    <2>3. balance' = amt /\ deposit' = amt /\ UNCHANGED <<released, refunded>>
      BY <1>1, <2>1, <2>2 DEF FundEscrow
    <2> QED
      BY <1>1, <2>1, <2>2, <2>3 DEF MoneyStep, Deposits, FundEscrow
  <1>2. ASSUME NEW s \in Address, NEW amt \in Requests, Release(s, amt)
        PROVE  MoneyStep
    <2>1. amt \in 1 .. balance /\ state # "DISPUTED"
      BY <1>2, Constants DEF Release, IInv, TypeOK, Live
    <2> QED
      BY <1>2, <2>1 DEF Release, MoneyStep, Pays
  <1>3. ASSUME NEW s \in Address, ClaimBeforeExpiry(s) PROVE MoneyStep
    <2>1. balance \in 1 .. balance /\ state # "DISPUTED"
      BY <1>3 DEF ClaimBeforeExpiry, IInv, TypeOK, Live
    <2> QED
      BY <1>3, <2>1 DEF ClaimBeforeExpiry, MoneyStep, Pays
  <1>4. ASSUME NEW s \in Address, ReleaseVested(s) PROVE MoneyStep
    <2>1. DueNow \in 1 .. balance /\ state # "DISPUTED"
      BY <1>4 DEF ReleaseVested, Live
    <2> QED
      BY <1>4, <2>1 DEF ReleaseVested, MoneyStep, Pays
  <1>5. ASSUME NEW s \in Address, Refund(s) PROVE MoneyStep
    <2>1. Returns
      BY <1>5 DEF Refund, Returns
    <2>2. balance > 0 /\ HasExpiry /\ now < terms.expiry => FALSE
      <3>1. HasExpiry => terms.expiry \in Nat /\ now \in Nat
        BY DEF HasExpiry, IInv, TypeOK, Terms
      <3>2. balance > 0 => Expired \/ ~HasExpiry
        BY <1>5 DEF Refund, MayRefund, IInv, CustodyMatchesState, Live
      <3> QED
        BY <3>1, <3>2 DEF Expired
    <2>3. state = "DISPUTED" => Expired
      BY <1>5 DEF Refund, MayRefund, Live
    <2> QED
      BY <2>1, <2>2, <2>3 DEF MoneyStep
  <1>6. ASSUME NEW s \in Address, NEW vote \in Decisions,
               VoteOnDispute(s, vote) \/ RevealVote(s, vote)
        PROVE  MoneyStep
    BY <1>6, VoteMoneyStep DEF VoteOnDispute, RevealVote, MayVote, MayReveal
  <1>7. ASSUME NEW s \in Address, Step(s) PROVE MoneyStep
    BY <1>1, <1>2, <1>3, <1>4, <1>5, <1>6, <1>7
    DEF Step, CreateEscrow, AddVesting, CompleteMilestone, RaiseDispute,
        CommitVote, MoneyStep, money
  <1>8. CASE Tick \/ UNCHANGED vars
    BY <1>8 DEF Tick, vars, money, MoneyStep
  <1> QED
    BY <1>7, <1>8, NextIsStep

\* Before its expiry a funded escrow gives money back only by arbitration, so
\* the payer cannot empty it ahead of the payee's claim window.
THEOREM RefundGuarded == Spec => NoRefundBeforeExpiry
  <1>1. IInv /\ [Next]_vars
          => [refunded' > refunded /\ HasExpiry /\ now < terms.expiry
                => arb'.resolved /\ arb'.resolution = "REFUND"]_vars
    <2> SUFFICES ASSUME IInv, [Next]_vars, refunded' > refunded, HasExpiry,
                        now < terms.expiry
                 PROVE  arb'.resolved /\ arb'.resolution = "REFUND"
      OBVIOUS
    <2> QED
      BY NextMoneyStep DEF MoneyStep, Deposits, Pays, Returns, PayPayee, PayPayer,
         IInv, TypeOK
  <1> QED
    BY <1>1, Invariance, PTL DEF Spec, NoRefundBeforeExpiry

\* Nothing but a resolved dispute or the expiry refund moves disputed money.
THEOREM DisputeFreezes == Spec => DisputeFreezesFunds
  <1>1. IInv /\ [Next]_vars
          => [state = "DISPUTED" /\ balance' # balance
                => arb'.resolved \/ (Expired /\ released' = released)]_vars
    <2> SUFFICES ASSUME IInv, [Next]_vars, state = "DISPUTED", balance' # balance
                 PROVE  arb'.resolved \/ (Expired /\ released' = released)
      OBVIOUS
    <2> QED
      BY NextMoneyStep DEF MoneyStep, Deposits, Pays, Returns, PayPayer
  <1> QED
    BY <1>1, Invariance, PTL DEF Spec, DisputeFreezesFunds

\* The escrow implements the abstract custody: every call is a deposit, a
\* payment out of what is held, the return of the whole remainder, or nothing.
THEOREM Implements == Spec => ImplementsCustody
  <1>1. Init => Custody!Init
    BY DEF Init, Custody!Init
  <1>2. IInv /\ [Next]_vars => [Custody!Next]_(Custody!custody)
    <2> SUFFICES ASSUME IInv, [Next]_vars
                 PROVE  Custody!Next \/ UNCHANGED Custody!custody
      OBVIOUS
    <2>1. MoneyStep
      BY NextMoneyStep
    <2>2. CASE Deposits
      BY <2>2 DEF Deposits, Custody!Next, Custody!Deposit
    <2>3. ASSUME NEW amt \in 1 .. balance, Pays(amt)
          PROVE  Custody!Next
      BY <2>3 DEF Pays, PayPayee, Custody!Next, Custody!PayOut
    <2>4. CASE Returns
      BY <2>4 DEF Returns, PayPayer, IInv, TypeOK, Custody!Next, Custody!GiveBack,
         Custody!custody
    <2>5. CASE UNCHANGED <<balance, released, refunded, deposit>>
      BY <2>5 DEF Custody!custody
    <2> QED
      BY <2>1, <2>2, <2>3, <2>4, <2>5 DEF MoneyStep
  <1> QED
    BY <1>1, <1>2, Invariance, PTL DEF Spec, ImplementsCustody, Custody!Spec

-----------------------------------------------------------------------------
(* The schedule.  Sums over the milestones are shown by the least number for *)
(* which a claim fails.                                                      *)

\* A nonempty set of naturals has a least element.
LEMMA Least ==
  ASSUME NEW T \in SUBSET Nat, T # {}
  PROVE  \E x \in T : \A y \in T : x <= y
<1>1. IsWellFoundedOn(OpToRel(<, Nat), Nat)
  BY NatLessThanWellFounded
<1>2. PICK x \in T : \A y \in T : ~(<<y, x>> \in OpToRel(<, Nat))
  BY <1>1, WFMin, Zenon
<1>3. \A y \in T : ~(y < x)
  BY <1>2 DEF OpToRel
<1> QED
  BY <1>3

\* Sums of the first percentages of I, and that there are such sums.
IsSum(f, ms, I) ==
  f = [n \in 0 .. Len(ms) |-> IF n = 0 THEN 0 ELSE f[n - 1] + IF n \in I THEN ms[n].pct ELSE 0]
Milestones == Seq([pct : Nat, done : BOOLEAN])

LEMMA SumIs ==
  ASSUME NEW ms, NEW I
  PROVE  MilestoneBp(ms, I) = (CHOOSE f : IsSum(f, ms, I))[Len(ms)]
BY DEF MilestoneBp, IsSum

Part(ms, I, n) ==
  {f \in [0 .. n -> Nat] :
     \A k \in 0 .. n : f[k] = IF k = 0 THEN 0 ELSE f[k - 1] + IF k \in I THEN ms[k].pct ELSE 0}

LEMMA SumsExist ==
  ASSUME NEW ms \in Milestones, NEW I
  PROVE  \A n \in 0 .. Len(ms) : Part(ms, I, n) # {}
<1> DEFINE T == {n \in 0 .. Len(ms) : Part(ms, I, n) = {}}
<1>0. Len(ms) \in Nat /\ \A k \in 1 .. Len(ms) : ms[k].pct \in Nat
  <2>1. \A k \in 1 .. Len(ms) : ms[k] \in [pct : Nat, done : BOOLEAN]
    BY ElementOfSeq DEF Milestones
  <2> QED
    BY <2>1 DEF Milestones
<1>1. SUFFICES ASSUME T # {} PROVE FALSE
  OBVIOUS
<1>2. PICK n \in T : \A m \in T : n <= m
  <2>1. T \in SUBSET Nat
    OBVIOUS
  <2> HIDE DEF T
  <2> QED
    BY <1>1, <2>1, Least
<1>3. n \in 0 .. Len(ms) /\ Part(ms, I, n) = {}
  BY <1>2
<1>4. CASE n = 0
  <2> DEFINE f == [k \in 0 .. 0 |-> 0]
  <2>1. f \in Part(ms, I, 0)
    BY DEF Part
  <2> QED
    BY <1>3, <1>4, <2>1
<1>5. CASE n # 0
  <2>1. n - 1 \in 0 .. Len(ms) /\ n - 1 \notin T
    BY <1>0, <1>2, <1>3, <1>5
  <2>2. PICK f : f \in Part(ms, I, n - 1)
    BY <2>1
  <2> DEFINE p == IF n \in I THEN ms[n].pct ELSE 0
             g == [k \in 0 .. n |-> IF k = n THEN f[n - 1] + p ELSE f[k]]
  <2>3. p \in Nat
    BY <1>0, <1>3, <1>5
  <2>4. f \in [0 .. n - 1 -> Nat] /\ n \in Nat \ {0}
    BY <1>0, <1>3, <1>5, <2>2 DEF Part
  <2>5. g \in [0 .. n -> Nat]
    <3> HIDE DEF p
    <3> QED
      BY <2>3, <2>4
  <2>6. ASSUME NEW k \in 0 .. n
        PROVE  g[k] = IF k = 0 THEN 0 ELSE g[k - 1] + IF k \in I THEN ms[k].pct ELSE 0
    <3>1. CASE k = n
      <4>1. g[n] = f[n - 1] + p /\ g[n - 1] = f[n - 1]
        BY <2>4
      <4> QED
        BY <2>4, <3>1, <4>1
    <3>2. CASE k # n
      <4>1. k \in 0 .. n - 1 /\ g[k] = f[k] /\ (k # 0 => g[k - 1] = f[k - 1])
        BY <2>4, <3>2
      <4> QED
        BY <2>2, <4>1 DEF Part
    <3> QED
      BY <3>1, <3>2
  <2> HIDE DEF g
  <2>7. g \in Part(ms, I, n)
    BY <2>5, <2>6 DEF Part
  <2> QED
    BY <1>3, <2>7
<1> QED
  BY <1>4, <1>5

\* So the sum is one of them.
LEMMA SumInPart ==
  ASSUME NEW ms \in Milestones, NEW I
  PROVE  \E f \in Part(ms, I, Len(ms)) : MilestoneBp(ms, I) = f[Len(ms)]
<1> DEFINE L == Len(ms)
           s == CHOOSE f : IsSum(f, ms, I)
<1>1. L \in Nat
  BY DEF Milestones
<1>2. PICK f : f \in Part(ms, I, L)
  BY <1>1, SumsExist
<1>3. IsSum(f, ms, I)
  BY <1>2 DEF Part, IsSum
<1>4. IsSum(s, ms, I)
  BY <1>3
<1> HIDE DEF s
<1>5. s = [n \in 0 .. L |-> IF n = 0 THEN 0 ELSE s[n - 1] + IF n \in I THEN ms[n].pct ELSE 0]
  BY <1>4 DEF IsSum
<1>6. \A k \in 0 .. L : s[k] = f[k]
  <2> DEFINE T == {k \in 0 .. L : s[k] # f[k]}
  <2>1. SUFFICES ASSUME T # {} PROVE FALSE
    OBVIOUS
  <2>2. PICK n \in T : \A m \in T : n <= m
    <3>1. T \in SUBSET Nat
      OBVIOUS
    <3> HIDE DEF T
    <3> QED
      BY <2>1, <3>1, Least
  <2>3. n # 0 => s[n - 1] = f[n - 1]
    BY <1>1, <2>2
  <2>4. s[n] = IF n = 0 THEN 0 ELSE s[n - 1] + IF n \in I THEN ms[n].pct ELSE 0
    BY <1>5, <2>2
  <2>5. f[n] = IF n = 0 THEN 0 ELSE f[n - 1] + IF n \in I THEN ms[n].pct ELSE 0
    BY <1>2, <2>2 DEF Part
  <2> QED
    BY <2>2, <2>3, <2>4, <2>5
<1>7. MilestoneBp(ms, I) = s[L]
  BY SumIs DEF s
<1> QED
  BY <1>1, <1>2, <1>6, <1>7

\* More of the percentages make no smaller sum.
LEMMA SumsGrow ==
  ASSUME NEW ms \in Milestones, NEW ns \in Milestones, NEW I, NEW J, I \subseteq J,
         Len(ns) = Len(ms), \A k \in 1 .. Len(ms) : ns[k].pct = ms[k].pct
  PROVE  /\ MilestoneBp(ms, I) \in Nat /\ MilestoneBp(ns, J) \in Nat
         /\ MilestoneBp(ms, I) <= MilestoneBp(ns, J)
<1> DEFINE L == Len(ms)
<1>1. L \in Nat /\ \A k \in 1 .. L : ms[k].pct \in Nat
  <2>1. \A k \in 1 .. Len(ms) : ms[k] \in [pct : Nat, done : BOOLEAN]
    BY ElementOfSeq DEF Milestones
  <2> QED
    BY <2>1 DEF Milestones
<1>2. PICK f \in Part(ms, I, L) : MilestoneBp(ms, I) = f[L]
  BY SumInPart
<1>3. PICK g \in Part(ns, J, L) : MilestoneBp(ns, J) = g[L]
  BY SumInPart
<1>4. f \in [0 .. L -> Nat] /\ g \in [0 .. L -> Nat]
  BY <1>2, <1>3 DEF Part
<1>5. \A k \in 0 .. L : f[k] <= g[k]
  <2> DEFINE T == {k \in 0 .. L : ~(f[k] <= g[k])}
  <2>1. SUFFICES ASSUME T # {} PROVE FALSE
    OBVIOUS
  <2>2. PICK n \in T : \A m \in T : n <= m
    <3>1. T \in SUBSET Nat
      OBVIOUS
    <3> HIDE DEF T
    <3> QED
      BY <2>1, <3>1, Least
  <2>3. n # 0 => f[n - 1] <= g[n - 1]
    BY <1>1, <2>2
  <2>4. f[n] = IF n = 0 THEN 0 ELSE f[n - 1] + IF n \in I THEN ms[n].pct ELSE 0
    BY <1>2, <2>2 DEF Part
  <2>5. g[n] = IF n = 0 THEN 0 ELSE g[n - 1] + IF n \in J THEN ns[n].pct ELSE 0
    BY <1>3, <2>2 DEF Part
  <2>6. n \in 0 .. L /\ ~(f[n] <= g[n])
    BY <2>2
  <2>7. n # 0
    BY <1>4, <2>4, <2>5, <2>6
  <2>8. n \in 1 .. L /\ n - 1 \in 0 .. L
    BY <1>1, <2>6, <2>7
  <2>9. f[n - 1] \in Nat /\ g[n - 1] \in Nat
    BY <1>4, <2>8
  <2>10. ms[n].pct \in Nat /\ ns[n].pct = ms[n].pct
    BY <1>1, <2>8
  <2> HIDE DEF T, L
  <2> QED
    BY <2>3, <2>4, <2>5, <2>6, <2>7, <2>9, <2>10
<1> QED
  BY <1>1, <1>2, <1>3, <1>4, <1>5

-----------------------------------------------------------------------------
\* Floor division and products grow with what is divided and multiplied.
LEMMA Grow ==
  ASSUME NEW a \in Nat, NEW b \in Nat, a <= b, NEW c \in Nat
  PROVE  a * c \in Nat /\ b * c \in Nat /\ a * c <= b * c
<1>1. PICK k \in Nat : b = a + k
  <2>1. b - a \in Nat /\ b = a + (b - a)
    OBVIOUS
  <2> QED
    BY <2>1
<1>2. k * c \in Nat /\ a * c \in Nat
  OBVIOUS
<1>3. b * c = a * c + k * c
  BY <1>1
<1> QED
  BY <1>2, <1>3

LEMMA Divide ==
  ASSUME NEW a \in Nat, NEW b \in Nat, a <= b, NEW d \in Nat \ {0}
  PROVE  a \div d \in Nat /\ b \div d \in Nat /\ a \div d <= b \div d
<1> DEFINE q == a \div d
           r == b \div d
<1>1. q \in Nat /\ r \in Nat
  OBVIOUS
<1>2. d * q <= a /\ b < d * r + d
  OBVIOUS
<1> HIDE DEF q, r
<1>3. ASSUME r + 1 <= q PROVE FALSE
  <2>1. (r + 1) * d <= q * d
    BY <1>1, <1>3, Grow
  <2>2. (r + 1) * d = d * r + d /\ q * d = d * q
    BY <1>1
  <2> QED
    BY <1>1, <1>2, <2>1, <2>2
<1> QED
  BY <1>1, <1>3 DEF q, r

LEMMA Whole ==
  ASSUME NEW a \in Nat, NEW e \in Nat, NEW d \in Nat \ {0}, e < d
  PROVE  (a * e) \div d <= a
<1>1. a * e \in Nat /\ a * d \in Nat /\ a * e <= a * d
  <2>1. e * a \in Nat /\ d * a \in Nat /\ e * a <= d * a
    BY Grow
  <2> QED
    BY <2>1
<1>2. (a * d) \div d = a
  OBVIOUS
<1> QED
  BY <1>1, <1>2, Divide

\* What has vested grows with time and with every milestone completed.
LEMMA VestedGrows ==
  ASSUME NEW s \in Schedules, NEW total \in Nat, NEW t \in Nat, NEW u \in Nat, t <= u
  PROVE  /\ Vested(s, total, t) \in Nat /\ Vested(s, total, u) \in Nat
         /\ Vested(s, total, t) <= Vested(s, total, u)
<1> DEFINE e == Elapsed(s, t)
           f == Elapsed(s, u)
           d == s.duration
<1>1. e \in Nat /\ f \in Nat /\ e <= f /\ d \in Nat /\ s.cliff \in Nat
  BY DEF Elapsed, Schedules
<1> HIDE DEF e, f, d
<1>2. ASSUME NEW x \in Nat
      PROVE  LinearVested(total, x, d) \in Nat /\ LinearVested(total, x, d) <= total
  <2>1. CASE x >= d
    BY <2>1 DEF LinearVested
  <2>2. CASE x < d
    <3>1. d \in Nat \ {0} /\ x * total \in Nat /\ total * x = x * total
      BY <1>1, <2>2, Grow
    <3>2. (total * x) \div d \in Nat
      BY <3>1, Divide
    <3> QED
      BY <1>1, <2>2, <3>1, <3>2, Whole DEF LinearVested
  <2> QED
    BY <1>1, <2>1, <2>2
<1>3. LinearVested(total, e, d) <= LinearVested(total, f, d)
  <2>1. CASE f >= d
    <3>1. LinearVested(total, f, d) = total
      BY <2>1 DEF LinearVested
    <3> QED
      BY <1>1, <1>2, <3>1
  <2>2. CASE f < d
    <3>1. d \in Nat \ {0} /\ e < d
      BY <1>1, <2>2
    <3>2. e * total \in Nat /\ f * total \in Nat /\ e * total <= f * total
      BY <1>1, Grow
    <3>3. total * e = e * total /\ total * f = f * total
      BY <1>1
    <3>4. (total * e) \div d <= (total * f) \div d
      BY <3>1, <3>2, <3>3, Divide
    <3> QED
      BY <1>1, <2>2, <3>1, <3>4 DEF LinearVested
  <2> QED
    BY <1>1, <2>1, <2>2
<1>4. CASE s.kind = "LINEAR"
  <2>1. /\ Vested(s, total, t) = IF e < s.cliff THEN 0 ELSE LinearVested(total, e, d)
        /\ Vested(s, total, u) = IF f < s.cliff THEN 0 ELSE LinearVested(total, f, d)
    BY <1>4 DEF Vested, e, f, d
  <2>2. /\ LinearVested(total, e, d) \in Nat /\ LinearVested(total, f, d) \in Nat
    BY <1>1, <1>2
  <2> HIDE DEF LinearVested
  <2> QED
    BY <1>1, <1>3, <2>1, <2>2
<1>5. CASE s.kind # "LINEAR"
  <2> DEFINE c == CompletedBp(s.milestones)
  <2>1. c \in Nat
    BY SumsGrow DEF CompletedBp, Schedules, Milestones
  <2>2. Vested(s, total, t) = (total * c) \div BasisPointsTotal
    BY <1>5 DEF Vested
  <2>3. Vested(s, total, u) = (total * c) \div BasisPointsTotal
    BY <1>5 DEF Vested
  <2> HIDE DEF c
  <2>4. total * c \in Nat
    BY <2>1, Grow
  <2>5. (total * c) \div BasisPointsTotal \in Nat
    BY <2>4, Divide DEF BasisPointsTotal
  <2> QED
    BY <2>2, <2>3, <2>5
<1> QED
  BY <1>4, <1>5

LEMMA MilestoneVests ==
  ASSUME NEW s \in Schedules, NEW total \in Nat, NEW t \in Nat, NEW i \in DOMAIN s.milestones,
         NEW z \in Schedules, z = [s EXCEPT !.milestones[i].done = TRUE]
  PROVE  Vested(s, total, t) <= Vested(z, total, t)
<1> DEFINE ms == s.milestones
           ns == z.milestones
<1>1. ms \in Milestones /\ ns \in Milestones
  BY DEF Schedules, Milestones
<1>2. i \in 1 .. Len(ms) /\ ms[i] \in [pct : Nat, done : BOOLEAN]
  BY <1>1, ElementOfSeq, LenProperties DEF Milestones
<1>3. ns = [ms EXCEPT ![i] = [ms[i] EXCEPT !.done = TRUE]]
  BY DEF Schedules
<1>4. /\ z.kind = s.kind /\ z.cliff = s.cliff /\ z.duration = s.duration /\ z.start = s.start
  BY DEF Schedules
<1>5. Len(ns) = Len(ms) /\ DOMAIN ns = DOMAIN ms
  BY <1>1, <1>3, LenProperties DEF Milestones
<1>6. \A k \in DOMAIN ms : ns[k] = IF k = i THEN [ms[i] EXCEPT !.done = TRUE] ELSE ms[k]
  BY <1>3
<1>7. [ms[i] EXCEPT !.done = TRUE].pct = ms[i].pct /\ [ms[i] EXCEPT !.done = TRUE].done = TRUE
  BY <1>2
<1>8. \A k \in 1 .. Len(ms) : ns[k].pct = ms[k].pct
  BY <1>1, <1>6, <1>7, LenProperties DEF Milestones
<1>9. {k \in DOMAIN ms : ms[k].done} \subseteq {k \in DOMAIN ns : ns[k].done}
  BY <1>5, <1>6, <1>7
<1> HIDE DEF ms, ns
<1>10. /\ CompletedBp(ms) \in Nat /\ CompletedBp(ns) \in Nat
       /\ CompletedBp(ms) <= CompletedBp(ns)
  BY <1>1, <1>5, <1>8, <1>9, SumsGrow DEF CompletedBp
<1>11. CASE s.kind = "LINEAR"
  <2>1. Vested(z, total, t) = Vested(s, total, t)
    BY <1>4, <1>11 DEF Vested, Elapsed
  <2> QED
    BY <2>1, VestedGrows
<1>12. CASE s.kind # "LINEAR"
  <2> DEFINE c == CompletedBp(ms)
             f == CompletedBp(ns)
  <2>1. Vested(s, total, t) = (total * c) \div BasisPointsTotal
    BY <1>12 DEF Vested, ms
  <2>2. Vested(z, total, t) = (total * f) \div BasisPointsTotal
    BY <1>4, <1>12 DEF Vested, ns
  <2>3. c \in Nat /\ f \in Nat /\ c <= f
    BY <1>10
  <2> HIDE DEF c, f
  <2>4. c * total \in Nat /\ f * total \in Nat /\ c * total <= f * total
    BY <2>3, Grow
  <2>5. total * c = c * total /\ total * f = f * total
    BY <2>3
  <2> QED
    BY <2>1, <2>2, <2>4, <2>5, Divide DEF BasisPointsTotal
<1> QED
  BY <1>11, <1>12

\* A live escrow has paid no more than plain releases and its schedule allow.
Ahead == state \in Live =>
  released <= direct + (IF HasVesting THEN Vested(schedule, deposit, now) ELSE 0)

LEMMA VestedIsNat ==
  ASSUME TypeOK
  PROVE  Vested(schedule, deposit, now) \in Nat
BY VestedGrows DEF TypeOK

\* Steps other than a payment, the clock and the schedule's leave it alone.
LEMMA AheadStays ==
  ASSUME Ahead, UNCHANGED <<now, schedule, deposit, direct, released>>, state' \in Live => state \in Live
  PROVE  Ahead'
BY DEF Ahead, HasVesting, Live

LEMMA AheadStep ==
  ASSUME IInv, IInv', Ahead, NEW s \in Address, Step(s)
  PROVE  Ahead'
<1> DEFINE V == Vested(schedule, deposit, now)
<1>1. TypeOK /\ TypeOK' /\ V \in Nat /\ V' \in Nat
  <2>1. TypeOK /\ TypeOK'
    BY DEF IInv
  <2>2. V \in Nat
    BY <2>1, VestedIsNat
  <2>3. V' \in Nat
    BY <2>1, VestedGrows DEF TypeOK
  <2> QED
    BY <2>1, <2>2, <2>3
<1>2. /\ released \in Nat /\ direct \in Nat /\ balance \in Nat /\ deposit \in Nat
      /\ released' \in Nat /\ direct' \in Nat
  BY <1>1 DEF TypeOK
<1> HIDE DEF V
<1>3. ASSUME NEW payee \in Address, NEW arbs \in SUBSET Address,
             NEW th \in 0 .. MaxThreshold, NEW exp \in Expiries \union {NONE},
             CreateEscrow(s, payee, arbs, th, exp)
      PROVE  Ahead'
  BY <1>3 DEF CreateEscrow, Ahead, Live
<1>4. ASSUME NEW amt \in Amounts, FundEscrow(s, amt) PROVE Ahead'
  <2>1. deposit = 0 /\ released = 0 /\ released' = released
    BY <1>2, <1>4 DEF FundEscrow, IInv, TypeOK, StateHistory, AccountingIdentity
  <2>2. released' = 0 /\ direct' \in Nat /\ V' \in Nat
    BY <1>1, <1>2, <2>1
  <2>3. released' <= direct' + (IF HasVesting' THEN V' ELSE 0)
    <3>1. released' = 0 /\ direct' \in Nat
      BY <2>2
    <3>2. \A d, v \in Nat : 0 <= d + v /\ 0 <= d + 0
      OBVIOUS
    <3>3. released' <= direct' + V' /\ released' <= direct' + 0
      BY <2>2, <3>1, <3>2, Zenon
    <3> QED
      BY <3>3
  <2> QED
    BY <2>3 DEF Ahead, V
<1>5. ASSUME NEW amt \in Requests, Release(s, amt) PROVE Ahead'
  <2>1. amt \in Nat
    BY Constants
  <2>2. /\ released' = released + amt /\ direct' = direct + amt
        /\ UNCHANGED <<now, schedule, deposit>>
    BY <1>5 DEF Release, PayPayee
  <2>3. released <= direct + (IF HasVesting THEN V ELSE 0)
    BY <1>5 DEF Release, Ahead, V
  <2>4. V' = V /\ HasVesting' = HasVesting
    BY <2>2 DEF V, HasVesting
  <2>5. released' <= direct' + (IF HasVesting THEN V ELSE 0)
    BY <1>1, <1>2, <2>1, <2>2, <2>3
  <2> QED
    BY <2>4, <2>5 DEF Ahead, V
<1>6. CASE ClaimBeforeExpiry(s)
  BY <1>6 DEF ClaimBeforeExpiry, Ahead, Live
<1>7. CASE Refund(s)
  BY <1>7 DEF Refund, Ahead, Live
<1>8. ASSUME NEW offer \in Offers, AddVesting(s, offer) PROVE Ahead'
  <2>1. released <= direct /\ released' = released /\ direct' = direct
    BY <1>2, <1>8 DEF AddVesting, Ahead, Live, money
  <2> QED
    BY <1>1, <1>2, <2>1 DEF Ahead, V
<1>9. CASE ReleaseVested(s)
  <2>1. refunded = 0 /\ deposit = balance + released
    BY <1>2, <1>9 DEF ReleaseVested, IInv, TypeOK, StateHistory, AccountingIdentity
  <2>2. TotalFunded = deposit
    BY <2>1 DEF TotalFunded
  <2>3. DueNow = V - released
    BY <2>2 DEF DueNow, V
  <2>4. /\ released' = released + DueNow
        /\ UNCHANGED <<now, schedule, deposit, direct>> /\ HasVesting
    BY <1>9 DEF ReleaseVested, PayPayee
  <2>5. released' = V /\ V' = V /\ HasVesting'
    BY <1>1, <1>2, <2>3, <2>4 DEF V, HasVesting
  <2> QED
    BY <1>1, <1>2, <2>4, <2>5 DEF Ahead, V
<1>10. ASSUME NEW i \in DOMAIN schedule.milestones, CompleteMilestone(s, i) PROVE Ahead'
  <2>1. /\ schedule' = [schedule EXCEPT !.milestones[i].done = TRUE]
        /\ UNCHANGED <<now, deposit, direct, released>> /\ state' = state /\ HasVesting
    BY <1>10 DEF CompleteMilestone, money
  <2>2. Vested(schedule, deposit, now) <= Vested(schedule', deposit, now)
    BY <1>1, <2>1, MilestoneVests DEF TypeOK
  <2>3. V <= V'
    BY <2>1, <2>2 DEF V
  <2>4. HasVesting'
    BY <1>1, <2>1 DEF HasVesting, TypeOK, Schedules
  <2>5. state' \in Live => released <= direct + V
    BY <2>1 DEF Ahead, V
  <2>6. state' \in Live => released' <= direct' + V'
    BY <1>1, <1>2, <2>1, <2>3, <2>5
  <2> QED
    BY <2>4, <2>6 DEF Ahead, V
<1>11. CASE RaiseDispute(s)
  BY <1>11 DEF RaiseDispute, Ahead, Live
<1>12. ASSUME NEW vote \in Decisions, NEW C, state = "DISPUTED", RecordVote(s, vote, C) PROVE Ahead'
  <2>1. state' \in {"DISPUTED", "COMPLETED", "REFUNDED"}
    BY <1>12 DEF RecordVote, Settle
  <2> QED
    BY <2>1 DEF Ahead, Live
<1>13. ASSUME NEW vote \in Decisions, NEW d \in Deadlines, CommitVote(s, vote, d) PROVE Ahead'
  BY <1>13, AheadStays DEF CommitVote, money
<1> QED
  BY <1>3, <1>4, <1>5, <1>6, <1>7, <1>8, <1>9, <1>10, <1>11, <1>12, <1>13
  DEF Step, VoteOnDispute, RevealVote, MayVote, MayReveal

LEMMA AheadTick ==
  ASSUME TypeOK, Ahead, Tick
  PROVE  Ahead'
<1> DEFINE V == Vested(schedule, deposit, now)
<1>1. /\ now' = now + 1 /\ now \in Nat /\ now' \in Nat
      /\ UNCHANGED <<schedule, deposit, direct, released, state>>
  BY DEF Tick, TypeOK, money
<1>2. Vested(schedule, deposit, now) \in Nat /\ Vested(schedule, deposit, now') \in Nat
      /\ Vested(schedule, deposit, now) <= Vested(schedule, deposit, now')
  BY <1>1, VestedGrows DEF TypeOK
<1>3. V \in Nat /\ V' \in Nat /\ V <= V'
  BY <1>1, <1>2
<1> HIDE DEF V
<1>4. released \in Nat /\ direct \in Nat /\ HasVesting' = HasVesting
  BY <1>1 DEF TypeOK, HasVesting
<1>5. state \in Live => released <= direct + (IF HasVesting THEN V ELSE 0)
  BY DEF Ahead, V
<1>6. ASSUME state' \in Live
      PROVE  released' <= direct' + (IF HasVesting' THEN V' ELSE 0)
  <2>1. /\ state \in Live /\ released' = released /\ direct' = direct
    BY <1>1, <1>6
  <2>2. CASE HasVesting
    <3>1. released <= direct + V /\ released \in Nat /\ direct \in Nat
      BY <1>4, <1>5, <2>1, <2>2
    <3>2. \A u, v \in Nat : released <= direct + u /\ u <= v => released <= direct + v
      BY <3>1
    <3>3. HasVesting'
      BY <1>4, <2>2
    <3>4. released' <= direct' + V'
      BY <1>3, <2>1, <3>1, <3>2
    <3> QED
      BY <3>3, <3>4
  <2>3. CASE ~HasVesting
    <3>1. ~HasVesting' /\ released <= direct + 0
      BY <1>4, <1>5, <2>1, <2>3
    <3>2. released' <= direct' + 0
      BY <1>4, <2>1, <3>1
    <3> QED
      BY <3>1, <3>2
  <2> QED
    BY <2>2, <2>3
<1> QED
  BY <1>6 DEF Ahead, V

(* However plain releases, vested releases and completed milestones mix, for any *)
(* schedule and any number of milestones, no vested release pays ahead of the    *)
(* schedule.                                                                     *)
THEOREM VestingOnTime == Spec => []VestedNeverAhead
<1>1. Init => Ahead
  BY DEF Init, Ahead, Live
<1>2. IInv /\ IInv' /\ Ahead /\ [Next]_vars => Ahead'
  <2> SUFFICES ASSUME IInv, IInv', Ahead, [Next]_vars PROVE Ahead'
    OBVIOUS
  <2>1. ASSUME NEW s \in Address, Step(s) PROVE Ahead'
    BY <2>1, AheadStep
  <2>2. CASE Tick
    BY <2>2, AheadTick DEF IInv
  <2>3. CASE UNCHANGED vars
    BY <2>3, AheadStays DEF vars, money
  <2> QED
    BY <2>1, <2>2, <2>3, NextIsStep
<1>3. Ahead => VestedNeverAhead
  BY DEF Ahead, VestedNeverAhead
<1> QED
  BY <1>1, <1>2, <1>3, Invariance, PTL DEF Spec

(* A vested release that finds everything vested empties the escrow and completes *)
(* it: floor division and earlier payments leave no coin behind.                  *)
THEOREM NoDustRemains == Spec => FullyVestedPaysAll
<1>1. ASSUME IInv, NEW s \in Address, ReleaseVested(s), Vested(schedule, deposit, now) = deposit
      PROVE  balance' = 0 /\ state' = "COMPLETED"
  <2>1. /\ balance \in Nat /\ released \in Nat /\ deposit = balance + released
    BY <1>1 DEF ReleaseVested, IInv, TypeOK, StateHistory, AccountingIdentity
  <2>2. DueNow = balance
    BY <1>1, <2>1 DEF DueNow, TotalFunded
  <2>3. balance' = 0
    BY <1>1, <2>1, <2>2 DEF ReleaseVested, PayPayee
  <2> QED
    BY <1>1, <2>3 DEF ReleaseVested, AfterRelease
<1>2. IInv => [(\E s \in Address : ReleaseVested(s)) /\ Vested(schedule, deposit, now) = deposit
                 => balance' = 0 /\ state' = "COMPLETED"]_vars
  BY <1>1
<1> QED
  BY <1>2, Invariance, PTL DEF FullyVestedPaysAll
=============================================================================
