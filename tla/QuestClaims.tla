----------------------------- MODULE QuestClaims -----------------------------
(***************************************************************************)
(* One quest and one profile in the BFF: claimStep of                      *)
(* quest-verification.service.ts, approveSubmission and completeQuest of   *)
(* quest.service.ts.  Each await is a point where other handlers run.      *)
(* Profiles do not share rows, and the steps of a quest never change.      *)
(***************************************************************************)
EXTENDS Integers, FiniteSets

CONSTANTS
  QuestStep,   \* the steps of the quest
  Claimer,     \* handlers that may be running at one time
  MaxClaims,   \* bound: claims and reviews
  MaxClaimFaults  \* bound: handlers cut off by a restart or a failed query

ASSUME QuestAssumption ==
  IsFiniteSet(QuestStep) /\ QuestStep # {} /\ MaxClaims \in Nat /\ MaxClaimFaults \in Nat

VARIABLES
  done,      \* the quest_step_completions rows of the profile
  row,       \* how often the row of a step has been created, its identity
  complete,  \* the quest_completions row exists
  announced, \* how often quest.completed was announced
  claim,     \* what each handler does next
  calls, claimFaults,
  repeated   \* history: a review, or two claims past their check at one time

questVars == <<done, row, complete, announced, claim, calls, claimFaults, repeated>>

Ready   == [at |-> "idle"]
At(at, s) == [at |-> at, step |-> s]
Counting  == {"count", "upsert", "emit"}

QuestInit ==
  /\ done = {} /\ row = [s \in QuestStep |-> 0] /\ complete = FALSE /\ announced = 0
  /\ claim = [c \in Claimer |-> Ready]
  /\ calls = 0 /\ claimFaults = 0 /\ repeated = FALSE

Call(c) == claim[c] = Ready /\ calls < MaxClaims /\ calls' = calls + 1
Goto(c, next) == claim' = [claim EXCEPT ![c] = next]

\* Slip: a step that is done is counted again instead of answered.
StartClaimAgain(c, s) ==
  /\ Call(c)
  /\ Goto(c, IF s \in done THEN At("count", s) ELSE At("verify", s))
  /\ repeated' = (repeated \/ \E d \in Claimer : claim[d] # Ready)
  /\ UNCHANGED <<done, row, complete, announced, claimFaults>>

\* The look-up of an existing completion.
StartClaim(c, s) ==
  /\ Call(c)
  /\ IF s \in done THEN UNCHANGED claim ELSE Goto(c, At("verify", s))
  /\ repeated' = (repeated \/ \E d \in Claimer : claim[d] # Ready)
  /\ UNCHANGED <<done, row, complete, announced, claimFaults>>

\* The verifier's answer; that of a MANUAL step is always no.
Verify(c) ==
  /\ claim[c].at = "verify"
  /\ \/ Goto(c, Ready)
     \/ Goto(c, At("create", claim[c].step))
  /\ UNCHANGED <<done, row, complete, announced, calls, claimFaults, repeated>>

\* The row is unique for step and profile: the second create is an exception.
CreateRow(c) ==
  /\ claim[c].at = "create"
  /\ IF claim[c].step \in done
     THEN Goto(c, Ready) /\ UNCHANGED <<done, row>>
     ELSE /\ done' = done \cup {claim[c].step}
          /\ row' = [row EXCEPT ![claim[c].step] = @ + 1]
          /\ Goto(c, At("count", claim[c].step))
  /\ UNCHANGED <<complete, announced, calls, claimFaults, repeated>>

\* Slips: one step may be missing; one too many is asked for.
EnoughButOne(n) == n + 1 >= Cardinality(QuestStep)
EnoughAndOne(n) == n > Cardinality(QuestStep)
Enough(n) == n >= Cardinality(QuestStep)

CountRows(c) ==
  /\ claim[c].at = "count"
  /\ Goto(c, IF Enough(Cardinality(done)) THEN At("upsert", claim[c].step) ELSE Ready)
  /\ UNCHANGED <<done, row, complete, announced, calls, claimFaults, repeated>>

\* completeQuest: the upsert, and after its await the event.
Upsert(c) ==
  /\ claim[c].at = "upsert"
  /\ complete' = TRUE
  /\ Goto(c, At("emit", claim[c].step))
  /\ UNCHANGED <<done, row, announced, calls, claimFaults, repeated>>

AnnounceCompletion(c) ==
  /\ claim[c].at = "emit"
  /\ announced' = announced + 1
  /\ Goto(c, Ready)
  /\ UNCHANGED <<done, row, complete, calls, claimFaults, repeated>>

\* approveSubmission takes the id of any completion, also of a verified one.
StartReview(c, s) ==
  /\ Call(c) /\ s \in done
  /\ \/ Goto(c, At("count", s))
     \/ Goto(c, [at |-> "delete", step |-> s, row |-> row[s]])
  /\ repeated' = TRUE
  /\ UNCHANGED <<done, row, complete, announced, claimFaults>>

\* Deleting a row that has gone is an exception.
DeleteRow(c) ==
  /\ claim[c].at = "delete"
  /\ done' = IF claim[c].row = row[claim[c].step] THEN done \ {claim[c].step} ELSE done
  /\ Goto(c, Ready)
  /\ UNCHANGED <<row, complete, announced, calls, claimFaults, repeated>>

QuestFault(c) ==
  /\ claim[c] # Ready /\ claimFaults < MaxClaimFaults
  /\ claimFaults' = claimFaults + 1
  /\ Goto(c, Ready)
  /\ UNCHANGED <<done, row, complete, announced, calls, repeated>>

ClaimRuns(c) == Verify(c) \/ CreateRow(c) \/ CountRows(c) \/ Upsert(c) \/ AnnounceCompletion(c) \/ DeleteRow(c)

QuestNext ==
  \E c \in Claimer :
    \/ \E s \in QuestStep : StartClaim(c, s) \/ StartReview(c, s)
    \/ ClaimRuns(c)
    \/ QuestFault(c)

\* The event loop resumes a handler whose query has been answered.
QuestFairness == \A c \in Claimer : WF_questVars(ClaimRuns(c))
QuestSpec == QuestInit /\ [][QuestNext]_questVars /\ QuestFairness

----------------------------------------------------------------------------
\* Rows, handlers and counters have their types.
QuestTypeOK ==
  /\ done \subseteq QuestStep /\ row \in [QuestStep -> Nat]
  /\ complete \in BOOLEAN /\ announced \in 0..MaxClaims
  /\ \A c \in Claimer : claim[c].at \in Counting \cup {"idle", "verify", "create", "delete"}
  /\ calls \in 0..MaxClaims /\ claimFaults \in 0..MaxClaimFaults /\ repeated \in BOOLEAN

\* A quest is completed only after every one of its steps has had its row: no
\* overlap of claims, reviews and claimFaults completes it early.
CompletionIsEarned == complete => \A s \in QuestStep : row[s] > 0

\* Whoever completes the last step completes the quest: of two claims that end
\* at the same time at least one counts both rows.
StepsRewarded == done = QuestStep /\ claimFaults = 0 => complete
AllStepsComplete == []<>StepsRewarded

\* One completion rewards once, unless claims overlap or a submission is
\* reviewed: the upsert is idempotent and the event after it is not.
OneRewardAlone ==
  ~repeated => announced + Cardinality({c \in Claimer : claim[c].at \in {"upsert", "emit"}}) =< 1

\* A quest is completed for its steps, and rewarded once without overlaps.
QuestSafety == CompletionIsEarned /\ OneRewardAlone
=============================================================================
