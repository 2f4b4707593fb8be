---------------------------- MODULE ServiceProofs ----------------------------
(***************************************************************************)
(* The safety properties of the services of the BFF that keep to their own *)
(* rows, for any number of handlers, profiles, steps, targets and failures.*)
(***************************************************************************)
EXTENDS WebhookDelivery, QuestClaims, BroadcastSend, GdprDeletion, SegmentFeeds, VaultSecrets,
        FiniteSetTheorems, SequenceTheorems, TLAPS

-----------------------------------------------------------------------------
(* Counting.                                                               *)

LEMMA NoMoreThan ==
  ASSUME NEW A, IsFiniteSet(A), NEW S, S \subseteq A
  PROVE  /\ IsFiniteSet(S) /\ Cardinality(S) \in Nat /\ Cardinality(A) \in Nat
         /\ Cardinality(S) =< Cardinality(A)
BY FS_Subset, FS_CardinalityType

LEMMA OneMoreAtMost ==
  ASSUME NEW A, IsFiniteSet(A), NEW c, NEW S, S \subseteq A \cup {c}
  PROVE  /\ IsFiniteSet(S) /\ Cardinality(S) \in Nat /\ Cardinality(A) \in Nat
         /\ Cardinality(S) =< Cardinality(A) + 1
<1>1. /\ IsFiniteSet(A \cup {c})
      /\ Cardinality(A \cup {c}) = Cardinality(A) \/ Cardinality(A \cup {c}) = Cardinality(A) + 1
  BY FS_AddElement
<1>2. Cardinality(A) \in Nat
  BY FS_CardinalityType
<1>3. /\ IsFiniteSet(S) /\ Cardinality(S) \in Nat /\ Cardinality(A \cup {c}) \in Nat
      /\ Cardinality(S) =< Cardinality(A \cup {c})
  BY <1>1, NoMoreThan
<1> QED BY <1>1, <1>2, <1>3

-----------------------------------------------------------------------------
(* The delivery of one event of the indexer.                               *)


\* A mark is there once an event is emitted, about to be, or found marked;
\* and without a failure it is there only then.
MarkIsKept ==
  /\ marked \subseteq {0}
  /\ emitted > 0 => 0 \in marked
  /\ \A i \in Attempt : req[i] \in {"marked", "ok"} => 0 \in marked
  /\ 0 \in marked /\ faults = 0 => emitted > 0 \/ \E i \in Attempt : req[i] = "marked"

\* Without a race one request is on its way from its miss to the emission, and
\* none once the event is emitted.
OneOnTheWay ==
  ~raced =>
    /\ \A i, j \in Attempt :
         req[i] \in {"missed", "marked"} /\ req[j] \in {"missed", "marked"} => i = j
    /\ \A i \in Attempt : req[i] = "missed" => 0 \notin marked
    /\ \A i \in Attempt : req[i] = "marked" => emitted = 0
    /\ emitted <= 1

RequestStatuses == {"unsent", "arrived", "missed", "marked", "ok", "error"}
WebhookTypes ==
  /\ client \in {"post", "wait", "exhausted", "delivered", "lettered", "dropped"}
  /\ attempt \in 0 .. MaxRetries + 1 /\ faults \in 0 .. MaxFaults
  /\ req \in [Attempt -> RequestStatuses]
  /\ \A i \in Attempt : (req[i] = "unsent") <=> (i > attempt)
  /\ emitted \in Nat /\ raced \in BOOLEAN
  /\ client \in {"wait", "delivered"} => attempt > 0
  /\ client = "post" => attempt < MaxRetries + 1
  /\ client = "exhausted" => attempt = MaxRetries + 1
  /\ client = "delivered" => req[attempt] = "ok"

WebhookInv == WebhookTypes /\ MarkIsKept /\ OneOnTheWay

\* The initial state satisfies the invariant.
LEMMA WebhookInitInv == Init => WebhookInv
<1> SUFFICES ASSUME Init PROVE WebhookInv
    OBVIOUS
<1> USE DeliveryAssumption DEF DeliveryAssumption, Init, Attempt
<1>1. /\ \A i \in Attempt : req[i] = "unsent" /\ i > attempt
      /\ req \in [Attempt -> {"unsent"}]
      OBVIOUS
<1>2. WebhookTypes
  <2>1. req \in [Attempt -> RequestStatuses]
        BY DEF RequestStatuses
  <2>2. \A i \in Attempt : (req[i] = "unsent") <=> (i > attempt)
        BY <1>1
  <2>3. attempt = 0 /\ 0 \in 0 .. MaxRetries + 1 /\ 0 \in 0 .. MaxFaults
        /\ 0 < MaxRetries + 1
        OBVIOUS
  <2> HIDE DEF Attempt
  <2> QED BY <2>1, <2>2, <2>3 DEF WebhookTypes
<1>3. MarkIsKept
      BY <1>1 DEF MarkIsKept
<1>4. OneOnTheWay
      BY <1>1 DEF OneOnTheWay
<1> QED BY <1>2, <1>3, <1>4 DEF WebhookInv

\* Every step of the dispatcher, of a request and of the server keeps it.
LEMMA WebhookStepInv == WebhookInv /\ [Next]_vars => WebhookInv'
<1> SUFFICES ASSUME WebhookInv, [Next]_vars PROVE WebhookInv'
    OBVIOUS
<1> USE DeliveryAssumption DEF DeliveryAssumption, WebhookInv, Key
<1>1. CASE Post
  <2>1. WebhookTypes'
        BY <1>1 DEF Post, WebhookTypes, RequestStatuses, Attempt
  <2>2. MarkIsKept'
        BY <1>1 DEF Post, WebhookTypes, MarkIsKept, Attempt
  <2>3. OneOnTheWay'
        BY <1>1 DEF Post, WebhookTypes, OneOnTheWay, Attempt
  <2> QED BY <2>1, <2>2, <2>3
<1>2. CASE Answered \/ NotAnswered \/ InsertDeadLetter
  <2>1. WebhookTypes'
        BY <1>2 DEF Answered, NotAnswered, InsertDeadLetter, Attempts, Fault, WebhookTypes,
                    RequestStatuses, Attempt
  <2>2. MarkIsKept' /\ OneOnTheWay'
    <3>1. UNCHANGED <<attempt, req, marked, emitted, raced>>
          BY <1>2 DEF Answered, NotAnswered, InsertDeadLetter
    <3>2. faults' = 0 => faults = 0
          BY <1>2 DEF Answered, NotAnswered, InsertDeadLetter, Fault, WebhookTypes
    <3> QED BY <3>1, <3>2 DEF MarkIsKept, OneOnTheWay
  <2> QED BY <2>1, <2>2
<1>3. ASSUME NEW i \in Attempt, Get(i) PROVE WebhookInv'
  <2>1. WebhookTypes'
        BY <1>3 DEF Get, Found, WebhookTypes, RequestStatuses, Attempt
  <2>2. MarkIsKept'
        BY <1>3 DEF Get, Found, WebhookTypes, MarkIsKept
  <2>3. OneOnTheWay'
    <3> SUFFICES ASSUME ~raced' PROVE OneOnTheWay'
        BY DEF OneOnTheWay
    <3>1. CASE 0 \in marked
      <4>1. req' = [req EXCEPT ![i] = "ok"] /\ ~raced
            BY <1>3, <3>1 DEF Get, Found, WebhookTypes
      <4> QED BY <1>3, <4>1 DEF Get, WebhookTypes, OneOnTheWay
    <3>2. CASE 0 \notin marked
      <4>1. req' = [req EXCEPT ![i] = "missed"] /\ ~raced
            BY <1>3, <3>2 DEF Get, Found, WebhookTypes
      <4>2. \A j \in Attempt \ {i} : req[j] \notin {"missed", "marked"}
            BY <1>3, <3>2 DEF Get, Found, WebhookTypes, MarkIsKept
      <4>3. emitted = 0
            BY <3>2 DEF WebhookTypes, MarkIsKept
      <4> QED BY <1>3, <3>2, <4>1, <4>2, <4>3 DEF Get, WebhookTypes, OneOnTheWay
    <3> QED BY <3>1, <3>2
  <2> QED BY <2>1, <2>2, <2>3
<1>4. ASSUME NEW i \in Attempt, Set(i) PROVE WebhookInv'
  <2>1. WebhookTypes'
        BY <1>4 DEF Set, WebhookTypes, RequestStatuses, Attempt
  <2>2. MarkIsKept'
        BY <1>4 DEF Set, Mark, WebhookTypes, MarkIsKept
  <2>3. OneOnTheWay'
    <3> SUFFICES ASSUME ~raced' PROVE OneOnTheWay'
        BY DEF OneOnTheWay
    <3>1. ~raced /\ req[i] = "missed" /\ req' = [req EXCEPT ![i] = "marked"]
          /\ emitted' = emitted
          BY <1>4 DEF Set
    <3>2. \A j \in Attempt \ {i} : req[j] \notin {"missed", "marked"}
          BY <3>1 DEF OneOnTheWay
    <3>3. emitted = 0
          BY <3>1 DEF WebhookTypes, MarkIsKept, OneOnTheWay
    <3>4. \A j \in Attempt : req'[j] \in {"missed", "marked"} => j = i /\ req'[j] = "marked"
          BY <3>1, <3>2 DEF WebhookTypes
    <3> QED BY <3>1, <3>3, <3>4 DEF OneOnTheWay
  <2> QED BY <2>1, <2>2, <2>3
<1>5. ASSUME NEW i \in Attempt, Emit(i) PROVE WebhookInv'
  <2>1. WebhookTypes'
        BY <1>5 DEF Emit, WebhookTypes, RequestStatuses, Attempt
  <2>2. MarkIsKept'
        BY <1>5 DEF Emit, WebhookTypes, MarkIsKept
  <2>3. OneOnTheWay'
    <3> SUFFICES ASSUME ~raced' PROVE OneOnTheWay'
        BY DEF OneOnTheWay
    <3>1. ~raced /\ req[i] = "marked" /\ req' = [req EXCEPT ![i] = "ok"]
          /\ emitted' = emitted + 1
          BY <1>5 DEF Emit
    <3>2. \A j \in Attempt : req'[j] \notin {"missed", "marked"}
          BY <3>1 DEF WebhookTypes, OneOnTheWay
    <3>3. emitted' = 1
          BY <3>1 DEF OneOnTheWay
    <3> QED BY <3>2, <3>3 DEF OneOnTheWay
  <2> QED BY <2>1, <2>2, <2>3
<1>6. ASSUME NEW i \in Attempt, RedisFails(i) PROVE WebhookInv'
  <2>1. WebhookTypes'
        BY <1>6 DEF RedisFails, Fault, WebhookTypes, RequestStatuses, Attempt
  <2>2. /\ req' = [req EXCEPT ![i] = "error"] /\ UNCHANGED <<emitted, raced>>
        /\ marked \subseteq marked' /\ marked' \subseteq {0} /\ faults' # 0
        /\ marked' # marked => req[i] = "missed"
        BY <1>6 DEF RedisFails, Fault, Mark, WebhookTypes, MarkIsKept
  <2>3. MarkIsKept'
        BY <2>2 DEF WebhookTypes, MarkIsKept
  <2>4. OneOnTheWay'
        BY <2>2 DEF WebhookTypes, OneOnTheWay
  <2> QED BY <2>1, <2>3, <2>4
<1>7. CASE BffRestarts
  <2>1. WebhookTypes'
        BY <1>7 DEF BffRestarts, Fault, WebhookTypes, RequestStatuses, Attempt
  <2>2. MarkIsKept'
        BY <1>7 DEF BffRestarts, Fault, WebhookTypes, MarkIsKept
  <2>3. OneOnTheWay'
    <3>1. \A j \in Attempt : req'[j] \notin {"missed", "marked"}
          BY <1>7 DEF BffRestarts, WebhookTypes
    <3> QED BY <1>7, <3>1 DEF BffRestarts, OneOnTheWay
  <2> QED BY <2>1, <2>2, <2>3
<1>8. CASE UNCHANGED vars
      BY <1>8 DEF vars, WebhookTypes, MarkIsKept, OneOnTheWay
<1> QED BY <1>1, <1>2, <1>3, <1>4, <1>5, <1>6, <1>7, <1>8 DEF Next, Dispatch, Handle

\* The strengthened invariant holds throughout.
THEOREM WebhookInductive == Spec => []WebhookInv
BY WebhookInitInv, WebhookStepInv, PTL DEF Spec

\* Only requests that ask for the mark at the same time make handleIndexerEvent
\* emit an event twice.
THEOREM OnlyRaces == Spec => []OnlyRacesDuplicate
<1>1. WebhookInv => OnlyRacesDuplicate
      BY DEF WebhookInv, WebhookTypes, OneOnTheWay, OnlyRacesDuplicate
<1> QED BY <1>1, WebhookInductive, PTL

\* Without a failure, a delivery that dispatch_with_retry takes for done has
\* reached the listeners or is about to.
THEOREM Delivered == Spec => []DeliveredIsEmitted
<1>1. WebhookInv => DeliveredIsEmitted
      BY DeliveryAssumption DEF DeliveryAssumption, WebhookInv, WebhookTypes, MarkIsKept,
                                DeliveredIsEmitted, Attempt
<1> QED BY <1>1, WebhookInductive, PTL

\* Whatever is still to emit is one of the attempts made, and none emits twice.
Open == {i \in Attempt : req[i] \in {"arrived", "missed", "marked"}}
EmissionsBounded == emitted + Cardinality(Open) =< attempt

LEMMA OpenIsFinite == IsFiniteSet(Open) /\ Cardinality(Open) \in Nat
<1>1. IsFiniteSet(Attempt)
  BY FS_Interval, DeliveryAssumption DEF DeliveryAssumption, Attempt
<1>2. Open \subseteq Attempt
  BY DEF Open
<1> QED BY <1>1, <1>2, FS_Subset, FS_CardinalityType

LEMMA EmissionsKept ==
  ASSUME WebhookInv, EmissionsBounded, [Next]_vars
  PROVE  EmissionsBounded'
<1> DEFINE n == Cardinality(Open)
<1>1. n \in Nat /\ emitted \in Nat /\ attempt \in Nat /\ emitted + n =< attempt
  BY OpenIsFinite, DeliveryAssumption DEF WebhookInv, WebhookTypes, EmissionsBounded, DeliveryAssumption
<1>2. req \in [Attempt -> RequestStatuses]
  BY DEF WebhookInv, WebhookTypes
<1>3. ASSUME Open' \subseteq Open, emitted' = emitted, attempt' = attempt
      PROVE  EmissionsBounded'
  <2>1. Cardinality(Open') \in Nat /\ Cardinality(Open') =< n
    BY <1>3, OpenIsFinite, NoMoreThan
  <2>2. emitted + Cardinality(Open') =< attempt
    BY <1>1, <2>1
  <2> QED BY <1>3, <2>2 DEF EmissionsBounded, Open
<1>4. CASE Post
  <2> DEFINE a == attempt + 1
  <2>1. /\ a \in Attempt /\ attempt' = a /\ emitted' = emitted
        /\ req' = [req EXCEPT ![a] = "arrived"] /\ a \notin Open
    BY <1>1, <1>4, DeliveryAssumption
       DEF Post, WebhookInv, WebhookTypes, Attempt, Open, DeliveryAssumption
  <2> HIDE DEF a
  <2>2. Open' = Open \cup {a}
    BY <1>2, <2>1 DEF Open
  <2>3. Cardinality(Open') = n + 1
    BY <2>1, <2>2, OpenIsFinite, FS_AddElement
  <2>4. a = attempt + 1
    BY DEF a
  <2>5. emitted + Cardinality(Open') =< a
    BY <1>1, <2>3, <2>4
  <2> QED BY <2>1, <2>5 DEF EmissionsBounded, Open
<1>5. CASE Answered \/ NotAnswered \/ InsertDeadLetter
  BY <1>3, <1>5 DEF Answered, NotAnswered, InsertDeadLetter, Open
<1>6. ASSUME NEW i \in Attempt, Get(i) \/ Set(i) \/ RedisFails(i) PROVE EmissionsBounded'
  <2>1. /\ emitted' = emitted /\ attempt' = attempt
        /\ \A j \in Attempt : j # i => req'[j] = req[j]
        /\ i \in Open
    BY <1>2, <1>6 DEF Get, Set, RedisFails, Open
  <2>2. Open' \subseteq Open
    BY <2>1 DEF Open
  <2> QED BY <1>3, <2>1, <2>2
<1>7. ASSUME NEW i \in Attempt, Emit(i) PROVE EmissionsBounded'
  <2>1. /\ i \in Open /\ emitted' = emitted + 1 /\ attempt' = attempt
        /\ req' = [req EXCEPT ![i] = "ok"]
    BY <1>7 DEF Emit, Open
  <2>2. Open' = Open \ {i}
    BY <1>2, <2>1 DEF Open
  <2>3. Cardinality(Open') = n - 1
    BY <2>1, <2>2, OpenIsFinite, FS_RemoveElement
  <2>4. emitted' + Cardinality(Open') =< attempt
    BY <1>1, <2>1, <2>3
  <2> QED BY <2>1, <2>4 DEF EmissionsBounded, Open
<1>8. CASE BffRestarts
  <2>1. emitted' = emitted /\ attempt' = attempt /\ Open' \subseteq Open
    BY <1>2, <1>8 DEF BffRestarts, Open
  <2> QED BY <1>3, <2>1
<1>9. CASE UNCHANGED vars
  BY <1>3, <1>9 DEF vars, Open
<1> QED BY <1>4, <1>5, <1>6, <1>7, <1>8, <1>9 DEF Next, Dispatch, Handle

\* The attempts, the requests and the counters of a delivery keep their types
\* and bounds: an event is emitted no more often than it was posted.
THEOREM DeliveryTypes == Spec => []TypeOK
<1>1. Init => WebhookInv /\ EmissionsBounded
  <2> SUFFICES ASSUME Init PROVE EmissionsBounded
    BY WebhookInitInv
  <2>1. Open = {} /\ emitted = 0 /\ attempt = 0
    BY DEF Init, Open
  <2> QED BY <2>1, FS_EmptySet DEF EmissionsBounded
<1>2. WebhookInv /\ EmissionsBounded /\ [Next]_vars => (WebhookInv /\ EmissionsBounded)'
  BY WebhookStepInv, EmissionsKept
<1>3. WebhookInv /\ EmissionsBounded => TypeOK
  <2> SUFFICES ASSUME WebhookInv, EmissionsBounded PROVE TypeOK
    OBVIOUS
  <2>1. emitted \in 0 .. MaxRetries + 1
    BY OpenIsFinite, DeliveryAssumption
       DEF WebhookInv, WebhookTypes, EmissionsBounded, DeliveryAssumption
  <2> QED BY <2>1 DEF WebhookInv, WebhookTypes, RequestStatuses, TypeOK
<1> QED BY <1>1, <1>2, <1>3, PTL DEF Spec

-----------------------------------------------------------------------------
(* Quests.                                                                 *)

Awarding == {"upsert", "emit"}
Claims ==
  {Ready}
  \union [at : {"verify", "create", "count", "upsert", "emit"}, step : QuestStep]
  \union [at : {"delete"}, step : QuestStep, row : Nat]

QuestTypes ==
  /\ done \subseteq QuestStep /\ row \in [QuestStep -> Nat]
  /\ complete \in BOOLEAN /\ announced \in Nat /\ repeated \in BOOLEAN
  /\ claim \in [Claimer -> Claims]

\* What is done has had a row, and who completes the quest has seen all rows.
Earned ==
  /\ \A s \in done : row[s] > 0
  /\ complete \/ (\E c \in Claimer : claim[c].at \in Awarding) => \A s \in QuestStep : row[s] > 0

\* As long as no two claims overlap and nothing is reviewed: one handler at
\* most is active, it is about a step that has no row until it creates it, and
\* after the announcement there is nothing left to claim.
Alone ==
  ~repeated =>
    /\ \A c, d \in Claimer : claim[c] # Ready /\ claim[d] # Ready => c = d
    /\ \A c \in Claimer :
         /\ claim[c].at # "delete"
         /\ claim[c].at \in {"verify", "create"} => claim[c].step \notin done
         /\ claim[c].at \in Awarding => done = QuestStep
    /\ announced # 0 =>
         announced = 1 /\ done = QuestStep /\ \A c \in Claimer : claim[c] = Ready

QuestInv == QuestTypes /\ Earned /\ Alone

\* What a handler that is not idle carries.
LEMMA ClaimAtHand ==
  ASSUME QuestTypes, NEW c \in Claimer
  PROVE  /\ claim[c].at # "idle" => claim[c] # Ready /\ claim[c].step \in QuestStep
         /\ claim[c] # Ready => claim[c].at # "idle"
         /\ claim[c].at = "delete" => claim[c].row \in Nat
BY DEF QuestTypes, Claims, Ready

\* One handler goes on, the others stay.
LEMMA OneGoes ==
  ASSUME QuestTypes, NEW c \in Claimer, NEW n \in Claims, Goto(c, n)
  PROVE  /\ claim' \in [Claimer -> Claims] /\ claim'[c] = n
         /\ \A d \in Claimer \ {c} : claim'[d] = claim[d]
BY DEF QuestTypes, Goto

\* Enough rows are those of all steps.
LEMMA EnoughIsAll ==
  ASSUME QuestTypes, Enough(Cardinality(done))
  PROVE  done = QuestStep
<1>1. done \subseteq QuestStep /\ IsFiniteSet(QuestStep)
  BY QuestAssumption DEF QuestAssumption, QuestTypes
<1>2. /\ IsFiniteSet(done) /\ Cardinality(done) =< Cardinality(QuestStep)
      /\ Cardinality(done) = Cardinality(QuestStep) => done = QuestStep
  BY <1>1, FS_Subset
<1>3. Cardinality(done) \in Nat /\ Cardinality(QuestStep) \in Nat
  BY <1>1, <1>2, FS_CardinalityType
<1> QED BY <1>2, <1>3 DEF Enough

LEMMA QuestInitInv == QuestInit => QuestInv
<1> SUFFICES ASSUME QuestInit PROVE QuestInv
  OBVIOUS
<1>1. Ready \in Claims /\ Ready.at = "idle"
  BY DEF Claims, Ready
<1>2. QuestTypes
  BY <1>1 DEF QuestInit, QuestTypes
<1>3. Earned /\ Alone
  BY <1>1 DEF QuestInit, Earned, Alone, Awarding
<1> QED BY <1>2, <1>3 DEF QuestInv

LEMMA QuestNextInv == QuestInv /\ [QuestNext]_questVars => QuestInv'
<1> SUFFICES ASSUME QuestInv, [QuestNext]_questVars PROVE QuestInv'
  OBVIOUS
<1>1. \A s \in QuestStep, at \in {"verify", "create", "count", "upsert", "emit"} :
        At(at, s) \in Claims /\ At(at, s).at = at /\ At(at, s).step = s
  BY DEF Claims, At
<1>2. Ready \in Claims /\ Ready.at = "idle"
  BY DEF Claims, Ready
<1>3. QuestTypes /\ Earned /\ Alone
  BY DEF QuestInv
<1>4. ASSUME NEW c \in Claimer, NEW s \in QuestStep, StartClaim(c, s) PROVE QuestInv'
  <2>1. /\ claim[c] = Ready /\ repeated' = (repeated \/ \E d \in Claimer : claim[d] # Ready)
        /\ UNCHANGED <<done, row, complete, announced, claimFaults>>
        /\ claim' = claim \/ (s \notin done /\ Goto(c, At("verify", s)))
    BY <1>4 DEF StartClaim, Call
  <2>2. CASE claim' = claim
    BY <1>3, <2>1, <2>2 DEF QuestInv, QuestTypes, Earned, Alone
  <2>3. CASE s \notin done /\ Goto(c, At("verify", s))
    <3>1. /\ claim' \in [Claimer -> Claims] /\ claim'[c] = At("verify", s)
          /\ \A d \in Claimer \ {c} : claim'[d] = claim[d]
      BY <1>1, <1>3, <2>3, OneGoes
    <3>2. QuestTypes' /\ Earned'
      BY <1>1, <1>3, <2>1, <3>1 DEF QuestTypes, Earned, Awarding
    <3>3. Alone'
      <4> SUFFICES ASSUME ~repeated' PROVE Alone'
        BY DEF Alone
      <4>1. ~repeated /\ \A d \in Claimer : claim[d] = Ready
        BY <2>1
      <4>2. announced = 0
        BY <1>3, <2>3, <4>1 DEF Alone
      <4>3. \A d \in Claimer : d # c => claim'[d] = Ready /\ claim'[d].at = "idle"
        BY <1>2, <3>1, <4>1
      <4> QED BY <1>1, <2>1, <2>3, <3>1, <4>2, <4>3 DEF Alone, Awarding
    <3> QED BY <3>2, <3>3 DEF QuestInv
  <2> QED BY <2>1, <2>2, <2>3
<1>5. ASSUME NEW c \in Claimer, NEW s \in QuestStep, StartReview(c, s) PROVE QuestInv'
  <2>1. /\ repeated' = TRUE /\ UNCHANGED <<done, row, complete, announced, claimFaults>>
        /\ Goto(c, At("count", s)) \/ Goto(c, [at |-> "delete", step |-> s, row |-> row[s]])
    BY <1>5 DEF StartReview
  <2>2. /\ [at |-> "delete", step |-> s, row |-> row[s]] \in Claims
        /\ [at |-> "delete", step |-> s, row |-> row[s]].at = "delete"
    BY <1>3 DEF QuestTypes, Claims
  <2>3. /\ claim' \in [Claimer -> Claims] /\ claim'[c].at \in {"count", "delete"}
        /\ \A d \in Claimer \ {c} : claim'[d] = claim[d]
    BY <1>1, <1>3, <2>1, <2>2, OneGoes
  <2> QED BY <1>3, <2>1, <2>3 DEF QuestInv, QuestTypes, Earned, Alone, Awarding
<1>6. ASSUME NEW c \in Claimer, Verify(c) \/ CountRows(c) \/ QuestFault(c) PROVE QuestInv'
  <2>1. /\ claim[c].at # "idle" /\ claim[c] # Ready
        /\ UNCHANGED <<done, row, complete, announced, repeated>>
    BY <1>2, <1>3, <1>6, ClaimAtHand DEF Verify, CountRows, QuestFault
  <2>2. claim[c].step \in QuestStep
    BY <1>3, <2>1, ClaimAtHand
  <2>3. \E n \in Claims :
          /\ Goto(c, n)
          /\ \/ n = Ready
             \/ n = At("create", claim[c].step) /\ claim[c].at = "verify"
             \/ n = At("upsert", claim[c].step) /\ done = QuestStep
    BY <1>1, <1>2, <1>3, <1>6, <2>2, EnoughIsAll DEF Verify, CountRows, QuestFault
  <2>4. PICK n \in Claims :
          /\ Goto(c, n)
          /\ \/ n = Ready
             \/ n = At("create", claim[c].step) /\ claim[c].at = "verify"
             \/ n = At("upsert", claim[c].step) /\ done = QuestStep
    BY <2>3
  <2>5. /\ claim' \in [Claimer -> Claims] /\ claim'[c] = n
        /\ \A d \in Claimer \ {c} : claim'[d] = claim[d]
    BY <1>3, <2>4, OneGoes
  <2>6. QuestTypes' /\ Earned'
    BY <1>1, <1>2, <1>3, <2>1, <2>2, <2>4, <2>5 DEF QuestTypes, Earned, Awarding
  <2>7. Alone'
    BY <1>1, <1>2, <1>3, <2>1, <2>2, <2>4, <2>5 DEF Alone, Awarding
  <2> QED BY <2>6, <2>7 DEF QuestInv
<1>7. ASSUME NEW c \in Claimer, CreateRow(c) PROVE QuestInv'
  <2>1. /\ claim[c].at = "create" /\ claim[c] # Ready /\ claim[c].step \in QuestStep
        /\ UNCHANGED <<complete, announced, repeated>>
    BY <1>3, <1>7, ClaimAtHand DEF CreateRow
  <2>2. CASE claim[c].step \in done
    <3>1. Goto(c, Ready) /\ done' = done /\ row' = row
      BY <1>7, <2>2 DEF CreateRow
    <3>2. /\ claim' \in [Claimer -> Claims] /\ claim'[c] = Ready
          /\ \A d \in Claimer \ {c} : claim'[d] = claim[d]
      BY <1>2, <1>3, <3>1, OneGoes
    <3> QED BY <1>2, <1>3, <2>1, <3>1, <3>2 DEF QuestInv, QuestTypes, Earned, Alone, Awarding
  <2>3. CASE claim[c].step \notin done
    <3>1. /\ Goto(c, At("count", claim[c].step)) /\ done' = done \union {claim[c].step}
          /\ row' = [row EXCEPT ![claim[c].step] = @ + 1]
      BY <1>7, <2>3 DEF CreateRow
    <3>2. /\ claim' \in [Claimer -> Claims] /\ claim'[c] = At("count", claim[c].step)
          /\ \A d \in Claimer \ {c} : claim'[d] = claim[d]
      BY <1>1, <1>3, <2>1, <3>1, OneGoes
    <3>3. row' \in [QuestStep -> Nat] /\ \A s \in QuestStep : row'[s] >= row[s]
      BY <1>3, <2>1, <3>1 DEF QuestTypes
    <3>4. row'[claim[c].step] > 0
      BY <1>3, <2>1, <3>1 DEF QuestTypes
    <3>5. QuestTypes'
      BY <1>3, <2>1, <3>1, <3>2, <3>3 DEF QuestTypes
    <3>6. \A s \in QuestStep : row[s] > 0 => row'[s] > 0
      BY <1>3, <3>3 DEF QuestTypes
    <3>7. \A s \in done' : row'[s] > 0
      BY <1>3, <3>1, <3>4, <3>6 DEF QuestTypes, Earned
    <3>8. Earned'
      BY <1>1, <1>3, <2>1, <3>2, <3>6, <3>7 DEF Earned, Awarding
    <3>9. Alone'
      <4> SUFFICES ASSUME ~repeated' PROVE Alone'
        BY DEF Alone
      <4>1. ~repeated /\ announced = 0 /\ \A d \in Claimer : d # c => claim[d] = Ready
        BY <1>3, <2>1 DEF Alone
      <4>2. \A d \in Claimer : d # c => claim'[d] = Ready /\ claim'[d].at = "idle"
        BY <1>2, <3>2, <4>1
      <4>3. claim'[c].at = "count"
        BY <1>1, <2>1, <3>2
      <4> QED BY <2>1, <4>1, <4>2, <4>3 DEF Alone, Awarding
    <3> QED BY <3>5, <3>8, <3>9 DEF QuestInv
  <2> QED BY <2>2, <2>3
<1>8. ASSUME NEW c \in Claimer, Upsert(c) PROVE QuestInv'
  <2>1. /\ claim[c].at = "upsert" /\ claim[c] # Ready /\ claim[c].step \in QuestStep
        /\ complete' = TRUE /\ Goto(c, At("emit", claim[c].step))
        /\ UNCHANGED <<done, row, announced, repeated>>
    BY <1>3, <1>8, ClaimAtHand DEF Upsert
  <2>2. /\ claim' \in [Claimer -> Claims] /\ claim'[c] = At("emit", claim[c].step)
        /\ \A d \in Claimer \ {c} : claim'[d] = claim[d]
    BY <1>1, <1>3, <2>1, OneGoes
  <2>3. QuestTypes' /\ Earned'
    BY <1>3, <2>1, <2>2 DEF QuestTypes, Earned, Awarding
  <2>4. Alone'
    BY <1>1, <1>3, <2>1, <2>2 DEF Alone, Awarding
  <2> QED BY <2>3, <2>4 DEF QuestInv
<1>9. ASSUME NEW c \in Claimer, AnnounceCompletion(c) PROVE QuestInv'
  <2>1. /\ claim[c].at = "emit" /\ claim[c] # Ready /\ Goto(c, Ready)
        /\ announced' = announced + 1 /\ UNCHANGED <<done, row, complete, repeated>>
    BY <1>3, <1>9, ClaimAtHand DEF AnnounceCompletion
  <2>2. /\ claim' \in [Claimer -> Claims] /\ claim'[c] = Ready
        /\ \A d \in Claimer \ {c} : claim'[d] = claim[d]
    BY <1>2, <1>3, <2>1, OneGoes
  <2>3. QuestTypes' /\ Earned'
    BY <1>2, <1>3, <2>1, <2>2 DEF QuestTypes, Earned, Awarding
  <2>4. Alone'
    BY <1>2, <1>3, <2>1, <2>2 DEF Alone, Awarding
  <2> QED BY <2>3, <2>4 DEF QuestInv
<1>10. ASSUME NEW c \in Claimer, DeleteRow(c) PROVE QuestInv'
  <2>1. /\ claim[c].at = "delete" /\ Goto(c, Ready) /\ done' \subseteq done
        /\ UNCHANGED <<row, complete, announced, repeated>>
    BY <1>10 DEF DeleteRow
  <2>2. /\ claim' \in [Claimer -> Claims] /\ claim'[c] = Ready
        /\ \A d \in Claimer \ {c} : claim'[d] = claim[d]
    BY <1>2, <1>3, <2>1, OneGoes
  <2>3. QuestTypes' /\ Earned'
    BY <1>2, <1>3, <2>1, <2>2 DEF QuestTypes, Earned, Awarding
  <2>4. Alone'
    BY <1>3, <2>1 DEF Alone
  <2> QED BY <2>3, <2>4 DEF QuestInv
<1>11. CASE UNCHANGED questVars
  BY <1>3, <1>11 DEF questVars, QuestInv, QuestTypes, Earned, Alone
<1> QED BY <1>4, <1>5, <1>6, <1>7, <1>8, <1>9, <1>10, <1>11 DEF QuestNext, ClaimRuns

LEMMA QuestsStaySafe == QuestInit /\ [][QuestNext]_questVars => []QuestSafety
<1>1. QuestInv => QuestSafety
  <2> SUFFICES ASSUME QuestInv PROVE QuestSafety
    OBVIOUS
  <2>1. CompletionIsEarned
    BY DEF QuestInv, Earned, CompletionIsEarned
  <2>2. ASSUME ~repeated
        PROVE  announced + Cardinality({c \in Claimer : claim[c].at \in Awarding}) =< 1
    <3> DEFINE A == {c \in Claimer : claim[c].at \in Awarding}
    <3> SUFFICES announced + Cardinality(A) =< 1
      OBVIOUS
    <3>1. \A c \in A : claim[c] # Ready
      BY DEF Awarding, Ready
    <3>2. CASE A = {}
      <4>1. Cardinality(A) = 0
        BY <3>2, FS_EmptySet
      <4>2. announced = 0 \/ announced = 1
        BY <2>2 DEF QuestInv, Alone
      <4> HIDE DEF A
      <4> QED BY <4>1, <4>2
    <3>3. CASE A # {}
      <4>1. PICK c \in A : TRUE
        BY <3>3
      <4>2. A = {c} /\ announced = 0
        BY <2>2, <3>1, <4>1 DEF QuestInv, Alone
      <4>3. Cardinality({c}) = 1
        BY FS_Singleton
      <4> HIDE DEF A
      <4> QED BY <4>2, <4>3
    <3> QED BY <3>2, <3>3
  <2> QED BY <2>1, <2>2 DEF QuestSafety, OneRewardAlone, Awarding
<1> QED BY <1>1, QuestInitInv, QuestNextInv, PTL

\* A quest is completed only when every step has had its row, and without
\* overlaps and reviews it is announced once, for any number of steps and
\* handlers.
THEOREM QuestsSafe == QuestSpec => []QuestSafety
BY QuestsStaySafe, PTL DEF QuestSpec

\* Every handler that runs was called, and has its announcement still to make.
Active == {c \in Claimer : claim[c] # Ready}
CallsCounted ==
  /\ calls \in 0..MaxClaims /\ claimFaults \in 0..MaxClaimFaults
  /\ IsFiniteSet(Active) /\ announced + Cardinality(Active) =< calls

LEMMA CallsKept ==
  ASSUME QuestInv, CallsCounted, [QuestNext]_questVars
  PROVE  CallsCounted'
<1> DEFINE n == Cardinality(Active)
<1>1. /\ n \in Nat /\ announced \in Nat /\ calls \in Nat /\ announced + n =< calls
      /\ MaxClaims \in Nat /\ MaxClaimFaults \in Nat
  BY FS_CardinalityType, QuestAssumption
     DEF CallsCounted, QuestInv, QuestTypes, QuestAssumption
<1>2. /\ claim \in [Claimer -> Claims] /\ Ready.at = "idle"
  BY DEF QuestInv, QuestTypes, Ready
<1>3. ASSUME NEW c \in Claimer, NEW s \in QuestStep, StartClaim(c, s) \/ StartReview(c, s)
      PROVE  CallsCounted'
  <2>1. /\ calls < MaxClaims /\ calls' = calls + 1 /\ announced' = announced
        /\ claimFaults' = claimFaults
        /\ claim' = claim \/ \E next : Goto(c, next)
    BY <1>3 DEF StartClaim, StartReview, Call
  <2>2. Active' \subseteq Active \cup {c}
    BY <1>2, <2>1 DEF Goto, Active
  <2>3. /\ IsFiniteSet(Active') /\ Cardinality(Active') \in Nat /\ Cardinality(Active') =< n + 1
    BY <2>2, OneMoreAtMost DEF CallsCounted
  <2>4. calls' \in 0..MaxClaims /\ announced' + Cardinality(Active') =< calls'
    BY <1>1, <2>1, <2>3
  <2> QED BY <2>1, <2>3, <2>4 DEF CallsCounted, Active
<1>4. ASSUME calls' = calls, announced' = announced, Active' \subseteq Active,
             claimFaults' \in 0..MaxClaimFaults
      PROVE  CallsCounted'
  <2>1. /\ IsFiniteSet(Active') /\ Cardinality(Active') \in Nat /\ Cardinality(Active') =< n
    BY <1>4, NoMoreThan DEF CallsCounted
  <2>2. announced' + Cardinality(Active') =< calls'
    BY <1>1, <1>4, <2>1
  <2> QED BY <1>4, <2>1, <2>2 DEF CallsCounted, Active
<1>5. ASSUME NEW c \in Claimer,
             Verify(c) \/ CreateRow(c) \/ CountRows(c) \/ Upsert(c) \/ DeleteRow(c) \/ QuestFault(c)
      PROVE  CallsCounted'
  <2>1. c \in Active
    BY <1>2, <1>5
       DEF Verify, CreateRow, CountRows, Upsert, DeleteRow, QuestFault, Active
  <2>2. /\ calls' = calls /\ announced' = announced
        /\ \E next : Goto(c, next)
    BY <1>5 DEF Verify, CreateRow, CountRows, Upsert, DeleteRow, QuestFault
  <2>3. claimFaults' \in 0..MaxClaimFaults
    BY <1>1, <1>5
       DEF Verify, CreateRow, CountRows, Upsert, DeleteRow, QuestFault, CallsCounted
  <2>4. Active' \subseteq Active
    BY <1>2, <2>1, <2>2 DEF Goto, Active
  <2> QED BY <1>4, <2>2, <2>3, <2>4
<1>6. ASSUME NEW c \in Claimer, AnnounceCompletion(c) PROVE CallsCounted'
  <2>1. /\ c \in Active /\ calls' = calls /\ announced' = announced + 1
        /\ claimFaults' = claimFaults /\ claim' = [claim EXCEPT ![c] = Ready]
    BY <1>2, <1>6 DEF AnnounceCompletion, Goto, Active
  <2>2. Active' = Active \ {c}
    BY <1>2, <2>1 DEF Active
  <2>3. IsFiniteSet(Active') /\ Cardinality(Active') = n - 1
    BY <2>1, <2>2, FS_RemoveElement DEF CallsCounted
  <2>4. announced' + Cardinality(Active') =< calls'
    BY <1>1, <2>1, <2>3
  <2> QED BY <2>1, <2>3, <2>4 DEF CallsCounted, Active
<1>7. CASE UNCHANGED questVars
  <2>1. /\ calls' = calls /\ announced' = announced /\ Active' \subseteq Active
        /\ claimFaults' = claimFaults
    BY <1>7 DEF questVars, Active
  <2> QED BY <1>4, <2>1 DEF CallsCounted
<1> QED BY <1>3, <1>4, <1>5, <1>6, <1>7 DEF QuestNext, ClaimRuns

LEMMA QuestTypesStay == QuestInit /\ [][QuestNext]_questVars => []QuestTypeOK
<1>1. QuestInit => QuestInv /\ CallsCounted
  <2> SUFFICES ASSUME QuestInit PROVE CallsCounted
    BY QuestInitInv
  <2>1. /\ Active = {} /\ announced = 0 /\ calls = 0 /\ claimFaults = 0
        /\ MaxClaims \in Nat /\ MaxClaimFaults \in Nat
    BY QuestAssumption DEF QuestInit, Active, QuestAssumption
  <2> QED BY <2>1, FS_EmptySet DEF CallsCounted
<1>2. QuestInv /\ CallsCounted /\ [QuestNext]_questVars => (QuestInv /\ CallsCounted)'
  BY QuestNextInv, CallsKept
<1>3. QuestInv /\ CallsCounted => QuestTypeOK
  <2> SUFFICES ASSUME QuestInv, CallsCounted PROVE QuestTypeOK
    OBVIOUS
  <2>1. announced \in 0..MaxClaims
    <3>1. Cardinality(Active) \in Nat /\ announced \in Nat /\ MaxClaims \in Nat
      BY FS_CardinalityType, QuestAssumption
         DEF CallsCounted, QuestInv, QuestTypes, QuestAssumption
    <3> QED BY <3>1 DEF CallsCounted
  <2>2. \A c \in Claimer : claim[c].at \in Counting \cup {"idle", "verify", "create", "delete"}
    BY DEF QuestInv, QuestTypes, Claims, Counting, Ready
  <2> QED BY <2>1, <2>2 DEF CallsCounted, QuestInv, QuestTypes, QuestTypeOK
<1> QED BY <1>1, <1>2, <1>3, PTL

\* The rows, the handlers and the counters of a quest keep their types and
\* bounds: it is announced no more often than it was claimed or reviewed.
THEOREM QuestTypesKept == QuestSpec => []QuestTypeOK
BY QuestTypesStay, PTL DEF QuestSpec

-----------------------------------------------------------------------------
(* Broadcasts.                                                             *)

Places  == DOMAIN Targets
Sending == {"mark", "post", "record", "blame", "blameChannel"}
Errands == [at : {"idle", "edit", "plan", "due", "giveUp"}]
Sends   == [at : Sending, i : 1..Len(Targets) + 1, mailed : BOOLEAN, posted : BOOLEAN]

CastTypes ==
  /\ status \in {"draft", "scheduled", "sending", "sent", "failed"}
  /\ sender \in [Runner -> Errands \union Sends]
  /\ sent \in [Target -> Nat] /\ delivered \in [Target -> Nat]
  /\ pressed \in Nat /\ planned \in Nat

\* What a runner is about is a target, and an email where a channel is given up.
Placed == \A x \in Runner :
  /\ sender[x].at \in {"record", "blame", "blameChannel"} => sender[x].i \in Places
  /\ sender[x].at = "blameChannel" => Current(x) \in Email

\* A runner in state s will still send to place k; it writes down what it sent there.
Owes(s, k) ==
  \/ s.at \in {"due", "mark"}
  \/ s.at = "post" /\ s.i =< k
  \/ s.at \in {"record", "blame", "blameChannel"} /\ s.i < k
Notes(s, k) == s.at = "record" /\ s.i = k
Owing(k)  == {x \in Runner : Owes(sender[x], k)}
Noting(k) == {x \in Runner : Notes(sender[x], k)}

\* A schedule that the job has not taken.
OnPlan == IF status = "scheduled" /\ sender[JOB].at \notin {"due", "mark"} THEN 1 ELSE 0

\* Messages sent, about to be sent and on the plan are covered by orders; rows
\* written and about to be written are covered by messages.
Covered == \A k \in Places :
  /\ sent[Targets[k]] + Cardinality(Owing(k)) + OnPlan =< pressed + planned
  /\ delivered[Targets[k]] + Cardinality(Noting(k)) =< sent[Targets[k]]

\* Who says that something was delivered knows a row.
Backed == status = "sent" \/ (\E x \in Runner : sender[x].at \in Sending /\ Outcome(x) = "sent")
            => \E t \in Target : delivered[t] > 0

CastInv == CastTypes /\ Placed /\ Covered /\ Backed

LEMMA TargetFacts ==
  /\ Len(Targets) \in Nat /\ Places = 1..Len(Targets)
  /\ \A k \in Places : Targets[k] \in Target
  /\ \A t \in Target : \E k \in Places : t = Targets[k]
  /\ \A j, k \in Places : Targets[j] = Targets[k] => j = k
  /\ JOB \in Runner /\ IsFiniteSet(Runner)
<1>1. Len(Targets) \in Nat /\ Places = 1..Len(Targets)
  BY BroadcastAssumption, LenProperties DEF BroadcastAssumption, Places
<1>2. IsFiniteSet(Runner)
  BY BroadcastAssumption, FS_AddElement DEF BroadcastAssumption, Runner
<1> QED BY <1>1, <1>2, BroadcastAssumption DEF BroadcastAssumption, Target, Runner, Places

\* A finite set with or without one of its elements.
LEMMA Counted ==
  ASSUME NEW A, IsFiniteSet(A), NEW x, NEW B, B \in {A \union {x}, A \ {x}}
  PROVE  /\ IsFiniteSet(B) /\ Cardinality(A) \in Nat /\ Cardinality(B) \in Nat
         /\ Cardinality(B) = Cardinality(A) + (IF x \in B THEN 1 ELSE 0) - (IF x \in A THEN 1 ELSE 0)
<1>1. Cardinality(A) \in Nat
  BY FS_CardinalityType
<1>2. CASE B = A
  <2>1. (x \in B) <=> (x \in A)
    BY <1>2
  <2> QED BY <1>1, <1>2, <2>1
<1>3. CASE x \in A /\ B = A \ {x}
  <2>1. Cardinality(B) = Cardinality(A) - 1 /\ IsFiniteSet(B) /\ x \notin B
    BY <1>3, FS_RemoveElement
  <2>2. Cardinality(B) \in Nat
    BY <2>1, FS_CardinalityType
  <2> QED BY <1>1, <1>3, <2>1, <2>2
<1>4. CASE x \notin A /\ B = A \union {x}
  <2>1. Cardinality(B) = Cardinality(A) + 1 /\ IsFiniteSet(B) /\ x \in B
    BY <1>4, FS_AddElement
  <2>2. Cardinality(B) \in Nat
    BY <2>1, FS_CardinalityType
  <2> QED BY <1>1, <1>4, <2>1, <2>2
<1>5. \/ B = A
      \/ x \in A /\ B = A \ {x}
      \/ x \notin A /\ B = A \union {x}
  <2>1. x \in A => A \union {x} = A
    OBVIOUS
  <2>2. x \notin A => A \ {x} = A
    OBVIOUS
  <2> QED BY <2>1, <2>2
<1> QED BY <1>2, <1>3, <1>4, <1>5

LEMMA OwingCounts ==
  ASSUME NEW k
  PROVE  /\ Cardinality(Owing(k)) \in Nat /\ Cardinality(Noting(k)) \in Nat
         /\ IsFiniteSet(Owing(k)) /\ IsFiniteSet(Noting(k))
<1>1. IsFiniteSet(Runner) /\ Owing(k) \subseteq Runner /\ Noting(k) \subseteq Runner
  BY TargetFacts DEF Owing, Noting
<1> QED BY <1>1, FS_Subset, FS_CardinalityType

\* One runner moves on: what it owed and noted before is traded for what it owes
\* and notes now.
LEMMA RunnerMoves ==
  ASSUME CastTypes, NEW x \in Runner, NEW n \in Errands \union Sends, Move(x, n), NEW k
  PROVE  /\ sender' \in [Runner -> Errands \union Sends] /\ sender'[x] = n
         /\ \A y \in Runner \ {x} : sender'[y] = sender[y]
         /\ Cardinality(Owing(k)') = Cardinality(Owing(k)) + (IF Owes(n, k) THEN 1 ELSE 0)
                                     - (IF Owes(sender[x], k) THEN 1 ELSE 0)
         /\ Cardinality(Noting(k)') = Cardinality(Noting(k)) + (IF Notes(n, k) THEN 1 ELSE 0)
                                      - (IF Notes(sender[x], k) THEN 1 ELSE 0)
         /\ Cardinality(Owing(k)') \in Nat /\ Cardinality(Noting(k)') \in Nat
<1>1. /\ sender' \in [Runner -> Errands \union Sends] /\ sender'[x] = n
      /\ \A y \in Runner \ {x} : sender'[y] = sender[y]
  BY DEF CastTypes, Move
<1>2. Owing(k)' = {y \in Runner : Owes(sender'[y], k)} /\ Noting(k)' = {y \in Runner : Notes(sender'[y], k)}
  BY DEF Owing, Noting, Owes, Notes
<1>3. /\ Owing(k)' \in {Owing(k) \union {x}, Owing(k) \ {x}}
      /\ (x \in Owing(k)') <=> Owes(n, k)
      /\ Noting(k)' \in {Noting(k) \union {x}, Noting(k) \ {x}}
      /\ (x \in Noting(k)') <=> Notes(n, k)
  BY <1>1, <1>2 DEF Owing, Noting
<1>4. (x \in Owing(k) <=> Owes(sender[x], k)) /\ (x \in Noting(k) <=> Notes(sender[x], k))
  BY DEF Owing, Noting
<1>5. IsFiniteSet(Owing(k)) /\ IsFiniteSet(Noting(k))
  BY OwingCounts
<1>6. Cardinality(Owing(k)') = Cardinality(Owing(k)) + (IF x \in Owing(k)' THEN 1 ELSE 0)
                               - (IF x \in Owing(k) THEN 1 ELSE 0)
      /\ Cardinality(Owing(k)') \in Nat
  BY <1>3, <1>5, Counted
<1>7. Cardinality(Noting(k)') = Cardinality(Noting(k)) + (IF x \in Noting(k)' THEN 1 ELSE 0)
                                - (IF x \in Noting(k) THEN 1 ELSE 0)
      /\ Cardinality(Noting(k)') \in Nat
  BY <1>3, <1>5, Counted
<1> QED BY <1>1, <1>3, <1>4, <1>6, <1>7

Owed(s, k)  == IF Owes(s, k) THEN 1 ELSE 0
Noted(s, k) == IF Notes(s, k) THEN 1 ELSE 0

\* What the move of one runner must pay for keeps the invariant.
LEMMA CastMoves ==
  ASSUME CastInv, NEW x \in Runner, NEW n \in Errands \union Sends, Move(x, n),
         status' \in {"draft", "scheduled", "sending", "sent", "failed"},
         sent' \in [Target -> Nat], delivered' \in [Target -> Nat],
         pressed' \in Nat, planned' \in Nat,
         n.at \in {"record", "blame", "blameChannel"} => n.i \in Places,
         n.at = "blameChannel" => Targets[n.i] \in Email,
         \A k \in Places :
           /\ sent'[Targets[k]] + Owed(n, k) + OnPlan' + pressed + planned
                =< sent[Targets[k]] + Owed(sender[x], k) + OnPlan + pressed' + planned'
           /\ delivered'[Targets[k]] + Noted(n, k) + sent[Targets[k]]
                =< delivered[Targets[k]] + Noted(sender[x], k) + sent'[Targets[k]],
         \A t \in Target : delivered'[t] >= delivered[t],
         (status' = "sent" /\ status # "sent") \/ (n.at \in Sending /\ (n.mailed \/ n.posted))
           => \/ sender[x].at \in Sending /\ Outcome(x) = "sent"
              \/ \E t \in Target : delivered'[t] > 0
  PROVE  CastInv'
<1>1. CastTypes /\ Placed /\ Covered /\ Backed
  BY DEF CastInv
<1>2. /\ sender' \in [Runner -> Errands \union Sends] /\ sender'[x] = n
      /\ \A y \in Runner \ {x} : sender'[y] = sender[y]
  BY <1>1, RunnerMoves
<1>3. CastTypes'
  BY <1>1, <1>2 DEF CastTypes
<1>4. Placed'
  BY <1>1, <1>2 DEF Placed, Current
<1>5. Covered'
  <2> SUFFICES ASSUME NEW k \in Places
               PROVE  /\ sent'[Targets[k]] + Cardinality(Owing(k)') + OnPlan' =< pressed' + planned'
                      /\ delivered'[Targets[k]] + Cardinality(Noting(k)') =< sent'[Targets[k]]
    BY DEF Covered, Owing, Noting, Owes, Notes
  <2>1. /\ Cardinality(Owing(k)') = Cardinality(Owing(k)) + Owed(n, k) - Owed(sender[x], k)
        /\ Cardinality(Noting(k)') = Cardinality(Noting(k)) + Noted(n, k) - Noted(sender[x], k)
    BY <1>1, RunnerMoves DEF Owed, Noted
  <2>2. /\ sent[Targets[k]] + Cardinality(Owing(k)) + OnPlan =< pressed + planned
        /\ delivered[Targets[k]] + Cardinality(Noting(k)) =< sent[Targets[k]]
    BY <1>1 DEF Covered
  <2>3. /\ Cardinality(Owing(k)) \in Nat /\ Cardinality(Noting(k)) \in Nat
        /\ Owed(n, k) \in {0, 1} /\ Owed(sender[x], k) \in {0, 1} /\ OnPlan \in {0, 1}
        /\ Noted(n, k) \in {0, 1} /\ Noted(sender[x], k) \in {0, 1} /\ OnPlan' \in {0, 1}
    BY OwingCounts DEF Owed, Noted, OnPlan
  <2>4. Targets[k] \in Target
    BY TargetFacts
  <2>5. /\ sent[Targets[k]] \in Nat /\ sent'[Targets[k]] \in Nat /\ pressed \in Nat /\ planned \in Nat
        /\ delivered[Targets[k]] \in Nat /\ delivered'[Targets[k]] \in Nat
        /\ pressed' \in Nat /\ planned' \in Nat
    BY <1>1, <2>4 DEF CastTypes
  <2> QED BY <2>1, <2>2, <2>3, <2>5
<1>6. Backed'
  <2>1. (\E t \in Target : delivered[t] > 0) => \E t \in Target : delivered'[t] > 0
    BY <1>1 DEF CastTypes
  <2>2. \A y \in Runner \ {x} : Outcome(y)' = Outcome(y)
    BY <1>2 DEF Outcome
  <2>3. Outcome(x)' = "sent" => n.mailed \/ n.posted
    BY <1>2 DEF Outcome
  <2>4. ASSUME NEW y \in Runner, sender'[y].at \in Sending, Outcome(y)' = "sent"
        PROVE  \E t \in Target : delivered'[t] > 0
    <3>1. CASE y = x
      BY <1>1, <1>2, <2>1, <2>3, <2>4, <3>1 DEF Backed
    <3>2. CASE y # x
      BY <1>1, <1>2, <2>1, <2>2, <2>4, <3>2 DEF Backed
    <3> QED BY <3>1, <3>2
  <2>5. status' = "sent" => \E t \in Target : delivered'[t] > 0
    BY <1>1, <2>1 DEF Backed
  <2> QED BY <2>4, <2>5 DEF Backed
<1> QED BY <1>3, <1>4, <1>5, <1>6 DEF CastInv

\* A runner on its way through the targets, and where the next step leaves it.
LEMMA SendAtHand ==
  ASSUME CastInv, NEW x \in Runner, sender[x].at \in Sending
  PROVE  /\ sender[x] \in Sends /\ sender[x].i \in 1..Len(Targets) + 1
         /\ sender[x].at \in {"record", "blame", "blameChannel"} =>
              sender[x].i \in Places /\ Current(x) \in Target
BY TargetFacts DEF CastInv, CastTypes, Placed, Errands, Sends, Sending, Current

\* A move that sends nothing and writes nothing down.
LEMMA QuietMoves ==
  ASSUME CastInv, NEW x \in Runner, NEW n \in Errands \union Sends, Move(x, n),
         \/ status' \in {"draft", "scheduled", "sending", "failed"} \/ status' = status
         \/ status' = "sent" /\ sender[x].at \in Sending /\ Outcome(x) = "sent",
         UNCHANGED <<sent, delivered>>, pressed' \in Nat, planned' \in Nat,
         n.at \in {"record", "blame", "blameChannel"} => n.i \in Places,
         n.at = "blameChannel" => Targets[n.i] \in Email,
         n.at # "record",
         \A k \in Places : Owed(n, k) + OnPlan' + pressed + planned
                             =< Owed(sender[x], k) + OnPlan + pressed' + planned',
         n.at \in Sending /\ (n.mailed \/ n.posted)
           => sender[x].at \in Sending /\ Outcome(x) = "sent"
  PROVE  CastInv'
<1>1. CastTypes
  BY DEF CastInv
<1>2. \A k \in Places : /\ Targets[k] \in Target
                        /\ Noted(n, k) = 0 /\ Noted(sender[x], k) \in {0, 1}
                        /\ Owed(n, k) \in {0, 1} /\ Owed(sender[x], k) \in {0, 1}
                        /\ OnPlan \in {0, 1} /\ OnPlan' \in {0, 1}
  BY TargetFacts DEF Noted, Notes, Owed, OnPlan
<1>3. /\ status' \in {"draft", "scheduled", "sending", "sent", "failed"}
      /\ sent' \in [Target -> Nat] /\ delivered' \in [Target -> Nat]
      /\ pressed \in Nat /\ planned \in Nat
      /\ \A t \in Target : delivered[t] \in Nat /\ sent[t] \in Nat
      /\ \/ status' = "sent" => status = "sent"
         \/ sender[x].at \in Sending /\ Outcome(x) = "sent"
  BY <1>1 DEF CastTypes
<1>4. \A k \in Places :
        /\ sent'[Targets[k]] + Owed(n, k) + OnPlan' + pressed + planned
             =< sent[Targets[k]] + Owed(sender[x], k) + OnPlan + pressed' + planned'
        /\ delivered'[Targets[k]] + Noted(n, k) + sent[Targets[k]]
             =< delivered[Targets[k]] + Noted(sender[x], k) + sent'[Targets[k]]
  BY <1>2, <1>3
<1>5. \A t \in Target : delivered'[t] >= delivered[t]
  BY <1>3
<1> QED BY <1>3, <1>4, <1>5, CastMoves

\* What is owed in the states a runner is put into.
LEMMA NewStates ==
  /\ \A a \in {"idle", "edit", "plan", "due", "giveUp"} :
       [at |-> a] \in Errands \union Sends /\ [at |-> a].at = a
  /\ Dormant = [at |-> "idle"]
  /\ ToSend \in Errands \union Sends /\ ToSend.at = "mark" /\ ~ToSend.mailed /\ ~ToSend.posted
  /\ \A s, k : /\ s.at \in {"idle", "edit", "plan", "giveUp"} => Owed(s, k) = 0
               /\ s.at \in {"due", "mark"} => Owed(s, k) = 1
               /\ Owed(s, k) \in {0, 1}
  /\ OnPlan \in {0, 1}
<1>1. \A a \in {"idle", "edit", "plan", "due", "giveUp"} :
        [at |-> a] \in Errands \union Sends /\ [at |-> a].at = a
  BY DEF Errands
<1>2. /\ ToSend \in Errands \union Sends /\ ToSend.at = "mark"
      /\ ~ToSend.mailed /\ ~ToSend.posted
  BY TargetFacts DEF Sends, Sending, ToSend
<1>3. ASSUME NEW s, NEW k
      PROVE  /\ s.at \in {"idle", "edit", "plan", "giveUp"} => Owed(s, k) = 0
             /\ s.at \in {"due", "mark"} => Owed(s, k) = 1
             /\ Owed(s, k) \in {0, 1}
  <2>1. s.at \in {"idle", "edit", "plan", "giveUp"} => ~Owes(s, k)
    BY DEF Owes
  <2>2. s.at \in {"due", "mark"} => Owes(s, k)
    BY DEF Owes
  <2> QED BY <2>1, <2>2 DEF Owed
<1> QED BY <1>1, <1>2, <1>3 DEF Dormant, OnPlan

LEMMA DraftsMove ==
  ASSUME CastInv, NEW x \in Runner, ReadDraft(x) \/ WriteDraft(x) \/ PressSend(x)
  PROVE  CastInv'
<1>1. /\ CastTypes /\ JOB \in Runner /\ pressed \in Nat /\ planned \in Nat
      /\ pressed' \in Nat /\ planned' \in Nat /\ UNCHANGED <<sent, delivered>>
  BY TargetFacts DEF CastInv, CastTypes, ReadDraft, WriteDraft, PressSend
<1>2. PICK n \in Errands \union Sends :
        /\ Move(x, n) /\ n.at \in {"idle", "edit", "plan", "mark"}
        /\ n.at = "mark" => /\ pressed' = pressed + 1 /\ planned' = planned /\ status' = status
                            /\ ~n.mailed /\ ~n.posted /\ x # JOB
        /\ n.at # "mark" => \/ UNCHANGED <<status, pressed, planned>>
                            \/ status' = "scheduled" /\ planned' = planned + 1 /\ pressed' = pressed
        /\ sender[x].at \in {"idle", "edit", "plan"}
  BY NewStates DEF ReadDraft, WriteDraft, PressSend
<1>3. sender'[x] = n /\ \A y \in Runner \ {x} : sender'[y] = sender[y]
  BY <1>1, <1>2, RunnerMoves
<1>4. \A k \in Places : Owed(n, k) + OnPlan' + pressed + planned
                          =< Owed(sender[x], k) + OnPlan + pressed' + planned'
  <2> SUFFICES ASSUME NEW k \in Places
               PROVE  Owed(n, k) + OnPlan' + pressed + planned
                        =< Owed(sender[x], k) + OnPlan + pressed' + planned'
    OBVIOUS
  <2>1. Owed(sender[x], k) = 0 /\ Owed(n, k) = (IF n.at = "mark" THEN 1 ELSE 0)
    BY <1>2, NewStates
  <2>2. status' = status => OnPlan' = OnPlan
    BY <1>1, <1>2, <1>3 DEF OnPlan
  <2> QED BY <1>1, <1>2, <2>1, <2>2 DEF OnPlan
<1>5. status' \in {"draft", "scheduled", "sending", "failed"} \/ status' = status
  BY <1>2
<1> QED BY <1>1, <1>2, <1>4, <1>5, QuietMoves DEF Sending

\* The job finds the broadcast, and takes it from the plan.
LEMMA JobMoves ==
  ASSUME CastInv, FindDue \/ SendDue \/ GiveUp
  PROVE  CastInv'
<1>1. /\ CastTypes /\ JOB \in Runner /\ pressed \in Nat /\ planned \in Nat
      /\ UNCHANGED <<sent, delivered, pressed, planned>>
  BY TargetFacts DEF CastInv, CastTypes, FindDue, SendDue, GiveUp
<1>2. PICK n \in Errands \union Sends :
        /\ Move(JOB, n)
        /\ \/ n.at = "due" /\ sender[JOB].at = "idle" /\ status = "scheduled" /\ status' = status
           \/ n.at = "mark" /\ sender[JOB].at = "due" /\ status' = status /\ ~n.mailed /\ ~n.posted
           \/ n.at = "idle" /\ sender[JOB].at = "giveUp" /\ status' = "failed"
  BY NewStates DEF FindDue, SendDue, GiveUp
<1>3. sender'[JOB] = n
  BY <1>1, <1>2, RunnerMoves
<1>4. \A k \in Places : Owed(n, k) + OnPlan' + pressed + planned
                          =< Owed(sender[JOB], k) + OnPlan + pressed' + planned'
  <2> SUFFICES ASSUME NEW k \in Places
               PROVE  Owed(n, k) + OnPlan' + pressed + planned
                        =< Owed(sender[JOB], k) + OnPlan + pressed' + planned'
    OBVIOUS
  <2>1. /\ Owed(sender[JOB], k) = (IF sender[JOB].at = "due" THEN 1 ELSE 0)
        /\ Owed(n, k) = (IF n.at = "idle" THEN 0 ELSE 1)
    BY <1>2, NewStates
  <2> QED BY <1>1, <1>2, <1>3, <2>1 DEF OnPlan
<1>5. status' \in {"draft", "scheduled", "sending", "failed"} \/ status' = status
  BY <1>2
<1> QED BY <1>1, <1>2, <1>4, <1>5, QuietMoves DEF Sending

\* The mark takes the broadcast from the job's plan, whoever sends.
LEMMA Marks ==
  ASSUME CastInv, NEW x \in Runner, MarkSent(x)
  PROVE  CastInv'
<1> DEFINE n == [sender[x] EXCEPT !.at = "post"]
<1>1. /\ CastTypes /\ pressed \in Nat /\ planned \in Nat /\ status' = "sending" /\ Move(x, n)
      /\ UNCHANGED <<sent, delivered, pressed, planned>> /\ sender[x].at = "mark"
  BY DEF CastInv, CastTypes, MarkSent, Step
<1>2. /\ n \in Errands \union Sends /\ n.at = "post"
      /\ n.mailed = sender[x].mailed /\ n.posted = sender[x].posted
  BY <1>1, SendAtHand DEF Sends, Sending
<1> HIDE DEF n
<1>3. OnPlan' = 0
  BY <1>1 DEF OnPlan
<1>4. \A k \in Places : Owed(n, k) + OnPlan' + pressed + planned
                          =< Owed(sender[x], k) + OnPlan + pressed' + planned'
  BY <1>1, <1>3, NewStates
<1> QED BY <1>1, <1>2, <1>4, QuietMoves DEF Sending, Outcome

LEMMA SendsOne ==
  ASSUME CastInv, NEW x \in Runner, SendOne(x)
  PROVE  CastInv'
<1> DEFINE t == Current(x)
<1>1. PICK n \in {[sender[x] EXCEPT !.at = "record"], [sender[x] EXCEPT !.at = "blame"]} :
        /\ Move(x, n)
        /\ n.at = "record" => sent' = [sent EXCEPT ![t] = @ + 1]
        /\ n.at = "blame" => sent' = sent
        /\ n.at \in {"record", "blame"}
  <2>1. sender[x].at = "post"
    BY DEF SendOne
  <2>2. sender[x] \in Sends
    BY <2>1, SendAtHand DEF Sending
  <2>3. /\ [sender[x] EXCEPT !.at = "record"].at = "record"
        /\ [sender[x] EXCEPT !.at = "blame"].at = "blame"
    BY <2>2 DEF Sends
  <2> QED BY <2>3 DEF SendOne, Step
<1>2. /\ sender[x].at = "post" /\ sender[x].i =< Len(Targets) /\ sender[x] \in Sends
      /\ sender[x].i \in 1..Len(Targets) + 1 /\ CastTypes
      /\ UNCHANGED <<status, content, delivered, pressed, planned, troubles>>
  BY SendAtHand DEF SendOne, More, Sending, CastInv
<1>3. /\ sender[x].i \in Places /\ t \in Target /\ t = Targets[sender[x].i]
  BY <1>2, TargetFacts DEF Current
<1>4. /\ n \in Errands \union Sends /\ n.i = sender[x].i
      /\ n.mailed = sender[x].mailed /\ n.posted = sender[x].posted
  BY <1>1, <1>2 DEF Sends, Sending
<1>5. sender'[x] = n /\ \A y \in Runner \ {x} : sender'[y] = sender[y]
  BY <1>1, <1>2, <1>4, RunnerMoves
<1> HIDE DEF t
<1>6. sent' \in [Target -> Nat] /\ delivered' \in [Target -> Nat] /\ pressed' \in Nat /\ planned' \in Nat
  <2>1. sent \in [Target -> Nat] /\ delivered' = delivered /\ pressed' = pressed /\ planned' = planned
    BY <1>2 DEF CastTypes
  <2>2. n.at = "record" => sent' \in [Target -> Nat]
    BY <1>1, <2>1
  <2>3. n.at = "blame" => sent' \in [Target -> Nat]
    BY <1>1, <2>1
  <2> QED BY <1>1, <1>2, <2>2, <2>3 DEF CastTypes
<1>7. OnPlan' = OnPlan
  BY <1>1, <1>2, <1>5, TargetFacts DEF OnPlan
<1>8. ASSUME NEW k \in Places
      PROVE  /\ sent'[Targets[k]] + Owed(n, k) + OnPlan' + pressed + planned
                  =< sent[Targets[k]] + Owed(sender[x], k) + OnPlan + pressed' + planned'
             /\ delivered'[Targets[k]] + Noted(n, k) + sent[Targets[k]]
                  =< delivered[Targets[k]] + Noted(sender[x], k) + sent'[Targets[k]]
  <2>1. /\ Targets[k] \in Target /\ sent[Targets[k]] \in Nat /\ delivered[Targets[k]] \in Nat
        /\ pressed \in Nat /\ planned \in Nat /\ OnPlan \in {0, 1}
        /\ k \in Nat /\ sender[x].i \in Nat
    BY <1>2, <1>3, TargetFacts, NewStates DEF CastTypes
  <2>2. Noted(sender[x], k) = 0
    BY <1>2 DEF Noted, Notes
  <2>3. CASE k = sender[x].i
    <3>1. Owed(sender[x], k) = 1 /\ Owed(n, k) = 0
      BY <1>1, <1>2, <1>4, <2>1, <2>3 DEF Owed, Owes
    <3>2. /\ n.at = "record" => sent'[Targets[k]] = sent[Targets[k]] + 1 /\ Noted(n, k) = 1
          /\ n.at = "blame" => sent'[Targets[k]] = sent[Targets[k]] /\ Noted(n, k) = 0
      BY <1>1, <1>2, <1>3, <1>4, <2>1, <2>3 DEF Noted, Notes, CastTypes
    <3>3. delivered' = delivered /\ pressed' = pressed /\ planned' = planned
      BY <1>2
    <3>4. CASE n.at = "record"
      BY <1>7, <2>1, <2>2, <3>1, <3>2, <3>3, <3>4
    <3>5. CASE n.at = "blame"
      BY <1>7, <2>1, <2>2, <3>1, <3>2, <3>3, <3>5
    <3> QED BY <1>1, <3>4, <3>5
  <2>4. CASE k # sender[x].i
    <3>1. Owed(sender[x], k) = Owed(n, k) /\ Noted(n, k) = 0
      BY <1>1, <1>2, <1>4, <2>1, <2>4 DEF Owed, Owes, Noted, Notes
    <3>2. sent'[Targets[k]] = sent[Targets[k]]
      <4>1. Targets[k] # t
        BY <1>3, <2>4, TargetFacts
      <4> QED BY <1>1, <1>2, <2>1, <4>1 DEF CastTypes
    <3>3. Owed(n, k) \in {0, 1}
      BY NewStates
    <3> QED BY <1>2, <1>7, <2>1, <2>2, <3>1, <3>2, <3>3
  <2> QED BY <2>3, <2>4
<1>9. \A u \in Target : delivered'[u] >= delivered[u]
  BY <1>2 DEF CastTypes
<1>10. n.at # "blameChannel" /\ (n.at \in {"record", "blame"} => n.i \in Places)
  BY <1>1, <1>3, <1>4
<1>11. /\ status' \in {"draft", "scheduled", "sending", "sent", "failed"} /\ status' = status
       /\ n.mailed \/ n.posted => sender[x].at \in Sending /\ Outcome(x) = "sent"
  BY <1>2, <1>4 DEF CastTypes, Sending, Outcome
<1> QED BY <1>1, <1>4, <1>6, <1>8, <1>9, <1>10, <1>11, CastMoves

\* What has been accepted is written down.
LEMMA Records ==
  ASSUME CastInv, NEW x \in Runner, Record(x)
  PROVE  CastInv'
<1> DEFINE t == Current(x)
<1> DEFINE n == [sender[x] EXCEPT !.at = "post", !.i = @ + 1,
                                  !.mailed = @ \/ Current(x) \in Email,
                                  !.posted = @ \/ Current(x) \notin Email]
<1>1. /\ sender[x].at = "record" /\ Move(x, n) /\ delivered' = [delivered EXCEPT ![t] = @ + 1]
      /\ UNCHANGED <<status, content, sent, pressed, planned, troubles>> /\ CastTypes
  BY DEF Record, CastInv
<1>2. sender[x] \in Sends /\ sender[x].i \in Places /\ t \in Target /\ t = Targets[sender[x].i]
  BY <1>1, SendAtHand DEF Sending, Current
<1>3. sender[x].i \in 1..Len(Targets) /\ Len(Targets) \in Nat
  BY <1>2, TargetFacts
<1>4. n \in Errands \union Sends /\ n.i = sender[x].i + 1 /\ n.at = "post"
  <2> DEFINE mailed == sender[x].mailed \/ Current(x) \in Email
  <2> DEFINE posted == sender[x].posted \/ Current(x) \notin Email
  <2>1. mailed \in BOOLEAN /\ posted \in BOOLEAN
    OBVIOUS
  <2>2. n = [sender[x] EXCEPT !.at = "post", !.i = @ + 1, !.mailed = mailed, !.posted = posted]
    OBVIOUS
  <2> HIDE DEF mailed, posted, n
  <2>3. n = [at |-> "post", i |-> sender[x].i + 1, mailed |-> mailed, posted |-> posted]
    BY <1>2, <2>2 DEF Sends
  <2>4. sender[x].i + 1 \in 1..Len(Targets) + 1 /\ "post" \in Sending
    BY <1>3 DEF Sending
  <2> QED BY <2>1, <2>3, <2>4 DEF Sends
<1> HIDE DEF n, t
<1>5. sender'[x] = n /\ \A y \in Runner \ {x} : sender'[y] = sender[y]
  BY <1>1, <1>4, RunnerMoves
<1>6. sent' \in [Target -> Nat] /\ delivered' \in [Target -> Nat] /\ pressed' \in Nat /\ planned' \in Nat
  BY <1>1, <1>2 DEF CastTypes
<1>7. OnPlan' = OnPlan
  BY <1>1, <1>4, <1>5, TargetFacts DEF OnPlan
<1>8. ASSUME NEW k \in Places
      PROVE  /\ sent'[Targets[k]] + Owed(n, k) + OnPlan' + pressed + planned
                  =< sent[Targets[k]] + Owed(sender[x], k) + OnPlan + pressed' + planned'
             /\ delivered'[Targets[k]] + Noted(n, k) + sent[Targets[k]]
                  =< delivered[Targets[k]] + Noted(sender[x], k) + sent'[Targets[k]]
  <2>1. /\ Targets[k] \in Target /\ sent[Targets[k]] \in Nat /\ delivered[Targets[k]] \in Nat
        /\ pressed \in Nat /\ planned \in Nat /\ OnPlan \in {0, 1} /\ k \in Nat
    BY <1>1, TargetFacts, NewStates DEF CastTypes
  <2>2. Owed(sender[x], k) = Owed(n, k) /\ Owed(n, k) \in {0, 1} /\ Noted(n, k) = 0
    BY <1>1, <1>3, <1>4, <2>1 DEF Owed, Owes, Noted, Notes
  <2>3. CASE k = sender[x].i
    <3>1. Noted(sender[x], k) = 1 /\ delivered'[Targets[k]] = delivered[Targets[k]] + 1
      BY <1>1, <1>2, <2>1, <2>3 DEF Noted, Notes, CastTypes
    <3> QED BY <1>1, <1>7, <2>1, <2>2, <3>1
  <2>4. CASE k # sender[x].i
    <3>1. Targets[k] # t
      BY <1>2, <2>4, TargetFacts
    <3>2. Noted(sender[x], k) = 0 /\ delivered'[Targets[k]] = delivered[Targets[k]]
      BY <1>1, <2>1, <2>4, <3>1 DEF Noted, Notes, CastTypes
    <3> QED BY <1>1, <1>7, <2>1, <2>2, <3>2
  <2> QED BY <2>3, <2>4
<1>9. /\ \A u \in Target : delivered'[u] >= delivered[u]
      /\ delivered'[t] > 0
  BY <1>1, <1>2 DEF CastTypes
<1>10. status' \in {"draft", "scheduled", "sending", "sent", "failed"} /\ status' = status
  BY <1>1 DEF CastTypes
<1> QED BY <1>1, <1>2, <1>4, <1>6, <1>8, <1>9, <1>10, CastMoves

\* A runner is through with a target, with all of them, or gives up a channel.
LEMMA GoesOn ==
  ASSUME CastInv, NEW x \in Runner, Blame(x) \/ BlameChannel(x) \/ Finish(x)
  PROVE  CastInv'
<1>1. /\ CastTypes /\ pressed \in Nat /\ planned \in Nat
      /\ UNCHANGED <<sent, delivered, pressed, planned>>
      /\ sender[x] \in Sends /\ sender[x].at \in {"blame", "blameChannel", "post"}
      /\ sender[x].at \in {"blame", "blameChannel"} => sender[x].i \in Places
      /\ sender[x].at = "blameChannel" => Current(x) \in Email
      /\ sender[x].i \in 1..Len(Targets) + 1
  BY SendAtHand DEF CastInv, CastTypes, Blame, BlameChannel, Finish, Sending, Placed
<1>2. Len(Targets) \in Nat /\ Places = 1..Len(Targets)
  BY TargetFacts
<1>3. PICK n \in Errands \union Sends :
        /\ Move(x, n)
        /\ \/ /\ n.at = "post" /\ n.i > sender[x].i /\ n.i \in 1..Len(Targets) + 1
              /\ n.mailed => sender[x].mailed
              /\ n.posted = sender[x].posted
              /\ sender[x].at \in {"blame", "blameChannel"} /\ status' = status
           \/ /\ n.at = "idle" /\ sender[x].at = "post" /\ ~(sender[x].i =< Len(Targets))
              /\ status' = Outcome(x)
  <2>1. CASE Blame(x)
    <3> DEFINE n == [sender[x] EXCEPT !.at = "post", !.i = @ + 1]
    <3>1. sender[x].i + 1 \in 1..Len(Targets) + 1 /\ sender[x].at = "blame"
      BY <1>1, <1>2, <2>1 DEF Blame
    <3>2. n \in Sends /\ n.at = "post" /\ n.i = sender[x].i + 1 /\ n.mailed = sender[x].mailed
          /\ n.posted = sender[x].posted
      BY <1>1, <3>1 DEF Sends, Sending
    <3>3. Move(x, n) /\ status' = status
      BY <2>1 DEF Blame
    <3>4. sender[x].i \in Nat
      BY <1>1, <1>2
    <3> HIDE DEF n
    <3>5. n.i > sender[x].i /\ n.i \in 1..Len(Targets) + 1 /\ sender[x].at \in {"blame", "blameChannel"}
      BY <3>1, <3>2, <3>4
    <3> QED BY <3>2, <3>3, <3>5
  <2>2. CASE BlameChannel(x)
    <3>1. PICK j \in sender[x].i..Len(Targets) + 1 :
            /\ NextChannel(sender[x].i, j)
            /\ Move(x, [sender[x] EXCEPT !.at = "post", !.i = j, !.mailed = FALSE])
      BY <2>2 DEF BlameChannel
    <3> DEFINE n == [sender[x] EXCEPT !.at = "post", !.i = j, !.mailed = FALSE]
    <3>2. j # sender[x].i
      <4>1. sender[x].at = "blameChannel"
        BY <2>2 DEF BlameChannel
      <4>2. sender[x].i \in 1..Len(Targets) /\ Targets[sender[x].i] \in Email
        BY <1>1, <1>2, <4>1 DEF Current
      <4>3. ~(sender[x].i > Len(Targets))
        BY <1>2, <4>2
      <4> QED BY <3>1, <4>2, <4>3 DEF NextChannel
    <3>3. j \in 1..Len(Targets) + 1 /\ j > sender[x].i
      BY <1>1, <1>2, <3>1, <3>2
    <3>4. n \in Sends /\ n.at = "post" /\ n.i = j /\ ~n.mailed /\ n.posted = sender[x].posted
      BY <1>1, <3>3 DEF Sends, Sending
    <3> QED BY <2>2, <3>1, <3>3, <3>4 DEF BlameChannel
  <2>3. CASE Finish(x)
    BY <2>3, NewStates DEF Finish, More
  <2> QED BY <2>1, <2>2, <2>3
<1>4. sender'[x] = n /\ \A y \in Runner \ {x} : sender'[y] = sender[y]
  BY <1>1, <1>3, RunnerMoves
<1>5. \A k \in Places : Owed(n, k) =< Owed(sender[x], k)
  BY <1>1, <1>2, <1>3 DEF Owed, Owes
<1>6. OnPlan' = OnPlan \/ OnPlan' = 0
  BY <1>1, <1>3, <1>4, TargetFacts DEF OnPlan, Outcome
<1>7. \A k \in Places : Owed(n, k) + OnPlan' + pressed + planned
                          =< Owed(sender[x], k) + OnPlan + pressed' + planned'
  BY <1>1, <1>5, <1>6, NewStates
<1>8. /\ \/ status' \in {"draft", "scheduled", "sending", "failed"} \/ status' = status
         \/ status' = "sent" /\ sender[x].at \in Sending /\ Outcome(x) = "sent"
      /\ n.at \in Sending /\ (n.mailed \/ n.posted)
           => sender[x].at \in Sending /\ Outcome(x) = "sent"
  BY <1>1, <1>3 DEF Sending, Outcome
<1> QED BY <1>1, <1>3, <1>7, <1>8, QuietMoves

LEMMA QueriesFail ==
  ASSUME CastInv, NEW x \in Runner, QueryFails(x)
  PROVE  CastInv'
<1>1. /\ CastTypes /\ pressed \in Nat /\ planned \in Nat
      /\ UNCHANGED <<status, sent, delivered, pressed, planned>>
      /\ sender[x].at \in Sending => sender[x] \in Sends /\ sender[x].i \in 1..Len(Targets) + 1
      /\ sender[x].at \in {"record", "blame", "blameChannel"} => sender[x].i \in Places
  <2>1. /\ CastTypes /\ pressed \in Nat /\ planned \in Nat
        /\ UNCHANGED <<status, sent, delivered, pressed, planned>>
    BY DEF CastInv, CastTypes, QueryFails
  <2>2. sender[x].at \in Sending => sender[x] \in Sends /\ sender[x].i \in 1..Len(Targets) + 1
    BY SendAtHand
  <2>3. sender[x].at \in {"record", "blame", "blameChannel"} => sender[x].i \in Places
    BY DEF CastInv, Placed
  <2> QED BY <2>1, <2>2, <2>3
<1>2. Len(Targets) \in Nat /\ Places = 1..Len(Targets)
  BY TargetFacts
<1>3. /\ Thrown(x) \in Errands \union Sends /\ Thrown(x).at \in {"idle", "giveUp"}
      /\ Dormant \in Errands \union Sends /\ Dormant.at = "idle"
  BY NewStates DEF Thrown
<1>4. ASSUME sender[x] \in Sends, NEW a \in Sending
      PROVE  /\ [sender[x] EXCEPT !.at = a] \in Sends
             /\ [sender[x] EXCEPT !.at = a].at = a
             /\ [sender[x] EXCEPT !.at = a].i = sender[x].i
             /\ [sender[x] EXCEPT !.at = a].mailed = sender[x].mailed
             /\ [sender[x] EXCEPT !.at = a].posted = sender[x].posted
  BY <1>4 DEF Sends
<1>5. PICK n \in Errands \union Sends :
        /\ Move(x, n)
        /\ \/ n.at \in {"idle", "giveUp"}
           \/ /\ n.at \in {"blame", "blameChannel"} /\ n.i = sender[x].i /\ n.i \in Places
              /\ n.at = "blameChannel" => Targets[n.i] \in Email
              /\ n.mailed = sender[x].mailed /\ n.posted = sender[x].posted
              /\ sender[x].at \in {"record", "blame", "post"} /\ sender[x] \in Sends
  <2>1. CASE sender[x].at = "record" /\ Step(x, "blame")
    BY <1>1, <1>4, <2>1 DEF Step, Sending
  <2>2. CASE sender[x].at = "blame" /\ Current(x) \in Email /\ Step(x, "blameChannel")
    BY <1>1, <1>4, <2>2 DEF Step, Sending, Current
  <2>3. CASE sender[x].at = "post" /\ FirstEmail(sender[x].i) /\ Step(x, "blameChannel")
    <3>1. sender[x].i \in Places /\ Targets[sender[x].i] \in Email
      BY <1>1, <1>2, <2>3 DEF FirstEmail, Sending
    <3> QED BY <1>1, <1>4, <2>3, <3>1 DEF Step, Sending
  <2>4. CASE Move(x, Thrown(x)) \/ Move(x, Dormant)
    BY <1>3, <2>4
  <2> QED BY <2>1, <2>2, <2>3, <2>4 DEF QueryFails
<1>6. sender'[x] = n /\ \A y \in Runner \ {x} : sender'[y] = sender[y]
  BY <1>1, <1>5, RunnerMoves
<1>7. ASSUME NEW k \in Places
      PROVE  Owed(n, k) + OnPlan' + pressed + planned
               =< Owed(sender[x], k) + OnPlan + pressed' + planned'
  <2>1. /\ Owed(n, k) \in {0, 1} /\ Owed(sender[x], k) \in {0, 1} /\ OnPlan \in {0, 1}
        /\ OnPlan' \in {0, 1}
    BY NewStates DEF OnPlan
  <2>2. CASE sender[x].at \in {"due", "mark"}
    <3>1. Owed(n, k) = 0 /\ Owed(sender[x], k) = 1
      BY <1>5, <2>2, NewStates
    <3> QED BY <1>1, <2>1, <3>1
  <2>3. CASE sender[x].at \notin {"due", "mark"}
    <3>1. OnPlan' = OnPlan
      BY <1>1, <1>5, <1>6, <2>3, TargetFacts DEF OnPlan
    <3>2. CASE n.at \in {"idle", "giveUp"}
      <4>1. Owed(n, k) = 0
        BY <3>2, NewStates
      <4> QED BY <1>1, <2>1, <3>1, <4>1
    <3>3. CASE n.at \in {"blame", "blameChannel"}
      <4>1. n.i = sender[x].i /\ n.i \in Nat /\ k \in Nat /\ sender[x].at \in {"record", "blame", "post"}
        BY <1>2, <1>5, <3>3
      <4>2. Owed(n, k) =< Owed(sender[x], k)
        BY <3>3, <4>1 DEF Owed, Owes
      <4> QED BY <1>1, <2>1, <3>1, <4>2
    <3> QED BY <1>5, <3>2, <3>3
  <2> QED BY <2>2, <2>3
<1>8. n.at \in Sending /\ (n.mailed \/ n.posted) => sender[x].at \in Sending /\ Outcome(x) = "sent"
  BY <1>5 DEF Sending, Outcome
<1> QED BY <1>1, <1>5, <1>7, <1>8, QuietMoves

\* A crash leaves nobody at work: what the job owed is on the plan again.
LEMMA Crashes ==
  ASSUME CastInv, CastCrash
  PROVE  CastInv'
<1>1. /\ CastTypes /\ Placed /\ Covered /\ Backed /\ sender' = [x \in Runner |-> Dormant]
      /\ UNCHANGED <<status, content, sent, delivered, pressed, planned>>
  BY DEF CastInv, CastCrash
<1>2. \A x \in Runner : sender'[x].at = "idle" /\ sender'[x] \in Errands \union Sends
  BY <1>1, NewStates
<1>3. CastTypes' /\ Placed' /\ Backed'
  BY <1>1, <1>2 DEF CastTypes, Placed, Backed, Sending
<1>4. Covered'
  <2> SUFFICES ASSUME NEW k \in Places
               PROVE  /\ sent'[Targets[k]] + Cardinality(Owing(k)') + OnPlan' =< pressed' + planned'
                      /\ delivered'[Targets[k]] + Cardinality(Noting(k)') =< sent'[Targets[k]]
    BY DEF Covered, Owing, Noting, Owes, Notes
  <2>1. Owing(k)' = {} /\ Noting(k)' = {}
    BY <1>2 DEF Owing, Noting, Owes, Notes
  <2>2. Cardinality(Owing(k)') = 0 /\ Cardinality(Noting(k)') = 0
    BY <2>1, FS_EmptySet
  <2>3. /\ Cardinality(Owing(k)) \in Nat /\ Cardinality(Noting(k)) \in Nat
        /\ sent[Targets[k]] \in Nat /\ delivered[Targets[k]] \in Nat
        /\ pressed \in Nat /\ planned \in Nat
    BY <1>1, OwingCounts, TargetFacts DEF CastTypes
  <2>4. OnPlan' =< Cardinality(Owing(k)) + OnPlan
    <3>1. CASE sender[JOB].at \in {"due", "mark"}
      <4>1. JOB \in Owing(k)
        BY <3>1, TargetFacts DEF Owing, Owes
      <4>2. Cardinality(Owing(k)) # 0
        BY <4>1, OwingCounts, FS_EmptySet
      <4>3. OnPlan' \in {0, 1} /\ OnPlan \in {0, 1}
        BY DEF OnPlan
      <4> QED BY <2>3, <4>2, <4>3
    <3>2. CASE sender[JOB].at \notin {"due", "mark"}
      BY <1>1, <2>3, <3>2 DEF OnPlan
    <3> QED BY <3>1, <3>2
  <2>5. OnPlan \in {0, 1} /\ OnPlan' \in {0, 1}
    BY DEF OnPlan
  <2> QED BY <1>1, <2>2, <2>3, <2>4, <2>5 DEF Covered
<1> QED BY <1>3, <1>4 DEF CastInv

LEMMA CastInitInv == CastInit => CastInv
<1> SUFFICES ASSUME CastInit PROVE CastInv
  OBVIOUS
<1>1. \A x \in Runner : sender[x].at = "idle" /\ sender[x] \in Errands \union Sends
  BY NewStates DEF CastInit
<1>2. CastTypes /\ Placed /\ Backed
  BY <1>1, NewStates DEF CastInit, CastTypes, Placed, Backed, Sending
<1>3. \A k \in Places : Owing(k) = {} /\ Noting(k) = {} /\ Targets[k] \in Target
  BY <1>1, TargetFacts DEF Owing, Noting, Owes, Notes
<1>4. Covered
  BY <1>3, FS_EmptySet DEF CastInit, Covered, OnPlan
<1> QED BY <1>2, <1>4 DEF CastInv

LEMMA CastNextInv == CastInv /\ [CastNext]_castVars => CastInv'
<1> SUFFICES ASSUME CastInv, [CastNext]_castVars PROVE CastInv'
  OBVIOUS
<1>1. CASE UNCHANGED castVars
  BY <1>1 DEF castVars, CastInv, CastTypes, Placed, Covered, Backed, Current, Owing, Noting,
     OnPlan, Outcome
<1> QED BY <1>1, DraftsMove, JobMoves, Marks, SendsOne, Records, GoesOn, QueriesFail, Crashes
        DEF CastNext, SendRuns

LEMMA BroadcastsStaySafe == CastInit /\ [][CastNext]_castVars => []CastSafety
<1>1. CastInv => CastSafety
  <2> SUFFICES ASSUME CastInv PROVE CastSafety
    OBVIOUS
  <2>1. ASSUME NEW t \in Target PROVE sent[t] =< pressed + planned /\ delivered[t] =< sent[t]
    <3>1. PICK k \in Places : t = Targets[k]
      BY TargetFacts
    <3>2. /\ sent[t] \in Nat /\ delivered[t] \in Nat /\ pressed \in Nat /\ planned \in Nat
          /\ Cardinality(Owing(k)) \in Nat /\ Cardinality(Noting(k)) \in Nat /\ OnPlan \in {0, 1}
      BY OwingCounts, NewStates DEF CastInv, CastTypes
    <3>3. /\ sent[Targets[k]] + Cardinality(Owing(k)) + OnPlan =< pressed + planned
          /\ delivered[Targets[k]] + Cardinality(Noting(k)) =< sent[Targets[k]]
      BY DEF CastInv, Covered
    <3> QED BY <3>1, <3>2, <3>3
  <2> QED BY <2>1 DEF CastSafety, OneMessagePerOrder, SentIsRecorded, CastInv, Backed
<1> QED BY <1>1, CastInitInv, CastNextInv, PTL

\* No failure, crash or overlap of requests and job sends a target more messages
\* than there were orders, and 'sent' has a recorded delivery behind it, for any
\* number of targets and requests.
THEOREM BroadcastsSafe == CastSpec => []CastSafety
BY BroadcastsStaySafe, PTL DEF CastSpec

\* Edits are counted, and failures up to their bound.
CastCounts == content \in Nat /\ troubles \in 0..MaxBroadcastFaults

LEMMA CastCountsKept ==
  /\ CastInit => CastCounts
  /\ CastCounts /\ [CastNext]_castVars => CastCounts'
<1>1. MaxBroadcastFaults \in Nat
  BY BroadcastAssumption DEF BroadcastAssumption
<1>2. CastInit => CastCounts
  BY <1>1 DEF CastInit, CastCounts
<1>3. ASSUME CastCounts, CastNext PROVE CastCounts'
  <2>1. CASE \E x \in Runner : QueryFails(x)
    BY <1>1, <1>3, <2>1 DEF QueryFails, CastCounts
  <2>2. CASE CastCrash
    BY <1>1, <1>3, <2>2 DEF CastCrash, CastCounts
  <2>3. CASE \E x \in Runner : WriteDraft(x)
    BY <1>3, <2>3 DEF WriteDraft, CastCounts
  <2>4. CASE content' = content /\ troubles' = troubles
    BY <1>3, <2>4 DEF CastCounts
  <2> QED BY <1>3, <2>1, <2>2, <2>3, <2>4
          DEF CastNext, SendRuns, ReadDraft, PressSend, MarkSent, SendOne, Record, Blame,
              BlameChannel, Finish, FindDue, SendDue, GiveUp
<1>4. CastCounts /\ UNCHANGED castVars => CastCounts'
  BY DEF CastCounts, castVars
<1> QED BY <1>2, <1>3, <1>4

LEMMA CastInvTypes == CastInv /\ CastCounts => CastTypeOK
<1> SUFFICES ASSUME CastInv, CastCounts PROVE CastTypeOK
  OBVIOUS
<1>1. ASSUME NEW x \in Runner
      PROVE  sender[x].at \in {"idle", "edit", "plan", "due", "mark", "post", "record", "blame",
                               "blameChannel", "giveUp"}
  BY DEF CastInv, CastTypes, Errands, Sends, Sending
<1> QED BY <1>1 DEF CastInv, CastTypes, CastCounts, CastTypeOK

LEMMA CastTypesStay == CastInit /\ [][CastNext]_castVars => []CastTypeOK
BY CastInitInv, CastNextInv, CastCountsKept, CastInvTypes, PTL

\* A broadcast keeps its types, whatever number of requests is under way.
THEOREM CastTypesKept == CastSpec => []CastTypeOK
BY CastTypesStay, PTL DEF CastSpec

-----------------------------------------------------------------------------
(* Deletions under the GDPR.                                               *)

GdprTypes ==
  /\ gdprStatus \in [Profile -> {"NONE", "PENDING_DELETION", "COMPLETED"}]
  /\ left \in [Profile -> 0..Grace] /\ waited \in [Profile -> 0..Grace]
  /\ logs \in [Profile -> Seq({"PENDING", "CANCELLED", "EXECUTED"})]
  /\ list \in Seq(Profile) /\ cancelling \in Profile \cup {NOBODY}

\* A profile is pending exactly if its log says so, and its clocks agree.
Pending ==
  \A p \in Profile :
    /\ Contains(logs[p], "PENDING") <=> gdprStatus[p] = "PENDING_DELETION"
    /\ gdprStatus[p] = "PENDING_DELETION" => waited[p] + left[p] >= Grace

\* What the run found once is found once, and is still due unless it was
\* cancelled behind the run's back.
Listed ==
  /\ \A i, j \in 1..Len(list) : list[i] = list[j] => i = j
  /\ \A i \in 1..Len(list) :
       list[i] \notin late => gdprStatus[list[i]] = "PENDING_DELETION" /\ waited[list[i]] = Grace

GdprInv == GdprTypes /\ Pending /\ Listed /\ LogsAgree

\* A relabelled log has no pending entry, keeps the others, and has the label
\* if it had a pending entry.
LEMMA Relabelling ==
  ASSUME GdprTypes, NEW p \in Profile, NEW to \in {"CANCELLED", "EXECUTED"}
  PROVE  /\ Relabel(p, to) \in Seq({"PENDING", "CANCELLED", "EXECUTED"})
         /\ ~Contains(Relabel(p, to), "PENDING")
         /\ Contains(logs[p], "PENDING") => Contains(Relabel(p, to), to)
         /\ \A e \in {"CANCELLED", "EXECUTED"} :
              Contains(logs[p], e) => Contains(Relabel(p, to), e)
<1> DEFINE S == {"PENDING", "CANCELLED", "EXECUTED"}
<1>1. logs[p] \in Seq(S)
  BY DEF GdprTypes
<1>2. Len(logs[p]) \in Nat /\ DOMAIN logs[p] = 1..Len(logs[p]) /\ \A i \in 1..Len(logs[p]) : logs[p][i] \in S
  BY <1>1, LenProperties, ElementOfSeq
<1> DEFINE r == Relabel(p, to)
<1>3. /\ r \in [1..Len(logs[p]) -> S]
      /\ \A i \in 1..Len(logs[p]) : r[i] = IF logs[p][i] = "PENDING" THEN to ELSE logs[p][i]
  BY <1>2 DEF Relabel
<1> HIDE DEF r
<1>4. r \in Seq(S) /\ Len(r) = Len(logs[p])
  BY <1>2, <1>3
<1>5. Contains(logs[p], "PENDING") => Contains(r, to)
  BY <1>3, <1>4 DEF Contains
<1>6. ~Contains(r, "PENDING")
  BY <1>3, <1>4 DEF Contains
<1>7. \A e \in {"CANCELLED", "EXECUTED"} : Contains(logs[p], e) => Contains(r, e)
  BY <1>3, <1>4 DEF Contains
<1> QED BY <1>4, <1>5, <1>6, <1>7 DEF r

LEMMA Appending ==
  ASSUME NEW s \in Seq({"PENDING", "CANCELLED", "EXECUTED"})
  PROVE  /\ Append(s, "PENDING") \in Seq({"PENDING", "CANCELLED", "EXECUTED"})
         /\ Contains(Append(s, "PENDING"), "PENDING")
         /\ \A e : Contains(s, e) => Contains(Append(s, "PENDING"), e)
<1> DEFINE r == Append(s, "PENDING")
<1>1. /\ r \in Seq({"PENDING", "CANCELLED", "EXECUTED"}) /\ Len(s) \in Nat
      /\ Len(r) = Len(s) + 1 /\ r[Len(s) + 1] = "PENDING"
      /\ \A i \in 1..Len(s) : r[i] = s[i]
  OBVIOUS
<1> HIDE DEF r
<1>2. Contains(r, "PENDING")
  BY <1>1 DEF Contains
<1>3. \A e : Contains(s, e) => Contains(r, e)
  <2> SUFFICES ASSUME NEW e, NEW i \in 1..Len(s), s[i] = e PROVE \E j \in 1..Len(r) : r[j] = e
    BY DEF Contains
  <2>1. i \in 1..Len(r) /\ r[i] = e
    BY <1>1
  <2> QED BY <2>1
<1> QED BY <1>1, <1>2, <1>3 DEF r

\* What a run takes from its list, and what is left.
LEMMA Taking ==
  ASSUME GdprInv, list # <<>>
  PROVE  /\ Head(list) \in Profile /\ Head(list) = list[1] /\ 1 \in 1..Len(list)
         /\ Tail(list) \in Seq(Profile)
         /\ \A i \in 1..Len(Tail(list)) :
              /\ i + 1 \in 1..Len(list) /\ Tail(list)[i] = list[i + 1]
              /\ Tail(list)[i] # Head(list)
<1>1. list \in Seq(Profile) /\ Len(list) \in Nat \ {0}
  BY EmptySeq DEF GdprInv, GdprTypes
<1>2. /\ Head(list) \in Profile /\ Tail(list) \in Seq(Profile) /\ Len(Tail(list)) = Len(list) - 1
      /\ \A i \in 1..Len(Tail(list)) : Tail(list)[i] = list[i + 1]
  BY <1>1, HeadTailProperties
<1>3. Head(list) = list[1]
  BY <1>1
<1>4. \A i \in 1..Len(Tail(list)) : i + 1 \in 1..Len(list) /\ i + 1 # 1
  BY <1>1, <1>2
<1>5. \A i \in 1..Len(Tail(list)) : list[i + 1] # list[1]
  BY <1>1, <1>4 DEF GdprInv, Listed
<1> QED BY <1>1, <1>2, <1>3, <1>4, <1>5

LEMMA GdprInitInv == GdprInit => GdprInv
<1> SUFFICES ASSUME GdprInit PROVE GdprInv
  OBVIOUS
<1>1. <<>> \in Seq(Profile) /\ Len(<<>>) = 0 /\ <<>> \in Seq({"PENDING", "CANCELLED", "EXECUTED"})
  BY EmptySeq
<1>2. \A e : ~Contains(<<>>, e)
  BY <1>1 DEF Contains
<1> QED BY <1>1, <1>2, GdprAssumption
        DEF GdprAssumption, GdprInit, GdprInv, GdprTypes, Pending, Listed, LogsAgree

LEMMA GdprNextInv == GdprInv /\ [GdprNext]_gdprVars => GdprInv'
<1> SUFFICES ASSUME GdprInv, [GdprNext]_gdprVars PROVE GdprInv'
  OBVIOUS
<1> DEFINE S == {"PENDING", "CANCELLED", "EXECUTED"}
<1>1. GdprTypes /\ Pending /\ Listed /\ LogsAgree /\ Grace \in Nat
  BY GdprAssumption DEF GdprInv, GdprAssumption
<1>2. Len(list) \in Nat /\ \A i \in 1..Len(list) : list[i] \in Profile
  BY <1>1, LenProperties, ElementOfSeq DEF GdprTypes
<1>3. ASSUME NEW p \in Profile, InitiateDeletion(p) PROVE GdprInv'
  <2>1. /\ gdprStatus' = [gdprStatus EXCEPT ![p] = "PENDING_DELETION"]
        /\ left' = [left EXCEPT ![p] = Grace]
        /\ logs' = [logs EXCEPT ![p] = Append(@, "PENDING")]
        /\ waited' = [waited EXCEPT ![p] = IF gdprStatus[p] = "PENDING_DELETION" THEN @ ELSE 0]
        /\ erased' = erased /\ cancelling' = cancelling /\ list' = list /\ late' = late
    BY <1>3 DEF InitiateDeletion
  <2>2. /\ Append(logs[p], "PENDING") \in Seq(S) /\ Contains(Append(logs[p], "PENDING"), "PENDING")
        /\ \A e : Contains(logs[p], e) => Contains(Append(logs[p], "PENDING"), e)
    BY <1>1, Appending DEF GdprTypes
  <2> HIDE DEF S
  <2>3. GdprTypes'
    BY <1>1, <2>1, <2>2 DEF GdprTypes, S
  <2>4. /\ logs'[p] = Append(logs[p], "PENDING") /\ gdprStatus'[p] = "PENDING_DELETION"
        /\ left'[p] = Grace
        /\ gdprStatus[p] = "PENDING_DELETION" => waited'[p] = waited[p]
        /\ waited'[p] \in 0..Grace
        /\ \A q \in Profile \ {p} : /\ logs'[q] = logs[q] /\ gdprStatus'[q] = gdprStatus[q]
                                    /\ left'[q] = left[q] /\ waited'[q] = waited[q]
    BY <1>1, <2>1 DEF GdprTypes
  <2>5. Pending'
    <3> SUFFICES ASSUME NEW q \in Profile
                 PROVE  /\ Contains(logs'[q], "PENDING") <=> gdprStatus'[q] = "PENDING_DELETION"
                        /\ gdprStatus'[q] = "PENDING_DELETION" => waited'[q] + left'[q] >= Grace
      BY DEF Pending
    <3>1. CASE q = p
      <4>1. Contains(logs'[q], "PENDING") /\ gdprStatus'[q] = "PENDING_DELETION"
        BY <2>2, <2>4, <3>1
      <4>2. waited'[q] + left'[q] >= Grace
        BY <1>1, <2>4, <3>1
      <4> QED BY <4>1, <4>2
    <3>2. CASE q # p
      BY <1>1, <2>4, <3>2 DEF Pending
    <3> QED BY <3>1, <3>2
  <2>6. Listed'
    BY <1>1, <1>2, <2>1, <2>4 DEF Listed
  <2>7. LogsAgree'
    BY <1>1, <2>1, <2>2, <2>4 DEF LogsAgree
  <2> QED BY <2>3, <2>5, <2>6, <2>7 DEF GdprInv
<1>4. ASSUME NEW p \in Profile, CheckCancel(p) PROVE GdprInv'
  BY <1>1, <1>4 DEF CheckCancel, GdprInv, GdprTypes, Pending, Listed, LogsAgree
<1>5. ASSUME WriteCancel PROVE GdprInv'
  <2> DEFINE p == cancelling
  <2> HIDE DEF p
  <2>1. /\ p \in Profile /\ gdprStatus' = [gdprStatus EXCEPT ![p] = "NONE"]
        /\ left' = [left EXCEPT ![p] = 0] /\ logs' = [logs EXCEPT ![p] = Relabel(p, "CANCELLED")]
        /\ cancelling' = NOBODY /\ late \subseteq late' /\ late' \subseteq late \cup {p}
        /\ Contains(list, p) => p \in late'
        /\ erased' = erased /\ list' = list /\ waited' = waited
    BY <1>1, <1>5 DEF WriteCancel, GdprTypes, p
  <2>2. /\ Relabel(p, "CANCELLED") \in Seq(S) /\ ~Contains(Relabel(p, "CANCELLED"), "PENDING")
        /\ Contains(logs[p], "EXECUTED") => Contains(Relabel(p, "CANCELLED"), "EXECUTED")
    BY <1>1, <2>1, Relabelling
  <2> HIDE DEF S
  <2>3. GdprTypes'
    BY <1>1, <2>1, <2>2 DEF GdprTypes, S
  <2>4. /\ logs'[p] = Relabel(p, "CANCELLED") /\ gdprStatus'[p] = "NONE"
        /\ \A q \in Profile \ {p} : /\ logs'[q] = logs[q] /\ gdprStatus'[q] = gdprStatus[q]
                                    /\ left'[q] = left[q] /\ waited'[q] = waited[q]
    BY <1>1, <2>1 DEF GdprTypes
  <2>5. Pending'
    BY <1>1, <2>1, <2>2, <2>4 DEF Pending
  <2>6. \A i \in 1..Len(list) : list[i] = p => p \in late'
    BY <2>1 DEF Contains
  <2>7. Listed'
    BY <1>1, <1>2, <2>1, <2>4, <2>6 DEF Listed
  <2>8. LogsAgree'
    BY <1>1, <2>1, <2>2, <2>4 DEF LogsAgree
  <2> QED BY <2>3, <2>5, <2>7, <2>8 DEF GdprInv
<1>6. ASSUME RunCleanup PROVE GdprInv'
  <2>1. /\ list' \in SetToSeqs(Due)
        /\ gdprStatus' = gdprStatus /\ left' = left /\ logs' = logs /\ erased' = erased
        /\ cancelling' = cancelling /\ waited' = waited /\ late' = late
    BY <1>6 DEF RunCleanup
  <2>2. IsFiniteSet(Due) /\ Due \subseteq Profile
    BY GdprAssumption, FS_Subset DEF GdprAssumption, Due
  <2>3. Cardinality(Due) \in Nat
    BY <2>2, FS_CardinalityType
  <2> DEFINE n == Cardinality(Due)
  <2>4. list' \in [1..n -> Due] /\ \A i, j \in 1..n : i # j => list'[i] # list'[j]
    BY <2>1 DEF SetToSeqs
  <2> HIDE DEF n
  <2>5. list' \in Seq(Profile) /\ Len(list') = n
    BY <2>2, <2>3, <2>4 DEF n
  <2>6. \A p \in Due : gdprStatus[p] = "PENDING_DELETION" /\ waited[p] = Grace
    BY <1>1 DEF Due, Pending, GdprTypes
  <2>7. Listed'
    BY <2>1, <2>4, <2>5, <2>6 DEF Listed
  <2> QED BY <1>1, <2>1, <2>5, <2>7 DEF GdprInv, GdprTypes, Pending, LogsAgree
<1>7. ASSUME Execute PROVE GdprInv'
  <2> DEFINE p == Head(list)
  <2>1. /\ list # <<>> /\ gdprStatus' = [gdprStatus EXCEPT ![p] = "COMPLETED"]
        /\ erased' = erased \cup {p} /\ logs' = [logs EXCEPT ![p] = Relabel(p, "EXECUTED")]
        /\ list' = Tail(list) /\ left' = left /\ cancelling' = cancelling /\ waited' = waited
        /\ late' = late
    BY <1>7 DEF Execute
  <2>2. /\ p \in Profile /\ p = list[1] /\ 1 \in 1..Len(list) /\ list' \in Seq(Profile)
        /\ \A i \in 1..Len(list') :
             i + 1 \in 1..Len(list) /\ list'[i] = list[i + 1] /\ list'[i] # p
    BY <2>1, Taking
  <2> HIDE DEF p
  <2>3. /\ Relabel(p, "EXECUTED") \in Seq(S) /\ ~Contains(Relabel(p, "EXECUTED"), "PENDING")
        /\ Contains(logs[p], "PENDING") => Contains(Relabel(p, "EXECUTED"), "EXECUTED")
    BY <1>1, <2>2, Relabelling
  <2> HIDE DEF S
  <2>4. GdprTypes'
    BY <1>1, <2>1, <2>2, <2>3 DEF GdprTypes, S
  <2>5. /\ logs'[p] = Relabel(p, "EXECUTED") /\ gdprStatus'[p] = "COMPLETED"
        /\ \A q \in Profile \ {p} : logs'[q] = logs[q] /\ gdprStatus'[q] = gdprStatus[q]
    BY <1>1, <2>1, <2>2 DEF GdprTypes
  <2>6. Pending'
    BY <1>1, <2>1, <2>3, <2>5 DEF Pending
  <2>7. Len(list') \in Nat /\ \A i \in 1..Len(list') : list'[i] \in Profile
    BY <2>2, LenProperties, ElementOfSeq
  <2>8. Listed'
    <3>1. \A i, j \in 1..Len(list') : list'[i] = list'[j] => i = j
      <4> SUFFICES ASSUME NEW i \in 1..Len(list'), NEW j \in 1..Len(list'), list'[i] = list'[j]
                   PROVE  i = j
        OBVIOUS
      <4>1. i + 1 = j + 1
        BY <1>1, <2>2 DEF Listed
      <4> QED BY <2>7, <4>1
    <3>2. \A i \in 1..Len(list') : list'[i] \notin late' =>
            gdprStatus'[list'[i]] = "PENDING_DELETION" /\ waited'[list'[i]] = Grace
      BY <1>1, <2>1, <2>2, <2>5, <2>7 DEF Listed
    <3> QED BY <3>1, <3>2 DEF Listed
  <2>9. LogsAgree'
    <3>1. p \notin late => Contains(logs[p], "PENDING")
      BY <1>1, <2>2 DEF Listed, Pending
    <3> QED BY <1>1, <2>1, <2>3, <2>5, <3>1 DEF LogsAgree
  <2> QED BY <2>4, <2>6, <2>8, <2>9 DEF GdprInv
<1>8. ASSUME ProcessEnds PROVE GdprInv'
  <2>1. list' = <<>> /\ list' \in Seq(Profile) /\ Len(list') = 0
    BY <1>8, EmptySeq DEF ProcessEnds
  <2>2. Listed'
    BY <2>1 DEF Listed
  <2> QED BY <1>1, <1>8, <2>1, <2>2 DEF ProcessEnds, GdprInv, GdprTypes, Pending, LogsAgree
<1>9. ASSUME TickGdpr PROVE GdprInv'
  <2>1. /\ left' = [p \in Profile |-> IF left[p] > 0 THEN left[p] - 1 ELSE 0]
        /\ waited' = [p \in Profile |-> IF waited[p] < Grace THEN waited[p] + 1 ELSE Grace]
        /\ gdprStatus' = gdprStatus /\ logs' = logs /\ erased' = erased
        /\ cancelling' = cancelling /\ list' = list /\ late' = late
    BY <1>9 DEF TickGdpr
  <2>2. ASSUME NEW p \in Profile
        PROVE  /\ left'[p] \in 0..Grace /\ waited'[p] \in 0..Grace
               /\ waited[p] + left[p] >= Grace => waited'[p] + left'[p] >= Grace
               /\ waited[p] = Grace => waited'[p] = Grace
    <3>1. left[p] \in 0..Grace /\ waited[p] \in 0..Grace
      BY <1>1 DEF GdprTypes
    <3>2. /\ left'[p] = IF left[p] > 0 THEN left[p] - 1 ELSE 0
          /\ waited'[p] = IF waited[p] < Grace THEN waited[p] + 1 ELSE Grace
      BY <2>1
    <3> QED BY <1>1, <3>1, <3>2
  <2>3. GdprTypes'
    <3>1. left' \in [Profile -> 0..Grace] /\ waited' \in [Profile -> 0..Grace]
      BY <2>1, <2>2
    <3> QED BY <1>1, <2>1, <3>1 DEF GdprTypes
  <2>4. Pending' /\ LogsAgree'
    BY <1>1, <2>1, <2>2 DEF Pending, LogsAgree
  <2>5. Listed'
    BY <1>1, <1>2, <2>1, <2>2 DEF Listed
  <2> QED BY <2>3, <2>4, <2>5 DEF GdprInv
<1>10. CASE UNCHANGED gdprVars
  BY <1>1, <1>10 DEF gdprVars, GdprInv, GdprTypes, Pending, Listed, LogsAgree
<1> QED BY <1>3, <1>4, <1>5, <1>6, <1>7, <1>8, <1>9, <1>10 DEF GdprNext

LEMMA DeletionsStaySafe == GdprInit /\ [][GdprNext]_gdprVars => GdprSafety
<1>1. GdprInv => LogsAgree
  BY DEF GdprInv
<1>2. GdprInv /\ [GdprNext]_gdprVars
        => [\A p \in erased' \ erased : p \in late \/ waited[p] = Grace]_gdprVars
  <2> SUFFICES ASSUME GdprInv, GdprNext
               PROVE  \A p \in erased' \ erased : p \in late \/ waited[p] = Grace
    OBVIOUS
  <2>1. CASE Execute
    <3>1. erased' = erased \cup {Head(list)} /\ list # <<>>
      BY <2>1 DEF Execute
    <3> QED BY <3>1, Taking DEF GdprInv, Listed
  <2>2. CASE erased' = erased
    BY <2>2
  <2> QED BY <2>1, <2>2 DEF GdprNext, InitiateDeletion, CheckCancel, WriteCancel, RunCleanup,
             ProcessEnds, TickGdpr
<1> QED BY <1>1, <1>2, GdprInitInv, GdprNextInv, PTL DEF GdprSafety, ErasedAfterGrace

\* No data is erased before the grace period of its pending request is over,
\* and the log tells what happened, unless a cancellation was written too late;
\* for any number of profiles and requests and any length of the period.
THEOREM DeletionsSafe == GdprSpec => GdprSafety
BY DeletionsStaySafe, PTL DEF GdprSpec

\* Only profiles are erased, and the job is never further away than its interval.
Marked == erased \subseteq Profile /\ late \subseteq Profile /\ timer \in 0..Day

LEMMA MarkedKept ==
  /\ GdprInit => Marked
  /\ GdprInv /\ Marked /\ [GdprNext]_gdprVars => Marked'
<1>1. Day \in Nat \ {0}
  BY GdprAssumption DEF GdprAssumption
<1>2. GdprInit => Marked
  BY <1>1 DEF GdprInit, Marked
<1>3. ASSUME GdprInv, Marked, GdprNext PROVE Marked'
  <2>1. CASE WriteCancel
    <3>1. cancelling \in Profile
      BY <1>3, <2>1 DEF WriteCancel, GdprInv, GdprTypes
    <3>2. late' \subseteq late \cup {cancelling} /\ erased' = erased /\ timer' = timer
      BY <2>1 DEF WriteCancel
    <3> QED BY <1>3, <3>1, <3>2 DEF Marked
  <2>2. CASE Execute
    <3>1. Head(list) \in Profile /\ erased' = erased \cup {Head(list)} /\ late' = late /\ timer' = timer
      BY <1>3, <2>2, Taking DEF Execute
    <3> QED BY <1>3, <3>1 DEF Marked
  <2>3. CASE TickGdpr
    BY <1>1, <1>3, <2>3 DEF TickGdpr, Marked
  <2>4. CASE erased' = erased /\ late' = late /\ (timer' = timer \/ timer' = Day)
    BY <1>1, <1>3, <2>4 DEF Marked
  <2> QED BY <1>3, <2>1, <2>2, <2>3, <2>4
          DEF GdprNext, InitiateDeletion, CheckCancel, RunCleanup, ProcessEnds
<1>4. Marked /\ UNCHANGED gdprVars => Marked'
  BY DEF Marked, gdprVars
<1> QED BY <1>2, <1>3, <1>4

\* The elements of a sequence over S are in S.
LEMMA ElementsOf == ASSUME NEW S, NEW s \in Seq(S) PROVE ToSet(s) \subseteq S
BY ElementOfSeq, LenProperties DEF ToSet

LEMMA GdprInvTypes == GdprInv /\ Marked => GdprTypeOK
<1> SUFFICES ASSUME GdprInv, Marked PROVE GdprTypeOK
  OBVIOUS
<1>1. ASSUME NEW p \in Profile PROVE ToSet(logs[p]) \subseteq {"PENDING", "CANCELLED", "EXECUTED"}
  <2>1. logs[p] \in Seq({"PENDING", "CANCELLED", "EXECUTED"})
    BY DEF GdprInv, GdprTypes
  <2> QED BY <2>1, ElementsOf
<1>2. ToSet(list) \subseteq Profile
  BY ElementsOf DEF GdprInv, GdprTypes
<1> QED BY <1>1, <1>2 DEF GdprInv, GdprTypes, Marked, GdprTypeOK

LEMMA GdprTypesStay == GdprInit /\ [][GdprNext]_gdprVars => []GdprTypeOK
BY GdprInitInv, GdprNextInv, MarkedKept, GdprInvTypes, PTL

\* Profiles, their logs and the run keep their types.
THEOREM GdprTypesKept == GdprSpec => []GdprTypeOK
BY GdprTypesStay, PTL DEF GdprSpec

-----------------------------------------------------------------------------
(* Segments.                                                               *)

LEMMA ListenersStayTuned == FeedInit /\ [][FeedNext]_feedVars => []ListenersKeepUp
<1>1. FeedInit => ListenersKeepUp
  BY DEF FeedInit, ListenersKeepUp
<1>2. ListenersKeepUp /\ [FeedNext]_feedVars => ListenersKeepUp'
  <2> SUFFICES ASSUME ListenersKeepUp, [FeedNext]_feedVars PROVE ListenersKeepUp'
    OBVIOUS
  <2>1. CASE DiffRead
    <3>1. CASE baseline = Unset
      BY <2>1, <3>1 DEF DiffRead, ListenersKeepUp
    <3>2. CASE baseline # Unset
      <4>1. CASE diff.triggers = {"entered", "exited"} /\ ~partial
        BY <2>1, <3>2, <4>1 DEF DiffRead, ListenersKeepUp, NextBaseline
      <4>2. CASE diff.triggers # {"entered", "exited"} \/ partial
        BY <2>1, <3>2, <4>2 DEF DiffRead, ListenersKeepUp
      <4> QED BY <4>1, <4>2
    <3> QED BY <3>1, <3>2
  <2>2. CASE FeedFault
    BY <2>2 DEF FeedFault, ListenersKeepUp
  <2>3. CASE told' = told /\ baseline' = baseline /\ partial' = partial
    BY <2>3 DEF ListenersKeepUp
  <2> QED BY <2>1, <2>2, <2>3 DEF FeedNext, MatchingChanges, RefreshSegment, DeleteSegment,
             AddToSegment, Toggle, RefreshJob, EvalSteps, EvalFind, EvalDelete, EvalCreate,
             EvalStamp, DiffSteps, DiffFind, jobVars, feedVars
<1> QED BY <1>1, <1>2, PTL

\* Whoever follows the events of a segment knows the members the last diff
\* saw, as long as both kinds of event were asked for; for any number of
\* profiles, changes and failures.
THEOREM ListenersFollow == FeedSpec => []ListenersKeepUp
BY ListenersStayTuned, PTL DEF FeedSpec

FeedInv == FeedTypeOK /\ matching \subseteq Member

LEMMA FeedInitInv == FeedInit => FeedInv
BY DEF FeedInit, FeedInv, FeedTypeOK, Resting, NoDiff

LEMMA FeedNextInv == FeedInv /\ [FeedNext]_feedVars => FeedInv'
<1> SUFFICES ASSUME FeedInv, [FeedNext]_feedVars PROVE FeedInv'
  OBVIOUS
<1> USE DEF FeedInv, FeedTypeOK
<1>1. CASE MatchingChanges
  BY <1>1 DEF MatchingChanges, jobVars
<1>2. CASE RefreshSegment \/ DeleteSegment
  BY <1>2 DEF RefreshSegment, DeleteSegment, jobVars
<1>3. ASSUME NEW p \in Member, AddToSegment(p) PROVE FeedInv'
  BY <1>3 DEF AddToSegment, jobVars
<1>4. CASE RefreshJob
  BY <1>4 DEF RefreshJob
<1>5. CASE EvalFind
  BY <1>5 DEF EvalFind, Resting
<1>6. CASE EvalDelete
  <2>1. eval'.found = eval.found /\ eval'.at \in {"stamp", "create"}
    BY <1>6 DEF EvalDelete
  <2> QED BY <1>6, <2>1 DEF EvalDelete, EvalClear
<1>7. CASE EvalCreate
  <2>1. eval'.found \subseteq Member /\ eval'.at \in {"stamp", "rest"}
    BY <1>7 DEF EvalCreate, Resting
  <2>2. members' \subseteq Member /\ (~segment' => members' = {})
    BY <1>7 DEF EvalCreate, Fill
  <2> QED BY <1>7, <2>1, <2>2 DEF EvalCreate
<1>8. CASE EvalStamp
  BY <1>8 DEF EvalStamp, Resting
<1>9. CASE DiffFind
  BY <1>9 DEF DiffFind
<1>10. CASE DiffRead
  BY <1>10 DEF DiffRead, NextBaseline, NoDiff
<1>11. CASE FeedFault
  BY <1>11 DEF FeedFault, Resting, NoDiff
<1>12. CASE UNCHANGED <<segment, matching, members, eval, diff, baseline>>
  BY <1>12
<1> QED BY <1>1, <1>2, <1>3, <1>4, <1>5, <1>6, <1>7, <1>8, <1>9, <1>10, <1>11, <1>12
        DEF FeedNext, EvalSteps, DiffSteps, Toggle, feedVars, jobVars

LEMMA FeedTypesStay == FeedInit /\ [][FeedNext]_feedVars => []FeedTypeOK
<1>1. FeedInv => FeedTypeOK
  BY DEF FeedInv
<1> QED BY <1>1, FeedInitInv, FeedNextInv, PTL

\* A deleted segment has no members, and members, the evaluation and the
\* baseline are of profiles of the workspace.
THEOREM FeedTypesKept == FeedSpec => []FeedTypeOK
BY FeedTypesStay, PTL DEF FeedSpec

-----------------------------------------------------------------------------
(* The vault.                                                              *)

Stored ==
  [id : Nat \ {0}, version : Nat, blob : Nat, releaseAt : Moment, expiresAt : Moment,
   isReleased : BOOLEAN]
Rows == {Absent} \cup Stored
Jobs == {Waiting} \cup [at : {"update", "notify", "delete"}, id : Nat \ {0}, blob : Nat]

VaultTypes ==
  /\ blobs \in Nat /\ rows \in Nat /\ locks \in Nat /\ notices \in Nat /\ now \in Nat
  /\ secret \in Rows /\ view \in [Client -> Rows]
  /\ release \in Jobs /\ expiry \in Jobs /\ manual \in Jobs

\* Nobody holds an id or an upload that there has not been.
RowKnown ==
  /\ Exists => secret.id =< rows /\ secret.blob =< blobs
  /\ \A c \in Client : view[c].id =< rows
  /\ release # Waiting => release.id =< rows /\ release.blob =< blobs
  /\ expiry # Waiting => expiry.blob =< blobs

\* A client who has seen this row has seen no later version of it, and with its
\* version its content.
Seen ==
  \A c \in Client :
    Exists /\ view[c].id = secret.id =>
      /\ view[c].version =< secret.version
      /\ view[c].version = secret.version => view[c].blob = secret.blob

\* The content a job has found is due.
FoundDue ==
  Exists =>
    /\ release # Waiting /\ release.blob = secret.blob => secret.releaseAt =< now
    /\ expiry # Waiting /\ expiry.blob = secret.blob => secret.expiresAt =< now

\* A notice about to be sent, and one that may follow: the row is locked, or was
\* when the job read it.
Telling == release.at = "notify"
MayTell ==
  Exists /\ (~secret.isReleased \/ (release.at = "update" /\ release.id = secret.id))
Ahead == IF Telling /\ MayTell THEN 2 ELSE IF Telling \/ MayTell THEN 1 ELSE 0
Announced == notices + Ahead =< locks

VaultInv == VaultTypes /\ RowKnown /\ Seen /\ FoundDue /\ Announced

LEMMA RowFacts ==
  /\ \A r \in Rows : /\ r # Absent <=> r.id # 0
                     /\ r # Absent <=> r \in Stored
                     /\ r.id \in Nat
  /\ Absent \in Rows /\ Absent.id = 0
  /\ Waiting \in Jobs /\ Waiting.at = "wait"
  /\ \A j \in Jobs : /\ j # Waiting <=> j.at # "wait"
                     /\ j # Waiting => j.id \in Nat \ {0} /\ j.blob \in Nat
<1>1. \A r \in Stored : r.id # 0 /\ r.id \in Nat
  BY DEF Stored
<1>2. Absent.id = 0
  BY DEF Absent
<1>3. \A j \in [at : {"update", "notify", "delete"}, id : Nat \ {0}, blob : Nat] :
        j.at # "wait" /\ j.id \in Nat \ {0} /\ j.blob \in Nat
  OBVIOUS
<1>4. Waiting.at = "wait"
  BY DEF Waiting
<1> QED BY <1>1, <1>2, <1>3, <1>4 DEF Rows, Jobs

LEMMA WriteHolds ==
  ASSUME VaultTypes, Exists, NEW a \in {"update", "delete"}
  PROVE  /\ Holding(a) \in Jobs /\ Holding(a) # Waiting /\ Holding(a).at = a
         /\ Holding(a).id = secret.id /\ Holding(a).blob = secret.blob
<1>1. secret \in Stored
  BY RowFacts DEF VaultTypes, Exists
<1>2. Holding(a).at = a /\ Holding(a) \in Jobs
  BY <1>1 DEF Holding, Stored, Jobs
<1> QED BY <1>2, RowFacts DEF Holding

\* No more notices lie ahead; or one is sent; or one is as good as decided; or
\* there is a new lock.
LEMMA Announces ==
  ASSUME VaultTypes, Announced,
         \/ /\ notices' = notices /\ locks' = locks
            /\ Telling' => Telling
            /\ MayTell' => MayTell
         \/ /\ notices' = notices + 1 /\ locks' = locks /\ Telling /\ ~Telling'
            /\ MayTell' => MayTell
         \/ notices' = notices /\ locks' = locks /\ ~Telling /\ Telling' /\ MayTell /\ ~MayTell'
         \/ /\ notices' = notices /\ locks' = locks + 1
            /\ Telling' => Telling
  PROVE  Announced'
<1> DEFINE t == Telling
<1> DEFINE m == MayTell
<1>1. /\ notices \in Nat /\ locks \in Nat /\ t \in BOOLEAN /\ m \in BOOLEAN
      /\ t' \in BOOLEAN /\ m' \in BOOLEAN
  BY DEF VaultTypes, Telling, MayTell
<1>2. Ahead = (IF t /\ m THEN 2 ELSE IF t \/ m THEN 1 ELSE 0)
  BY DEF Ahead
<1>3. Ahead' = (IF t' /\ m' THEN 2 ELSE IF t' \/ m' THEN 1 ELSE 0)
  BY DEF Ahead
<1>4. \/ notices' = notices /\ locks' = locks /\ (t' => t) /\ (m' => m)
      \/ notices' = notices + 1 /\ locks' = locks /\ t /\ ~t' /\ (m' => m)
      \/ notices' = notices /\ locks' = locks /\ ~t /\ t' /\ m /\ ~m'
      \/ notices' = notices /\ locks' = locks + 1 /\ (t' => t)
  OBVIOUS
<1>5. notices + Ahead =< locks
  BY DEF Announced
<1> HIDE DEF t, m
<1>6. notices' + Ahead' =< locks'
  BY <1>1, <1>2, <1>3, <1>4, <1>5
<1> QED BY <1>6 DEF Announced

LEMMA VaultInitInv == VaultInit => VaultInv
<1> SUFFICES ASSUME VaultInit PROVE VaultInv
  OBVIOUS
<1>1. ~Exists
  BY DEF VaultInit, Exists
<1>2. VaultTypes /\ RowKnown /\ Seen /\ FoundDue
  BY <1>1, RowFacts DEF VaultInit, VaultTypes, RowKnown, Seen, FoundDue
<1>3. ~Telling /\ ~MayTell
  BY <1>1, RowFacts DEF VaultInit, Telling, MayTell
<1>4. Announced
  BY <1>3 DEF VaultInit, Announced, Ahead
<1> QED BY <1>2, <1>4 DEF VaultInv

LEMMA VaultNextInv == VaultInv /\ [VaultNext]_vaultVars => VaultInv'
<1> SUFFICES ASSUME VaultInv, [VaultNext]_vaultVars PROVE VaultInv'
  OBVIOUS
<1>1. VaultTypes /\ RowKnown /\ Seen /\ FoundDue /\ Announced
  BY DEF VaultInv
<1>2. /\ secret \in Rows /\ blobs \in Nat /\ rows \in Nat /\ locks \in Nat /\ notices \in Nat
      /\ now \in Nat
      /\ Exists <=> secret.id # 0
      /\ Exists => secret \in Stored
  BY <1>1, RowFacts DEF VaultTypes, Exists
<1>3. /\ Exists => /\ secret.id \in Nat \ {0} /\ secret.version \in Nat /\ secret.blob \in Nat
                   /\ secret.releaseAt \in Int /\ secret.expiresAt \in Int
                   /\ secret.isReleased \in BOOLEAN
  BY <1>2, VaultAssumption DEF VaultAssumption, Stored, Moment, Never
<1>4. \A c \in Client : /\ view[c] \in Rows /\ view[c].id \in Nat
                        /\ view[c].id # 0 => view[c].version \in Nat
  BY <1>1, RowFacts DEF VaultTypes, Stored
<1>5. /\ release \in Jobs /\ expiry \in Jobs /\ manual \in Jobs
      /\ release # Waiting => release.id \in Nat \ {0} /\ release.blob \in Nat
      /\ expiry # Waiting => expiry.id \in Nat \ {0} /\ expiry.blob \in Nat
      /\ release.at = "update" => release # Waiting
      /\ Waiting.at = "wait" /\ Waiting \in Jobs /\ Absent.id = 0 /\ Absent \in Rows
  BY <1>1, RowFacts DEF VaultTypes
<1>6. ASSUME NEW c \in Client, ListSecrets(c) PROVE VaultInv'
  <2>1. /\ view' = [view EXCEPT ![c] = secret]
        /\ secret' = secret /\ now' = now /\ release' = release /\ expiry' = expiry
        /\ manual' = manual /\ blobs' = blobs /\ rows' = rows /\ locks' = locks
        /\ notices' = notices
    BY <1>6 DEF ListSecrets
  <2>2. view' \in [Client -> Rows] /\ view'[c] = secret /\ \A d \in Client \ {c} : view'[d] = view[d]
    BY <1>1, <2>1 DEF VaultTypes
  <2>3. VaultTypes' /\ FoundDue' /\ Announced'
    BY <1>1, <2>1, <2>2 DEF VaultTypes, FoundDue, Announced, Ahead, Telling, MayTell, Exists
  <2>4. secret.id =< rows
    BY <1>1, <1>2, <1>3 DEF RowKnown
  <2>5. RowKnown'
    BY <1>1, <2>1, <2>2, <2>4 DEF RowKnown, Exists
  <2>6. Seen'
    BY <1>1, <1>3, <2>1, <2>2 DEF Seen, Exists
  <2> QED BY <2>3, <2>5, <2>6 DEF VaultInv
<1>7. ASSUME NEW releaseAt \in Moment, NEW expiresAt \in Moment, StoreSecret(releaseAt, expiresAt)
      PROVE  VaultInv'
  <2>1. /\ blobs' = blobs + 1 /\ rows' = IF Exists THEN rows ELSE rows + 1
        /\ locks' = IF releaseAt = Never THEN locks ELSE locks + 1
        /\ secret' = [id |-> IF Exists THEN secret.id ELSE rows',
                      version |-> IF Exists THEN secret.version + 1 ELSE 1,
                      blob |-> blobs', releaseAt |-> releaseAt, expiresAt |-> expiresAt,
                      isReleased |-> releaseAt = Never]
        /\ view' = view /\ now' = now /\ release' = release /\ expiry' = expiry
        /\ manual' = manual /\ notices' = notices
    BY <1>7 DEF StoreSecret
  <2>2. /\ secret'.id = IF Exists THEN secret.id ELSE rows + 1
        /\ secret'.version = IF Exists THEN secret.version + 1 ELSE 1
        /\ secret'.blob = blobs + 1 /\ secret'.isReleased = (releaseAt = Never)
        /\ secret'.id \in Nat \ {0} /\ secret'.version \in Nat
    BY <1>2, <1>3, <2>1
  <2>3. secret' \in Stored /\ secret' \in Rows /\ secret' # Absent
    <3>1. secret' \in Stored
      <4> DEFINE id == IF Exists THEN secret.id ELSE rows'
      <4> DEFINE version == IF Exists THEN secret.version + 1 ELSE 1
      <4> DEFINE isReleased == releaseAt = Never
      <4>1. id \in Nat \ {0} /\ version \in Nat /\ isReleased \in BOOLEAN /\ blobs' \in Nat
        BY <1>2, <1>3, <2>1
      <4>2. secret' = [id |-> id, version |-> version, blob |-> blobs', releaseAt |-> releaseAt,
                       expiresAt |-> expiresAt, isReleased |-> isReleased]
        BY <2>1
      <4> HIDE DEF id, version, isReleased
      <4> QED BY <4>1, <4>2 DEF Stored
    <3> QED BY <3>1, RowFacts DEF Rows
  <2>4. VaultTypes'
    BY <1>1, <2>1, <2>3 DEF VaultTypes
  <2>5. RowKnown'
    BY <1>1, <1>2, <1>3, <1>4, <1>5, <2>1, <2>2 DEF RowKnown, Exists
  <2>6. Seen'
    <3> SUFFICES ASSUME NEW c \in Client, view[c].id = secret'.id
                 PROVE  view[c].version < secret'.version
      BY <1>4, <2>1, <2>2 DEF Seen
    <3>1. view[c].id =< rows
      BY <1>1 DEF RowKnown
    <3>2. Exists
      BY <1>2, <1>4, <2>2, <3>1
    <3>3. view[c].version =< secret.version /\ view[c].version \in Nat
      BY <1>1, <1>3, <1>4, <2>2, <3>2 DEF Seen
    <3> QED BY <1>3, <2>2, <3>2, <3>3
  <2>7. FoundDue'
    BY <1>1, <1>2, <1>5, <2>1, <2>2 DEF FoundDue, RowKnown
  <2>8. Announced'
    <3>1. Telling' => Telling
      BY <2>1 DEF Telling
    <3>2. CASE releaseAt # Never
      BY <1>1, <2>1, <3>1, <3>2, Announces
    <3>3. CASE releaseAt = Never
      <4>1. MayTell' => release.at = "update" /\ release.id = secret'.id
        BY <2>1, <2>2, <3>3 DEF MayTell
      <4>2. MayTell' => Exists
        BY <1>1, <1>2, <1>5, <2>2, <4>1 DEF RowKnown
      <4>3. MayTell' => MayTell
        BY <2>2, <4>1, <4>2 DEF MayTell
      <4> QED BY <1>1, <2>1, <3>1, <3>3, <4>3, Announces
    <3> QED BY <3>2, <3>3
  <2> QED BY <2>4, <2>5, <2>6, <2>7, <2>8 DEF VaultInv
<1>8. ASSUME NEW c \in Client, UpdateSecret(c) PROVE VaultInv'
  <2>1. /\ Exists /\ blobs' = blobs + 1
        /\ secret' = [secret EXCEPT !.blob = blobs', !.version = @ + 1]
        /\ view' = view /\ now' = now /\ release' = release /\ expiry' = expiry
        /\ manual' = manual /\ rows' = rows /\ locks' = locks /\ notices' = notices
    BY <1>8 DEF UpdateSecret, SameVersion
  <2>2. /\ secret'.id = secret.id /\ secret'.version = secret.version + 1
        /\ secret'.blob = blobs + 1 /\ secret'.isReleased = secret.isReleased
        /\ secret' \in Stored
    <3>1. secret \in Stored /\ blobs' \in Nat /\ secret.version + 1 \in Nat
      BY <1>2, <1>3, <2>1
    <3> DEFINE version == secret.version + 1
    <3>2. secret' = [secret EXCEPT !.blob = blobs', !.version = version]
      BY <2>1, <3>1 DEF Stored
    <3>3. version \in Nat /\ version = secret.version + 1
      BY <3>1
    <3> HIDE DEF version
    <3> QED BY <2>1, <3>1, <3>2, <3>3 DEF Stored
  <2>3. secret' \in Rows /\ secret' # Absent
    BY <2>2, RowFacts DEF Rows
  <2>4. VaultTypes'
    BY <1>1, <2>1, <2>3 DEF VaultTypes
  <2>5. RowKnown'
    BY <1>1, <1>2, <1>5, <2>1, <2>2 DEF RowKnown, Exists
  <2>6. Seen'
    <3> SUFFICES ASSUME NEW d \in Client, view[d].id = secret'.id
                 PROVE  view[d].version < secret'.version
      BY <1>3, <1>4, <2>1, <2>2 DEF Seen
    <3>1. view[d].version =< secret.version /\ view[d].version \in Nat
      BY <1>1, <1>3, <1>4, <2>1, <2>2 DEF Seen
    <3> QED BY <1>3, <2>1, <2>2, <3>1
  <2>7. FoundDue'
    BY <1>1, <1>2, <1>5, <2>1, <2>2 DEF FoundDue, RowKnown
  <2>8. Telling' = Telling /\ MayTell' = MayTell
    BY <2>1, <2>2, <2>3 DEF Telling, MayTell, Exists
  <2>9. Announced'
    BY <1>1, <2>1, <2>8, Announces
  <2> QED BY <2>4, <2>5, <2>6, <2>7, <2>9 DEF VaultInv
\* The row goes, by a client or by the expiry.
<1>9. ASSUME secret' = Absent, expiry' \in {expiry, Waiting},
             UNCHANGED <<view, now, release, manual, blobs, rows, locks, notices>>
      PROVE  VaultInv'
  <2>1. ~Exists' /\ secret' \in Rows /\ expiry' \in Jobs
    BY <1>5, <1>9 DEF Exists
  <2>2. /\ view' = view /\ now' = now /\ release' = release
        /\ manual' = manual /\ rows' = rows /\ locks' = locks /\ notices' = notices
        /\ blobs' = blobs
    BY <1>9
  <2>3. Telling' = Telling /\ ~MayTell'
    BY <2>1, <2>2 DEF Telling, MayTell
  <2>4. Announced'
    BY <1>1, <2>2, <2>3, Announces
  <2>5. VaultTypes'
    BY <1>1, <2>1, <2>2 DEF VaultTypes
  <2>6. RowKnown' /\ Seen' /\ FoundDue'
    BY <1>1, <1>9, <2>1, <2>2 DEF RowKnown, Seen, FoundDue
  <2> QED BY <2>4, <2>5, <2>6 DEF VaultInv
\* A row is released or stays, and the job goes on if it has released it.
<1>10. ASSUME NEW held \in Jobs, held.at = "update", secret' = Released(held),
              \/ held = manual /\ manual' = Waiting /\ release' = release
              \/ /\ held = release /\ manual' = manual
                 /\ release' = IF secret.id = release.id THEN [release EXCEPT !.at = "notify"]
                                                         ELSE Waiting,
              UNCHANGED <<view, now, expiry, blobs, rows, locks, notices>>
       PROVE  VaultInv'
  <2>1. /\ view' = view /\ now' = now /\ expiry' = expiry /\ rows' = rows /\ locks' = locks
        /\ notices' = notices /\ blobs' = blobs
    BY <1>10
  <2>2. held # Waiting /\ held.id \in Nat \ {0} /\ held.blob \in Nat
    BY <1>5, <1>10, RowFacts
  <2>3. CASE secret.id # held.id
    <3>1. secret' = secret
      BY <1>10, <2>3 DEF Released
    <3>2. manual' \in Jobs /\ release' \in {release, Waiting}
      BY <1>1, <1>5, <1>10, <2>3 DEF VaultTypes
    <3>3. VaultTypes'
      BY <1>1, <1>5, <2>1, <3>1, <3>2 DEF VaultTypes
    <3>4. RowKnown' /\ Seen' /\ FoundDue'
      BY <1>1, <2>1, <3>1, <3>2 DEF RowKnown, Seen, FoundDue, Exists
    <3>5. /\ Telling' => Telling
          /\ MayTell' => MayTell
      BY <1>5, <2>1, <3>1, <3>2 DEF Telling, MayTell, Exists
    <3>6. Announced'
      BY <1>1, <2>1, <3>5, Announces
    <3> QED BY <3>3, <3>4, <3>6 DEF VaultInv
  <2>4. CASE secret.id = held.id
    <3>1. Exists /\ secret \in Stored
      BY <1>2, <2>2, <2>4
    <3>2. secret' = [secret EXCEPT !.isReleased = TRUE]
      BY <1>10, <2>4 DEF Released
    <3>3. /\ secret' \in Stored /\ secret'.id = secret.id /\ secret'.version = secret.version
          /\ secret'.blob = secret.blob /\ secret'.isReleased /\ secret'.releaseAt = secret.releaseAt
          /\ secret'.expiresAt = secret.expiresAt
      BY <3>1, <3>2 DEF Stored
    <3>4. secret' \in Rows /\ Exists'
      BY <3>3, RowFacts DEF Rows, Exists
    <3>5. \/ release' = release
          \/ /\ release.at = "update" /\ release # Waiting /\ release'.at = "notify"
             /\ release' \in Jobs /\ release' # Waiting
             /\ release'.id = release.id /\ release'.blob = release.blob
             /\ release.id = secret.id
      <4>1. CASE release' = [release EXCEPT !.at = "notify"] /\ held = release
        <5>1. release \in [at : {"update", "notify", "delete"}, id : Nat \ {0}, blob : Nat]
          BY <2>2, <4>1 DEF Jobs
        <5>2. /\ release' \in [at : {"update", "notify", "delete"}, id : Nat \ {0}, blob : Nat]
              /\ release'.at = "notify" /\ release'.id = release.id /\ release'.blob = release.blob
          BY <4>1, <5>1
        <5>3. release' \in Jobs /\ release' # Waiting
          BY <5>2, RowFacts DEF Jobs
        <5> QED BY <1>5, <1>10, <2>4, <4>1, <5>2, <5>3
      <4> QED BY <1>10, <2>4, <4>1
    <3>6. manual' \in Jobs /\ release' \in Jobs
      BY <1>1, <1>5, <1>10, <3>5 DEF VaultTypes
    <3>7. VaultTypes'
      BY <1>1, <2>1, <3>4, <3>6 DEF VaultTypes
    <3>8. RowKnown'
      BY <1>1, <2>1, <3>1, <3>3, <3>5 DEF RowKnown
    <3>9. Seen'
      BY <1>1, <2>1, <3>1, <3>3 DEF Seen
    <3>10. FoundDue'
      BY <1>1, <2>1, <3>1, <3>3, <3>5 DEF FoundDue
    <3>11. Announced'
      <4>1. CASE release' = release
        <5>1. Telling' = Telling /\ (MayTell' => MayTell)
          BY <3>1, <3>3, <4>1 DEF Telling, MayTell
        <5> QED BY <1>1, <2>1, <5>1, Announces
      <4>2. CASE release.at = "update" /\ release'.at = "notify" /\ release.id = secret.id
        <5>1. ~Telling /\ Telling' /\ MayTell
          BY <3>1, <4>2 DEF Telling, MayTell
        <5>2. ~MayTell'
          BY <3>3, <4>2 DEF MayTell
        <5> QED BY <1>1, <2>1, <5>1, <5>2, Announces
      <4> QED BY <3>5, <4>1, <4>2
    <3> QED BY <3>7, <3>8, <3>9, <3>10, <3>11 DEF VaultInv
  <2> QED BY <2>3, <2>4
\* A job finds what is due, rests, sends a notice, or time goes by.
<1>11. ASSUME /\ UNCHANGED <<secret, view, blobs, rows, locks>>
              /\ now' \in Nat /\ now =< now' /\ manual' \in Jobs /\ expiry' \in Jobs /\ release' \in Jobs
              /\ \/ expiry' \in {expiry, Waiting}
                 \/ IsExpired /\ expiry' = Holding("delete")
              /\ \/ release' \in {release, Waiting} /\ notices' = notices
                 \/ release.at = "notify" /\ release' = Waiting /\ notices' = notices + 1
                 \/ release = Waiting /\ IsDue /\ release' = Holding("update") /\ notices' = notices
       PROVE  VaultInv'
  <2>1. secret' = secret /\ view' = view /\ blobs' = blobs /\ rows' = rows /\ locks' = locks
    BY <1>11
  <2>2. Exists' <=> Exists
    BY <2>1 DEF Exists
  <2>3. Exists => /\ Holding("update").id = secret.id /\ Holding("update").blob = secret.blob
                  /\ Holding("update").at = "update"
                  /\ Holding("delete").id = secret.id /\ Holding("delete").blob = secret.blob
    BY <1>1, WriteHolds
  <2>4. VaultTypes'
    BY <1>1, <1>2, <1>11, <2>1 DEF VaultTypes
  <2>5. RowKnown' /\ Seen'
    BY <1>1, <1>2, <1>11, <2>1, <2>2, <2>3 DEF RowKnown, Seen, IsExpired, IsDue
  <2>6. FoundDue'
    <3> SUFFICES ASSUME Exists
                 PROVE  /\ release' # Waiting /\ release'.blob = secret.blob => secret.releaseAt =< now'
                        /\ expiry' # Waiting /\ expiry'.blob = secret.blob => secret.expiresAt =< now'
      BY <2>1, <2>2 DEF FoundDue
    <3>1. release' # Waiting /\ release'.blob = secret.blob => secret.releaseAt =< now
      BY <1>1, <1>11 DEF FoundDue, IsDue
    <3>2. expiry' # Waiting /\ expiry'.blob = secret.blob => secret.expiresAt =< now
      BY <1>1, <1>11 DEF FoundDue, IsExpired
    <3> QED BY <1>2, <1>3, <1>11, <3>1, <3>2
  <2>7. Announced'
    <3>1. CASE release' \in {release, Waiting} /\ notices' = notices
      <4>1. /\ Telling' => Telling
            /\ MayTell' => MayTell
        BY <1>5, <2>1, <2>2, <3>1 DEF Telling, MayTell
      <4> QED BY <1>1, <2>1, <3>1, <4>1, Announces
    <3>2. CASE release.at = "notify" /\ release' = Waiting /\ notices' = notices + 1
      <4>1. Telling /\ ~Telling' /\ (MayTell' => MayTell)
        BY <1>5, <2>1, <2>2, <3>2 DEF Telling, MayTell
      <4> QED BY <1>1, <2>1, <3>2, <4>1, Announces
    <3>3. CASE release = Waiting /\ IsDue /\ release' = Holding("update") /\ notices' = notices
      <4>1. ~Telling' /\ MayTell
        BY <1>5, <2>3, <3>3 DEF Telling, MayTell, IsDue
      <4> QED BY <1>1, <2>1, <3>3, <4>1, Announces
    <3> QED BY <1>11, <3>1, <3>2, <3>3
  <2> QED BY <2>4, <2>5, <2>6, <2>7 DEF VaultInv
<1>12. CASE \E c \in Client : DeleteSecret(c)
  BY <1>9, <1>12 DEF DeleteSecret
<1>13. CASE DeleteExpired
  <2>1. CASE secret.id = expiry.id
    BY <1>9, <1>13, <2>1 DEF DeleteExpired
  <2>2. CASE secret.id # expiry.id
    BY <1>2, <1>5, <1>11, <1>13, <2>2 DEF DeleteExpired
  <2> QED BY <2>1, <2>2
<1>14. CASE ManualRelease
  BY <1>5, <1>10, <1>14 DEF ManualRelease
<1>15. CASE AutoRelease
  BY <1>5, <1>10, <1>15 DEF AutoRelease
<1>16. CASE ManualRead
  BY <1>1, <1>2, <1>5, <1>11, <1>16, WriteHolds DEF ManualRead
<1>17. CASE FindReleases
  BY <1>1, <1>2, <1>5, <1>11, <1>17, WriteHolds DEF FindReleases, IsDue
<1>18. CASE FindExpired
  BY <1>1, <1>2, <1>5, <1>11, <1>18, WriteHolds DEF FindExpired, IsExpired
<1>19. CASE NotifyRelease
  BY <1>2, <1>5, <1>11, <1>19 DEF NotifyRelease
<1>20. CASE Tick
  BY <1>2, <1>5, <1>11, <1>20 DEF Tick
<1>21. CASE VaultFault
  BY <1>2, <1>5, <1>11, <1>21 DEF VaultFault
<1>22. CASE UNCHANGED vaultVars
  BY <1>2, <1>5, <1>11, <1>22 DEF vaultVars
<1> QED BY <1>6, <1>7, <1>8, <1>12, <1>13, <1>14, <1>15, <1>16, <1>17, <1>18, <1>19, <1>20, <1>21, <1>22
        DEF VaultNext

LEMMA VaultStaysSafe == VaultInit /\ [][VaultNext]_vaultVars => VaultSafety
<1>1. VaultInv => OneNoticePerLock
  BY DEF VaultInv, VaultTypes, Announced, Ahead, OneNoticePerLock
<1>2. ASSUME VaultInv, VaultNext, Exists, ~secret.isReleased, secret'.id = secret.id,
             secret'.blob = secret.blob, secret'.isReleased
      PROVE  secret.releaseAt =< now \/ manual # Waiting \/ release.blob # secret.blob
  <2>1. /\ secret \in Stored /\ blobs \in Nat /\ secret.blob =< blobs /\ secret.id # 0
        /\ secret.blob \in Nat /\ Absent.id = 0 /\ Waiting.at = "wait"
    BY <1>2, RowFacts DEF VaultInv, VaultTypes, RowKnown, Exists, Stored
  <2>2. CASE \E releaseAt, expiresAt \in Moment : StoreSecret(releaseAt, expiresAt)
    BY <1>2, <2>1, <2>2 DEF StoreSecret
  <2>3. CASE \E c \in Client : UpdateSecret(c)
    BY <1>2, <2>1, <2>3 DEF UpdateSecret, Stored
  <2>4. CASE secret' = secret \/ secret' = Absent
    BY <1>2, <2>1, <2>4
  <2>5. CASE ManualRelease
    BY <2>1, <2>5 DEF ManualRelease
  <2>6. CASE AutoRelease
    BY <1>2, <2>1, <2>6 DEF AutoRelease, VaultInv, FoundDue
  <2> QED BY <1>2, <2>2, <2>3, <2>4, <2>5, <2>6
          DEF VaultNext, ListSecrets, DeleteSecret, ManualRead, FindReleases, NotifyRelease,
              FindExpired, DeleteExpired, Tick, VaultFault
<1>3. ASSUME VaultInv, DeleteExpired, Exists
      PROVE  secret.expiresAt =< now \/ expiry.blob # secret.blob
  BY <1>3, RowFacts DEF DeleteExpired, VaultInv, FoundDue
<1>4. ASSUME VaultInv, NEW c \in Client, UpdateSecret(c) \/ DeleteSecret(c)
      PROVE  secret.blob = view[c].blob \/ secret.id # view[c].id
  BY <1>4 DEF UpdateSecret, DeleteSecret, SameVersion, VaultInv, Seen
<1>5. VaultInv /\ [VaultNext]_vaultVars =>
      [ /\ (Exists /\ ~secret.isReleased /\ secret'.id = secret.id /\ secret'.blob = secret.blob
              /\ secret'.isReleased)
             => secret.releaseAt =< now \/ manual # Waiting \/ release.blob # secret.blob
        /\ (DeleteExpired /\ Exists /\ secret' = Absent)
             => secret.expiresAt =< now \/ expiry.blob # secret.blob ]_vaultVars
  BY <1>2, <1>3
<1>6. VaultInv /\ [VaultNext]_vaultVars =>
      [ \A c \in Client : UpdateSecret(c) \/ DeleteSecret(c) =>
          secret.blob = view[c].blob \/ secret.id # view[c].id ]_vaultVars
  BY <1>4
<1> QED BY <1>1, <1>5, <1>6, VaultInitInv, VaultNextInv, PTL
        DEF VaultSafety, JobsActInTime, ReplacesWhatWasSeen

\* A lock opens and a secret goes in time, a release is told once, and a client
\* replaces the content it saw; for any number of clients, any horizon and any
\* number of uploads and faults.
THEOREM VaultSafe == VaultSpec => VaultSafety
BY VaultStaysSafe, PTL DEF VaultSpec

\* A row counts its uploads, is open unless it has a lock, and each process does its own work.
Kept ==
  /\ blobs =< MaxBlobs
  /\ Exists => /\ secret.blob >= 1 /\ secret.version >= 1 /\ secret.version =< blobs
               /\ (secret.isReleased \/ secret.releaseAt # Never)
  /\ release.at \in {"wait", "update", "notify"}
  /\ expiry.at \in {"wait", "delete"} /\ manual.at \in {"wait", "update"}

LEMMA KeptInit == VaultInit => Kept
BY VaultAssumption DEF VaultAssumption, VaultInit, Kept, Exists, Waiting

LEMMA KeptNext == VaultInv /\ Kept /\ [VaultNext]_vaultVars => Kept'
<1> SUFFICES ASSUME VaultInv, Kept, [VaultNext]_vaultVars PROVE Kept'
  OBVIOUS
<1>1. /\ VaultTypes /\ MaxBlobs \in Nat /\ blobs \in Nat /\ secret \in Rows
      /\ (secret # Absent <=> secret \in Stored)
  BY RowFacts, VaultAssumption DEF VaultInv, VaultTypes, VaultAssumption
<1>2. ASSUME NEW c \in Client, ListSecrets(c) PROVE Kept'
  BY <1>2 DEF ListSecrets, Kept, Exists
<1>3. ASSUME NEW r \in Moment, NEW e \in Moment, StoreSecret(r, e) PROVE Kept'
  <2>1. /\ blobs < MaxBlobs /\ blobs' = blobs + 1
        /\ release' = release /\ expiry' = expiry /\ manual' = manual
        /\ secret'.blob = blobs' /\ secret'.version = (IF Exists THEN secret.version + 1 ELSE 1)
        /\ secret'.isReleased = (r = Never) /\ secret'.releaseAt = r
    BY <1>3 DEF StoreSecret
  <2>2. Exists => secret.version \in Nat /\ secret.version =< blobs /\ secret.version >= 1
    BY <1>1 DEF Exists, Stored, Kept
  <2>3. secret'.version >= 1 /\ secret'.version =< blobs'
    BY <1>1, <2>1, <2>2
  <2>4. blobs' =< MaxBlobs /\ secret'.blob >= 1
    BY <1>1, <2>1
  <2>5. secret'.isReleased \/ secret'.releaseAt # Never
    BY <2>1
  <2>6. Never' = Never
    BY DEF Never
  <2> QED BY <2>1, <2>3, <2>4, <2>5, <2>6 DEF Kept
<1>4. ASSUME NEW c \in Client, UpdateSecret(c) PROVE Kept'
  <2>1. /\ Exists /\ blobs < MaxBlobs /\ blobs' = blobs + 1
        /\ release' = release /\ expiry' = expiry /\ manual' = manual
        /\ secret' = [secret EXCEPT !.blob = blobs', !.version = @ + 1]
    BY <1>4 DEF UpdateSecret, SameVersion
  <2>2. /\ secret.version \in Nat /\ secret'.version = secret.version + 1 /\ secret'.blob = blobs'
        /\ secret'.isReleased = secret.isReleased /\ secret'.releaseAt = secret.releaseAt
    BY <1>1, <2>1 DEF Exists, Stored
  <2> QED BY <1>1, <2>1, <2>2 DEF Kept
<1>5. ASSUME NEW c \in Client, DeleteSecret(c) PROVE Kept'
  BY <1>5 DEF DeleteSecret, Kept, Exists
<1>6. ASSUME NEW h, secret' = Released(h), blobs' = blobs, expiry' = expiry,
             release'.at \in {"wait", "update", "notify"}, manual'.at \in {"wait", "update"}
      PROVE  Kept'
  <2>1. CASE ~Exists
    <3>1. secret.id = 0
      BY <2>1 DEF Exists, Absent
    <3>2. secret' \in {secret, [secret EXCEPT !.isReleased = TRUE]}
      BY <1>6 DEF Released
    <3>3. secret' = secret
      BY <2>1, <3>2 DEF Exists, Absent
    <3> QED BY <1>6, <2>1, <3>3 DEF Kept, Exists
  <2>2. CASE Exists
    <3>1. /\ secret'.blob = secret.blob /\ secret'.version = secret.version
          /\ secret'.releaseAt = secret.releaseAt
          /\ (secret.isReleased => secret'.isReleased)
      BY <1>1, <1>6, <2>2 DEF Released, Exists, Stored
    <3> QED BY <1>6, <2>2, <3>1 DEF Kept
  <2> QED BY <2>1, <2>2
<1>7. CASE ManualRead
  BY <1>1, <1>7, WriteHolds DEF ManualRead, Kept, Exists
<1>8. CASE ManualRelease
  BY <1>6, <1>8, RowFacts DEF ManualRelease, Kept
<1>9. CASE FindReleases
  BY <1>1, <1>9, WriteHolds DEF FindReleases, IsDue, Kept, Exists
<1>10. CASE AutoRelease
  <2>1. release'.at \in {"wait", "notify"}
    <3>1. [release EXCEPT !.at = "notify"].at = "notify"
      BY <1>1, <1>10 DEF AutoRelease, VaultTypes, Jobs, Waiting
    <3> QED BY <1>10, <3>1, RowFacts DEF AutoRelease
  <2> QED BY <1>6, <1>10, <2>1 DEF AutoRelease, Kept
<1>11. CASE NotifyRelease
  BY <1>11, RowFacts DEF NotifyRelease, Kept, Exists
<1>12. CASE FindExpired
  BY <1>1, <1>12, WriteHolds DEF FindExpired, IsExpired, Kept, Exists
<1>13. CASE DeleteExpired
  BY <1>13, RowFacts DEF DeleteExpired, Kept, Exists
<1>14. CASE Tick
  BY <1>14 DEF Tick, Kept, Exists
<1>15. CASE VaultFault
  BY <1>15, RowFacts DEF VaultFault, Kept, Exists
<1>16. CASE UNCHANGED vaultVars
  BY <1>16 DEF vaultVars, Kept, Exists
<1> QED BY <1>2, <1>3, <1>4, <1>5, <1>7, <1>8, <1>9, <1>10, <1>11, <1>12, <1>13, <1>14, <1>15, <1>16
        DEF VaultNext

LEMMA VaultInvTypes == VaultInv /\ Kept => VaultTypeOK
<1> SUFFICES ASSUME VaultInv, Kept PROVE VaultTypeOK
  OBVIOUS
<1>1. VaultTypes /\ RowKnown /\ MaxBlobs \in Nat /\ blobs \in Nat /\ rows \in Nat
  BY VaultAssumption DEF VaultInv, VaultTypes, VaultAssumption
<1>2. ASSUME Exists
      PROVE  /\ secret.id \in 1..rows /\ secret.blob \in 1..blobs /\ secret.version \in 1..MaxBlobs
             /\ secret.releaseAt \in Moment /\ secret.expiresAt \in Moment
             /\ (secret.isReleased \/ secret.releaseAt # Never)
  <2>1. secret \in Stored
    BY <1>1, <1>2, RowFacts DEF VaultTypes, Exists
  <2>2. /\ secret.id \in Nat \ {0} /\ secret.version \in Nat /\ secret.blob \in Nat
        /\ secret.releaseAt \in Moment /\ secret.expiresAt \in Moment
    BY <2>1 DEF Stored
  <2> QED BY <1>1, <1>2, <2>2 DEF RowKnown, Kept
<1> QED BY <1>2 DEF Kept, VaultTypeOK

LEMMA VaultTypesStay == VaultInit /\ [][VaultNext]_vaultVars => []VaultTypeOK
BY VaultInitInv, VaultNextInv, KeptInit, KeptNext, VaultInvTypes, PTL

\* A row of the vault has an id and a blob there have been, a version for every
\* upload and, unless it is released, a time to be.
THEOREM VaultTypesKept == VaultSpec => []VaultTypeOK
BY VaultTypesStay, PTL DEF VaultSpec
=============================================================================
