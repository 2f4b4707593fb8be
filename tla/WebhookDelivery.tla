--------------------------- MODULE WebhookDelivery ---------------------------
(***************************************************************************)
(* The delivery of one indexer event to the BFF.  The dispatcher of        *)
(* packages/indexer posts it until it is answered, gives up on an answer   *)
(* after ten seconds and, once its retries are exhausted, writes a dead    *)
(* letter.  Each request is a handler of packages/bff/src/webhook: it asks *)
(* Redis for the event's id, marks it and emits the event to the           *)
(* listeners.  A handler does not notice that its client has gone, so      *)
(* those of several attempts may run at the same time.                     *)
(***************************************************************************)
EXTENDS Integers

CONSTANTS
  MaxRetries,
  MaxFaults    \* bound on failed Redis and database calls and BFF restarts

ASSUME DeliveryAssumption == MaxRetries \in Nat /\ MaxFaults \in Nat

Attempt == 1 .. MaxRetries + 1

VARIABLES
  client,   \* the dispatcher: "post", "wait", "exhausted", or how it ended
  attempt,  \* the latest attempt
  req,      \* by attempt: what has become of its request
  marked,   \* Redis: the attempts' idempotency keys that are set
  emitted,  \* times the event was emitted to the listeners
  faults,
  raced     \* history: a request missed the mark of one that had missed it too

vars == <<client, attempt, req, marked, emitted, faults, raced>>

Init ==
  /\ client = "post" /\ attempt = 0
  /\ req = [i \in Attempt |-> "unsent"]
  /\ marked = {} /\ emitted = 0 /\ faults = 0 /\ raced = FALSE

Fault == faults < MaxFaults /\ faults' = faults + 1

\* The idempotency key.  The id is made once per event, before the retries.
\* Slip: an id for every attempt.
KeyOfAttempt(i) == i
Key(i) == 0

-----------------------------------------------------------------------------
(* The dispatcher.                                                         *)

Post ==
  /\ client = "post"
  /\ client' = "wait" /\ attempt' = attempt + 1
  /\ req' = [req EXCEPT ![attempt + 1] = "arrived"]
  /\ UNCHANGED <<marked, emitted, faults, raced>>

Answered ==
  /\ client = "wait" /\ req[attempt] = "ok"
  /\ client' = "delivered"
  /\ UNCHANGED <<attempt, req, marked, emitted, faults, raced>>

\* Slip: it gives up one attempt early, the loop running to max_retries.
AttemptsOfRetries == MaxRetries
Attempts == MaxRetries + 1

\* The answer is an error, is lost or is late: back off, or give up.
NotAnswered ==
  /\ client = "wait"
  /\ client' = IF attempt < Attempts THEN "post" ELSE "exhausted"
  /\ UNCHANGED <<attempt, req, marked, emitted, faults, raced>>

InsertDeadLetter ==
  /\ client = "exhausted"
  /\ \/ client' = "lettered" /\ UNCHANGED faults
     \/ client' = "dropped" /\ Fault
  /\ UNCHANGED <<attempt, req, marked, emitted, raced>>

-----------------------------------------------------------------------------
(* The requests.                                                           *)

\* Slip: the answer of Redis is read the wrong way round.
NotFound(i) == Key(i) \notin marked
Found(i) == Key(i) \in marked

Get(i) ==
  /\ req[i] = "arrived"
  /\ req' = [req EXCEPT ![i] = IF Found(i) THEN "ok" ELSE "missed"]
  /\ raced' = (raced \/ (/\ ~Found(i)
                         /\ \E j \in Attempt \ {i} : req[j] = "missed"))
  /\ UNCHANGED <<client, attempt, marked, emitted, faults>>

Mark(i) == marked \union {Key(i)}

\* Marked before emitting.
Set(i) ==
  /\ req[i] = "missed"
  /\ req' = [req EXCEPT ![i] = "marked"]
  /\ marked' = Mark(i)
  /\ UNCHANGED <<client, attempt, emitted, faults, raced>>

Emit(i) ==
  /\ req[i] = "marked"
  /\ req' = [req EXCEPT ![i] = "ok"]
  /\ emitted' = emitted + 1
  /\ UNCHANGED <<client, attempt, marked, faults, raced>>

\* Redis fails the call; a failed set may have taken effect.
RedisFails(i) ==
  /\ req[i] \in {"arrived", "missed"} /\ Fault
  /\ req' = [req EXCEPT ![i] = "error"]
  /\ marked' \in {marked} \union (IF req[i] = "missed" THEN {Mark(i)} ELSE {})
  /\ UNCHANGED <<client, attempt, emitted, raced>>

\* The server restarts; its requests are gone, Redis keeps the marks.
BffRestarts ==
  /\ Fault
  /\ req' = [i \in Attempt |-> IF req[i] \in {"arrived", "missed", "marked"}
                               THEN "error" ELSE req[i]]
  /\ UNCHANGED <<client, attempt, marked, emitted, raced>>

Handle(i) == Get(i) \/ Set(i) \/ Emit(i) \/ RedisFails(i)
Dispatch  == Post \/ Answered \/ NotAnswered \/ InsertDeadLetter

Next == Dispatch \/ (\E i \in Attempt : Handle(i)) \/ BffRestarts

Spec == Init /\ [][Next]_vars

\* Both runtimes go on with every task; the client's timer ends each wait.
Fairness == WF_vars(Dispatch) /\ \A i \in Attempt : WF_vars(Handle(i))
FairSpec == Spec /\ Fairness

-----------------------------------------------------------------------------
(* Properties.                                                             *)

TypeOK ==
  /\ client \in {"post", "wait", "exhausted", "delivered", "lettered", "dropped"}
  /\ attempt \in 0 .. MaxRetries + 1 /\ faults \in 0 .. MaxFaults
  /\ \A i \in Attempt :
       /\ req[i] \in {"unsent", "arrived", "missed", "marked", "ok", "error"}
       /\ (req[i] = "unsent") <=> (i > attempt)
  /\ emitted \in 0 .. MaxRetries + 1 /\ raced \in BOOLEAN
  /\ client = "exhausted" => attempt = MaxRetries + 1

\* Only requests that ask for the mark at the same time emit an event twice: a
\* retry of an attempt that got as far as its mark never does.
OnlyRacesDuplicate == emitted > 1 => raced

\* A delivery the dispatcher takes for done has reached the listeners, or a
\* handler is about to emit it; only a failed call or a restart loses it.
DeliveredIsEmitted ==
  client = "delivered" /\ faults = 0 =>
    emitted > 0 \/ \E i \in Attempt : req[i] = "marked"

\* Every event that is not dead-lettered gets to the listeners at last, and no
\* delivery goes on for ever.
DeliveryEnded ==
  client \in {"delivered", "lettered", "dropped"} /\ (faults = 0 => emitted > 0)
EveryDeliveryEnds == <>[]DeliveryEnded

\* What the comment in handleIndexerEvent says: "at-most-once semantics".
AtMostOnce == emitted <= 1
=============================================================================
