---------------------------- MODULE BroadcastSend ----------------------------
(***************************************************************************)
(* One broadcast of the BFF: create, update, schedule and send of          *)
(* broadcast.service.ts and the repeated job of broadcast-send.job.ts.     *)
(* A send reads the row, marks it and then goes through its targets: the   *)
(* members of the segment with an address for the email channel, one post  *)
(* for every other channel.  Every query and every adapter call is an      *)
(* action, any query may fail, and the process may crash between any two.  *)
(***************************************************************************)
EXTENDS Integers, Sequences, FiniteSets

CONSTANTS
  Targets,     \* the targets of a send, in order, emails together, each once
  Email,       \* those that are recipients of the email channel
  Sender,      \* requests of users that may run at one time
  JOB,         \* the one worker of the broadcast queue
  MaxPresses,  \* bound: sends and schedules asked for by users
  MaxEdits,    \* bound: edits
  MaxBroadcastFaults  \* bound: failed queries and crashes

ASSUME BroadcastAssumption ==
  /\ Targets \in Seq({Targets[i] : i \in DOMAIN Targets})
  /\ \A i, j \in DOMAIN Targets : Targets[i] = Targets[j] => i = j
  /\ JOB \notin Sender /\ IsFiniteSet(Sender)
  /\ MaxPresses \in Nat /\ MaxEdits \in Nat /\ MaxBroadcastFaults \in Nat

VARIABLES
  status,      \* Broadcast.status
  content,     \* Broadcast.content, as the number of its edits
  sender,      \* what each request and the job do next
  sent,        \* per target: messages an adapter has accepted
  delivered,   \* per target: broadcast_deliveries rows with status delivered
  pressed, planned,   \* history: sends by users, writes of 'scheduled'
  troubles     \* failed queries and crashes

castVars == <<status, content, sender, sent, delivered, pressed, planned, troubles>>

Runner  == Sender \cup {JOB}
Target  == {Targets[i] : i \in DOMAIN Targets}
Dormant == [at |-> "idle"]
ToSend  == [at |-> "mark", i |-> 1, mailed |-> FALSE, posted |-> FALSE]
Move(x, s) == sender' = [sender EXCEPT ![x] = s]
Step(x, at) == Move(x, [sender[x] EXCEPT !.at = at])

CastInit ==
  /\ status = "draft" /\ content = 0
  /\ sender = [x \in Runner |-> Dormant]
  /\ sent = [t \in Target |-> 0] /\ delivered = [t \in Target |-> 0]
  /\ pressed = 0 /\ planned = 0 /\ troubles = 0

----------------------------------------------------------------------------
(* Edits: the status is checked on the row read, the write names the id.   *)

ReadDraft(x) ==
  /\ sender[x] = Dormant /\ x # JOB /\ status = "draft"
  /\ \/ content < MaxEdits /\ Move(x, [at |-> "edit"])
     \/ pressed + planned < MaxPresses /\ Move(x, [at |-> "plan"])
  /\ UNCHANGED <<status, content, sent, delivered, pressed, planned, troubles>>

WriteDraft(x) ==
  /\ \/ /\ sender[x].at = "edit" /\ content' = content + 1
        /\ UNCHANGED <<status, planned>>
     \/ /\ sender[x].at = "plan" /\ status' = "scheduled" /\ planned' = planned + 1
        /\ UNCHANGED content
  /\ Move(x, Dormant)
  /\ UNCHANGED <<sent, delivered, pressed, troubles>>

----------------------------------------------------------------------------
(* send: no status is asked for, so any broadcast may be sent again.       *)

PressSend(x) ==
  /\ sender[x] = Dormant /\ x # JOB /\ pressed + planned < MaxPresses
  /\ pressed' = pressed + 1
  /\ Move(x, ToSend)
  /\ UNCHANGED <<status, content, sent, delivered, planned, troubles>>

\* Slip: the job looks for a status nobody writes.
FindQueued ==
  /\ sender[JOB] = Dormant /\ status = "queued"
  /\ Move(JOB, [at |-> "due"])
  /\ UNCHANGED <<status, content, sent, delivered, pressed, planned, troubles>>

\* The job lists what is due, and comes to this broadcast after the others.
FindDue ==
  /\ sender[JOB] = Dormant /\ status = "scheduled"
  /\ Move(JOB, [at |-> "due"])
  /\ UNCHANGED <<status, content, sent, delivered, pressed, planned, troubles>>

SendDue ==
  /\ sender[JOB].at = "due"
  /\ Move(JOB, ToSend)
  /\ UNCHANGED <<status, content, sent, delivered, pressed, planned, troubles>>

\* Slip: the row is marked only when all is done.
MarkLate(x) ==
  /\ sender[x].at = "mark"
  /\ Step(x, "post")
  /\ UNCHANGED <<status, content, sent, delivered, pressed, planned, troubles>>

MarkSent(x) ==
  /\ sender[x].at = "mark"
  /\ status' = "sending"
  /\ Step(x, "post")
  /\ UNCHANGED <<content, sent, delivered, pressed, planned, troubles>>

More(x)    == sender[x].i =< Len(Targets)
Current(x) == Targets[sender[x].i]

\* The adapter accepts the message or throws.
SendOne(x) ==
  /\ sender[x].at = "post" /\ More(x)
  /\ \/ sent' = [sent EXCEPT ![Current(x)] = @ + 1] /\ Step(x, "record")
     \/ UNCHANGED sent /\ Step(x, "blame")
  /\ UNCHANGED <<status, content, delivered, pressed, planned, troubles>>

Record(x) ==
  /\ sender[x].at = "record"
  /\ delivered' = [delivered EXCEPT ![Current(x)] = @ + 1]
  /\ Move(x, [sender[x] EXCEPT !.at = "post", !.i = @ + 1,
                               !.mailed = @ \/ Current(x) \in Email,
                               !.posted = @ \/ Current(x) \notin Email])
  /\ UNCHANGED <<status, content, sent, pressed, planned, troubles>>

\* The row with status failed, also for a message whose row could not be written.
Blame(x) ==
  /\ sender[x].at = "blame"
  /\ Move(x, [sender[x] EXCEPT !.at = "post", !.i = @ + 1])
  /\ UNCHANGED <<status, content, sent, delivered, pressed, planned, troubles>>

\* Slip: any accepted message counts, written down or not.
OutcomeOfSends(x) == IF \E t \in Target : sent[t] > 0 THEN "sent" ELSE "failed"
Outcome(x) == IF sender[x].mailed \/ sender[x].posted THEN "sent" ELSE "failed"

\* Slip: the final status is written only if something was delivered.
FinishIfDelivered(x) ==
  /\ sender[x].at = "post" /\ ~More(x)
  /\ status' = IF Outcome(x) = "sent" THEN "sent" ELSE status
  /\ Move(x, Dormant)
  /\ UNCHANGED <<content, sent, delivered, pressed, planned, troubles>>

Finish(x) ==
  /\ sender[x].at = "post" /\ ~More(x)
  /\ status' = Outcome(x)
  /\ Move(x, Dormant)
  /\ UNCHANGED <<content, sent, delivered, pressed, planned, troubles>>

----------------------------------------------------------------------------
(* Failures.                                                               *)

\* An exception out of send: the job marks the row, a request just answers 500.
Thrown(x) == IF x = JOB THEN [at |-> "giveUp"] ELSE Dormant

\* The failed row of an email is inside the try of the channel, whose own
\* failed row ends the channel, and what it had delivered is not counted; a
\* second failure there leaves send.
NextChannel(i, j) ==
  /\ \A k \in i..(j - 1) : Targets[k] \in Email
  /\ j > Len(Targets) \/ Targets[j] \notin Email

\* The members of the segment are read before the first of them is written to.
FirstEmail(i) == i =< Len(Targets) /\ Targets[i] \in Email /\ ~(i > 1 /\ Targets[i - 1] \in Email)

QueryFails(x) ==
  /\ troubles < MaxBroadcastFaults /\ troubles' = troubles + 1
  /\ LET s == sender[x] IN
     \/ s.at = "record" /\ Step(x, "blame")
     \/ s.at = "blame" /\ Current(x) \in Email /\ Step(x, "blameChannel")
     \/ s.at = "blame" /\ Current(x) \notin Email /\ Move(x, Thrown(x))
     \/ s.at = "post" /\ FirstEmail(s.i) /\ Step(x, "blameChannel")
     \/ s.at \in {"mark", "blameChannel"} /\ Move(x, Thrown(x))
     \/ s.at = "post" /\ ~More(x) /\ Move(x, Thrown(x))
     \/ s.at \in {"edit", "plan", "due", "giveUp"} /\ Move(x, IF s.at = "due" THEN Thrown(x) ELSE Dormant)
  /\ UNCHANGED <<status, content, sent, delivered, pressed, planned>>

BlameChannel(x) ==
  /\ sender[x].at = "blameChannel"
  /\ \E j \in sender[x].i..Len(Targets) + 1 :
       /\ NextChannel(sender[x].i, j)
       /\ Move(x, [sender[x] EXCEPT !.at = "post", !.i = j, !.mailed = FALSE])
  /\ UNCHANGED <<status, content, sent, delivered, pressed, planned, troubles>>

GiveUp ==
  /\ sender[JOB].at = "giveUp"
  /\ status' = "failed"
  /\ Move(JOB, Dormant)
  /\ UNCHANGED <<content, sent, delivered, pressed, planned, troubles>>

CastCrash ==
  /\ troubles < MaxBroadcastFaults /\ troubles' = troubles + 1
  /\ \E x \in Runner : sender[x] # Dormant
  /\ sender' = [x \in Runner |-> Dormant]
  /\ UNCHANGED <<status, content, sent, delivered, pressed, planned>>

SendRuns(x) == \/ WriteDraft(x) \/ MarkSent(x) \/ SendOne(x) \/ Record(x) \/ Blame(x)
               \/ BlameChannel(x) \/ Finish(x)
JobRuns == FindDue \/ SendDue \/ GiveUp \/ SendRuns(JOB)

CastNext ==
  \/ \E x \in Runner : ReadDraft(x) \/ PressSend(x) \/ SendRuns(x) \/ QueryFails(x)
  \/ FindDue \/ SendDue \/ GiveUp
  \/ CastCrash

\* The event loop resumes a request; the job repeats and BullMQ keeps it.
CastFairness == WF_castVars(JobRuns) /\ \A x \in Sender : WF_castVars(SendRuns(x))
CastSpec == CastInit /\ [][CastNext]_castVars /\ CastFairness

----------------------------------------------------------------------------
\* The row, the runners and the counters have their types.
CastTypeOK ==
  /\ status \in {"draft", "scheduled", "sending", "sent", "failed"}
  /\ content \in Nat /\ pressed \in Nat /\ planned \in Nat
  /\ \A x \in Runner : sender[x].at \in {"idle", "edit", "plan", "due", "mark", "post",
       "record", "blame", "blameChannel", "giveUp"}
  /\ sent \in [Target -> Nat] /\ delivered \in [Target -> Nat]
  /\ troubles \in 0..MaxBroadcastFaults

\* A target gets at most one message for every send pressed and every schedule
\* written, whatever fails, crashes or overlaps: the mark before the first
\* message takes the broadcast from the job.
OneMessagePerOrder == \A t \in Target : sent[t] =< pressed + planned

\* A row that says sent is backed by a delivery that was made and written down.
SentIsRecorded ==
  /\ \A t \in Target : delivered[t] =< sent[t]
  /\ status = "sent" => \E t \in Target : delivered[t] > 0

\* What is due leaves the queue of the job, also after failures and crashes, and
\* without a failure no broadcast is left in 'sending'.
NothingToSend == status # "scheduled" /\ (status = "sending" => troubles > 0)
SendingEnds == []<>NothingToSend

\* A target gets a message per order, and 'sent' has a delivery behind it.
CastSafety == OneMessagePerOrder /\ SentIsRecorded
=============================================================================
