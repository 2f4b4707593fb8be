---------------------------- MODULE GdprDeletion ----------------------------
(***************************************************************************)
(* The deletion of profiles in the BFF: gdpr.service.ts, the executor's    *)
(* transaction and the daily run of gdpr-cleanup.job.ts.  Transactions are *)
(* atomic; a cancellation reads before its transaction, and a run lists    *)
(* the due profiles before it deletes them one after the other.            *)
(* An exception in a run is caught by nobody and ends the process, whose   *)
(* successor starts the interval anew.                                     *)
(***************************************************************************)
EXTENDS Integers, FiniteSets, Sequences, SequencesExt

CONSTANTS
  Profile,
  Grace,        \* the seven days, in ticks
  Day,          \* the interval of the job, in ticks
  MaxAsked,     \* bound: requests for deletion
  MaxEnds,      \* bound: ends of the process
  NOBODY        \* no profile

ASSUME GdprAssumption ==
  /\ IsFiniteSet(Profile) /\ NOBODY \notin Profile
  /\ Grace \in Nat \ {0} /\ Day \in Nat \ {0} /\ MaxAsked \in Nat /\ MaxEnds \in Nat

VARIABLES
  gdprStatus,  \* Profile.gdprStatus
  left,        \* ticks until gdprScheduledAt
  logs,        \* the gdpr_deletion_logs of a profile, as a sequence of statuses
  erased,      \* the personal data is gone
  cancelling,  \* the profile whose cancellation has passed its checks
  list,        \* what the run has found and not yet deleted
  timer,       \* ticks until the next run
  waited,      \* history: ticks since the deletion now pending was first asked for
  late,        \* history: a cancellation was written after the grace period
  asked, ends

gdprVars == <<gdprStatus, left, logs, erased, cancelling, list, timer, waited, late, asked, ends>>

GdprInit ==
  /\ gdprStatus = [p \in Profile |-> "NONE"] /\ left = [p \in Profile |-> 0]
  /\ logs = [p \in Profile |-> <<>>] /\ erased = {}
  /\ cancelling = NOBODY /\ list = <<>> /\ timer = Day
  /\ waited = [p \in Profile |-> 0] /\ late = {} /\ asked = 0 /\ ends = 0

\* Nothing asks for the present status: a second request postpones the first.
InitiateDeletion(p) ==
  /\ asked < MaxAsked /\ asked' = asked + 1
  /\ gdprStatus' = [gdprStatus EXCEPT ![p] = "PENDING_DELETION"]
  /\ left' = [left EXCEPT ![p] = Grace]
  /\ logs' = [logs EXCEPT ![p] = Append(@, "PENDING")]
  /\ waited' = [waited EXCEPT ![p] = IF gdprStatus[p] = "PENDING_DELETION" THEN @ ELSE 0]
  /\ UNCHANGED <<erased, cancelling, list, timer, late, ends>>

CheckCancel(p) ==
  /\ cancelling = NOBODY
  /\ gdprStatus[p] = "PENDING_DELETION" /\ left[p] > 0
  /\ cancelling' = p
  /\ UNCHANGED <<gdprStatus, left, logs, erased, list, timer, waited, late, asked, ends>>

Relabel(p, to) == [i \in DOMAIN logs[p] |-> IF logs[p][i] = "PENDING" THEN to ELSE logs[p][i]]

WriteCancel ==
  LET p == cancelling IN
  /\ p # NOBODY
  /\ gdprStatus' = [gdprStatus EXCEPT ![p] = "NONE"]
  /\ left' = [left EXCEPT ![p] = 0]
  /\ logs' = [logs EXCEPT ![p] = Relabel(p, "CANCELLED")]
  /\ cancelling' = NOBODY
  /\ late' = IF gdprStatus[p] = "PENDING_DELETION" /\ left[p] > 0 /\ ~Contains(list, p)
             THEN late ELSE late \cup {p}
  /\ UNCHANGED <<erased, list, timer, waited, asked, ends>>

\* Slip: every pending profile is taken.
DueAnyTime == {p \in Profile : gdprStatus[p] = "PENDING_DELETION"}
Due == {p \in Profile : gdprStatus[p] = "PENDING_DELETION" /\ left[p] = 0}

\* The database gives the due profiles in any order.
RunCleanup ==
  /\ timer = 0 /\ list = <<>>
  /\ timer' = Day
  /\ list' \in SetToSeqs(Due)
  /\ UNCHANGED <<gdprStatus, left, logs, erased, cancelling, waited, late, asked, ends>>

\* Slip: the log is left as it is.
ExecuteUnlogged ==
  /\ list # <<>>
  /\ LET p == Head(list) IN
     /\ gdprStatus' = [gdprStatus EXCEPT ![p] = "COMPLETED"]
     /\ erased' = erased \cup {p}
  /\ list' = Tail(list)
  /\ UNCHANGED <<left, logs, cancelling, timer, waited, late, asked, ends>>

\* Slip: the status of the profile is left as it is.
ExecuteUnmarked ==
  /\ list # <<>>
  /\ erased' = erased \cup {Head(list)}
  /\ logs' = [logs EXCEPT ![Head(list)] = Relabel(Head(list), "EXECUTED")]
  /\ list' = Tail(list)
  /\ UNCHANGED <<gdprStatus, left, cancelling, timer, waited, late, asked, ends>>

Execute ==
  /\ list # <<>>
  /\ LET p == Head(list) IN
     /\ gdprStatus' = [gdprStatus EXCEPT ![p] = "COMPLETED"]
     /\ erased' = erased \cup {p}
     /\ logs' = [logs EXCEPT ![p] = Relabel(p, "EXECUTED")]
  /\ list' = Tail(list)
  /\ UNCHANGED <<left, cancelling, timer, waited, late, asked, ends>>

\* A failed query of a run, or any other end of the process.
ProcessEnds ==
  /\ ends < MaxEnds /\ ends' = ends + 1
  /\ list' = <<>> /\ cancelling' = NOBODY /\ timer' = Day
  /\ UNCHANGED <<gdprStatus, left, logs, erased, waited, late, asked>>

\* The interval fires on time; a run may take longer than a tick.
TickGdpr ==
  /\ timer > 0 /\ timer' = timer - 1
  /\ left' = [p \in Profile |-> IF left[p] > 0 THEN left[p] - 1 ELSE 0]
  /\ waited' = [p \in Profile |-> IF waited[p] < Grace THEN waited[p] + 1 ELSE Grace]
  /\ UNCHANGED <<gdprStatus, logs, erased, cancelling, list, late, asked, ends>>

GdprNext ==
  \/ \E p \in Profile : InitiateDeletion(p) \/ CheckCancel(p)
  \/ WriteCancel \/ RunCleanup \/ Execute \/ ProcessEnds \/ TickGdpr

GdprFairness ==
  WF_gdprVars(RunCleanup) /\ WF_gdprVars(Execute) /\ WF_gdprVars(TickGdpr) /\ WF_gdprVars(WriteCancel)
GdprSpec == GdprInit /\ [][GdprNext]_gdprVars /\ GdprFairness

----------------------------------------------------------------------------
\* Rows, the list of the run and the clocks have their types.
GdprTypeOK ==
  /\ gdprStatus \in [Profile -> {"NONE", "PENDING_DELETION", "COMPLETED"}]
  /\ left \in [Profile -> 0..Grace] /\ waited \in [Profile -> 0..Grace]
  /\ \A p \in Profile : ToSet(logs[p]) \subseteq {"PENDING", "CANCELLED", "EXECUTED"}
  /\ erased \subseteq Profile /\ late \subseteq Profile /\ ToSet(list) \subseteq Profile
  /\ cancelling \in Profile \cup {NOBODY} /\ timer \in 0..Day

\* Nobody's data is erased before the grace period of a pending request has
\* passed, unless a cancellation was written after its check had expired.
ErasedAfterGrace ==
  [][\A p \in erased' \ erased : p \in late \/ waited[p] = Grace]_gdprVars

\* Unless a cancellation was written too late, erased data has an executed log,
\* and a deletion that is no longer pending has no pending log.
LogsAgree ==
  \A p \in Profile \ late :
    /\ p \in erased => Contains(logs[p], "EXECUTED")
    /\ Contains(logs[p], "PENDING") => gdprStatus[p] = "PENDING_DELETION"

\* A pending deletion is executed or cancelled in the end, although a run may
\* fail at another profile and the interval is lost with the process.
NothingPending == \A p \in Profile : gdprStatus[p] # "PENDING_DELETION"
PendingEnds == []<>NothingPending

\* Nobody is erased before the grace period, and the logs tell what happened.
GdprSafety == []LogsAgree /\ ErasedAfterGrace
=============================================================================
