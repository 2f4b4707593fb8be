---------------------------- MODULE SegmentFeeds ----------------------------
(***************************************************************************)
(* The members of one segment and those who write and read them: the       *)
(* evaluation job (segment-eval.job.ts, not a transaction), the refresh by *)
(* a request (segment.service.ts, a transaction), the workflow action      *)
(* add-to-segment, the deletion, and the diff job that tells campaigns who *)
(* entered and who left, against a baseline in memory                      *)
(* (segment-diff.job.ts).  The cron entries start the evaluation and the   *)
(* diff at the same minute (jobs.service.ts).                              *)
(***************************************************************************)
EXTENDS Integers, FiniteSets

CONSTANTS
  Member,          \* profiles of the workspace
  MaxChanges,      \* bound: changes of the rules or of profiles, additions, refreshes
  MaxToggles,      \* bound: triggers switched on or off
  MaxFeedFaults    \* bound: failures and restarts

ASSUME FeedAssumption ==
  IsFiniteSet(Member) /\ MaxChanges \in Nat /\ MaxToggles \in Nat /\ MaxFeedFaults \in Nat

VARIABLES
  segment,     \* whether the row of segments exists
  matching,    \* the profiles its rules match now
  members,     \* the rows of segment_memberships
  queued,      \* whether an evaluation is in the queue
  eval,        \* what the evaluation does next, and whom it found
  triggers,    \* the enabled triggers of campaigns for this segment
  diff,        \* what the diff job does next, and the triggers it read
  baseline,    \* SegmentDiffJob.previousMemberships, or Unset
  told,        \* history: who is in, by the events since the baseline was set
  partial,     \* history: a diff since then ran with one trigger only
  changes, toggles, feedFaults

jobVars == <<queued, eval, diff, baseline, told, partial>>
feedVars == <<segment, matching, members, triggers, jobVars, changes, toggles, feedFaults>>

Unset == {{}}     \* no set of members
Resting == [at |-> "rest", found |-> {}]
NoDiff == [at |-> "rest", triggers |-> {}]

FeedInit ==
  /\ segment = TRUE /\ matching \in SUBSET Member /\ members = {}
  /\ queued = FALSE /\ eval = Resting /\ triggers = {"entered", "exited"} /\ diff = NoDiff
  /\ baseline = Unset /\ told = {} /\ partial = FALSE
  /\ changes = 0 /\ toggles = 0 /\ feedFaults = 0

----------------------------------------------------------------------------
(* Requests and campaigns.                                                 *)

\* A profile changes, or the rules do (update).
MatchingChanges ==
  /\ changes < MaxChanges /\ changes' = changes + 1
  /\ matching' \in SUBSET Member \ {matching}
  /\ UNCHANGED <<segment, members, triggers, jobVars, toggles, feedFaults>>

\* refreshSegment: its client is a stub that finds nobody.
RefreshSegment ==
  /\ segment /\ changes < MaxChanges /\ changes' = changes + 1
  /\ members' = {}
  /\ UNCHANGED <<segment, matching, triggers, jobVars, toggles, feedFaults>>

DeleteSegment ==
  /\ segment /\ changes < MaxChanges /\ changes' = changes + 1
  /\ members' = {} /\ segment' = FALSE
  /\ UNCHANGED <<matching, triggers, jobVars, toggles, feedFaults>>

AddToSegment(p) ==
  /\ segment /\ p \notin members /\ changes < MaxChanges /\ changes' = changes + 1
  /\ members' = members \cup {p}
  /\ UNCHANGED <<segment, matching, triggers, jobVars, toggles, feedFaults>>

Toggle(t) ==
  /\ toggles < MaxToggles /\ toggles' = toggles + 1
  /\ triggers' = IF t \in triggers THEN triggers \ {t} ELSE triggers \cup {t}
  /\ UNCHANGED <<segment, matching, members, jobVars, changes, feedFaults>>

----------------------------------------------------------------------------
(* The evaluation: every quarter of an hour one job for each segment.      *)

RefreshJob ==
  /\ segment /\ ~queued /\ queued' = TRUE
  /\ UNCHANGED <<segment, matching, members, eval, diff, baseline, told, partial, triggers,
                 changes, toggles, feedFaults>>

EvalFind ==
  /\ queued /\ eval = Resting /\ queued' = FALSE
  /\ eval' = IF segment THEN [at |-> "delete", found |-> matching] ELSE Resting
  /\ UNCHANGED <<segment, matching, members, diff, baseline, told, partial, triggers,
                 changes, toggles, feedFaults>>

\* Slip: the old rows stay.
EvalKeep == UNCHANGED members
EvalClear == members' = {}

EvalDelete ==
  /\ eval.at = "delete" /\ EvalClear
  /\ eval' = [eval EXCEPT !.at = IF eval.found = {} THEN "stamp" ELSE "create"]
  /\ UNCHANGED <<segment, matching, queued, diff, baseline, told, partial, triggers,
                 changes, toggles, feedFaults>>

\* Slip: rows are written for a segment that is gone.
FillAnyway == members \cup eval.found
\* The foreign key refuses them.
Fill == IF segment THEN members \cup eval.found ELSE members

EvalCreate ==
  /\ eval.at = "create"
  /\ members' = Fill
  /\ eval' = IF segment THEN [eval EXCEPT !.at = "stamp"] ELSE Resting
  /\ UNCHANGED <<segment, matching, queued, diff, baseline, told, partial, triggers,
                 changes, toggles, feedFaults>>

EvalStamp ==
  /\ eval.at = "stamp" /\ eval' = Resting
  /\ UNCHANGED <<segment, matching, members, queued, diff, baseline, told, partial, triggers,
                 changes, toggles, feedFaults>>

----------------------------------------------------------------------------
(* The diff: every half hour.                                              *)

DiffFind ==
  /\ diff = NoDiff /\ triggers # {}
  /\ diff' = [at |-> "read", triggers |-> triggers]
  /\ UNCHANGED <<segment, matching, members, queued, eval, baseline, told, partial, triggers,
                 changes, toggles, feedFaults>>

\* Slip: the baseline is replaced only after someone entered.
NextBaselineOfEntered == IF members \ baseline # {} THEN members ELSE baseline
NextBaseline == members

\* After the read the events are emitted and the baseline is set without a pause.
DiffRead ==
  /\ diff.at = "read" /\ diff' = NoDiff
  /\ IF baseline = Unset
     THEN baseline' = members /\ told' = members /\ partial' = FALSE
     ELSE LET entered == IF "entered" \in diff.triggers THEN members \ baseline ELSE {}
              exited == IF "exited" \in diff.triggers THEN baseline \ members ELSE {}
          IN  /\ told' = (told \ exited) \cup entered
              /\ baseline' = NextBaseline
              /\ partial' = (partial \/ diff.triggers # {"entered", "exited"})
  /\ UNCHANGED <<segment, matching, members, queued, eval, triggers, changes, toggles, feedFaults>>

----------------------------------------------------------------------------
\* A job fails between two of its steps, or the process restarts: the stalled
\* evaluation is queued again, the baseline is gone.
FeedFault ==
  /\ feedFaults < MaxFeedFaults /\ feedFaults' = feedFaults + 1
  /\ \/ eval # Resting /\ eval' = Resting /\ UNCHANGED <<queued, diff, baseline, told, partial>>
     \/ /\ queued' = (queued \/ eval # Resting) /\ eval' = Resting /\ diff' = NoDiff
        /\ baseline' = Unset /\ told' = {} /\ partial' = FALSE
  /\ UNCHANGED <<segment, matching, members, triggers, changes, toggles>>

EvalSteps == EvalFind \/ EvalDelete \/ EvalCreate \/ EvalStamp
DiffSteps == DiffFind \/ DiffRead

FeedNext ==
  \/ MatchingChanges \/ RefreshSegment \/ DeleteSegment
  \/ \E p \in Member : AddToSegment(p)
  \/ \E t \in {"entered", "exited"} : Toggle(t)
  \/ RefreshJob \/ EvalSteps \/ DiffSteps \/ FeedFault

FeedSpec == FeedInit /\ [][FeedNext]_feedVars
            /\ WF_feedVars(RefreshJob) /\ WF_feedVars(EvalSteps) /\ WF_feedVars(DiffSteps)

----------------------------------------------------------------------------
\* Rows are of profiles, and a deleted segment has none.
FeedTypeOK ==
  /\ members \subseteq Member /\ eval.found \subseteq Member
  /\ eval.at \in {"rest", "delete", "create", "stamp"} /\ diff.at \in {"rest", "read"}
  /\ baseline = Unset \/ baseline \subseteq Member
  /\ (~segment => members = {})

\* Who follows the events knows the baseline, as long as both kinds of event
\* were asked for at every diff since it was set.
ListenersKeepUp == baseline # Unset /\ ~partial => told = baseline

\* From time to time the rows are those the rules ask for, whatever requests,
\* workflows, failures and restarts made of them; who a workflow added by hand
\* is lost again by the same evaluation.
MembersMatch == segment => members = matching
MembersComeBack == []<>MembersMatch
=============================================================================
