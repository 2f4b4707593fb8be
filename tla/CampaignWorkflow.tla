-------------------------- MODULE CampaignWorkflow --------------------------
(***************************************************************************)
(* A campaign of packages/bff/src/campaign, its workflow executions and    *)
(* everything that drives them: the HTTP calls, the scheduler job, the     *)
(* event, recurring and time-elapsed triggers, and the delayed jobs of     *)
(* BullMQ.  An invocation is an async function: it runs without a break    *)
(* from one await to the next, so each database or queue call is a step    *)
(* and invocations interleave between them.  Rows and queued jobs survive  *)
(* a crash of the server, invocations do not.                              *)
(***************************************************************************)
EXTENDS Integers, Sequences, FiniteSets, SequencesExt

CONSTANTS
  Enrolled,           \* profiles of the campaign's segment
  Proc,               \* slots for invocations that run at the same time
  Plan,               \* the workflowSteps an editor may save, by PlanId
  PlanId,
  MaxStarts,          \* bound on the times a profile is put at the first step
  MaxCampaignFaults,  \* bound on failed database calls and crashes
  NONE                \* no profile

ASSUME WorkflowAssumption ==
  /\ MaxStarts \in Nat /\ MaxCampaignFaults \in Nat /\ NONE \notin Enrolled /\ IsFiniteSet(Proc)
  /\ \A d \in PlanId : Plan[d] \in Seq([kind : {"known", "unknown"}, delay : BOOLEAN,
                                        targets : SUBSET Nat])

VARIABLES
  campaignStatus, \* campaign.status
  plan,     \* campaign.workflowSteps
  exec,     \* workflowExecution rows, by profile
  delayed,  \* waiting jobs of the workflow-delay queue: profile and saved plan
  proc,     \* the running invocations
  failures, \* failed calls and crashes so far
  starts,   \* history: times each profile was put at the first step
  trail,    \* history: steps each profile's actions ran for since then
  onPlan,   \* history: the plan of the latest start
  mixed,    \* history: another invocation or job was still carrying the profile
            \* at its latest start, or lost it in a crash since
  lost      \* history: profiles that an invocation has dropped in a failure since
            \* their latest start

history      == <<starts, trail, onPlan, mixed, lost>>
campaignVars == <<campaignStatus, plan, exec, delayed, proc, failures, history>>

\* "inactive" is draft, paused or completed: the code never tells them apart.
Statuses == {"inactive", "scheduled", "active"}
NoRow    == [status |-> "absent", step |-> 1]
\* kind says who started it; todo is left to upsert, walk to carry forward;
\* at is the profile in hand, step what was read of it, next where it goes;
\* depth counts the try blocks around the current call of executeNextStep (up
\* to MaxCampaignFaults: no more of them can catch anything).
Idle == [kind |-> "none", pc |-> "idle", plan |-> CHOOSE d \in PlanId : TRUE,
         todo |-> {}, walk |-> {}, at |-> NONE, step |-> 1, next |-> 1, depth |-> 0]

CampaignInit ==
  /\ campaignStatus \in {"inactive", "scheduled"} /\ plan \in PlanId
  /\ exec = [x \in Enrolled |-> NoRow]
  /\ delayed = [j \in Enrolled \X PlanId |-> 0]
  /\ proc = [p \in Proc |-> Idle]
  /\ failures = 0
  /\ starts = [x \in Enrolled |-> 0] /\ trail = [x \in Enrolled |-> <<>>]
  /\ onPlan = [x \in Enrolled |-> plan] /\ mixed = [x \in Enrolled |-> FALSE] /\ lost = {}

-----------------------------------------------------------------------------
(* Helpers.                                                                *)

Running(kind) == \E p \in Proc : proc[p].kind = kind

\* The profiles an invocation has still to carry, the one in hand included.
Carries(r) == r.walk \union ({r.at} \ {NONE})
Carried(x) == \/ \E p \in Proc : x \in Carries(proc[p])
              \/ \E d \in PlanId : delayed[x, d] > 0

\* What an invocation does once it is through with the profile in hand.
\* Slip: it returns instead of going on with the next profile.
ThroughAlone(r) ==
  IF r.kind = "http" THEN [r EXCEPT !.at = NONE, !.depth = 0, !.pc = "activate"]
  ELSE Idle
Through(r) ==
  IF r.walk # {} THEN [r EXCEPT !.at = NONE, !.depth = 0, !.pc = "fetch"]
  ELSE IF r.kind = "http" THEN [r EXCEPT !.at = NONE, !.depth = 0, !.pc = "activate"]
  ELSE Idle

\* startWorkflow upserts every profile before it carries the first one.
\* Slip: it leaves the first step to somebody else.
StartedUncarried(kind, d, S) ==
  [Idle EXCEPT !.kind = kind, !.plan = d, !.todo = S,
               !.pc = IF S = {} THEN "fetch" ELSE "upsert"]
Started(kind, d, S) ==
  LET r == [Idle EXCEPT !.kind = kind, !.plan = d, !.todo = S, !.walk = S]
  IN  IF S = {} THEN Through(r) ELSE [r EXCEPT !.pc = "upsert"]

Begin(p, r) == proc[p].pc = "idle" /\ proc' = [proc EXCEPT ![p] = r]

-----------------------------------------------------------------------------
(* Campaign operations.  None of them looks at the status it replaces.     *)

\* update takes any status and other steps; a future scheduledAt reschedules.
Update(d, s) ==
  /\ plan' = d /\ campaignStatus' = s
  /\ UNCHANGED <<exec, delayed, proc, failures, history>>

PauseCampaign ==
  /\ campaignStatus' = "inactive"
  /\ UNCHANGED <<plan, exec, delayed, proc, failures, history>>

ScheduleCampaign ==
  /\ campaignStatus' = "scheduled"
  /\ UNCHANGED <<plan, exec, delayed, proc, failures, history>>

\* The HTTP start runs the whole workflow, then activates the campaign.
StartCampaign(p, S) ==
  /\ Begin(p, Started("http", plan, S))
  /\ UNCHANGED <<campaignStatus, plan, exec, delayed, failures, history>>

\* The scheduler finds a due campaign, and activates it first.
SchedulerFind(p) ==
  /\ campaignStatus = "scheduled" /\ ~Running("scheduler")
  /\ Begin(p, [Idle EXCEPT !.kind = "scheduler", !.plan = plan, !.pc = "activate"])
  /\ UNCHANGED <<campaignStatus, plan, exec, delayed, failures, history>>

Activate(p, S) ==
  /\ proc[p].pc = "activate"
  /\ campaignStatus' = "active"
  /\ proc' = [proc EXCEPT ![p] = IF @.kind = "scheduler"
                                 THEN Started("scheduler", @.plan, S) ELSE Idle]
  /\ UNCHANGED <<plan, exec, delayed, failures, history>>

\* An indexer, segment, quest or whale event starts its profile.
EventTrigger(p, x) ==
  /\ campaignStatus = "active"
  /\ Begin(p, Started("event", plan, {x}))
  /\ UNCHANGED <<campaignStatus, plan, exec, delayed, failures, history>>

RecurringTrigger(p, S) ==
  /\ campaignStatus = "active" /\ S # {} /\ ~Running("recurring")
  /\ Begin(p, Started("recurring", plan, S))
  /\ UNCHANGED <<campaignStatus, plan, exec, delayed, failures, history>>

\* The time-elapsed trigger takes only profiles without an execution.
TimeElapsedTrigger(p, S) ==
  /\ campaignStatus = "active" /\ S # {} /\ ~Running("elapsed")
  /\ \A x \in S : exec[x] = NoRow
  /\ Begin(p, Started("elapsed", plan, S))
  /\ UNCHANGED <<campaignStatus, plan, exec, delayed, failures, history>>

-----------------------------------------------------------------------------
(* The workflow engine.                                                    *)

UpsertExecution(p, x) ==
  /\ proc[p].pc = "upsert" /\ x \in proc[p].todo
  /\ exec' = [exec EXCEPT ![x] = [status |-> "pending", step |-> 1]]
  /\ proc' = [proc EXCEPT ![p] =
                 LET left == proc[p].todo \ {x}
                 IN  [@ EXCEPT !.todo = left, !.pc = IF left = {} THEN "fetch" ELSE "upsert"]]
  /\ starts' = [starts EXCEPT ![x] = @ + 1]
  /\ trail'  = [trail EXCEPT ![x] = <<>>]
  /\ onPlan' = [onPlan EXCEPT ![x] = proc[p].plan]
  /\ mixed'  = [mixed EXCEPT ![x] =
                 \/ \E q \in Proc \ {p} : x \in Carries(proc[q])
                 \/ \E d \in PlanId : delayed[x, d] > 0]
  /\ lost' = lost \ {x}
  /\ UNCHANGED <<campaignStatus, plan, delayed, failures>>

PastEnd(r, step) == step > Len(Plan[r.plan])

\* executeNextStep reads the row and looks at the step only, not the status.
Fetch(p, x) ==
  LET r == proc[p]
  IN  /\ r.pc = "fetch" /\ x \in (IF r.at = NONE THEN r.walk ELSE {r.at})
      /\ proc' = [proc EXCEPT ![p] =
           LET s == [r EXCEPT !.at = x, !.walk = @ \ {x}, !.step = exec[x].step]
           IN  IF PastEnd(r, exec[x].step) THEN [s EXCEPT !.pc = "complete"]
               ELSE IF Plan[r.plan][exec[x].step].kind = "unknown"
               THEN [s EXCEPT !.pc = "fail"]
               ELSE [s EXCEPT !.pc = "act"]]
      /\ UNCHANGED <<campaignStatus, plan, exec, delayed, failures, history>>

Complete(p) ==
  /\ proc[p].pc = "complete"
  /\ exec' = [exec EXCEPT ![proc[p].at].status = "completed"]
  /\ proc' = [proc EXCEPT ![p] = Through(@)]
  /\ UNCHANGED <<campaignStatus, plan, delayed, failures, history>>

Fail(p) ==
  /\ proc[p].pc = "fail"
  /\ exec' = [exec EXCEPT ![proc[p].at].status = "failed"]
  /\ proc' = [proc EXCEPT ![p] = Through(@)]
  /\ UNCHANGED <<campaignStatus, plan, delayed, failures, history>>

\* The action takes effect and the way on is chosen: the branch of a
\* condition, an explicit nextStep, or the following step.
Act(p, next) ==
  LET r == proc[p]
  IN  /\ r.pc = "act" /\ next \in Plan[r.plan][r.step].targets
      /\ proc' = [proc EXCEPT ![p] = [r EXCEPT !.next = next, !.pc = "advance"]]
      /\ trail' = [trail EXCEPT ![r.at] = Append(@, r.step)]
      /\ UNCHANGED <<campaignStatus, plan, exec, delayed, failures, starts, onPlan, mixed, lost>>

ActFails(p) ==
  /\ proc[p].pc = "act"
  /\ proc' = [proc EXCEPT ![p].pc = "fail"]
  /\ UNCHANGED <<campaignStatus, plan, exec, delayed, failures, history>>

Advance(p) ==
  LET r == proc[p]
  IN  /\ r.pc = "advance"
      /\ exec' = [exec EXCEPT ![r.at].step = r.next]
      /\ proc' = [proc EXCEPT ![p] =
           IF Plan[r.plan][r.step].delay THEN [r EXCEPT !.pc = "enqueue"]
           ELSE [r EXCEPT !.pc = "fetch",
                        !.depth = IF @ < MaxCampaignFaults THEN @ + 1 ELSE @]]
      /\ UNCHANGED <<campaignStatus, plan, delayed, failures, history>>

\* The delayed job keeps the plan this invocation was started with.
\* Slips: the job is lost; the job takes the campaign's present plan.
NoJob(r) == delayed
JobOnPresentPlan(r) == [delayed EXCEPT ![<<r.at, plan>>] = @ + 1]
Job(r) == [delayed EXCEPT ![<<r.at, r.plan>>] = @ + 1]

Enqueue(p) ==
  /\ proc[p].pc = "enqueue"
  /\ delayed' = Job(proc[p])
  /\ proc' = [proc EXCEPT ![p] = Through(@)]
  /\ UNCHANGED <<campaignStatus, plan, exec, failures, history>>

\* The workflow-delay worker takes one job at a time.
Resume(p, x, d) ==
  /\ delayed[x, d] > 0 /\ ~Running("resume")
  /\ delayed' = [delayed EXCEPT ![<<x, d>>] = @ - 1]
  /\ Begin(p, [Idle EXCEPT !.kind = "resume", !.plan = d, !.at = x, !.pc = "fetch"])
  /\ UNCHANGED <<campaignStatus, plan, exec, failures, history>>

-----------------------------------------------------------------------------
(* Failures.                                                               *)

\* A failed call ends up in the innermost catch around it, which fails the
\* execution whatever its action has done: the recursive call for the next
\* step is still inside the try block of the last.  With no catch around, the
\* invocation ends and drops the profiles it has left.
CallFails(p) ==
  LET r == proc[p]
  IN  /\ r.pc \notin {"idle", "act"}
      /\ failures < MaxCampaignFaults /\ failures' = failures + 1
      /\ proc' = [proc EXCEPT ![p] =
           IF r.pc \in {"advance", "enqueue"} THEN [r EXCEPT !.pc = "fail"]
           ELSE IF r.depth > 0 THEN [r EXCEPT !.pc = "fail", !.depth = @ - 1]
           ELSE Idle]
      /\ lost' = lost \union (Carries(r) \ Carries(proc'[p]))
      /\ UNCHANGED <<campaignStatus, plan, exec, delayed, starts, trail, onPlan, mixed>>

\* The server dies; BullMQ hands the job that was active out again.  (A trigger
\* or scheduler job handed out again is a new Start.)
Crash ==
  LET Active(j) == {p \in Proc : /\ proc[p].kind = "resume"
                                 /\ <<proc[p].at, proc[p].plan>> = j}
  IN  /\ failures < MaxCampaignFaults /\ failures' = failures + 1
      /\ delayed' = [j \in DOMAIN delayed |-> delayed[j] + Cardinality(Active(j))]
      /\ proc' = [p \in Proc |-> Idle]
      /\ mixed' = [x \in Enrolled |->
                    mixed[x] \/ \E p \in Proc : x \in Carries(proc[p])]
      /\ lost' = lost \union
                   UNION {Carries(proc[p]) : p \in {q \in Proc : proc[q].kind # "resume"}}
      /\ UNCHANGED <<campaignStatus, plan, exec, starts, trail, onPlan>>

MayStart(S) == \A x \in S : starts[x] + Cardinality({p \in Proc : x \in proc[p].todo})
                              < MaxStarts

Operation ==
  \/ \E d \in PlanId, s \in Statuses : Update(d, s)
  \/ PauseCampaign
  \/ ScheduleCampaign

Start(p) ==
  \/ \E S \in SUBSET Enrolled : MayStart(S) /\ StartCampaign(p, S)
  \/ SchedulerFind(p)
  \/ \E x \in Enrolled : MayStart({x}) /\ EventTrigger(p, x)
  \/ \E S \in SUBSET Enrolled : MayStart(S) /\ RecurringTrigger(p, S)
  \/ \E S \in SUBSET Enrolled : MayStart(S) /\ TimeElapsedTrigger(p, S)

Work(p) ==
  \/ \E S \in SUBSET Enrolled : MayStart(S) /\ Activate(p, S)
  \/ \E x \in Enrolled : UpsertExecution(p, x)
  \/ \E x \in Enrolled : Fetch(p, x)
  \/ Complete(p)
  \/ Fail(p)
  \/ \E next \in 1 .. Len(Plan[proc[p].plan]) + 1 : Act(p, next)
  \/ ActFails(p)
  \/ Advance(p)
  \/ Enqueue(p)

ResumeSome == \E p \in Proc, x \in Enrolled, d \in PlanId : Resume(p, x, d)

CampaignNext ==
  \/ Operation
  \/ \E p \in Proc : Start(p) \/ Work(p) \/ CallFails(p)
  \/ ResumeSome
  \/ Crash

CampaignSpec == CampaignInit /\ [][CampaignNext]_campaignVars

\* The event loop runs every awaited continuation, and BullMQ delivers every
\* job once its delay is over and a worker is free.
CampaignFairness == (\A p \in Proc : WF_campaignVars(Work(p))) /\ SF_campaignVars(ResumeSome)
CampaignFairSpec == CampaignSpec /\ CampaignFairness

-----------------------------------------------------------------------------
(* Properties.                                                             *)

Kinds == {"none", "http", "scheduler", "event", "recurring",
          "elapsed", "resume"}
CampaignTypeOK ==
  /\ campaignStatus \in Statuses /\ plan \in PlanId /\ failures \in 0 .. MaxCampaignFaults
  /\ exec \in [Enrolled -> [status : {"absent", "pending", "completed", "failed"},
                           step : Nat]]
  /\ delayed \in [Enrolled \X PlanId -> Nat]
  /\ \A p \in Proc : /\ proc[p].kind \in Kinds /\ proc[p].plan \in PlanId
                     /\ proc[p].todo \subseteq proc[p].walk
                     /\ proc[p].walk \subseteq Enrolled
                     /\ proc[p].at \in Enrolled \union {NONE}
                     /\ proc[p].at \notin proc[p].walk /\ proc[p].depth \in Nat

\* However starts, triggers and delayed jobs of a profile overlap, a pending
\* execution has an invocation or a delayed job that will look at it again,
\* unless a failure since its start took it from an invocation that no catch
\* and no queue stands behind.  What is in the delay queue, or was handed out
\* of it, no crash strands.
PendingIsCarried ==
  \A x \in Enrolled : exec[x].status = "pending" => Carried(x) \/ x \in lost

\* A path of steps through plan d, each step leading to the following one.
IsPath(d, path) ==
  /\ path # <<>> => path[1] = 1
  /\ \A i \in DOMAIN path : path[i] \in DOMAIN Plan[d]
  /\ \A i \in 1 .. Len(path) - 1 : path[i + 1] \in Plan[d][path[i]].targets

\* The row points at the first step, or behind the last action.
OnCourse(x) ==
  IF trail[x] = <<>> THEN exec[x].step = 1
  ELSE exec[x].step \in Plan[onPlan[x]][Last(trail[x])].targets

\* Unless it was started again while still being carried, or lost in a crash,
\* a profile's actions follow the plan it was started with, each once and in
\* order, over every delay, edit of the campaign and other start, and the row
\* points behind the last one.
ActionsFollowPlan ==
  \A x \in Enrolled : ~mixed[x] =>
    /\ IsPath(onPlan[x], trail[x])
    /\ exec[x].status = "completed" =>
         exec[x].step > Len(Plan[onPlan[x]]) /\ OnCourse(x)

\* Without failures every execution comes to an end, delays included.
EverySettles ==
  \A x \in Enrolled : exec[x].status = "pending" ~> exec[x].status # "pending"
=============================================================================
