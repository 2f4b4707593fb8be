---------------------------- MODULE CampaignProofs ----------------------------
(***************************************************************************)
(* What the workflow engine keeps to, for any number of profiles, of       *)
(* invocations at the same time, of plans and of failures.                 *)
(***************************************************************************)
EXTENDS CampaignWorkflow, FiniteSetTheorems, SequenceTheorems, TLAPS

-----------------------------------------------------------------------------
(* Types.                                                                  *)

Pcs == {"idle", "upsert", "fetch", "act", "advance", "enqueue",
        "complete", "fail", "activate"}
Place == Nat \ {0}
Invocation == [kind : Kinds, pc : Pcs, plan : PlanId,
               todo : SUBSET Enrolled, walk : SUBSET Enrolled,
               at : Enrolled \union {NONE}, step : Place, next : Place, depth : Nat]
Execution == [status : {"absent", "pending", "completed", "failed"}, step : Place]

CampaignTypes ==
  /\ plan \in PlanId /\ failures \in Nat
  /\ exec \in [Enrolled -> Execution]
  /\ delayed \in [Enrolled \X PlanId -> Nat]
  /\ proc \in [Proc -> Invocation]
  /\ trail \in [Enrolled -> Seq(Nat)]
  /\ onPlan \in [Enrolled -> PlanId] /\ mixed \in [Enrolled -> BOOLEAN]

\* An invocation has a profile in hand only while it works for it, and then no
\* longer on its list; it has upserted them all before it carries the first.
\* One that a delayed job has started carries the profile of the job alone.
Orderly(r) ==
  /\ r.todo \subseteq r.walk /\ r.at \notin r.walk
  /\ r.pc # "upsert" => r.todo = {}
  /\ r.at = NONE => r.depth = 0
  /\ r.pc \in {"idle", "activate"} => r.walk = {} /\ r.at = NONE
  /\ r.pc = "upsert" => r.at = NONE
  /\ r.kind = "resume" => r.walk = {}
  /\ r.pc \in {"act", "advance", "enqueue", "complete", "fail"} => r.at # NONE

AllOrderly == \A p \in Proc : Orderly(proc[p])

-----------------------------------------------------------------------------
(* What an invocation turns into.                                          *)

LEMMA IdleIs ==
  ASSUME PlanId # {}
  PROVE  /\ Idle \in Invocation /\ Orderly(Idle)
         /\ Idle.walk = {} /\ Idle.todo = {} /\ Idle.at = NONE /\ Idle.pc = "idle"
         /\ Idle.kind = "none" /\ Idle.depth = 0 /\ Idle.step = 1 /\ Idle.next = 1
<1>1. (CHOOSE d \in PlanId : TRUE) \in PlanId
  OBVIOUS
<1> DEFINE c == CHOOSE d \in PlanId : TRUE
<1>2. c \in PlanId
  BY <1>1
<1>3. Idle = [kind |-> "none", pc |-> "idle", plan |-> c,
              todo |-> {}, walk |-> {}, at |-> NONE, step |-> 1, next |-> 1, depth |-> 0]
  BY DEF Idle
<1> HIDE DEF c
<1>4. Idle \in Invocation
  BY <1>2, <1>3 DEF Invocation, Kinds, Pcs, Place
<1>5. /\ Idle.walk = {} /\ Idle.todo = {} /\ Idle.at = NONE /\ Idle.pc = "idle"
      /\ Idle.kind = "none" /\ Idle.depth = 0 /\ Idle.step = 1 /\ Idle.next = 1
  BY <1>3
<1>6. Orderly(Idle)
  BY <1>5 DEF Orderly
<1> QED
  BY <1>4, <1>5, <1>6

\* An invocation that goes on somewhere else.
LEMMA AtIs ==
  ASSUME NEW r \in Invocation, NEW c \in Pcs
  PROVE  LET n == [r EXCEPT !.pc = c]
         IN  /\ n \in Invocation /\ n.pc = c
             /\ n.kind = r.kind /\ n.plan = r.plan /\ n.todo = r.todo /\ n.walk = r.walk
             /\ n.at = r.at /\ n.step = r.step /\ n.next = r.next /\ n.depth = r.depth
BY DEF Invocation

LEMMA ReleasedIs ==
  ASSUME NEW r \in Invocation, r.todo = {}, r.kind = "resume" => r.walk = {}
  PROVE  LET n == Through(r)
         IN  /\ n \in Invocation /\ Orderly(n)
             /\ n.walk = r.walk /\ n.todo = {} /\ n.at = NONE
             /\ n.walk # {} => n.plan = r.plan
<1> DEFINE f == [r EXCEPT !.at = NONE, !.depth = 0, !.pc = "fetch"]
           a == [r EXCEPT !.at = NONE, !.depth = 0, !.pc = "activate"]
<1>1. /\ f \in Invocation /\ f.walk = r.walk /\ f.todo = {} /\ f.at = NONE
      /\ f.depth = 0 /\ f.pc = "fetch" /\ f.plan = r.plan /\ f.kind = r.kind
  BY DEF Invocation, Pcs
<1>2. /\ a \in Invocation /\ a.walk = r.walk /\ a.todo = {} /\ a.at = NONE
      /\ a.depth = 0 /\ a.pc = "activate"
  BY DEF Invocation, Pcs
<1>3. PlanId # {} /\ NONE \notin Enrolled /\ r.walk \subseteq Enrolled
  BY WorkflowAssumption DEF Invocation
<1>4. Through(r) = IF r.walk # {} THEN f ELSE IF r.kind = "http" THEN a ELSE Idle
  BY DEF Through
<1> HIDE DEF f, a
<1>5. CASE r.walk # {}
  <2>1. Through(r) = f
    BY <1>4, <1>5
  <2>2. Orderly(f)
    BY <1>1, <1>3 DEF Orderly
  <2> QED
    BY <1>1, <2>1, <2>2
<1>6. CASE r.walk = {} /\ r.kind = "http"
  <2>1. Through(r) = a
    BY <1>4, <1>6
  <2>2. Orderly(a)
    BY <1>2, <1>6 DEF Orderly
  <2> QED
    BY <1>2, <1>6, <2>1, <2>2
<1>7. CASE r.walk = {} /\ r.kind # "http"
  <2>1. Through(r) = Idle
    BY <1>4, <1>7
  <2> QED
    BY <1>3, <1>7, <2>1, IdleIs
<1> QED
  BY <1>5, <1>6, <1>7

LEMMA StartedIs ==
  ASSUME NEW kind \in Kinds \ {"resume"}, NEW d \in PlanId, NEW S \in SUBSET Enrolled
  PROVE  LET n == Started(kind, d, S)
         IN  /\ n \in Invocation /\ Orderly(n)
             /\ n.walk = S /\ n.todo = S /\ n.at = NONE
<1> DEFINE r == [Idle EXCEPT !.kind = kind, !.plan = d, !.todo = S, !.walk = S]
           u == [r EXCEPT !.pc = "upsert"]
<1>1. Idle \in Invocation /\ Idle.at = NONE /\ Idle.depth = 0
  BY IdleIs
<1>2. r \in Invocation /\ r.walk = S /\ r.todo = S /\ r.at = NONE /\ r.depth = 0
      /\ r.kind # "resume"
  BY <1>1 DEF Invocation
<1>3. Started(kind, d, S) = IF S = {} THEN Through(r) ELSE u
  BY DEF Started
<1> HIDE DEF r
<1>4. /\ u \in Invocation /\ u.walk = S /\ u.todo = S /\ u.at = NONE /\ u.depth = 0
      /\ u.pc = "upsert" /\ u.kind # "resume"
  BY <1>2 DEF Invocation, Pcs
<1> HIDE DEF u
<1>5. CASE S = {}
  <2>1. Started(kind, d, S) = Through(r)
    BY <1>3, <1>5
  <2>2. /\ Through(r) \in Invocation /\ Orderly(Through(r))
        /\ Through(r).walk = r.walk /\ Through(r).todo = {} /\ Through(r).at = NONE
    BY <1>2, <1>5, ReleasedIs
  <2> QED
    BY <1>2, <1>5, <2>1, <2>2
<1>6. CASE S # {}
  <2>1. Started(kind, d, S) = u
    BY <1>3, <1>6
  <2>2. Orderly(u)
    BY <1>4, WorkflowAssumption DEF Orderly
  <2> QED
    BY <1>4, <2>1, <2>2
<1> QED
  BY <1>5, <1>6

\* One invocation goes on, the others stay.
LEMMA OneTurn ==
  ASSUME CampaignTypes, NEW p \in Proc, NEW n \in Invocation, proc' = [proc EXCEPT ![p] = n]
  PROVE  /\ proc' \in [Proc -> Invocation] /\ proc'[p] = n
         /\ \A q \in Proc \ {p} : proc'[q] = proc[q]
BY DEF CampaignTypes

-----------------------------------------------------------------------------
(* How each step of an invocation changes it.                              *)

Turns(p) ==
  /\ proc' \in [Proc -> Invocation] /\ Orderly(proc'[p])
  /\ \A q \in Proc \ {p} : proc'[q] = proc[q]

\* It carries the same profiles with the same plan, at the same place.
Stays(p) ==
  /\ proc'[p].plan = proc[p].plan /\ proc'[p].todo = proc[p].todo
  /\ proc'[p].walk = proc[p].walk /\ proc'[p].at = proc[p].at
  /\ proc'[p].step = proc[p].step

LEMMA TurnsKeepOrder ==
  ASSUME AllOrderly, NEW p \in Proc, Turns(p)
  PROVE  AllOrderly'
BY DEF AllOrderly, Turns, Orderly

LEMMA BeginTurn ==
  ASSUME CampaignTypes, AllOrderly, NEW p \in Proc, NEW r \in Invocation, Orderly(r), Begin(p, r)
  PROVE  /\ Turns(p) /\ proc'[p] = r
         /\ proc[p].walk = {} /\ proc[p].todo = {} /\ proc[p].at = NONE
<1>1. proc' \in [Proc -> Invocation] /\ proc'[p] = r /\ \A q \in Proc \ {p} : proc'[q] = proc[q]
  BY OneTurn DEF Begin
<1>2. proc[p].walk = {} /\ proc[p].todo = {} /\ proc[p].at = NONE
  BY DEF AllOrderly, Orderly, Begin
<1> QED
  BY <1>1, <1>2 DEF Turns

LEMMA UpsertTurn ==
  ASSUME CampaignTypes, AllOrderly, NEW p \in Proc, NEW x \in Enrolled,
         UpsertExecution(p, x)
  PROVE  /\ Turns(p)
         /\ x \in proc[p].todo /\ x \in proc[p].walk /\ proc[p].at = NONE
         /\ proc'[p].todo = proc[p].todo \ {x} /\ proc'[p].walk = proc[p].walk
         /\ proc'[p].at = NONE /\ proc'[p].plan = proc[p].plan
<1> DEFINE r == proc[p]
           t == r.todo \ {x}
           c == IF t = {} THEN "fetch" ELSE "upsert"
           n == [r EXCEPT !.todo = t, !.pc = c]
<1>1. r \in Invocation /\ Orderly(r) /\ r.pc = "upsert" /\ x \in r.todo
  BY DEF CampaignTypes, AllOrderly, UpsertExecution
<1>2. c \in Pcs /\ t \in SUBSET Enrolled
  BY <1>1 DEF Pcs, Invocation
<1>3. proc' = [proc EXCEPT ![p] = n]
  BY DEF UpsertExecution
<1>4. /\ t = r.todo \ {x} /\ x \in r.walk /\ r.at = NONE /\ r.depth = 0
      /\ t \subseteq r.walk
  BY <1>1 DEF Orderly
<1> HIDE DEF t, r
<1>10. \/ c = "upsert"
       \/ c = "fetch" /\ t = {}
  OBVIOUS
<1> HIDE DEF c
<1>5. /\ n \in Invocation /\ n.todo = t /\ n.pc = c /\ n.walk = r.walk /\ n.at = r.at
      /\ n.plan = r.plan /\ n.depth = r.depth /\ n.kind = r.kind
  BY <1>1, <1>2 DEF Invocation
<1> HIDE DEF n
<1>6. proc' \in [Proc -> Invocation] /\ proc'[p] = n /\ \A q \in Proc \ {p} : proc'[q] = proc[q]
  BY <1>3, <1>5, OneTurn
<1>7. NONE \notin r.walk
  BY <1>1, WorkflowAssumption DEF Invocation
<1>11. n.kind = "resume" => n.walk = {}
  BY <1>1, <1>5 DEF Orderly
<1>8. Orderly(n)
  BY <1>4, <1>5, <1>7, <1>10, <1>11 DEF Orderly
<1>9. Turns(p)
  BY <1>6, <1>8 DEF Turns
<1> QED
  BY <1>1, <1>4, <1>5, <1>6, <1>9 DEF r

LEMMA FetchTurn ==
  ASSUME CampaignTypes, AllOrderly, NEW p \in Proc, NEW x \in Enrolled,
         Fetch(p, x)
  PROVE  /\ Turns(p)
         /\ (x \in proc[p].walk /\ proc[p].at = NONE) \/ proc[p].at = x
         /\ proc[p].todo = {} /\ proc[p].pc = "fetch"
         /\ proc'[p].todo = {} /\ proc'[p].walk = proc[p].walk \ {x}
         /\ proc'[p].at = x /\ proc'[p].plan = proc[p].plan
         /\ proc'[p].step = exec[x].step
         /\ \/ proc'[p].pc = "complete" /\ exec[x].step > Len(Plan[proc[p].plan])
            \/ proc'[p].pc = "fail"
            \/ proc'[p].pc = "act" /\ exec[x].step <= Len(Plan[proc[p].plan])
<1> DEFINE r == proc[p]
           k == exec[x].step
           w == r.walk \ {x}
           s == [r EXCEPT !.at = x, !.walk = w, !.step = k]
           c == IF k > Len(Plan[r.plan]) THEN "complete"
                ELSE IF Plan[r.plan][k].kind = "unknown" THEN "fail" ELSE "act"
           n == [s EXCEPT !.pc = c]
<1>1. r \in Invocation /\ Orderly(r) /\ r.pc = "fetch" /\ x \in (IF r.at = NONE THEN r.walk ELSE {r.at})
  BY DEF CampaignTypes, AllOrderly, Fetch
<1>2. k \in Place /\ w \in SUBSET Enrolled /\ c \in Pcs /\ Len(Plan[r.plan]) \in Nat
  BY <1>1, WorkflowAssumption DEF CampaignTypes, Execution, Invocation, Pcs
<1>3. proc' = [proc EXCEPT ![p] = n]
  BY DEF Fetch, PastEnd
<1>4. /\ \/ c = "complete" /\ k > Len(Plan[r.plan])
         \/ c = "fail"
         \/ c = "act" /\ k <= Len(Plan[r.plan])
      /\ c \in {"complete", "fail", "act"}
  BY <1>2 DEF Place
<1>5. w = r.walk \ {x} /\ x # NONE /\ k = exec[x].step
  BY WorkflowAssumption
<1> HIDE DEF c, w, r, k
<1>6. /\ s \in Invocation /\ s.at = x /\ s.walk = w /\ s.step = k /\ s.todo = r.todo
      /\ s.plan = r.plan /\ s.depth = r.depth /\ s.kind = r.kind
  BY <1>1, <1>2 DEF Invocation
<1> HIDE DEF s
<1>7. /\ n \in Invocation /\ n.pc = c /\ n.at = x /\ n.walk = w /\ n.step = k /\ n.todo = r.todo
      /\ n.plan = r.plan /\ n.kind = r.kind
  BY <1>2, <1>6, AtIs
<1> HIDE DEF n
<1>8. proc' \in [Proc -> Invocation] /\ proc'[p] = n /\ \A q \in Proc \ {p} : proc'[q] = proc[q]
  BY <1>3, <1>7, OneTurn
<1>9. r.todo = {}
  BY <1>1 DEF Orderly
<1>16. n.kind = "resume" => n.walk = {}
  BY <1>1, <1>5, <1>7 DEF Orderly
<1>10. Orderly(n)
  BY <1>4, <1>5, <1>7, <1>9, <1>16 DEF Orderly
<1>11. Turns(p)
  BY <1>8, <1>10 DEF Turns
<1>12. (x \in r.walk /\ r.at = NONE) \/ r.at = x
  BY <1>1
<1>13. \/ n.pc = "complete" /\ exec[x].step > Len(Plan[r.plan])
       \/ n.pc = "fail"
       \/ n.pc = "act" /\ exec[x].step <= Len(Plan[r.plan])
  BY <1>4, <1>5, <1>7
<1>14. /\ r.todo = {} /\ r.pc = "fetch" /\ n.todo = {} /\ n.walk = r.walk \ {x}
       /\ n.at = x /\ n.plan = r.plan /\ n.step = exec[x].step
  BY <1>1, <1>5, <1>7, <1>9
<1>15. proc'[p] = n
  BY <1>8
<1> HIDE DEF Turns
<1> QED
  BY <1>11, <1>12, <1>13, <1>14, <1>15 DEF r

LEMMA ReleaseTurn ==
  ASSUME CampaignTypes, AllOrderly, NEW p \in Proc,
         proc[p].pc \in {"complete", "fail", "enqueue"},
         proc' = [proc EXCEPT ![p] = Through(@)]
  PROVE  /\ Turns(p)
         /\ proc[p].at \in Enrolled /\ proc[p].todo = {}
         /\ proc'[p].walk = proc[p].walk /\ proc'[p].todo = {} /\ proc'[p].at = NONE
         /\ proc'[p].walk # {} => proc'[p].plan = proc[p].plan
<1> DEFINE n == Through(proc[p])
<1>1. /\ proc[p] \in Invocation /\ proc[p].todo = {} /\ proc[p].at \in Enrolled
      /\ proc[p].kind = "resume" => proc[p].walk = {}
  BY DEF CampaignTypes, AllOrderly, Orderly, Invocation
<1>2. /\ n \in Invocation /\ Orderly(n) /\ n.walk = proc[p].walk /\ n.todo = {} /\ n.at = NONE
      /\ n.walk # {} => n.plan = proc[p].plan
  BY <1>1, ReleasedIs
<1> HIDE DEF n
<1>3. proc' \in [Proc -> Invocation] /\ proc'[p] = n /\ \A q \in Proc \ {p} : proc'[q] = proc[q]
  BY <1>2, OneTurn DEF n
<1> QED
  BY <1>1, <1>2, <1>3 DEF Turns

LEMMA ActTurn ==
  ASSUME CampaignTypes, AllOrderly, NEW p \in Proc, NEW next \in Place, Act(p, next)
  PROVE  /\ Turns(p) /\ Stays(p)
         /\ proc[p].at \in Enrolled /\ proc'[p].pc = "advance" /\ proc'[p].next = next
<1> DEFINE r == proc[p]
           n == [r EXCEPT !.next = next, !.pc = "advance"]
<1>1. r \in Invocation /\ Orderly(r) /\ r.pc = "act" /\ r.at \in Enrolled
  BY DEF CampaignTypes, AllOrderly, Orderly, Act, Invocation
<1>2. /\ n \in Invocation /\ n.pc = "advance" /\ n.next = next /\ n.todo = r.todo
      /\ n.walk = r.walk /\ n.at = r.at /\ n.plan = r.plan /\ n.step = r.step /\ n.kind = r.kind
  BY <1>1 DEF Invocation, Pcs
<1>3. proc' = [proc EXCEPT ![p] = n]
  BY DEF Act
<1> HIDE DEF n
<1>4. proc' \in [Proc -> Invocation] /\ proc'[p] = n /\ \A q \in Proc \ {p} : proc'[q] = proc[q]
  BY <1>2, <1>3, OneTurn
<1>5. Orderly(n)
  BY <1>1, <1>2 DEF Orderly
<1> QED
  BY <1>1, <1>2, <1>4, <1>5 DEF Turns, Stays

LEMMA ActFailsTurn ==
  ASSUME CampaignTypes, AllOrderly, NEW p \in Proc, ActFails(p)
  PROVE  /\ Turns(p) /\ Stays(p)
         /\ proc[p].at # NONE /\ proc'[p].pc = "fail"
<1> DEFINE r == proc[p]
           n == [r EXCEPT !.pc = "fail"]
<1>1. r \in Invocation /\ Orderly(r) /\ r.pc = "act" /\ r.at # NONE
  BY DEF CampaignTypes, AllOrderly, Orderly, ActFails
<1>2. /\ n \in Invocation /\ n.pc = "fail" /\ n.todo = r.todo
      /\ n.walk = r.walk /\ n.at = r.at /\ n.plan = r.plan /\ n.step = r.step /\ n.kind = r.kind
  BY <1>1 DEF Invocation, Pcs
<1>3. proc' = [proc EXCEPT ![p] = n]
  BY DEF ActFails
<1> HIDE DEF n
<1>4. proc' \in [Proc -> Invocation] /\ proc'[p] = n /\ \A q \in Proc \ {p} : proc'[q] = proc[q]
  BY <1>2, <1>3, OneTurn
<1>5. Orderly(n)
  BY <1>1, <1>2 DEF Orderly
<1> QED
  BY <1>1, <1>2, <1>4, <1>5 DEF Turns, Stays

LEMMA AdvanceTurn ==
  ASSUME CampaignTypes, AllOrderly, NEW p \in Proc, Advance(p)
  PROVE  /\ Turns(p) /\ Stays(p)
         /\ proc[p].at \in Enrolled /\ proc'[p].pc \in {"enqueue", "fetch"}
<1> DEFINE r == proc[p]
           k == IF r.depth < MaxCampaignFaults THEN r.depth + 1 ELSE r.depth
           e == [r EXCEPT !.pc = "enqueue"]
           f == [r EXCEPT !.pc = "fetch", !.depth = k]
           n == IF Plan[r.plan][r.step].delay THEN e ELSE f
<1>1. r \in Invocation /\ Orderly(r) /\ r.pc = "advance" /\ r.at \in Enrolled
  BY DEF CampaignTypes, AllOrderly, Orderly, Advance, Invocation
<1>2. k \in Nat
  BY <1>1, WorkflowAssumption DEF Invocation
<1>3. proc' = [proc EXCEPT ![p] = n]
  BY DEF Advance
<1> HIDE DEF k
<1>4. /\ e \in Invocation /\ e.pc = "enqueue" /\ e.todo = r.todo
      /\ e.walk = r.walk /\ e.at = r.at /\ e.plan = r.plan /\ e.step = r.step /\ e.kind = r.kind
  BY <1>1 DEF Invocation, Pcs
<1>5. /\ f \in Invocation /\ f.pc = "fetch" /\ f.todo = r.todo
      /\ f.walk = r.walk /\ f.at = r.at /\ f.plan = r.plan /\ f.step = r.step /\ f.kind = r.kind
  BY <1>1, <1>2 DEF Invocation, Pcs
<1>6. n = e \/ n = f
  OBVIOUS
<1> HIDE DEF n, e, f
<1>7. /\ n \in Invocation /\ n.pc \in {"enqueue", "fetch"} /\ n.todo = r.todo
      /\ n.walk = r.walk /\ n.at = r.at /\ n.plan = r.plan /\ n.step = r.step /\ n.kind = r.kind
  BY <1>4, <1>5, <1>6
<1>8. proc' \in [Proc -> Invocation] /\ proc'[p] = n /\ \A q \in Proc \ {p} : proc'[q] = proc[q]
  BY <1>3, <1>7, OneTurn
<1>9. Orderly(n)
  BY <1>1, <1>7, WorkflowAssumption DEF Orderly
<1> QED
  BY <1>1, <1>7, <1>8, <1>9 DEF Turns, Stays

LEMMA FailureTurn ==
  ASSUME CampaignTypes, AllOrderly, NEW p \in Proc, CallFails(p)
  PROVE  /\ Turns(p)
         /\ \/ proc'[p].walk = {} /\ proc'[p].todo = {} /\ proc'[p].at = NONE
            \/ Stays(p) /\ proc[p].at # NONE /\ proc'[p].pc = "fail"
<1> DEFINE r == proc[p]
           k == r.depth - 1
           e == [r EXCEPT !.pc = "fail"]
           f == [r EXCEPT !.pc = "fail", !.depth = k]
           n == IF r.pc \in {"advance", "enqueue"} THEN e ELSE IF r.depth > 0 THEN f ELSE Idle
<1>1. r \in Invocation /\ Orderly(r) /\ r.depth \in Nat
  BY DEF CampaignTypes, AllOrderly, Invocation
<1>2. PlanId # {}
  BY DEF CampaignTypes
<1>3. proc' = [proc EXCEPT ![p] = n]
  BY DEF CallFails
<1>4. \/ r.pc \in {"advance", "enqueue"} /\ n = e
      \/ r.depth > 0 /\ k \in Nat /\ n = f
      \/ n = Idle
  BY <1>1
<1> HIDE DEF n, k
<1>5. CASE r.pc \in {"advance", "enqueue"} /\ n = e
  <2>1. /\ e \in Invocation /\ e.pc = "fail" /\ e.todo = r.todo
        /\ e.walk = r.walk /\ e.at = r.at /\ e.plan = r.plan /\ e.step = r.step /\ e.kind = r.kind
        /\ e.depth = r.depth
    BY <1>1 DEF Invocation, Pcs
  <2> HIDE DEF e
  <2>2. r.at # NONE /\ Orderly(e)
    BY <1>1, <1>5, <2>1 DEF Orderly
  <2>3. proc' \in [Proc -> Invocation] /\ proc'[p] = e /\ \A q \in Proc \ {p} : proc'[q] = proc[q]
    BY <1>3, <1>5, <2>1, OneTurn
  <2> QED
    BY <2>1, <2>2, <2>3 DEF Turns, Stays
<1>6. CASE r.depth > 0 /\ k \in Nat /\ n = f
  <2>1. /\ f \in Invocation /\ f.pc = "fail" /\ f.todo = r.todo
        /\ f.walk = r.walk /\ f.at = r.at /\ f.plan = r.plan /\ f.step = r.step /\ f.kind = r.kind
    BY <1>1, <1>6 DEF Invocation, Pcs
  <2> HIDE DEF f
  <2>2. r.at # NONE
    BY <1>1, <1>6 DEF Orderly
  <2>3. r.todo = {}
    BY <1>1, <2>2 DEF Orderly
  <2>4. Orderly(f)
    BY <1>1, <2>1, <2>2, <2>3 DEF Orderly
  <2>5. proc' \in [Proc -> Invocation] /\ proc'[p] = f /\ \A q \in Proc \ {p} : proc'[q] = proc[q]
    BY <1>3, <1>6, <2>1, OneTurn
  <2> QED
    BY <2>1, <2>2, <2>4, <2>5 DEF Turns, Stays
<1>7. CASE n = Idle
  <2>1. Idle \in Invocation /\ Orderly(Idle) /\ Idle.walk = {} /\ Idle.todo = {} /\ Idle.at = NONE
    BY <1>2, IdleIs
  <2>2. proc' \in [Proc -> Invocation] /\ proc'[p] = Idle /\ \A q \in Proc \ {p} : proc'[q] = proc[q]
    BY <1>3, <1>7, <2>1, OneTurn
  <2> QED
    BY <2>1, <2>2 DEF Turns
<1> QED
  BY <1>4, <1>5, <1>6, <1>7

\* The invocations that begin, and the scheduler's once it has activated the
\* campaign, have their profiles still to upsert.
Fresh(p) ==
  /\ Turns(p) /\ proc'[p].at = NONE /\ proc'[p].todo = proc'[p].walk
  /\ proc[p].walk = {} /\ proc[p].at = NONE

LEMMA ActivateTurn ==
  ASSUME CampaignTypes, AllOrderly, NEW p \in Proc,
         NEW S \in SUBSET Enrolled, Activate(p, S)
  PROVE  Fresh(p)
<1> DEFINE n == IF proc[p].kind = "scheduler" THEN Started("scheduler", proc[p].plan, S) ELSE Idle
<1>1. proc[p].walk = {} /\ proc[p].at = NONE /\ proc[p].plan \in PlanId
  BY DEF CampaignTypes, AllOrderly, Orderly, Activate, Invocation
<1>2. proc' = [proc EXCEPT ![p] = n]
  BY DEF Activate
<1>3. n \in Invocation /\ Orderly(n) /\ n.at = NONE /\ n.todo = n.walk
  <2>1. CASE proc[p].kind = "scheduler"
    <3>1. "scheduler" \in Kinds
      BY DEF Kinds
    <3>2. n = Started("scheduler", proc[p].plan, S)
      BY <2>1
    <3> QED
      BY <1>1, <3>1, <3>2, StartedIs
  <2>2. CASE proc[p].kind # "scheduler"
    <3>1. n = Idle /\ PlanId # {}
      BY <2>2 DEF CampaignTypes
    <3> QED
      BY <3>1, IdleIs
  <2> QED
    BY <2>1, <2>2
<1> HIDE DEF n
<1>4. proc' \in [Proc -> Invocation] /\ proc'[p] = n /\ \A q \in Proc \ {p} : proc'[q] = proc[q]
  BY <1>2, <1>3, OneTurn
<1> QED
  BY <1>1, <1>3, <1>4 DEF Turns, Fresh

LEMMA StartTurn ==
  ASSUME CampaignTypes, AllOrderly, NEW p \in Proc, Start(p)
  PROVE  Fresh(p)
<1>1. PlanId # {} /\ plan \in PlanId
  BY DEF CampaignTypes
<1>2. ASSUME NEW kind \in Kinds \ {"resume"}, NEW S \in SUBSET Enrolled, Begin(p, Started(kind, plan, S))
      PROVE  Fresh(p)
  <2> DEFINE n == Started(kind, plan, S)
  <2>1. n \in Invocation /\ Orderly(n) /\ n.at = NONE /\ n.todo = S /\ n.walk = S
    BY <1>1, StartedIs
  <2> HIDE DEF n
  <2>2. Begin(p, n)
    BY <1>2 DEF n
  <2> QED
    BY <2>1, <2>2, BeginTurn DEF Fresh
<1>3. ASSUME SchedulerFind(p) PROVE Fresh(p)
  <2> DEFINE n == [Idle EXCEPT !.kind = "scheduler", !.plan = plan, !.pc = "activate"]
  <2>1. Idle \in Invocation /\ Idle.walk = {} /\ Idle.todo = {} /\ Idle.at = NONE /\ Idle.depth = 0
    BY <1>1, IdleIs
  <2>2. /\ n \in Invocation /\ n.walk = {} /\ n.todo = {} /\ n.at = NONE /\ n.depth = 0
        /\ n.pc = "activate"
    BY <1>1, <2>1 DEF Invocation, Kinds, Pcs
  <2> HIDE DEF n
  <2>3. Orderly(n)
    BY <2>2 DEF Orderly
  <2>4. Begin(p, n)
    BY <1>3 DEF SchedulerFind, n
  <2> QED
    BY <2>2, <2>3, <2>4, BeginTurn DEF Fresh
<1>4. \/ \E kind \in Kinds \ {"resume"}, S \in SUBSET Enrolled : Begin(p, Started(kind, plan, S))
      \/ SchedulerFind(p)
  BY DEF Start, StartCampaign, EventTrigger, RecurringTrigger, TimeElapsedTrigger, Kinds
<1> QED
  BY <1>2, <1>3, <1>4

LEMMA ResumeTurn ==
  ASSUME CampaignTypes, AllOrderly, NEW p \in Proc,
         NEW x \in Enrolled, NEW d \in PlanId, Resume(p, x, d)
  PROVE  /\ Turns(p) /\ proc[p].walk = {} /\ proc[p].at = NONE
         /\ proc'[p].walk = {} /\ proc'[p].todo = {} /\ proc'[p].at = x
         /\ proc'[p].plan = d /\ proc'[p].pc = "fetch"
<1> DEFINE n == [Idle EXCEPT !.kind = "resume", !.plan = d, !.at = x, !.pc = "fetch"]
<1>1. Idle \in Invocation /\ Idle.walk = {} /\ Idle.todo = {}
  BY IdleIs
<1>2. /\ n \in Invocation /\ n.walk = {} /\ n.todo = {} /\ n.at = x /\ n.plan = d
      /\ n.pc = "fetch"
  BY <1>1 DEF Invocation, Kinds, Pcs
<1> HIDE DEF n
<1>3. Orderly(n)
  BY <1>2, WorkflowAssumption DEF Orderly
<1>4. Begin(p, n)
  BY DEF Resume, n
<1> QED
  BY <1>2, <1>3, <1>4, BeginTurn

-----------------------------------------------------------------------------
(* Types are kept, and no pending execution is dropped.                    *)

CampaignInv == CampaignTypes /\ AllOrderly

\* The jobs that were active when the server died.
LEMMA ActiveIsFinite ==
  ASSUME NEW A \in SUBSET Proc
  PROVE  Cardinality(A) \in Nat
BY FS_Subset, FS_CardinalityType, WorkflowAssumption

LEMMA CrashTurn ==
  ASSUME CampaignInv, Crash
  PROVE  /\ proc' \in [Proc -> Invocation] /\ AllOrderly'
         /\ \A p \in Proc : proc'[p].walk = {} /\ proc'[p].todo = {} /\ proc'[p].at = NONE
         /\ delayed' \in [Enrolled \X PlanId -> Nat]
         /\ mixed' \in [Enrolled -> BOOLEAN]
<1> USE DEF CampaignInv
<1>1. Idle \in Invocation /\ Orderly(Idle) /\ Idle.walk = {} /\ Idle.todo = {} /\ Idle.at = NONE
  BY IdleIs DEF CampaignTypes
<1>2. proc' = [p \in Proc |-> Idle]
  BY DEF Crash
<1>3. proc' \in [Proc -> Invocation]
  BY <1>1, <1>2
<1>4. \A p \in Proc : proc'[p] = Idle
  BY <1>2
<1>5. AllOrderly'
  BY <1>1, <1>4 DEF AllOrderly, Orderly
<1>6. \A p \in Proc : proc'[p].walk = {} /\ proc'[p].todo = {} /\ proc'[p].at = NONE
  BY <1>1, <1>4
<1> DEFINE A(j) == {p \in Proc : proc[p].kind = "resume" /\ <<proc[p].at, proc[p].plan>> = j}
<1>7. \A j : Cardinality(A(j)) \in Nat
  BY ActiveIsFinite
<1>8. delayed' = [j \in DOMAIN delayed |-> delayed[j] + Cardinality(A(j))]
  BY DEF Crash
<1>9. DOMAIN delayed = Enrolled \X PlanId /\ \A j \in Enrolled \X PlanId : delayed[j] \in Nat
  BY DEF CampaignTypes
<1> HIDE DEF A
<1>10. \A j \in Enrolled \X PlanId : delayed[j] + Cardinality(A(j)) \in Nat
  BY <1>7, <1>9
<1>11. delayed' \in [Enrolled \X PlanId -> Nat]
  BY <1>8, <1>9, <1>10
<1>12. mixed' \in [Enrolled -> BOOLEAN]
  <2>1. mixed' = [x \in Enrolled |-> mixed[x] \/ \E p \in Proc : x \in Carries(proc[p])]
    BY DEF Crash
  <2> QED
    BY <2>1 DEF CampaignTypes
<1> QED
  BY <1>3, <1>5, <1>6, <1>11, <1>12

\* What the steps write besides the invocations.
LEMMA UpsertTypes ==
  ASSUME CampaignInv, NEW p \in Proc, NEW x \in Enrolled, UpsertExecution(p, x)
  PROVE  /\ exec' \in [Enrolled -> Execution] /\ trail' \in [Enrolled -> Seq(Nat)]
         /\ onPlan' \in [Enrolled -> PlanId] /\ mixed' \in [Enrolled -> BOOLEAN]
<1> USE DEF CampaignInv, CampaignTypes
<1> DEFINE e == [status |-> "pending", step |-> 1]
           m == \/ \E q \in Proc \ {p} : x \in Carries(proc[q])
                \/ \E d \in PlanId : delayed[x, d] > 0
<1>1. e \in Execution /\ m \in BOOLEAN /\ proc[p].plan \in PlanId /\ <<>> \in Seq(Nat)
  BY DEF Execution, Place, Invocation
<1>2. exec' = [exec EXCEPT ![x] = e] /\ mixed' = [mixed EXCEPT ![x] = m]
      /\ trail' = [trail EXCEPT ![x] = <<>>] /\ onPlan' = [onPlan EXCEPT ![x] = proc[p].plan]
  BY DEF UpsertExecution
<1> HIDE DEF e, m
<1>3. exec' \in [Enrolled -> Execution]
  BY <1>1, <1>2
<1>4. trail' \in [Enrolled -> Seq(Nat)]
  BY <1>1, <1>2
<1>5. onPlan' \in [Enrolled -> PlanId]
  BY <1>1, <1>2
<1>6. mixed' \in [Enrolled -> BOOLEAN]
  BY <1>1, <1>2
<1> QED
  BY <1>3, <1>4, <1>5, <1>6

\* A write to one row, in a field of its own.
LEMMA RowWritten ==
  ASSUME CampaignTypes, NEW x \in Enrolled
  PROVE  /\ \A s \in {"completed", "failed"} :
              LET e == [exec EXCEPT ![x].status = s]
              IN  /\ e \in [Enrolled -> Execution]
                  /\ e[x].status = s /\ e[x].step = exec[x].step
                  /\ \A y \in Enrolled \ {x} : e[y] = exec[y]
         /\ \A k \in Place :
              LET e == [exec EXCEPT ![x].step = k]
              IN  /\ e \in [Enrolled -> Execution]
                  /\ e[x].step = k /\ e[x].status = exec[x].status
                  /\ \A y \in Enrolled \ {x} : e[y] = exec[y]
BY DEF CampaignTypes, Execution

LEMMA NextPlace ==
  ASSUME CampaignTypes, NEW p \in Proc,
         NEW next \in 1 .. Len(Plan[proc[p].plan]) + 1
  PROVE  next \in Place
BY WorkflowAssumption DEF CampaignTypes, Invocation, Place

LEMMA CampaignTypesKept ==
  ASSUME CampaignInv, [CampaignNext]_campaignVars
  PROVE  CampaignInv'
<1> USE DEF CampaignInv
<1>1. ASSUME Operation PROVE CampaignInv'
  <2>1. /\ exec' = exec /\ delayed' = delayed /\ proc' = proc /\ failures' = failures
        /\ trail' = trail /\ onPlan' = onPlan /\ mixed' = mixed
    BY <1>1 DEF Operation, Update, PauseCampaign, ScheduleCampaign, history
  <2>2. plan' \in PlanId
    BY <1>1 DEF Operation, Update, PauseCampaign, ScheduleCampaign, CampaignTypes
  <2>3. CampaignTypes'
    BY <2>1, <2>2 DEF CampaignTypes
  <2>4. AllOrderly'
    BY <2>1 DEF AllOrderly, Orderly
  <2> QED
    BY <2>3, <2>4
<1>2. ASSUME NEW p \in Proc, Start(p) PROVE CampaignInv'
  <2>1. /\ exec' = exec /\ delayed' = delayed /\ plan' = plan /\ failures' = failures
        /\ trail' = trail /\ onPlan' = onPlan /\ mixed' = mixed
    BY <1>2 DEF Start, StartCampaign, SchedulerFind, EventTrigger, RecurringTrigger,
                TimeElapsedTrigger, history
  <2>2. Turns(p)
    BY <1>2, StartTurn DEF Fresh
  <2>3. AllOrderly'
    BY <2>2, TurnsKeepOrder
  <2>4. CampaignTypes'
    BY <2>1, <2>2 DEF CampaignTypes, Turns
  <2> QED
    BY <2>3, <2>4
<1>3. ASSUME NEW p \in Proc, NEW S \in SUBSET Enrolled, Activate(p, S) PROVE CampaignInv'
  <2>1. /\ exec' = exec /\ delayed' = delayed /\ plan' = plan /\ failures' = failures
        /\ trail' = trail /\ onPlan' = onPlan /\ mixed' = mixed
    BY <1>3 DEF Activate, history
  <2>2. Turns(p)
    BY <1>3, ActivateTurn DEF Fresh
  <2>3. AllOrderly'
    BY <2>2, TurnsKeepOrder
  <2>4. CampaignTypes'
    BY <2>1, <2>2 DEF CampaignTypes, Turns
  <2> QED
    BY <2>3, <2>4
<1>4. ASSUME NEW p \in Proc, NEW x \in Enrolled, UpsertExecution(p, x) PROVE CampaignInv'
  <2>1. delayed' = delayed /\ plan' = plan /\ failures' = failures
    BY <1>4 DEF UpsertExecution
  <2>2. Turns(p)
    BY <1>4, UpsertTurn
  <2>3. /\ exec' \in [Enrolled -> Execution] /\ trail' \in [Enrolled -> Seq(Nat)]
        /\ onPlan' \in [Enrolled -> PlanId] /\ mixed' \in [Enrolled -> BOOLEAN]
    BY <1>4, UpsertTypes
  <2>4. AllOrderly'
    BY <2>2, TurnsKeepOrder
  <2>5. CampaignTypes'
    BY <2>1, <2>2, <2>3 DEF CampaignTypes, Turns
  <2> QED
    BY <2>4, <2>5
<1>5. ASSUME NEW p \in Proc, NEW x \in Enrolled, Fetch(p, x) PROVE CampaignInv'
  <2>1. /\ exec' = exec /\ delayed' = delayed /\ plan' = plan /\ failures' = failures
        /\ trail' = trail /\ onPlan' = onPlan /\ mixed' = mixed
    BY <1>5 DEF Fetch, history
  <2>2. Turns(p)
    BY <1>5, FetchTurn
  <2>3. AllOrderly'
    BY <2>2, TurnsKeepOrder
  <2>4. CampaignTypes'
    BY <2>1, <2>2 DEF CampaignTypes, Turns
  <2> QED
    BY <2>3, <2>4
<1>6. ASSUME NEW p \in Proc, Complete(p) \/ Fail(p) PROVE CampaignInv'
  <2>1. /\ delayed' = delayed /\ plan' = plan /\ failures' = failures
        /\ trail' = trail /\ onPlan' = onPlan /\ mixed' = mixed
    BY <1>6 DEF Complete, Fail, history
  <2>2. Turns(p) /\ proc[p].at \in Enrolled
    BY <1>6, ReleaseTurn DEF Complete, Fail
  <2>3. \/ exec' = [exec EXCEPT ![proc[p].at].status = "completed"]
        \/ exec' = [exec EXCEPT ![proc[p].at].status = "failed"]
    BY <1>6 DEF Complete, Fail
  <2>4. exec' \in [Enrolled -> Execution]
    BY <2>2, <2>3, RowWritten
  <2>5. AllOrderly'
    BY <2>2, TurnsKeepOrder
  <2>6. CampaignTypes'
    BY <2>1, <2>2, <2>4 DEF CampaignTypes, Turns
  <2> QED
    BY <2>5, <2>6
<1>7. ASSUME NEW p \in Proc, NEW next \in 1 .. Len(Plan[proc[p].plan]) + 1, Act(p, next)
      PROVE  CampaignInv'
  <2>1. /\ exec' = exec /\ delayed' = delayed /\ plan' = plan /\ failures' = failures
        /\ onPlan' = onPlan /\ mixed' = mixed
    BY <1>7 DEF Act
  <2>2. next \in Place
    BY NextPlace
  <2>3. Turns(p) /\ proc[p].at \in Enrolled
    BY <1>7, <2>2, ActTurn
  <2>4. proc[p].step \in Nat
    BY DEF CampaignTypes, Invocation, Place
  <2>5. trail' = [trail EXCEPT ![proc[p].at] = Append(@, proc[p].step)]
    BY <1>7 DEF Act
  <2>6. Append(trail[proc[p].at], proc[p].step) \in Seq(Nat)
    BY <2>3, <2>4 DEF CampaignTypes
  <2>7. trail' \in [Enrolled -> Seq(Nat)]
    BY <2>3, <2>5, <2>6 DEF CampaignTypes
  <2>8. AllOrderly'
    BY <2>3, TurnsKeepOrder
  <2>9. CampaignTypes'
    BY <2>1, <2>3, <2>7 DEF CampaignTypes, Turns
  <2> QED
    BY <2>8, <2>9
<1>8. ASSUME NEW p \in Proc, ActFails(p) PROVE CampaignInv'
  <2>1. /\ exec' = exec /\ delayed' = delayed /\ plan' = plan /\ failures' = failures
        /\ trail' = trail /\ onPlan' = onPlan /\ mixed' = mixed
    BY <1>8 DEF ActFails, history
  <2>2. Turns(p)
    BY <1>8, ActFailsTurn
  <2>3. AllOrderly'
    BY <2>2, TurnsKeepOrder
  <2>4. CampaignTypes'
    BY <2>1, <2>2 DEF CampaignTypes, Turns
  <2> QED
    BY <2>3, <2>4
<1>9. ASSUME NEW p \in Proc, Advance(p) PROVE CampaignInv'
  <2>1. /\ delayed' = delayed /\ plan' = plan /\ failures' = failures
        /\ trail' = trail /\ onPlan' = onPlan /\ mixed' = mixed
    BY <1>9 DEF Advance, history
  <2>2. Turns(p) /\ proc[p].at \in Enrolled
    BY <1>9, AdvanceTurn
  <2>3. proc[p].next \in Place
    BY DEF CampaignTypes, Invocation
  <2>4. exec' = [exec EXCEPT ![proc[p].at].step = proc[p].next]
    BY <1>9 DEF Advance
  <2>5. exec' \in [Enrolled -> Execution]
    BY <2>2, <2>3, <2>4, RowWritten
  <2>6. AllOrderly'
    BY <2>2, TurnsKeepOrder
  <2>7. CampaignTypes'
    BY <2>1, <2>2, <2>5 DEF CampaignTypes, Turns
  <2> QED
    BY <2>6, <2>7
<1>10. ASSUME NEW p \in Proc, Enqueue(p) PROVE CampaignInv'
  <2>1. /\ exec' = exec /\ plan' = plan /\ failures' = failures
        /\ trail' = trail /\ onPlan' = onPlan /\ mixed' = mixed
    BY <1>10 DEF Enqueue, history
  <2>2. Turns(p) /\ proc[p].at \in Enrolled
    BY <1>10, ReleaseTurn DEF Enqueue
  <2>3. <<proc[p].at, proc[p].plan>> \in Enrolled \X PlanId
    BY <2>2 DEF CampaignTypes, Invocation
  <2>4. delayed' = [delayed EXCEPT ![<<proc[p].at, proc[p].plan>>] = @ + 1]
    BY <1>10 DEF Enqueue, Job
  <2>5. delayed' \in [Enrolled \X PlanId -> Nat]
    BY <2>3, <2>4 DEF CampaignTypes
  <2>6. AllOrderly'
    BY <2>2, TurnsKeepOrder
  <2>7. CampaignTypes'
    BY <2>1, <2>2, <2>5 DEF CampaignTypes, Turns
  <2> QED
    BY <2>6, <2>7
<1>11. ASSUME NEW p \in Proc, CallFails(p) PROVE CampaignInv'
  <2>1. /\ exec' = exec /\ delayed' = delayed /\ plan' = plan
        /\ trail' = trail /\ onPlan' = onPlan /\ mixed' = mixed
    BY <1>11 DEF CallFails, history
  <2>2. failures' \in Nat
    BY <1>11 DEF CallFails, CampaignTypes
  <2>3. Turns(p)
    BY <1>11, FailureTurn
  <2>4. AllOrderly'
    BY <2>3, TurnsKeepOrder
  <2>5. CampaignTypes'
    BY <2>1, <2>2, <2>3 DEF CampaignTypes, Turns
  <2> QED
    BY <2>4, <2>5
<1>12. ASSUME NEW p \in Proc, NEW x \in Enrolled, NEW d \in PlanId, Resume(p, x, d)
       PROVE  CampaignInv'
  <2>1. /\ exec' = exec /\ plan' = plan /\ failures' = failures
        /\ trail' = trail /\ onPlan' = onPlan /\ mixed' = mixed
    BY <1>12 DEF Resume, history
  <2>2. Turns(p)
    BY <1>12, ResumeTurn
  <2>3. delayed' = [delayed EXCEPT ![<<x, d>>] = @ - 1] /\ delayed[<<x, d>>] > 0
    BY <1>12 DEF Resume
  <2>4. delayed[<<x, d>>] - 1 \in Nat
    BY <2>3 DEF CampaignTypes
  <2>5. delayed' \in [Enrolled \X PlanId -> Nat]
    BY <2>3, <2>4 DEF CampaignTypes
  <2>6. AllOrderly'
    BY <2>2, TurnsKeepOrder
  <2>7. CampaignTypes'
    BY <2>1, <2>2, <2>5 DEF CampaignTypes, Turns
  <2> QED
    BY <2>6, <2>7
<1>13. ASSUME Crash PROVE CampaignInv'
  <2>1. exec' = exec /\ plan' = plan /\ trail' = trail /\ onPlan' = onPlan
    BY <1>13 DEF Crash
  <2>2. failures' \in Nat
    BY <1>13 DEF Crash, CampaignTypes
  <2>3. /\ proc' \in [Proc -> Invocation] /\ AllOrderly'
        /\ delayed' \in [Enrolled \X PlanId -> Nat] /\ mixed' \in [Enrolled -> BOOLEAN]
    BY <1>13, CrashTurn
  <2>4. CampaignTypes'
    BY <2>1, <2>2, <2>3 DEF CampaignTypes
  <2> QED
    BY <2>3, <2>4
<1>14. ASSUME UNCHANGED campaignVars PROVE CampaignInv'
  <2>1. /\ exec' = exec /\ delayed' = delayed /\ proc' = proc /\ failures' = failures
        /\ trail' = trail /\ onPlan' = onPlan /\ mixed' = mixed /\ plan' = plan
    BY <1>14 DEF campaignVars, history
  <2>2. CampaignTypes'
    BY <2>1 DEF CampaignTypes
  <2>3. AllOrderly'
    BY <2>1 DEF AllOrderly, Orderly
  <2> QED
    BY <2>2, <2>3
<1> QED
  BY <1>1, <1>2, <1>3, <1>4, <1>5, <1>6, <1>7, <1>8, <1>9, <1>10, <1>11, <1>12, <1>13, <1>14
     DEF CampaignNext, Work, ResumeSome

LEMMA InitTypes ==
  ASSUME CampaignInit
  PROVE  CampaignInv
<1>1. exec \in [Enrolled -> Execution]
  BY DEF CampaignInit, NoRow, Execution, Place
<1>2. delayed \in [Enrolled \X PlanId -> Nat]
  BY DEF CampaignInit
<1>3. Idle \in Invocation /\ Orderly(Idle)
  BY IdleIs DEF CampaignInit
<1>4. proc \in [Proc -> Invocation] /\ AllOrderly
  BY <1>3 DEF CampaignInit, AllOrderly
<1>5. trail \in [Enrolled -> Seq(Nat)]
  BY DEF CampaignInit
<1>6. plan \in PlanId /\ failures \in Nat /\ onPlan \in [Enrolled -> PlanId] /\ mixed \in [Enrolled -> BOOLEAN]
  BY DEF CampaignInit
<1> QED
  BY <1>1, <1>2, <1>4, <1>5, <1>6 DEF CampaignInv, CampaignTypes

\* A campaign has a status of its own, and failures are those the bound allows.
StatusKept == campaignStatus \in Statuses /\ failures \in 0 .. MaxCampaignFaults

LEMMA StatusStays ==
  /\ CampaignInit => StatusKept
  /\ StatusKept /\ [CampaignNext]_campaignVars => StatusKept'
<1>1. MaxCampaignFaults \in Nat
  BY WorkflowAssumption
<1>2. CampaignInit => StatusKept
  BY <1>1 DEF CampaignInit, StatusKept, Statuses
<1>3. ASSUME StatusKept, CampaignNext PROVE StatusKept'
  <2>1. CASE \E p \in Proc : CallFails(p)
    BY <1>1, <1>3, <2>1 DEF CallFails, StatusKept
  <2>2. CASE Crash
    BY <1>1, <1>3, <2>2 DEF Crash, StatusKept
  <2>3. CASE \E p \in Proc, S \in SUBSET Enrolled : Activate(p, S)
    BY <1>3, <2>3 DEF Activate, StatusKept, Statuses
  <2>4. CASE Operation
    BY <1>3, <2>4
       DEF Operation, Update, PauseCampaign, ScheduleCampaign, StatusKept, Statuses
  <2>5. CASE campaignStatus' = campaignStatus /\ failures' = failures
    BY <1>3, <2>5 DEF StatusKept
  <2>6. ASSUME NEW p \in Proc, Start(p) \/ Work(p)
        PROVE  \/ campaignStatus' = campaignStatus /\ failures' = failures
               \/ \E S \in SUBSET Enrolled : Activate(p, S)
    BY <2>6 DEF Start, StartCampaign, SchedulerFind, EventTrigger, RecurringTrigger,
       TimeElapsedTrigger, Work, UpsertExecution, Fetch, Complete, Fail, Act, ActFails, Advance,
       Enqueue
  <2>7. ASSUME ResumeSome PROVE campaignStatus' = campaignStatus /\ failures' = failures
    BY <2>7 DEF ResumeSome, Resume
  <2> QED BY <1>3, <2>1, <2>2, <2>3, <2>4, <2>5, <2>6, <2>7 DEF CampaignNext
<1>4. StatusKept /\ UNCHANGED campaignVars => StatusKept'
  BY DEF StatusKept, campaignVars
<1> QED BY <1>2, <1>3, <1>4

LEMMA CampaignInvTypes == CampaignInv /\ StatusKept => CampaignTypeOK
<1> SUFFICES ASSUME CampaignInv, StatusKept PROVE CampaignTypeOK
  OBVIOUS
<1>1. exec \in [Enrolled -> [status : {"absent", "pending", "completed", "failed"}, step : Nat]]
  BY DEF CampaignInv, CampaignTypes, Execution, Place
<1>2. ASSUME NEW p \in Proc
      PROVE  /\ proc[p].kind \in Kinds /\ proc[p].plan \in PlanId
             /\ proc[p].todo \subseteq proc[p].walk /\ proc[p].walk \subseteq Enrolled
             /\ proc[p].at \in Enrolled \union {NONE}
             /\ proc[p].at \notin proc[p].walk /\ proc[p].depth \in Nat
  BY DEF CampaignInv, CampaignTypes, Invocation, AllOrderly, Orderly
<1> QED BY <1>1, <1>2 DEF CampaignInv, CampaignTypes, StatusKept, CampaignTypeOK

\* Campaigns, executions, jobs and invocations keep their types, and an
\* invocation lists a profile before it has it in hand, never at the same time.
THEOREM CampaignTypesAlways == CampaignSpec => []CampaignTypeOK
BY InitTypes, CampaignTypesKept, StatusStays, CampaignInvTypes, PTL DEF CampaignSpec

\* A profile is still carried unless the invocation that goes on drops it.
LEMMA StillCarried ==
  ASSUME CampaignTypes, NEW p \in Proc, Turns(p), NEW x \in Enrolled, Carried(x),
         delayed' = delayed, x \in Carries(proc[p]) => x \in Carries(proc'[p])
  PROVE  Carried(x)'
<1>1. CASE \E d \in PlanId : delayed[x, d] > 0
  BY <1>1 DEF Carried
<1>2. CASE \E q \in Proc : x \in Carries(proc[q])
  <2>1. PICK q \in Proc : x \in Carries(proc[q])
    BY <1>2
  <2>2. x \in Carries(proc'[q])
    BY <2>1 DEF Turns
  <2> QED
    BY <2>2 DEF Carried, Carries
<1> QED
  BY <1>1, <1>2 DEF Carried

\* What was in the delay queue still is, and the jobs that were active are back.
LEMMA HandedOutAgain ==
  ASSUME CampaignInv, Crash, NEW x \in Enrolled, Carried(x),
         \A q \in Proc : x \in Carries(proc[q]) => proc[q].kind = "resume"
  PROVE  \E d \in PlanId : delayed'[<<x, d>>] > 0
<1> USE DEF CampaignInv
<1> DEFINE A(j) == {p \in Proc : proc[p].kind = "resume" /\ <<proc[p].at, proc[p].plan>> = j}
<1>1. \A j : Cardinality(A(j)) \in Nat /\ IsFiniteSet(A(j))
  BY ActiveIsFinite, FS_Subset, WorkflowAssumption
<1>2. delayed' = [j \in DOMAIN delayed |-> delayed[j] + Cardinality(A(j))]
  BY DEF Crash
<1>3. DOMAIN delayed = Enrolled \X PlanId /\ \A j \in Enrolled \X PlanId : delayed[j] \in Nat
  BY DEF CampaignTypes
<1>4. CASE \E d \in PlanId : delayed[x, d] > 0
  <2>1. PICK d \in PlanId : delayed[<<x, d>>] > 0
    BY <1>4
  <2> HIDE DEF A
  <2>2. delayed'[<<x, d>>] = delayed[<<x, d>>] + Cardinality(A(<<x, d>>))
    BY <1>2, <1>3
  <2>3. delayed'[<<x, d>>] > 0
    BY <1>1, <1>3, <2>1, <2>2
  <2> QED
    BY <2>3
<1>5. CASE \E q \in Proc : x \in Carries(proc[q])
  <2>1. PICK q \in Proc : x \in Carries(proc[q])
    BY <1>5
  <2> DEFINE d == proc[q].plan
             j == <<x, d>>
  <2>2. proc[q].kind = "resume" /\ proc[q].at = x /\ d \in PlanId
    BY <2>1 DEF Carries, AllOrderly, Orderly, CampaignTypes, Invocation
  <2>3. q \in A(j)
    BY <2>2
  <2> HIDE DEF A, d
  <2>4. Cardinality(A(j)) # 0
    BY <1>1, <2>3, FS_EmptySet
  <2>5. j \in Enrolled \X PlanId
    BY <2>2
  <2> HIDE DEF j
  <2>6. delayed'[j] = delayed[j] + Cardinality(A(j))
    BY <1>2, <1>3, <2>5
  <2>7. delayed'[j] > 0
    BY <1>1, <1>3, <2>4, <2>5, <2>6
  <2> QED
    BY <2>2, <2>7 DEF j
<1> QED
  BY <1>4, <1>5 DEF Carried

LEMMA CarriedKept ==
  ASSUME CampaignInv, PendingIsCarried, [CampaignNext]_campaignVars
  PROVE  PendingIsCarried'
<1> USE DEF CampaignInv
<1> SUFFICES ASSUME NEW x \in Enrolled, x \notin lost', exec'[x].status = "pending"
             PROVE  Carried(x)'
  BY DEF PendingIsCarried, Carried, Carries
<1>1. ASSUME x \notin lost, exec[x].status = "pending" PROVE Carried(x)
  BY <1>1 DEF PendingIsCarried
<1>2. ASSUME Operation PROVE Carried(x)'
  <2>1. exec' = exec /\ delayed' = delayed /\ proc' = proc /\ lost' = lost
    BY <1>2 DEF Operation, Update, PauseCampaign, ScheduleCampaign, history
  <2>2. Carried(x)
    BY <1>1, <2>1
  <2> QED
    BY <2>1, <2>2 DEF Carried, Carries
<1>3. ASSUME NEW p \in Proc, Start(p) PROVE Carried(x)'
  <2>1. exec' = exec /\ delayed' = delayed /\ lost' = lost
    BY <1>3 DEF Start, StartCampaign, SchedulerFind, EventTrigger, RecurringTrigger,
                TimeElapsedTrigger, history
  <2>2. Turns(p) /\ Carries(proc[p]) = {}
    BY <1>3, StartTurn DEF Fresh, Carries
  <2>3. Carried(x)
    BY <1>1, <2>1
  <2> QED
    BY <2>1, <2>2, <2>3, StillCarried
<1>4. ASSUME NEW p \in Proc, NEW S \in SUBSET Enrolled, Activate(p, S) PROVE Carried(x)'
  <2>1. exec' = exec /\ delayed' = delayed /\ lost' = lost
    BY <1>4 DEF Activate, history
  <2>2. Turns(p) /\ Carries(proc[p]) = {}
    BY <1>4, ActivateTurn DEF Fresh, Carries
  <2>3. Carried(x)
    BY <1>1, <2>1
  <2> QED
    BY <2>1, <2>2, <2>3, StillCarried
<1>5. ASSUME NEW p \in Proc, NEW y \in Enrolled, UpsertExecution(p, y) PROVE Carried(x)'
  <2>1. delayed' = delayed /\ lost' = lost \ {y}
    BY <1>5 DEF UpsertExecution
  <2>2. /\ Turns(p) /\ Carries(proc'[p]) = Carries(proc[p]) /\ y \in Carries(proc'[p])
    BY <1>5, UpsertTurn DEF Carries
  <2>3. CASE x = y
    BY <2>2, <2>3 DEF Carried, Carries
  <2>4. CASE x # y
    <3>1. exec'[x] = exec[x]
      BY <1>5, <2>4 DEF UpsertExecution, CampaignTypes
    <3>2. Carried(x)
      BY <1>1, <2>1, <2>4, <3>1
    <3> QED
      BY <2>1, <2>2, <3>2, StillCarried
  <2> QED
    BY <2>3, <2>4
<1>6. ASSUME NEW p \in Proc, NEW y \in Enrolled, Fetch(p, y) PROVE Carried(x)'
  <2>1. exec' = exec /\ delayed' = delayed /\ lost' = lost
    BY <1>6 DEF Fetch, history
  <2>2. Turns(p) /\ (x \in Carries(proc[p]) => x \in Carries(proc'[p]))
    <3>1. /\ Turns(p) /\ y # NONE
          /\ (y \in proc[p].walk /\ proc[p].at = NONE) \/ proc[p].at = y
          /\ proc'[p].walk = proc[p].walk \ {y} /\ proc'[p].at = y
      BY <1>6, FetchTurn, WorkflowAssumption
    <3>2. Carries(proc[p]) \subseteq Carries(proc'[p])
      BY <3>1 DEF Carries
    <3> QED
      BY <3>1, <3>2
  <2>3. Carried(x)
    BY <1>1, <2>1
  <2> QED
    BY <2>1, <2>2, <2>3, StillCarried
<1>7. ASSUME NEW p \in Proc, Complete(p) \/ Fail(p) PROVE Carried(x)'
  <2>1. delayed' = delayed /\ lost' = lost
    BY <1>7 DEF Complete, Fail, history
  <2>2. /\ Turns(p) /\ proc[p].at \in Enrolled
        /\ proc'[p].walk = proc[p].walk /\ proc'[p].at = NONE
    BY <1>7, ReleaseTurn DEF Complete, Fail
  <2>3. \/ exec' = [exec EXCEPT ![proc[p].at].status = "completed"]
        \/ exec' = [exec EXCEPT ![proc[p].at].status = "failed"]
    BY <1>7 DEF Complete, Fail
  <2>4. /\ exec'[proc[p].at].status \in {"completed", "failed"}
        /\ \A y \in Enrolled \ {proc[p].at} : exec'[y] = exec[y]
    <3> DEFINE a == proc[p].at
    <3> HIDE DEF a
    <3>1. a \in Enrolled /\ exec \in [Enrolled -> Execution]
      BY <2>2 DEF a, CampaignTypes
    <3>2. CASE exec' = [exec EXCEPT ![a].status = "completed"]
      BY <3>1, <3>2 DEF Execution, a
    <3>3. CASE exec' = [exec EXCEPT ![a].status = "failed"]
      BY <3>1, <3>3 DEF Execution, a
    <3> QED
      BY <2>3, <3>2, <3>3 DEF a
  <2>8. x # proc[p].at /\ exec'[x] = exec[x]
    BY <2>4
  <2>5. x \in Carries(proc[p]) => x \in Carries(proc'[p])
    BY <2>2, <2>8, WorkflowAssumption DEF Carries
  <2>6. Carried(x)
    BY <1>1, <2>1, <2>8
  <2> QED
    BY <2>1, <2>2, <2>5, <2>6, StillCarried
<1>8. ASSUME NEW p \in Proc, NEW next \in 1 .. Len(Plan[proc[p].plan]) + 1, Act(p, next)
      PROVE  Carried(x)'
  <2>1. exec' = exec /\ delayed' = delayed /\ lost' = lost
    BY <1>8 DEF Act
  <2>2. Turns(p) /\ Stays(p)
    BY <1>8, NextPlace, ActTurn
  <2>3. Carried(x)
    BY <1>1, <2>1
  <2> QED
    BY <2>1, <2>2, <2>3, StillCarried DEF Carries, Stays
<1>9. ASSUME NEW p \in Proc, ActFails(p) PROVE Carried(x)'
  <2>1. exec' = exec /\ delayed' = delayed /\ lost' = lost
    BY <1>9 DEF ActFails, history
  <2>2. Turns(p) /\ Stays(p)
    BY <1>9, ActFailsTurn
  <2>3. Carried(x)
    BY <1>1, <2>1
  <2> QED
    BY <2>1, <2>2, <2>3, StillCarried DEF Carries, Stays
<1>10. ASSUME NEW p \in Proc, Advance(p) PROVE Carried(x)'
  <2>1. delayed' = delayed /\ lost' = lost
    BY <1>10 DEF Advance, history
  <2>2. Turns(p) /\ Stays(p) /\ proc[p].at \in Enrolled
    BY <1>10, AdvanceTurn
  <2>3. exec' = [exec EXCEPT ![proc[p].at].step = proc[p].next] /\ proc[p].next \in Place
    BY <1>10 DEF Advance, CampaignTypes, Invocation
  <2>4. exec'[x].status = exec[x].status
    BY <2>2, <2>3, RowWritten
  <2>5. Carried(x)
    BY <1>1, <2>1, <2>4
  <2> QED
    BY <2>1, <2>2, <2>5, StillCarried DEF Carries, Stays
<1>11. ASSUME NEW p \in Proc, Enqueue(p) PROVE Carried(x)'
  <2>1. exec' = exec /\ lost' = lost
    BY <1>11 DEF Enqueue, history
  <2>2. /\ Turns(p) /\ proc[p].at \in Enrolled
        /\ proc'[p].walk = proc[p].walk /\ proc'[p].at = NONE
    BY <1>11, ReleaseTurn DEF Enqueue
  <2> DEFINE a == proc[p].at
             d == proc[p].plan
  <2>3. <<a, d>> \in Enrolled \X PlanId /\ a \in Enrolled /\ d \in PlanId
    BY <2>2 DEF CampaignTypes, Invocation
  <2>4. delayed' = [delayed EXCEPT ![<<a, d>>] = @ + 1]
    BY <1>11 DEF Enqueue, Job
  <2>5. Carried(x)
    BY <1>1, <2>1
  <2>6. CASE x = a
    <3>1. delayed'[<<x, d>>] > 0
      BY <2>3, <2>4, <2>6 DEF CampaignTypes
    <3> HIDE DEF a, d
    <3> QED
      BY <2>3, <3>1 DEF Carried
  <2>7. CASE x # a
    <3>1. \A e \in PlanId : delayed'[<<x, e>>] = delayed[<<x, e>>]
      BY <2>3, <2>4, <2>7 DEF CampaignTypes
    <3>2. CASE \E e \in PlanId : delayed[x, e] > 0
      BY <3>1, <3>2 DEF Carried
    <3>3. CASE \E q \in Proc : x \in Carries(proc[q])
      <4>1. PICK q \in Proc : x \in Carries(proc[q])
        BY <3>3
      <4>2. x \in Carries(proc'[q])
        BY <2>2, <2>7, <4>1, WorkflowAssumption DEF Turns, Carries
      <4> QED
        BY <4>2 DEF Carried, Carries
    <3> QED
      BY <2>5, <3>2, <3>3 DEF Carried
  <2> QED
    BY <2>6, <2>7
<1>12. ASSUME NEW p \in Proc, CallFails(p) PROVE Carried(x)'
  <2>1. /\ exec' = exec /\ delayed' = delayed
        /\ lost' = lost \union (Carries(proc[p]) \ Carries(proc'[p]))
    BY <1>12 DEF CallFails
  <2>2. Turns(p)
    BY <1>12, FailureTurn
  <2>3. Carried(x)
    BY <1>1, <2>1
  <2> QED
    BY <2>1, <2>2, <2>3, StillCarried
<1>13. ASSUME NEW p \in Proc, NEW y \in Enrolled, NEW d \in PlanId, Resume(p, y, d)
       PROVE  Carried(x)'
  <2>1. exec' = exec /\ lost' = lost
    BY <1>13 DEF Resume, history
  <2>2. /\ Turns(p) /\ proc[p].walk = {} /\ proc[p].at = NONE /\ proc'[p].at = y
    BY <1>13, ResumeTurn
  <2>3. delayed' = [delayed EXCEPT ![<<y, d>>] = @ - 1]
    BY <1>13 DEF Resume
  <2>4. Carried(x)
    BY <1>1, <2>1
  <2>5. CASE x = y
    <3>1. x \in Carries(proc'[p])
      BY <2>2, <2>5, WorkflowAssumption DEF Carries
    <3> QED
      BY <3>1 DEF Carried, Carries
  <2>6. CASE x # y
    <3>1. \A e \in PlanId : delayed'[<<x, e>>] = delayed[<<x, e>>]
      BY <2>3, <2>6 DEF CampaignTypes
    <3>2. CASE \E e \in PlanId : delayed[x, e] > 0
      BY <3>1, <3>2 DEF Carried
    <3>3. CASE \E q \in Proc : x \in Carries(proc[q])
      <4>1. PICK q \in Proc : x \in Carries(proc[q])
        BY <3>3
      <4>2. x \in Carries(proc'[q])
        BY <2>2, <4>1 DEF Turns, Carries
      <4> QED
        BY <4>2 DEF Carried, Carries
    <3> QED
      BY <2>4, <3>2, <3>3 DEF Carried
  <2> QED
    BY <2>5, <2>6
<1>14. ASSUME Crash PROVE Carried(x)'
  <2>1. exec' = exec /\ x \notin lost
    BY <1>14 DEF Crash
  <2> DEFINE left == {q \in Proc : proc[q].kind # "resume"}
  <2>2. lost' = lost \union UNION {Carries(proc[q]) : q \in left}
    BY <1>14 DEF Crash
  <2>3. \A q \in Proc : x \in Carries(proc[q]) => proc[q].kind = "resume"
    BY <2>2
  <2>4. Carried(x)
    BY <1>1, <2>1
  <2>5. PICK d \in PlanId : delayed'[<<x, d>>] > 0
    BY <1>14, <2>3, <2>4, HandedOutAgain
  <2> QED
    BY <2>5 DEF Carried
<1>15. ASSUME UNCHANGED campaignVars PROVE Carried(x)'
  <2>1. exec' = exec /\ delayed' = delayed /\ proc' = proc /\ lost' = lost
    BY <1>15 DEF campaignVars, history
  <2>2. Carried(x)
    BY <1>1, <2>1
  <2> QED
    BY <2>1, <2>2 DEF Carried, Carries
<1> QED
  BY <1>2, <1>3, <1>4, <1>5, <1>6, <1>7, <1>8, <1>9, <1>10, <1>11, <1>12, <1>13, <1>14, <1>15
     DEF CampaignNext, Work, ResumeSome

\* However starts, triggers, delayed jobs and edits of the campaign overlap,
\* a pending execution is on the list or in the hands of an invocation, or in
\* the delay queue, unless a failed call or a crash since its start took it
\* from an invocation that was not started by a delayed job.
THEOREM NobodyIsStranded == CampaignSpec => []PendingIsCarried
<1>1. CampaignInit => CampaignInv /\ PendingIsCarried
  BY InitTypes DEF CampaignInit, PendingIsCarried, NoRow
<1>2. CampaignInv /\ PendingIsCarried /\ [CampaignNext]_campaignVars => (CampaignInv /\ PendingIsCarried)'
  BY CampaignTypesKept, CarriedKept
<1> QED
  BY <1>1, <1>2, PTL DEF CampaignSpec

-----------------------------------------------------------------------------
(* Actions follow the plan.  A profile that is neither started again while *)
(* it is carried nor lost in a crash has one holder at most: an invocation *)
(* that has upserted it, or a delayed job, with the plan of its start.     *)

Holds(r, x) == x \in r.walk \ r.todo \/ r.at = x

\* How far the holder is with the step at hand.
AtStep(r, x) ==
  /\ r.pc = "act" => r.step = exec[x].step /\ r.step <= Len(Plan[onPlan[x]])
  /\ r.pc = "complete" => exec[x].step > Len(Plan[onPlan[x]])
  /\ r.pc = "advance" => /\ trail[x] # <<>> /\ Last(trail[x]) = r.step
                         /\ r.next \in Plan[onPlan[x]][r.step].targets

HeldWell(p, x) ==
  /\ exec[x].status = "pending" /\ proc[p].plan = onPlan[x]
  /\ \A q \in Proc : Holds(proc[q], x) => q = p
  /\ \A d \in PlanId : delayed[x, d] = 0
  /\ ~(proc[p].at = x /\ proc[p].pc \in {"advance", "fail"}) => OnCourse(x)
  /\ proc[p].at = x => AtStep(proc[p], x)

QueuedWell(x) ==
  /\ exec[x].status = "pending" /\ OnCourse(x)
  /\ \A d \in PlanId : delayed[x, d] > 0 => delayed[x, d] = 1 /\ d = onPlan[x]

RowInOrder(x) ==
  /\ IsPath(onPlan[x], trail[x])
  /\ exec[x].status = "completed" =>
       exec[x].step > Len(Plan[onPlan[x]]) /\ OnCourse(x)

Follows(x) ==
  ~mixed[x] =>
    /\ RowInOrder(x)
    /\ \A p \in Proc : Holds(proc[p], x) => HeldWell(p, x)
    /\ (\E d \in PlanId : delayed[x, d] > 0) => QueuedWell(x)

AllFollow == \A x \in Enrolled : Follows(x)

LEMMA HolderIsWell ==
  ASSUME NEW p \in Proc, NEW x \in Enrolled, Follows(x), ~mixed[x], Holds(proc[p], x)
  PROVE  /\ HeldWell(p, x) /\ RowInOrder(x)
         /\ \A q \in Proc \ {p} : ~Holds(proc[q], x)
BY DEF Follows, HeldWell

\* A step that is about other profiles.
SameRow(x) ==
  /\ exec'[x] = exec[x] /\ trail'[x] = trail[x]
  /\ onPlan'[x] = onPlan[x] /\ mixed'[x] = mixed[x]
SameQueue(x) == \A d \in PlanId : delayed'[x, d] = delayed[x, d]
SameHold(p, x) ==
  Holds(proc'[p], x) =>
    /\ Holds(proc[p], x) /\ proc'[p].plan = proc[p].plan
    /\ proc'[p].at = x <=> proc[p].at = x
    /\ proc'[p].at = x => /\ proc'[p].pc = proc[p].pc /\ proc'[p].step = proc[p].step
                          /\ proc'[p].next = proc[p].next

LEMMA Frame ==
  ASSUME NEW x \in Enrolled, Follows(x), SameRow(x), SameQueue(x),
         \A p \in Proc : SameHold(p, x)
  PROVE  Follows(x)'
<1>1. SUFFICES ASSUME ~mixed'[x] PROVE Follows(x)'
  BY DEF Follows
<1>2. ~mixed[x]
  BY <1>1 DEF SameRow
<1>3. RowInOrder(x)'
  BY <1>2 DEF Follows, RowInOrder, SameRow, OnCourse, IsPath
<1>4. OnCourse(x) => OnCourse(x)'
  BY DEF OnCourse, SameRow
<1>5. ASSUME NEW p \in Proc, Holds(proc'[p], x) PROVE HeldWell(p, x)'
  <2>1. HeldWell(p, x)
    BY <1>2, <1>5 DEF Follows, SameHold
  <2>2. exec'[x].status = "pending" /\ proc'[p].plan = onPlan'[x]
    BY <1>5, <2>1 DEF HeldWell, SameHold, SameRow
  <2>3. \A q \in Proc : Holds(proc'[q], x) => q = p
    BY <2>1 DEF HeldWell, SameHold
  <2>4. \A d \in PlanId : delayed'[x, d] = 0
    BY <2>1 DEF HeldWell, SameQueue
  <2>5. ~(proc'[p].at = x /\ proc'[p].pc \in {"advance", "fail"}) => OnCourse(x)'
    BY <1>4, <1>5, <2>1 DEF HeldWell, SameHold
  <2>6. proc'[p].at = x => AtStep(proc[p], x)'
    BY <1>5, <2>1 DEF HeldWell, SameHold, AtStep, SameRow
  <2> QED
    BY <2>2, <2>3, <2>4, <2>5, <2>6 DEF HeldWell, Holds
<1>6. ASSUME \E d \in PlanId : delayed'[x, d] > 0 PROVE QueuedWell(x)'
  <2>1. QueuedWell(x)
    BY <1>2, <1>6 DEF Follows, SameQueue
  <2> QED
    BY <1>4, <2>1 DEF QueuedWell, SameQueue, SameRow
<1>7. (\A p \in Proc : Holds(proc[p], x) => HeldWell(p, x))'
  BY <1>5 DEF Holds
<1>8. ((\E d \in PlanId : delayed[x, d] > 0) => QueuedWell(x))'
  BY <1>6
<1> QED
  BY <1>3, <1>7, <1>8 DEF Follows

LEMMA TurnFrame ==
  ASSUME NEW p \in Proc, Turns(p), NEW x \in Enrolled, Follows(x),
         SameRow(x), SameQueue(x), SameHold(p, x)
  PROVE  Follows(x)'
<1>1. \A q \in Proc : SameHold(q, x)
  BY DEF SameHold, Turns
<1> QED
  BY <1>1, Frame

LEMMA NotEmpty == \A v : v = 0 => ~(v > 0)
OBVIOUS

LEMMA EmptyOrNot == \A v \in Nat : ~(v > 0) => v = 0
OBVIOUS

\* Afterwards the invocation that goes on is the only holder ...
LEMMA OneHolder ==
  ASSUME NEW p \in Proc, Turns(p), NEW x \in Enrolled, \A q \in Proc \ {p} : ~Holds(proc[q], x),
         RowInOrder(x)', \A d \in PlanId : delayed'[x, d] = 0,
         exec'[x].status = "pending", proc'[p].plan = onPlan'[x],
         ~(proc'[p].at = x /\ proc'[p].pc \in {"advance", "fail"}) => OnCourse(x)',
         proc'[p].at = x => AtStep(proc[p], x)'
  PROVE  Follows(x)'
<1>1. \A q \in Proc : Holds(proc'[q], x) => q = p
  BY DEF Turns
<1>2. HeldWell(p, x)'
  BY <1>1 DEF HeldWell, Holds
<1>3. (\A q \in Proc : Holds(proc[q], x) => HeldWell(q, x))'
  BY <1>1, <1>2 DEF Holds
<1>4. \A d \in PlanId : ~(delayed'[x, d] > 0)
  <2> SUFFICES ASSUME NEW d \in PlanId PROVE ~(delayed'[x, d] > 0)
    OBVIOUS
  <2> QED
    BY NotEmpty
<1>5. ((\E d \in PlanId : delayed[x, d] > 0) => QueuedWell(x))'
  BY <1>4
<1> QED
  BY <1>3, <1>5 DEF Follows

\* ... or nobody is, unless a job in the queue.
LEMMA NoHolder ==
  ASSUME NEW p \in Proc, Turns(p), NEW x \in Enrolled, \A q \in Proc \ {p} : ~Holds(proc[q], x),
         ~Holds(proc'[p], x), RowInOrder(x)',
         (\E d \in PlanId : delayed'[x, d] > 0) => QueuedWell(x)'
  PROVE  Follows(x)'
<1>1. \A q \in Proc : ~Holds(proc'[q], x)
  BY DEF Turns
<1>2. (\A q \in Proc : Holds(proc[q], x) => HeldWell(q, x))'
  BY <1>1 DEF Holds
<1>3. ((\E d \in PlanId : delayed[x, d] > 0) => QueuedWell(x))'
  OBVIOUS
<1> QED
  BY <1>2, <1>3 DEF Follows

LEMMA PathGrows ==
  ASSUME NEW d, NEW path \in Seq(Nat), NEW k \in Nat, IsPath(d, path), k \in DOMAIN Plan[d],
         IF path = <<>> THEN k = 1 ELSE k \in Plan[d][Last(path)].targets
  PROVE  IsPath(d, Append(path, k)) /\ Append(path, k) # <<>> /\ Last(Append(path, k)) = k
<1> DEFINE q == Append(path, k)
<1>1. q \in Seq(Nat) /\ Len(q) = Len(path) + 1 /\ q[Len(q)] = k
  OBVIOUS
<1>2. \A i \in 1 .. Len(path) : q[i] = path[i]
  OBVIOUS
<1>3. DOMAIN q = 1 .. Len(path) + 1 /\ DOMAIN path = 1 .. Len(path) /\ Len(path) \in Nat
  OBVIOUS
<1>4. path = <<>> <=> Len(path) = 0
  OBVIOUS
<1> HIDE DEF q
<1>5. q # <<>> /\ Last(q) = k
  <2>1. Last(q) = q[Len(q)]
    BY DEF Last
  <2>2. q # <<>>
    BY <1>1, <1>3
  <2> QED
    BY <1>1, <2>1, <2>2
<1>6. q[1] = 1
  <2>1. CASE path = <<>>
    BY <1>1, <1>4, <2>1
  <2>2. CASE path # <<>>
    BY <1>2, <1>3, <1>4, <2>2 DEF IsPath
  <2> QED
    BY <2>1, <2>2
<1>7. ASSUME NEW i \in DOMAIN q PROVE q[i] \in DOMAIN Plan[d]
  <2>1. CASE i = Len(path) + 1
    BY <1>1, <2>1
  <2>2. CASE i # Len(path) + 1
    <3>1. i \in DOMAIN path /\ q[i] = path[i]
      BY <1>2, <1>3, <2>2
    <3> QED
      BY <3>1 DEF IsPath
  <2> QED
    BY <2>1, <2>2
<1>8. ASSUME NEW i \in 1 .. Len(q) - 1 PROVE q[i + 1] \in Plan[d][q[i]].targets
  <2>1. i \in 1 .. Len(path) /\ q[i] = path[i]
    BY <1>1, <1>2, <1>3
  <2>2. CASE i = Len(path)
    <3>1. path # <<>> /\ Last(path) = path[i] /\ q[i + 1] = k
      BY <1>1, <1>3, <1>4, <2>1, <2>2 DEF Last
    <3> QED
      BY <2>1, <3>1
  <2>3. CASE i # Len(path)
    <3> DEFINE l == Len(path)
    <3>3. l \in Nat /\ i \in 1 .. l /\ i # l
      BY <1>3, <2>1, <2>3
    <3> HIDE DEF l
    <3>4. i \in 1 .. l - 1 /\ i + 1 \in 1 .. l
      BY <3>3
    <3>1. i \in 1 .. Len(path) - 1 /\ i + 1 \in 1 .. Len(path)
      BY <3>4 DEF l
    <3>2. path[i + 1] \in Plan[d][path[i]].targets
      BY <3>1 DEF IsPath
    <3> QED
      BY <1>2, <2>1, <3>1, <3>2
  <2> QED
    BY <2>2, <2>3
<1>9. IsPath(d, q)
  BY <1>6, <1>7, <1>8 DEF IsPath
<1> QED
  BY <1>5, <1>9 DEF q

\* What one step does to the profile it is about, and to the others.
LEMMA FreshFollow ==
  ASSUME AllFollow, NEW p \in Proc, Fresh(p), exec' = exec, trail' = trail,
         onPlan' = onPlan, mixed' = mixed, delayed' = delayed, NEW x \in Enrolled
  PROVE  Follows(x)'
<1>1. Turns(p) /\ ~Holds(proc'[p], x)
  BY WorkflowAssumption DEF Fresh, Holds
<1>2. SameRow(x) /\ SameQueue(x) /\ SameHold(p, x)
  BY <1>1 DEF SameRow, SameQueue, SameHold
<1> QED
  BY <1>1, <1>2, TurnFrame DEF AllFollow

LEMMA UpsertFollow ==
  ASSUME CampaignInv, AllFollow, NEW p \in Proc, NEW y \in Enrolled,
         UpsertExecution(p, y), NEW x \in Enrolled
  PROVE  Follows(x)'
<1> USE DEF CampaignInv
<1>1. /\ Turns(p)
      /\ y \in proc[p].todo /\ y \in proc[p].walk /\ proc[p].at = NONE
      /\ proc'[p].todo = proc[p].todo \ {y} /\ proc'[p].walk = proc[p].walk
      /\ proc'[p].at = NONE /\ proc'[p].plan = proc[p].plan
  BY UpsertTurn
<1>2. delayed' = delayed
  BY DEF UpsertExecution
<1>3. CASE x # y
  <2>1. SameRow(x)
    BY <1>3 DEF UpsertExecution, CampaignTypes, SameRow
  <2>2. SameQueue(x)
    BY <1>2 DEF SameQueue
  <2>3. SameHold(p, x)
    BY <1>1, <1>3, WorkflowAssumption DEF SameHold, Holds
  <2> QED
    BY <1>1, <2>1, <2>2, <2>3, TurnFrame DEF AllFollow
<1>4. CASE x = y
  <2>1. /\ exec'[x] = [status |-> "pending", step |-> 1] /\ trail'[x] = <<>>
        /\ onPlan'[x] = proc[p].plan
    BY <1>4 DEF UpsertExecution, CampaignTypes
  <2>9. mixed'[x] = (\/ \E q \in Proc \ {p} : x \in Carries(proc[q])
                    \/ \E d \in PlanId : delayed[x, d] > 0)
    BY <1>4 DEF UpsertExecution, CampaignTypes
  <2>2. SUFFICES ASSUME ~mixed'[x] PROVE Follows(x)'
    BY DEF Follows
  <2>3. \A q \in Proc \ {p} : ~Holds(proc[q], x)
    <3>1. \A q \in Proc \ {p} : x \notin Carries(proc[q])
      BY <2>2, <2>9
    <3> QED
      BY <3>1, WorkflowAssumption DEF Carries, Holds
  <2>4. \A d \in PlanId : delayed'[x, d] = 0
    <3>1. \A d \in PlanId : ~(delayed[x, d] > 0)
      BY <2>2, <2>9
    <3> SUFFICES ASSUME NEW d \in PlanId PROVE delayed'[x, d] = 0
      OBVIOUS
    <3>2. ~(delayed[x, d] > 0) /\ delayed[x, d] \in Nat
      BY <3>1 DEF CampaignTypes
    <3>3. delayed[x, d] = 0
      BY <3>2, EmptyOrNot
    <3> QED
      BY <1>2, <3>3
  <2>5. IsPath(onPlan'[x], trail'[x])
    <3>1. IsPath(onPlan'[x], <<>>)
      BY DEF IsPath
    <3> QED
      BY <2>1, <3>1
  <2>6. exec'[x].status = "pending" /\ proc'[p].plan = onPlan'[x] /\ proc'[p].at # x
    <3>1. exec'[x].status = "pending"
      BY <2>1
    <3>2. proc'[p].plan = onPlan'[x] /\ proc'[p].at # x
      BY <1>1, <2>1, WorkflowAssumption
    <3> QED
      BY <3>1, <3>2
  <2>7. RowInOrder(x)'
    BY <2>5, <2>6 DEF RowInOrder
  <2>8. OnCourse(x)'
    BY <2>1 DEF OnCourse
  <2> QED
    BY <1>1, <2>3, <2>4, <2>6, <2>7, <2>8, OneHolder
<1> QED
  BY <1>3, <1>4

LEMMA FetchFollow ==
  ASSUME CampaignInv, AllFollow, NEW p \in Proc, NEW y \in Enrolled,
         Fetch(p, y), NEW x \in Enrolled
  PROVE  Follows(x)'
<1> USE DEF CampaignInv
<1>1. /\ Turns(p)
      /\ (y \in proc[p].walk /\ proc[p].at = NONE) \/ proc[p].at = y
      /\ proc[p].todo = {} /\ proc[p].pc = "fetch"
      /\ proc'[p].todo = {} /\ proc'[p].walk = proc[p].walk \ {y}
      /\ proc'[p].at = y /\ proc'[p].plan = proc[p].plan
      /\ proc'[p].step = exec[y].step
  BY FetchTurn
<1>2. \/ proc'[p].pc = "complete" /\ exec[y].step > Len(Plan[proc[p].plan])
      \/ proc'[p].pc = "fail"
      \/ proc'[p].pc = "act" /\ exec[y].step <= Len(Plan[proc[p].plan])
  BY FetchTurn
<1>3. exec' = exec /\ delayed' = delayed /\ trail' = trail /\ onPlan' = onPlan /\ mixed' = mixed
  BY DEF Fetch, history
<1>4. SameRow(x) /\ SameQueue(x) /\ Follows(x)
  BY <1>3 DEF SameRow, SameQueue, AllFollow
<1>5. CASE x # y
  <2>1. SameHold(p, x)
    BY <1>1, <1>5, WorkflowAssumption DEF SameHold, Holds
  <2> QED
    BY <1>1, <1>4, <2>1, TurnFrame
<1>6. CASE x = y
  <2>1. SUFFICES ASSUME ~mixed[x] PROVE Follows(x)'
    BY <1>3 DEF Follows
  <2>2. Holds(proc[p], x)
    BY <1>1, <1>6 DEF Holds
  <2>3. HeldWell(p, x) /\ RowInOrder(x) /\ \A q \in Proc \ {p} : ~Holds(proc[q], x)
    BY <1>4, <2>1, <2>2, HolderIsWell
  <2>4. /\ exec[x].status = "pending" /\ proc[p].plan = onPlan[x] /\ OnCourse(x)
        /\ \A d \in PlanId : delayed[x, d] = 0
    BY <1>1, <2>3 DEF HeldWell
  <2>5. RowInOrder(x)'
    BY <1>3, <2>3 DEF RowInOrder, IsPath, OnCourse
  <2>6. OnCourse(x)'
    BY <1>3, <2>4 DEF OnCourse
  <2>7. AtStep(proc[p], x)'
    BY <1>1, <1>2, <1>3, <1>6, <2>4 DEF AtStep
  <2> QED
    BY <1>1, <1>3, <2>3, <2>4, <2>5, <2>6, <2>7, OneHolder
<1> QED
  BY <1>5, <1>6

LEMMA ReleaseFollow ==
  ASSUME CampaignInv, AllFollow, NEW p \in Proc, Complete(p) \/ Fail(p),
         NEW x \in Enrolled
  PROVE  Follows(x)'
<1> USE DEF CampaignInv
<1> DEFINE a == proc[p].at
<1>1. /\ Turns(p) /\ a \in Enrolled /\ proc[p].todo = {}
      /\ proc'[p].walk = proc[p].walk /\ proc'[p].todo = {} /\ proc'[p].at = NONE
      /\ proc'[p].walk # {} => proc'[p].plan = proc[p].plan
  BY ReleaseTurn DEF Complete, Fail
<1>2. delayed' = delayed /\ trail' = trail /\ onPlan' = onPlan /\ mixed' = mixed
  BY DEF Complete, Fail, history
<1>3. /\ exec'[a].step = exec[a].step
      /\ \/ proc[p].pc = "complete" /\ exec'[a].status = "completed"
         \/ exec'[a].status = "failed"
      /\ \A y \in Enrolled \ {a} : exec'[y] = exec[y]
  <2>1. a \in Enrolled /\ exec \in [Enrolled -> Execution]
    BY <1>1 DEF CampaignTypes
  <2>2. \/ proc[p].pc = "complete" /\ exec' = [exec EXCEPT ![a].status = "completed"]
        \/ exec' = [exec EXCEPT ![a].status = "failed"]
    BY DEF Complete, Fail
  <2> HIDE DEF a
  <2>3. CASE exec' = [exec EXCEPT ![a].status = "completed"] /\ proc[p].pc = "complete"
    BY <2>1, <2>3 DEF Execution
  <2>4. CASE exec' = [exec EXCEPT ![a].status = "failed"]
    BY <2>1, <2>4 DEF Execution
  <2> QED
    BY <2>2, <2>3, <2>4
<1>4. SameQueue(x) /\ Follows(x)
  BY <1>2 DEF SameQueue, AllFollow
<1>5. CASE x # a
  <2>1. SameRow(x)
    BY <1>2, <1>3, <1>5 DEF SameRow
  <2>2. SameHold(p, x)
    BY <1>1, <1>5, WorkflowAssumption DEF SameHold, Holds
  <2> QED
    BY <1>1, <1>4, <2>1, <2>2, TurnFrame
<1>6. CASE x = a
  <2>1. SUFFICES ASSUME ~mixed[x] PROVE Follows(x)'
    BY <1>2 DEF Follows
  <2>2. Holds(proc[p], x)
    BY <1>6 DEF Holds
  <2>3. HeldWell(p, x) /\ RowInOrder(x) /\ \A q \in Proc \ {p} : ~Holds(proc[q], x)
    BY <1>4, <2>1, <2>2, HolderIsWell
  <2>4. ~Holds(proc'[p], x)
    BY <1>1, <1>6, WorkflowAssumption DEF Holds, AllOrderly, Orderly
  <2>5. \A d \in PlanId : ~(delayed'[x, d] > 0)
    BY <1>2, <2>3, NotEmpty DEF HeldWell
  <2>6. exec'[x].status = "completed" => exec[x].step > Len(Plan[onPlan[x]]) /\ OnCourse(x)
    BY <1>3, <1>6, <2>3 DEF HeldWell, AtStep
  <2>7. IsPath(onPlan[x], trail[x])
    BY <2>3 DEF RowInOrder
  <2>8. RowInOrder(x)'
    BY <1>2, <1>3, <1>6, <2>6, <2>7 DEF RowInOrder, OnCourse, IsPath
  <2> QED
    BY <1>1, <2>3, <2>4, <2>5, <2>8, NoHolder
<1> QED
  BY <1>5, <1>6

LEMMA ActFollow ==
  ASSUME CampaignInv, AllFollow, NEW p \in Proc,
         NEW next \in 1 .. Len(Plan[proc[p].plan]) + 1, Act(p, next), NEW x \in Enrolled
  PROVE  Follows(x)'
<1> USE DEF CampaignInv
<1> DEFINE a == proc[p].at
           k == proc[p].step
<1>1. /\ Turns(p) /\ Stays(p)
      /\ a \in Enrolled /\ proc'[p].pc = "advance" /\ proc'[p].next = next
  BY NextPlace, ActTurn
<1>2. exec' = exec /\ delayed' = delayed /\ onPlan' = onPlan /\ mixed' = mixed
  BY DEF Act
<1>3. trail' = [trail EXCEPT ![a] = Append(@, k)]
  BY DEF Act
<1>4. SameQueue(x) /\ Follows(x)
  BY <1>2 DEF SameQueue, AllFollow
<1>5. CASE x # a
  <2>1. SameRow(x)
    BY <1>2, <1>3, <1>5 DEF SameRow, CampaignTypes
  <2>2. SameHold(p, x)
    BY <1>1, <1>5 DEF SameHold, Holds, Stays
  <2> QED
    BY <1>1, <1>4, <2>1, <2>2, TurnFrame
<1>6. CASE x = a
  <2>1. SUFFICES ASSUME ~mixed[x] PROVE Follows(x)'
    BY <1>2 DEF Follows
  <2>2. Holds(proc[p], x)
    BY <1>6 DEF Holds
  <2>3. HeldWell(p, x) /\ RowInOrder(x) /\ \A q \in Proc \ {p} : ~Holds(proc[q], x)
    BY <1>4, <2>1, <2>2, HolderIsWell
  <2>4. proc[p].pc = "act" /\ next \in Plan[proc[p].plan][k].targets
    BY DEF Act
  <2>5. /\ exec[x].status = "pending" /\ proc[p].plan = onPlan[x] /\ OnCourse(x)
        /\ \A d \in PlanId : delayed[x, d] = 0
    BY <2>3, <2>4 DEF HeldWell
  <2>6. k = exec[x].step /\ k <= Len(Plan[onPlan[x]])
    BY <1>6, <2>3, <2>4 DEF HeldWell, AtStep
  <2>7. k \in DOMAIN Plan[onPlan[x]] /\ k \in Nat
    <3>1. k \in Place /\ onPlan[x] \in PlanId
      BY DEF CampaignTypes, Invocation
    <3>2. DOMAIN Plan[onPlan[x]] = 1 .. Len(Plan[onPlan[x]]) /\ Len(Plan[onPlan[x]]) \in Nat
      BY <3>1, WorkflowAssumption
    <3> QED
      BY <2>6, <3>1, <3>2 DEF Place
  <2>8. trail[x] \in Seq(Nat) /\ trail'[x] = Append(trail[x], k)
    BY <1>3, <1>6 DEF CampaignTypes
  <2>9. IsPath(onPlan[x], trail[x])
    BY <2>3 DEF RowInOrder
  <2>10. IF trail[x] = <<>> THEN k = 1 ELSE k \in Plan[onPlan[x]][Last(trail[x])].targets
    BY <2>5, <2>6 DEF OnCourse
  <2>11. IsPath(onPlan[x], trail'[x]) /\ trail'[x] # <<>> /\ Last(trail'[x]) = k
    <3> DEFINE d == onPlan[x]
               path == trail[x]
    <3> HIDE DEF d, path, k
    <3>1. path \in Seq(Nat) /\ k \in Nat /\ IsPath(d, path) /\ k \in DOMAIN Plan[d]
      BY <2>7, <2>8, <2>9 DEF d, path
    <3>2. IF path = <<>> THEN k = 1 ELSE k \in Plan[d][Last(path)].targets
      BY <2>10 DEF d, path
    <3>3. IsPath(d, Append(path, k)) /\ Append(path, k) # <<>> /\ Last(Append(path, k)) = k
      BY <3>1, <3>2, PathGrows
    <3> QED
      BY <2>8, <3>3 DEF d, path
  <2>12. RowInOrder(x)'
    BY <1>2, <2>5, <2>11 DEF RowInOrder, IsPath
  <2>13. AtStep(proc[p], x)'
    BY <1>1, <1>2, <2>4, <2>5, <2>11 DEF AtStep, Stays
  <2>14. proc'[p].plan = onPlan'[x] /\ proc'[p].at = x
    BY <1>1, <1>2, <1>6, <2>5 DEF Stays
  <2> QED
    BY <1>1, <1>2, <2>3, <2>5, <2>12, <2>13, <2>14, OneHolder
<1> QED
  BY <1>5, <1>6

\* The step at hand has failed; the row is the same until that is written.
LEMMA ToFailFollow ==
  ASSUME AllFollow, NEW p \in Proc, Turns(p), Stays(p), proc'[p].pc = "fail",
         proc[p].at # NONE, exec' = exec, trail' = trail,
         onPlan' = onPlan, mixed' = mixed, delayed' = delayed, NEW x \in Enrolled
  PROVE  Follows(x)'
<1>1. SameRow(x) /\ SameQueue(x) /\ Follows(x)
  BY DEF SameRow, SameQueue, AllFollow
<1>2. CASE x # proc[p].at
  <2>1. SameHold(p, x)
    BY <1>2 DEF SameHold, Holds, Stays
  <2> QED
    BY <1>1, <2>1, TurnFrame
<1>3. CASE x = proc[p].at
  <2>1. SUFFICES ASSUME ~mixed[x] PROVE Follows(x)'
    BY DEF Follows
  <2>2. Holds(proc[p], x)
    BY <1>3 DEF Holds
  <2>3. HeldWell(p, x) /\ RowInOrder(x) /\ \A q \in Proc \ {p} : ~Holds(proc[q], x)
    BY <1>1, <2>1, <2>2, HolderIsWell
  <2>4. /\ exec'[x].status = "pending" /\ proc'[p].plan = onPlan'[x]
        /\ \A d \in PlanId : delayed'[x, d] = 0
    BY <2>3 DEF HeldWell, Stays
  <2>5. RowInOrder(x)'
    BY <2>3 DEF RowInOrder, IsPath, OnCourse
  <2>6. AtStep(proc[p], x)'
    BY DEF AtStep
  <2>7. proc'[p].at = x
    BY <1>3 DEF Stays
  <2> QED
    BY <2>3, <2>4, <2>5, <2>6, <2>7, OneHolder
<1> QED
  BY <1>2, <1>3

LEMMA AdvanceFollow ==
  ASSUME CampaignInv, AllFollow, NEW p \in Proc, Advance(p),
         NEW x \in Enrolled
  PROVE  Follows(x)'
<1> USE DEF CampaignInv
<1> DEFINE a == proc[p].at
<1>1. /\ Turns(p) /\ Stays(p) /\ a \in Enrolled /\ proc'[p].pc \in {"enqueue", "fetch"}
  BY AdvanceTurn
<1>2. delayed' = delayed /\ trail' = trail /\ onPlan' = onPlan /\ mixed' = mixed
  BY DEF Advance, history
<1>3. /\ exec'[a].step = proc[p].next /\ exec'[a].status = exec[a].status
      /\ \A y \in Enrolled \ {a} : exec'[y] = exec[y]
  <2>1. a \in Enrolled /\ exec \in [Enrolled -> Execution]
    BY <1>1 DEF CampaignTypes
  <2>2. exec' = [exec EXCEPT ![a].step = proc[p].next]
    BY DEF Advance
  <2> HIDE DEF a
  <2> QED
    BY <2>1, <2>2 DEF Execution
<1>4. SameQueue(x) /\ Follows(x)
  BY <1>2 DEF SameQueue, AllFollow
<1>5. CASE x # a
  <2>1. SameRow(x)
    BY <1>2, <1>3, <1>5 DEF SameRow
  <2>2. SameHold(p, x)
    BY <1>1, <1>5 DEF SameHold, Holds, Stays
  <2> QED
    BY <1>1, <1>4, <2>1, <2>2, TurnFrame
<1>6. CASE x = a
  <2>1. SUFFICES ASSUME ~mixed[x] PROVE Follows(x)'
    BY <1>2 DEF Follows
  <2>2. Holds(proc[p], x)
    BY <1>6 DEF Holds
  <2>3. HeldWell(p, x) /\ RowInOrder(x) /\ \A q \in Proc \ {p} : ~Holds(proc[q], x)
    BY <1>4, <2>1, <2>2, HolderIsWell
  <2>4. proc[p].pc = "advance"
    BY DEF Advance
  <2>5. /\ trail[x] # <<>> /\ Last(trail[x]) = proc[p].step
        /\ proc[p].next \in Plan[onPlan[x]][proc[p].step].targets
    BY <1>6, <2>3, <2>4 DEF HeldWell, AtStep
  <2>6. /\ exec'[x].status = "pending" /\ proc'[p].plan = onPlan'[x]
        /\ \A d \in PlanId : delayed'[x, d] = 0
    BY <1>1, <1>2, <1>3, <1>6, <2>3 DEF HeldWell, Stays
  <2>7. OnCourse(x)'
    BY <1>2, <1>3, <1>6, <2>5 DEF OnCourse
  <2>8. RowInOrder(x)'
    BY <1>2, <2>3, <2>6 DEF RowInOrder, IsPath
  <2>9. AtStep(proc[p], x)'
    BY <1>1 DEF AtStep
  <2> QED
    BY <1>1, <2>3, <2>6, <2>7, <2>8, <2>9, OneHolder
<1> QED
  BY <1>5, <1>6

LEMMA EnqueueFollow ==
  ASSUME CampaignInv, AllFollow, NEW p \in Proc, Enqueue(p),
         NEW x \in Enrolled
  PROVE  Follows(x)'
<1> USE DEF CampaignInv
<1> DEFINE a == proc[p].at
           d == proc[p].plan
<1>1. /\ Turns(p) /\ a \in Enrolled /\ proc[p].todo = {}
      /\ proc'[p].walk = proc[p].walk /\ proc'[p].todo = {} /\ proc'[p].at = NONE
      /\ proc'[p].walk # {} => proc'[p].plan = proc[p].plan
  BY ReleaseTurn DEF Enqueue
<1>2. exec' = exec /\ trail' = trail /\ onPlan' = onPlan /\ mixed' = mixed
  BY DEF Enqueue, history
<1>3. /\ delayed'[<<a, d>>] = delayed[<<a, d>>] + 1
      /\ \A j \in Enrolled \X PlanId : j # <<a, d>> => delayed'[j] = delayed[j]
  <2>1. <<a, d>> \in Enrolled \X PlanId
    BY <1>1 DEF CampaignTypes, Invocation
  <2>2. delayed' = [delayed EXCEPT ![<<a, d>>] = @ + 1]
    BY DEF Enqueue, Job
  <2> HIDE DEF a, d
  <2> QED
    BY <2>1, <2>2 DEF CampaignTypes
<1>4. SameRow(x) /\ Follows(x)
  BY <1>2 DEF SameRow, AllFollow
<1>5. CASE x # a
  <2>1. SameQueue(x)
    BY <1>3, <1>5 DEF SameQueue
  <2>2. SameHold(p, x)
    BY <1>1, <1>5, WorkflowAssumption DEF SameHold, Holds
  <2> QED
    BY <1>1, <1>4, <2>1, <2>2, TurnFrame
<1>6. CASE x = a
  <2>1. SUFFICES ASSUME ~mixed[x] PROVE Follows(x)'
    BY <1>2 DEF Follows
  <2>2. Holds(proc[p], x)
    BY <1>6 DEF Holds
  <2>3. HeldWell(p, x) /\ RowInOrder(x) /\ \A q \in Proc \ {p} : ~Holds(proc[q], x)
    BY <1>4, <2>1, <2>2, HolderIsWell
  <2>4. ~Holds(proc'[p], x)
    BY <1>1, <1>6, WorkflowAssumption DEF Holds, AllOrderly, Orderly
  <2>5. /\ exec[x].status = "pending" /\ d = onPlan[x] /\ OnCourse(x)
        /\ \A e \in PlanId : delayed[x, e] = 0
    BY <2>3 DEF HeldWell, Enqueue
  <2>6. d \in PlanId
    BY DEF CampaignTypes, Invocation
  <2>7. delayed'[x, d] = 1 /\ \A e \in PlanId : e # d => delayed'[x, e] = 0
    <3>1. delayed[<<x, d>>] = 0
      BY <2>5, <2>6
    <3>2. delayed'[<<x, d>>] = 1
      BY <1>3, <1>6, <3>1
    <3> SUFFICES ASSUME NEW e \in PlanId, e # d PROVE delayed'[x, e] = 0
      BY <3>2
    <3>3. <<x, e>> \in Enrolled \X PlanId /\ <<x, e>> # <<a, d>>
      BY <1>6
    <3>4. delayed[<<x, e>>] = 0
      BY <2>5
    <3> QED
      BY <1>3, <3>3, <3>4
  <2>8. \A e \in PlanId : delayed'[x, e] > 0 => delayed'[x, e] = 1 /\ e = onPlan'[x]
    BY <1>2, <2>5, <2>7, NotEmpty
  <2>9. QueuedWell(x)'
    BY <1>2, <2>5, <2>8 DEF QueuedWell, OnCourse
  <2>10. RowInOrder(x)'
    BY <1>2, <2>3 DEF RowInOrder, IsPath, OnCourse
  <2> QED
    BY <1>1, <2>3, <2>4, <2>9, <2>10, NoHolder
<1> QED
  BY <1>5, <1>6

LEMMA ResumeFollow ==
  ASSUME CampaignInv, AllFollow, NEW p \in Proc, NEW y \in Enrolled,
         NEW d \in PlanId, Resume(p, y, d), NEW x \in Enrolled
  PROVE  Follows(x)'
<1> USE DEF CampaignInv
<1>1. /\ Turns(p) /\ proc[p].walk = {} /\ proc[p].at = NONE
      /\ proc'[p].walk = {} /\ proc'[p].todo = {} /\ proc'[p].at = y
      /\ proc'[p].plan = d /\ proc'[p].pc = "fetch"
  BY ResumeTurn
<1>2. exec' = exec /\ trail' = trail /\ onPlan' = onPlan /\ mixed' = mixed
  BY DEF Resume, history
<1>3. /\ delayed[<<y, d>>] > 0 /\ delayed'[<<y, d>>] = delayed[<<y, d>>] - 1
      /\ \A j \in Enrolled \X PlanId : j # <<y, d>> => delayed'[j] = delayed[j]
  <2>1. delayed' = [delayed EXCEPT ![<<y, d>>] = @ - 1] /\ delayed[<<y, d>>] > 0
    BY DEF Resume
  <2> QED
    BY <2>1 DEF CampaignTypes
<1>4. SameRow(x) /\ Follows(x)
  BY <1>2 DEF SameRow, AllFollow
<1>5. CASE x # y
  <2>1. SameQueue(x)
    BY <1>3, <1>5 DEF SameQueue
  <2>2. SameHold(p, x)
    BY <1>1, <1>5, WorkflowAssumption DEF SameHold, Holds
  <2> QED
    BY <1>1, <1>4, <2>1, <2>2, TurnFrame
<1>6. CASE x = y
  <2>1. SUFFICES ASSUME ~mixed[x] PROVE Follows(x)'
    BY <1>2 DEF Follows
  <2>2. delayed[x, d] > 0
    BY <1>3, <1>6
  <2>3. QueuedWell(x) /\ RowInOrder(x)
    BY <1>4, <2>1, <2>2 DEF Follows
  <2>4. \A q \in Proc : ~Holds(proc[q], x)
    BY <1>4, <2>1, <2>2, NotEmpty DEF Follows, HeldWell
  <2>5. /\ exec[x].status = "pending" /\ OnCourse(x) /\ d = onPlan[x] /\ delayed[x, d] = 1
        /\ \A e \in PlanId : delayed[x, e] > 0 => e = d
    BY <2>2, <2>3 DEF QueuedWell
  <2>6. \A e \in PlanId : delayed'[x, e] = 0
    <3> SUFFICES ASSUME NEW e \in PlanId PROVE delayed'[x, e] = 0
      OBVIOUS
    <3>1. CASE e = d
      <4>1. delayed[<<y, d>>] = 1
        BY <1>6, <2>5
      <4>2. delayed'[<<y, d>>] = 0
        BY <1>3, <4>1
      <4> QED
        BY <1>6, <3>1, <4>2
    <3>2. CASE e # d
      <4>1. <<x, e>> \in Enrolled \X PlanId /\ <<x, e>> # <<y, d>>
        BY <3>2
      <4>2. delayed'[<<x, e>>] = delayed[<<x, e>>]
        BY <1>3, <4>1
      <4>3. ~(delayed[x, e] > 0) /\ delayed[x, e] \in Nat
        BY <2>5, <3>2 DEF CampaignTypes
      <4>4. delayed[x, e] = 0
        BY <4>3, EmptyOrNot
      <4> QED
        BY <4>2, <4>4
    <3> QED
      BY <3>1, <3>2
  <2>7. RowInOrder(x)'
    BY <1>2, <2>3 DEF RowInOrder, IsPath, OnCourse
  <2>8. OnCourse(x)'
    BY <1>2, <2>5 DEF OnCourse
  <2>9. AtStep(proc[p], x)'
    BY <1>1 DEF AtStep
  <2>10. exec'[x].status = "pending" /\ proc'[p].plan = onPlan'[x]
    BY <1>1, <1>2, <2>5
  <2> QED
    BY <1>1, <2>4, <2>6, <2>7, <2>8, <2>9, <2>10, OneHolder
<1> QED
  BY <1>5, <1>6

\* A crash loses the profiles in hand, and hands the active job out again: of
\* a profile that nobody carried there was none.
LEMMA CrashFollow ==
  ASSUME CampaignInv, AllFollow, Crash, NEW x \in Enrolled
  PROVE  Follows(x)'
<1> USE DEF CampaignInv
<1>1. exec' = exec /\ trail' = trail /\ onPlan' = onPlan
  BY DEF Crash
<1>2. \A p \in Proc : proc'[p].walk = {} /\ proc'[p].todo = {} /\ proc'[p].at = NONE
  BY CrashTurn
<1>3. mixed'[x] = (mixed[x] \/ \E p \in Proc : x \in Carries(proc[p]))
  BY DEF Crash, CampaignTypes
<1>4. SUFFICES ASSUME ~mixed'[x] PROVE Follows(x)'
  BY DEF Follows
<1>5. ~mixed[x] /\ \A p \in Proc : x \notin Carries(proc[p])
  BY <1>3, <1>4
<1>6. \A p \in Proc : proc[p].at # x
  BY <1>5, WorkflowAssumption DEF Carries
<1> DEFINE A(j) == {p \in Proc : proc[p].kind = "resume" /\ <<proc[p].at, proc[p].plan>> = j}
<1>7. \A d \in PlanId : A(<<x, d>>) = {}
  BY <1>6
<1>8. DOMAIN delayed = Enrolled \X PlanId /\ \A j \in Enrolled \X PlanId : delayed[j] \in Nat
  BY DEF CampaignTypes
<1>9. delayed' = [j \in DOMAIN delayed |-> delayed[j] + Cardinality(A(j))]
  BY DEF Crash
<1> HIDE DEF A
<1>10. \A d \in PlanId : delayed'[<<x, d>>] = delayed[<<x, d>>]
  <2> SUFFICES ASSUME NEW d \in PlanId PROVE delayed'[<<x, d>>] = delayed[<<x, d>>]
    OBVIOUS
  <2>1. Cardinality(A(<<x, d>>)) = 0
    BY <1>7, FS_EmptySet
  <2>2. delayed'[<<x, d>>] = delayed[<<x, d>>] + Cardinality(A(<<x, d>>))
    BY <1>8, <1>9
  <2> QED
    BY <1>8, <2>1, <2>2
<1>11. SameRow(x) /\ SameQueue(x) /\ Follows(x)
  <2>1. mixed'[x] = mixed[x]
    BY <1>3, <1>5 DEF CampaignTypes
  <2>2. SameRow(x)
    BY <1>1, <2>1 DEF SameRow
  <2>3. SameQueue(x)
    BY <1>10 DEF SameQueue
  <2> QED
    BY <2>2, <2>3 DEF AllFollow
<1>12. \A p \in Proc : SameHold(p, x)
  BY <1>2, WorkflowAssumption DEF SameHold, Holds
<1> QED
  BY <1>11, <1>12, Frame

LEMMA AllFollowKept ==
  ASSUME CampaignInv, AllFollow, [CampaignNext]_campaignVars
  PROVE  AllFollow'
<1> SUFFICES ASSUME NEW x \in Enrolled PROVE Follows(x)'
  BY DEF AllFollow
<1>1. ASSUME exec' = exec, delayed' = delayed, proc' = proc,
             trail' = trail, onPlan' = onPlan, mixed' = mixed
      PROVE  Follows(x)'
  <2>1. SameRow(x) /\ SameQueue(x) /\ \A p \in Proc : SameHold(p, x)
    BY <1>1 DEF SameRow, SameQueue, SameHold
  <2> QED
    BY <2>1, Frame DEF AllFollow
<1>2. ASSUME Operation PROVE Follows(x)'
  <2>1. /\ exec' = exec /\ delayed' = delayed /\ proc' = proc
        /\ trail' = trail /\ onPlan' = onPlan /\ mixed' = mixed
    BY <1>2 DEF Operation, Update, PauseCampaign, ScheduleCampaign, history
  <2> QED
    BY <1>1, <2>1
<1>3. ASSUME NEW p \in Proc, Start(p) PROVE Follows(x)'
  <2>1. /\ exec' = exec /\ delayed' = delayed
        /\ trail' = trail /\ onPlan' = onPlan /\ mixed' = mixed
    BY <1>3 DEF Start, StartCampaign, SchedulerFind, EventTrigger, RecurringTrigger,
                TimeElapsedTrigger, history
  <2>2. Fresh(p)
    BY <1>3, StartTurn DEF CampaignInv
  <2> QED
    BY <2>1, <2>2, FreshFollow
<1>4. ASSUME NEW p \in Proc, NEW S \in SUBSET Enrolled, Activate(p, S) PROVE Follows(x)'
  <2>1. /\ exec' = exec /\ delayed' = delayed
        /\ trail' = trail /\ onPlan' = onPlan /\ mixed' = mixed
    BY <1>4 DEF Activate, history
  <2>2. Fresh(p)
    BY <1>4, ActivateTurn DEF CampaignInv
  <2> QED
    BY <2>1, <2>2, FreshFollow
<1>5. ASSUME NEW p \in Proc, ActFails(p) PROVE Follows(x)'
  <2>1. /\ exec' = exec /\ delayed' = delayed
        /\ trail' = trail /\ onPlan' = onPlan /\ mixed' = mixed
    BY <1>5 DEF ActFails, history
  <2>2. Turns(p) /\ Stays(p) /\ proc[p].at # NONE /\ proc'[p].pc = "fail"
    BY <1>5, ActFailsTurn DEF CampaignInv
  <2> QED
    BY <2>1, <2>2, ToFailFollow
<1>6. ASSUME NEW p \in Proc, CallFails(p) PROVE Follows(x)'
  <2>1. /\ exec' = exec /\ delayed' = delayed
        /\ trail' = trail /\ onPlan' = onPlan /\ mixed' = mixed
    BY <1>6 DEF CallFails, history
  <2>2. /\ Turns(p)
        /\ \/ proc'[p].walk = {} /\ proc'[p].todo = {} /\ proc'[p].at = NONE
           \/ Stays(p) /\ proc[p].at # NONE /\ proc'[p].pc = "fail"
    BY <1>6, FailureTurn DEF CampaignInv
  <2>3. CASE proc'[p].walk = {} /\ proc'[p].todo = {} /\ proc'[p].at = NONE
    <3>1. SameRow(x) /\ SameQueue(x)
      BY <2>1 DEF SameRow, SameQueue
    <3>2. SameHold(p, x)
      BY <2>3, WorkflowAssumption DEF SameHold, Holds
    <3> QED
      BY <2>2, <3>1, <3>2, TurnFrame DEF AllFollow
  <2>4. CASE Stays(p) /\ proc[p].at # NONE /\ proc'[p].pc = "fail"
    BY <2>1, <2>2, <2>4, ToFailFollow
  <2> QED
    BY <2>2, <2>3, <2>4
<1>7. ASSUME UNCHANGED campaignVars PROVE Follows(x)'
  <2>1. /\ exec' = exec /\ delayed' = delayed /\ proc' = proc
        /\ trail' = trail /\ onPlan' = onPlan /\ mixed' = mixed
    BY <1>7 DEF campaignVars, history
  <2> QED
    BY <1>1, <2>1
<1> QED
  BY <1>2, <1>3, <1>4, <1>5, <1>6, <1>7, UpsertFollow, FetchFollow, ReleaseFollow, ActFollow,
     AdvanceFollow, EnqueueFollow, ResumeFollow, CrashFollow
     DEF CampaignNext, Work, ResumeSome

\* Unless it was started again while still being carried, or lost in a crash,
\* a profile's actions follow the plan it was started with, each once and in
\* order, over every delay, edit of the campaign and other start, and the row
\* of a completed execution points behind the last one, past the plan's end.
THEOREM ActionsInOrder == CampaignSpec => []ActionsFollowPlan
<1>1. CampaignInit => CampaignInv /\ AllFollow
  <2> SUFFICES ASSUME CampaignInit PROVE CampaignInv /\ AllFollow
    OBVIOUS
  <2>1. CampaignInv
    BY InitTypes
  <2>2. Idle.walk = {} /\ Idle.at = NONE
    BY IdleIs DEF CampaignInit
  <2> SUFFICES ASSUME NEW x \in Enrolled PROVE Follows(x)
    BY <2>1 DEF AllFollow
  <2>3. \A p \in Proc : ~Holds(proc[p], x)
    BY <2>2, WorkflowAssumption DEF CampaignInit, Holds
  <2>4. \A d \in PlanId : delayed[x, d] = 0
    BY DEF CampaignInit
  <2>5. \A d \in PlanId : ~(delayed[x, d] > 0)
    BY <2>4, NotEmpty
  <2>6. IsPath(onPlan[x], trail[x]) /\ exec[x].status # "completed"
    BY DEF CampaignInit, IsPath, NoRow
  <2> QED
    BY <2>3, <2>5, <2>6 DEF Follows, RowInOrder
<1>2. CampaignInv /\ AllFollow /\ [CampaignNext]_campaignVars => (CampaignInv /\ AllFollow)'
  BY CampaignTypesKept, AllFollowKept
<1>3. CampaignInv /\ AllFollow => ActionsFollowPlan
  <2> SUFFICES ASSUME CampaignInv, AllFollow, NEW x \in Enrolled, ~mixed[x] PROVE RowInOrder(x)
    BY DEF ActionsFollowPlan, RowInOrder
  <2> QED
    BY DEF AllFollow, Follows
<1> QED
  BY <1>1, <1>2, <1>3, PTL DEF CampaignSpec
===============================================================================
