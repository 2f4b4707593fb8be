# ROSMAR: specifications, model checking and proofs

ROSMAR is a Web3 CRM: Move packages on Sui hold workspaces, deals, badges and
escrows; a NestJS server (the BFF) keeps a PostgreSQL mirror of them, runs
campaigns and serves the frontend; a Rust indexer reads the chain, stores wallet
events and notifies the BFF. This directory models the parts whose correctness
depends on order, concurrency, failure or money, and the seams where two of them
have to agree on names; it checks them with TLC and proves the central ones with
TLAPS.

    tlc -config Escrows.cfg MCEscrow     # one of the runs below
    tlapm EscrowProofs.tla               # one of the proof modules

`PROJECT.json` lists runs, mutants, hazards, findings and theorems, and maps each
definition to its source lines (paths there start with `src/`, the repository).

## 1. Inventory

| Component | State | Operations | What is hard |
|---|---|---|---|
| `crm_escrow` (Move) | one shared object: coins, totals, state, schedule, dispute record | create, fund, release, claim, refund, vesting, milestones, dispute, votes | three ways to release, two ways to refund and two ways to vote on the same balance; rounding; deadlines |
| quest badges (Move) | badges, `minted` and `revoked` tables | mint, revoke, burn, pause | two tables and a set of objects kept together by four separate calls |
| campaign workflows (BFF) | campaign, execution rows, delayed jobs, running async functions | start (six ways), resume, edit, pause, schedule | every `await` is an interleaving point; no status is checked; nested catch |
| indexer (Rust) | checkpoint, channel, batch, `wallet_events`, dead letters | route, batch, fall back, dead-letter, replay, restart | two processes, a bounded channel, memory lost in a crash, answers lost |
| webhook (Rust to BFF) | attempt, Redis key, handlers | post, retry, mark, emit | a retry beside the handler it gave up on |
| listeners (BFF) | rows, score, snapshot, tags, notices, campaigns started | ingest, score, alert, trigger, hourly recalculation | names and fields that two programs have to spell alike; overlapping read and write |
| deals and escrow mirror (BFF) | rows with a version | create, update, stage, archive, fund, release, refund, dispute, vote, auto-release | check on a row read, write computed from it |
| broadcasts (BFF) | broadcast, deliveries | create, edit, schedule, send, job | the same broadcast sent twice, a crash in between |
| quests (BFF) | step and quest completions | claim, approve, reject | count after create by two claims |
| GDPR (BFF) | profile status, logs, timer | request, cancel, daily run | cancel against run; one failure ends the run |
| AI agents (BFF) | counters and plans in Redis, quota row | limit, check, charge, plan, execute | increment, expire, read, run and evict are calls of their own |
| vault (BFF) | one row per key with a version | store, list, update, delete, release, two jobs | versioned beside unversioned writers |
| segments (BFF) | rules, memberships, a baseline in memory | save, evaluate, refresh, add, diff | clear and fill in two statements; the baseline does not survive a restart; three queries for one rule |
| authentication (BFF, frontend) | memberships, cookies, the stores of each tab | log in, refresh, switch, create, log out | two tabs share cookies and not their stores |
| profiles (BFF) | wallets, owners of rows, domains, archived | claim, add, remove, merge, archive | a check before a transaction, two merges that cross |
| cache of the frontend | queries, their keys, mutations under way | mount, press, answer, invalidate, refetch | 25 pages, the keys each button has to name |
| API | routes, DTOs, hooks | call, route, whitelist | hooks and handlers are written apart |
| chain access (BFF) | transaction builders, ids in rows | build, execute, write the row | builders and Move functions are written apart |
| `crm_core`, `crm_data`, `crm_vault` (Move) | profiles, organizations, deals, tickets, campaigns | guarded updates with a version | no transaction can reach them, see "Not modelled" |
| Rust core | scores, segment engine | evaluate, recompute | two engines for one rule |

How they interact: the BFF sends transactions to the packages and then writes its
rows; the packages' events reach the indexer through checkpoints; the indexer
writes `wallet_events` itself and posts each event to the BFF, whose listeners
start campaign workflows, ingest and alert. Jobs go through BullMQ on Redis;
within the BFF components talk through an in-process event emitter. The frontend
calls the BFF, keeps answers under keys and drops what a mutation names.

What makes them correct, in one line each: an escrow neither creates nor loses a
coin and pays the side the votes decided for; a badge's table entry leads to the
badge; a profile goes through its campaign's steps in order and is not stranded;
an event of the chain is stored once and not lost; a webhook reaches the
listeners, once; a row is written over the row that was read; a message is sent
once per order; a cancelled deletion does not happen, a pending one does; a limit
holds in its window; a lock opens in time; a segment has the members of its rules;
an address has one verified owner; a page shows what the server has; what the
frontend sends arrives; a refused transaction leaves no row.

## 2. Modules

| Module | Models |
|---|---|
| `Escrow` | `crm_escrow/sources/escrow.move`, with `vesting.move` and `arbitration.move` as operators |
| `EscrowCustody` | what an escrow promises: the abstract specification of a deposit paid out in parts |
| `EventStore` | what the indexer promises: the abstract specification of what is handed over to a writer |
| `QuestBadge` | `crm_action/sources/quest_badge.move` |
| `Indexer` | `main.rs`, `consumer.rs`, `router.rs`, `writer.rs`, `db.rs` |
| `WebhookDelivery` | `webhook.rs`, `retry.rs`, `webhook.service.ts` |
| `EventListeners` | the listeners of `webhook/`, `auto-tag/`, `engagement/`, the triggers, `score-recalc.job.ts` |
| `CampaignWorkflow` | `campaign.service.ts`, `workflow.engine.ts`, the triggers, the scheduler and delay jobs |
| `QuestClaims` | `quest-verification.service.ts`, `quest.service.ts` |
| `BroadcastSend` | `broadcast.service.ts`, `broadcast-send.job.ts` |
| `GdprDeletion` | `gdpr.service.ts`, the executor, `gdpr-cleanup.job.ts` |
| `SegmentFeeds` | `segment.service.ts`, `segment-eval.job.ts`, `segment-diff.job.ts`, the action add-to-segment |
| `SegmentRules` | `rule-builder.tsx`, the page of a new segment, `rule-evaluator.service.ts`, `segment_engine.rs` |
| `VaultSecrets` | `vault.service.ts`, `vault-release.job.ts`, `vault-expiry.job.ts` |
| `DealPipeline` | `deal.service.ts`, `escrow.service.ts`, `deal-event.listener.ts` |
| `AgentCalls` | `ai-rate-limit.guard.ts`, `llm-client.service.ts`, `usage-tracking.service.ts`, `quota-reset.job.ts`, `action.service.ts` |
| `Sessions` | `auth.service.ts`, `client.ts`, `use-auth-session.ts`, `use-workspaces.ts` |
| `ProfileCluster` | `wallet-cluster.service.ts`, the wallets, domains and archive of `profile.service.ts` |
| `PageCache` | the hooks of `frontend/src/lib/hooks` and the pages and dialogs that mount them |
| `ApiCalls` | those hooks as calls, every controller with its DTOs, the pipe of `main.ts` |
| `ChainCalls` | `tx-builder.service.ts`, the entry points of the Move packages, `sui.client.ts`, the chain leg of the services |
| `MCEscrow`, `MCIndexer`, `MCQuestBadge`, `MCWebhookDelivery` | instances |
| `MCServices`, `MCRecords` | compositions: several components, one at a time |
| `EscrowProofs`, `IndexerProofs`, `CampaignProofs` | proofs about the module of that name |
| `ServiceProofs` | proofs about `WebhookDelivery`, `QuestClaims`, `BroadcastSend`, `GdprDeletion`, `SegmentFeeds`, `VaultSecrets` |
| `RecordProofs` | proofs about `QuestBadge`, `DealPipeline`, `AgentCalls`, `Sessions`, `ProfileCluster`, `EventListeners` |
| `PageProofs` | proofs about `PageCache`, `ApiCalls`, `ChainCalls`, `SegmentRules` |
| `ServicesTogether`, `RecordsTogether` | proofs about the compositions |

A definition whose comment says "Slip" is a plausible mistake in the definition
after it. The specifications do not use it; putting it in place of its neighbour
breaks the property `PROJECT.json` names under "mutants", or, where it is not
listed there, another part of what its module states.

Two modules are compositions. The components of `MCServices` and those of
`MCRecords` do not write each other's rows, so a behaviour chooses one (`focus`,
fixed at the start), the others rest in their initial state, and the states of the
run are the sum of theirs and not the product. A property of a composition names
what the modules state, each about its own variables. Components that do touch the
same state are in one module: the two jobs and the requests of a segment, the
deal's listener and the escrow, tabs and the server, listeners and the hourly job.

### Escrow

One action per entry function, as each is one transaction. `now` is the Sui clock;
`terms` is what creation fixes (parties, arbitrators, threshold, expiry), `schedule`
and `arb` are the two dynamic fields. `deposit` and `direct` are history: the
amount funded, and what the payer paid with plain release calls. Creation may be refused
(the pause flag and the admin cap), which is not taking the action. A commitment
is the vote it hides. Amounts are naturals: every one is bounded by a coin that
exists, so none overflows. Nobody is obliged to call anything, so there is no
fairness: that money is not stuck is `LocksOnlyBySplit`, a state predicate on what
may still be called, and not a liveness property. After its expiry any funded escrow
can be refunded, which is the guard itself; without one a dispute ends only by a decision.
Arbitrators may vote directly, commit, miss the deadline of the reveal and vote all the
same, and a revealed commitment counts beside a direct vote. `LocksOnlyBySplit` says
that a threshold of at most a majority always leaves one of the decisions within reach.
Above a majority the votes can split (two arbitrators, threshold two), and with no
arbitrators there is nobody to decide.

### QuestBadge

`minted` is a partial function from <<quest, recipient>> to badges, `revoked` a set
of object IDs. Revocation names a badge, a quest and a recipient that nothing
compares with the entry, so it may name foreign objects. A badge cannot be
transferred.

`create_escrow` and the badge functions take a `&Workspace`, which no transaction
can pass (see "Not modelled"): both modules model the entry points as the
packages' own tests call them.

### CampaignWorkflow

An async function is a record in `proc` and runs without a break from one `await`
to the next, so each database or queue call is an action. `exec` (rows) and
`delayed` (BullMQ jobs) survive a crash, `proc` does not. `depth` counts the try
blocks around the current call, because the recursive call of `executeNextStep` is
inside the try block of the step before it. `plan` may be edited at any time, and
an invocation keeps the steps it was started with. `mixed` is history: whether the
premise of an undisturbed walk is gone; `lost` is the profiles an invocation has
dropped in a failed call or a crash while no delayed job stood behind them. The statuses
draft, paused and completed are one, as the code never tells them apart. Not modelled:
`retryFailedExecution` (it has no caller), the transactions of create and update, the
log of actions, and branches to an earlier step. `PendingIsCarried`: whatever overlaps and
whatever fails, a pending execution is in the hands of an invocation or in a delayed
job, unless it is in `lost`; what a delayed job has carried no crash strands, and what an
invocation held that came from a start, a crash does. `ActionsFollowPlan`: a profile's
actions are a path through the plan it was started with.

### Indexer

The indexer and the `replay` command are processes of their own with a channel and
a writer each. A routing is an event and the moment of its routing, which is part
of the conflict key of `wallet_events` (`router.rs:114`), so that routing an event
again is another row. `rows` is a bag, as only the conflict clause keeps rows apart.
`sent`, `dropped` and `killed` are history. A handler either accepts its
event or returns an error (`Rejected`). A failed insert may have been committed.
The table is that of the indexer's own migration; the BFF's migration makes one
without the constraint the conflict clause names, and `EventListeners` models that.

`EventStore` is the promise, in five sets: what was taken, is pending, stored, shelved or
lost. It is implemented (`ImplementsEventStore`): only what a router has sent gets into
the table, the letters of the writer and the losses, a routing leaves memory only for
one of these, and neither a repeated insert, a fallback, a crash nor a replay
takes any of it out again.

### WebhookDelivery

One event, as ids are independent of each other. `client` is the dispatcher, `req`
the handler of each attempt in the BFF; a handler does not notice that its client
has gone, so `NotAnswered` may happen at any time of a wait. The lifetime of the
Redis key (24 hours) exceeds any sequence of retries and is left out.

### EventListeners

A payload is what was posted: its kind, its type name and its fields. `Deliver`
emits it and starts a task for each listener of a name that is really emitted; a
task goes through its awaits one by one. `muddled` is history: overlapping
recalculations, tags saved during the hourly job, a failure, an event without a
profile. `ListenersSafety` joins `ScoreIsCurrent` (the score lags only after an
overlap or a failure), `ManualTagsKept` and `OnlyWhalesStart`: the only events that
start a campaign or write a notice are whale alerts, since every other name the
rules, the score and the triggers look for is spelt otherwise than it is posted.

### QuestClaims, BroadcastSend, GdprDeletion, SegmentFeeds, VaultSecrets

Small modules of one shape: the rows, a record per running handler or job with what
it has read, an action per await, and failures that end a handler at any point.

* `QuestClaims`. One quest and profile. `row` counts the rows a step has had, which
  is their identity. `CompletionIsEarned`: no overlap completes a quest before every
  step has had its row. `OneRewardAlone`: without an overlap or a review it is
  announced once. Of two claims that end together at least one counts both rows.
* `BroadcastSend`. `sent` is what an adapter accepted, `delivered` what a row says.
  `OneMessagePerOrder`: a target gets no more messages than sends were pressed and
  schedules written, whatever fails or overlaps. `SentIsRecorded`: 'sent' has a
  delivery behind it. What is due leaves the queue; 'sending' stays only after a failure.
* `GdprDeletion`. `left` is the time to `gdprScheduledAt`, `waited` the time since
  the request. `ErasedAfterGrace` and `LogsAgree` hold but for a cancellation written
  after its check had expired (`late`); every pending deletion ends, although a
  failing query ends the process and with it the interval.
* `SegmentFeeds`. `told` is who is in the segment by the events since the baseline
  was set. `ListenersKeepUp`: it is the baseline, while both kinds of trigger are
  on. The members are again and again those of the rules, though the evaluation
  clears and fills in two statements and loses those added by hand.
* `VaultSecrets`. `JobsActInTime`: a lock opens early only by a member's hand or by a
  job that found other content under the id it read. `ReplacesWhatWasSeen`: an
  update with a version replaces the content its client saw. `OneNoticePerLock`.

### SegmentRules

The form as a list of groups of conditions, where a typed value is known by the
field it was typed for; the row with what the form or a client of the API saved;
and the evaluations as functions of the row and the profiles. `SavedFits`: whatever
the order of choices, a saved condition has an operator and a value of its field.
`FindsWhatIsMeant`: splitting a rule over three queries and joining the answers
finds nobody the rule does not mean, and everybody it means but for two shapes: two
token balances under AND (one row would have to be both) and `not_has_role` (who has
no linked account has no row). The engine of the Rust core knows other operator names
and is TRUE for every condition but tags. Evaluation is of rules of a client only:
the form saves `groups`, and both evaluators read `conditions` at the top.

### DealPipeline

The rows of a deal and its escrow in the mode in which the code works, the dry run.
A handler holds what it read (`base`) until it writes. `WritesOverWhatItRead`: a deal
is written only over the row its handler read. `stale` is history: an escrow
row was written by a call that had computed it from an older one. Without that,
`TotalIsShared` (releases and refund do not exceed the total), `OnlyVotesEndDisputes`
and `AutoReleaseIsWhole` (a won deal pays out all that is left, or nothing).

### AgentCalls

Counters with and without an expiry, requests between their calls, usage that is
logged and charged after the answer, one followed plan. The guard names the user's
counter after `user.id`, which a token does not have, so one counter serves all
users. A workspace whose settings hold a key of its own is not held to the quota, and its
calls are charged to the same row as the others; `PUT /agent/config` sets the key or the
quota at any time, under calls that have passed the check. `paid`, `peak` and `top` are
history since the last reset: what was charged for calls with the platform's key, the
most of them under way at one time, and the highest quota. `WindowHoldsLimit`,
`CounterExpires` (unless cut off between INCR and EXPIRE), `OverrunIsBounded` (`paid`
stays below `top` and the price of `peak` calls), `PlanRunsOnce` (unless executions
overlap or are cut off). What a call is charged is any amount up to `Cost`, nothing
included: the column has two digits, so a call of less than half a cent adds nothing,
and the bound is on what is charged and not on what the model costs.

### Sessions

The browser has two cookies, a tab its stores. A cookie changes when the answer
arrives, with what the server found before. Requests refused together share one
refresh. `OneFirstWorkspace`: one workspace of one's own, but for first logins that
overlap. `SessionsEndForCause`: a tab is logged out by its user or because the
refresh it waited for was refused or lost.

### ProfileCluster

Wallets of profiles, rows that belong to one profile (`Record`) or once per key
(`Tie`), checks that are followed by a write (`claims`, `merges`, `domains`). `odd` is
history: what explains an exception. The transaction of a merge is one step.
`OneVerifiedOwner`: two verified owners of an address, and so a candidate for a merge,
come only from claims that were under way together. `ArchivedAreEmpty`, `MergesKeepAll`:
what a merge moves ends at a living profile and nothing of it is lost, but for a
verified address that the target had added unverified. A merge does not move step
completions of quests, wallet balances, engagement snapshots, deletion logs and gas
grants.

### PageCache, ApiCalls, ChainCalls

The seams between programs that are written apart. `PageCache` has the queries and
mutations of the hooks as records and a page as the set of them it mounts; presses,
answers, invalidations, refetches, failures and returns to the window interleave.
`OldForCause`: once nothing is under way a page shows what the server has, but for
the keys listed in `Gaps` and the summary that Redis keeps for 60 seconds. A query reads
every table its handler reads, so an edit or a pause of a campaign also makes its
statistics old, of which the page shows nothing that changes. `ApiCalls`
routes each call of each hook through the routes in the order they are registered and
through the whitelist of its DTO. `CallsAreServed`: all but the hooks in `Unserved`
reach the handler they mean with all they send. `ChainCalls` compares each builder's
arguments with the parameters of the Move function it names, and with the kind of
id the rows hold. `RowsFollowTheChain`: a refused transaction leaves no row, and it
says which operations fail for their id alone and which for more.

`Gaps` and `Unserved` are the exceptions the code has today, so that the runs report
any further hook that fails; `OnlyTheId` is exact in both directions.

## 3. Runs

| Run | Instance | What it shows |
|---|---|---|
| `escrow` | two parties with five schedules, time up to 5; or up to three arbitrators, threshold up to 2, time up to 2 | books balance, custody follows the state, vesting never pays ahead and at last pays all, no refund before the expiry, only votes that split keep a dispute from a decision, the dispute record fits the state, the outcome follows the tally, a dispute freezes the money, `EscrowCustody` is implemented |
| `escrow_one_vote` (violated) | three arbitrators | an arbitrator is tallied twice |
| `quest_badge_one_valid` (violated) | one quest | two valid badges of one quest |
| `indexer` | three events on two checkpoints, three failures, one replay | nothing handed to a writer is lost, one row per routing, `EventStore` is implemented, no gap after crashes |
| `indexer_restart` (violated) | one event, one crash | a restart stores an event twice |
| `indexer_replay` (violated) | one event, two failures, one replay | a replayed letter's event is nowhere |
| `webhook_at_most_once` (violated) | two attempts, no failures | an event is emitted twice |
| `services` | webhook, quests, broadcasts, GDPR, segments, vault and workflows within three bounds, one at a time | `OnlyRacesDuplicate`, `DeliveredIsEmitted`, `QuestSafety`, `CastSafety`, `GdprSafety`, `ListenersKeepUp`, `VaultSafety`, `PendingIsCarried`, `ActionsFollowPlan`; every service gets its work done (`WorkIsDone`) |
| `records` | badges, deals, agents, sessions, pages, calls, chain legs, events, profiles and rules, one at a time | `EntryLeadsToBadge`, `CopiesPaidByRevocations`, `DealSafety`, `AgentSafety`, `SessionSafety`, `OldForCause`, `CallsAreServed`, `RowsFollowTheChain`, `ListenersSafety`, `ClusterSafety`, `MergesKeepAll`, `RulesSafety` |
| `session_workspace` (violated) | one tab, two workspaces | after a switch and an expiry the tab shows another workspace than it reads |
| `api_as_tested` (violated) | the hooks of three manual tests | none of the three calls is served |
| `events_as_tested` (violated) | a stake, a trade, a login | none leads to what the tests and the roadmap name |

Bounds of `escrow`. Three arbitrators with threshold two allow a majority, a
minority and a split; time 0 to 5 passes the lock, the cliff, the end of the
schedule, the claim window and the expiry, with `MIN_LOCK` and the window scaled to 1
and 2. `MCBounds` keeps the two halves apart: with arbitrators the amounts are 0 and 2
and there is no schedule, as votes and commitments make the states there, and
without them a dispute is raised and never decided.

Bounds of `services`. Webhook: three attempts let a late handler meet two later ones;
two failures. Quests: two handlers on two steps, so each may be the last; four calls,
one failure. Broadcasts: two emails and a channel, one request beside the job, two
orders, one edit, two failures, so that the failure handler fails too. GDPR: two
profiles, as one of them blocks the other; a grace of two ticks and a day of two. Segments: two profiles,
two changes, one toggle, one failure. Vault: two uploads and time up to 1, so that a
lock may be due, replaced and due again. Workflows (`Within`): `overlap` has one profile,
two invocations and two starts (a third start could only repeat the second), and after
the second the status changes only by an activation (`StatusMatters`);
`edits` two profiles under one invocation while steps are edited; `restarts` one
profile, two starts and a failure. The plans have a branch, delays, a delayed step that
may be skipped and an unknown action.

Bounds of `records`. Badges: three badges and two revocations of a key with two quests
and users allow mint, revoke, mint, burn. Deals: two handlers, a total of two and
releases of one, so two releases fill the escrow and a third oversteps it. Agents: limits of one and
two, a quota of one call that may be raised to two or taken away, three requests, one month
or one failure (`AgentBounds`). Sessions: two tabs with one
request each, two workspaces, one expiry, one loss. Pages: every page with two
presses, one return to the window, one failure. Calls and chain legs: all of them, in
any order, each by itself. Events: two units of work, an event or the hourly
recalculation, and one save of tags. Profiles: two profiles, two addresses and four
changes, enough for two claims that race and a merge after them. Rules: four changes of the form
(a condition completed and its field changed again), or up to three conditions of a
client over three profiles chosen to differ in each field. Handlers and tabs are symmetric.

Bounds of `indexer`. Three failures are what it takes to lose an event without a
crash (batch, single insert, dead letter), and channel 1 and batch 2 make both a
full channel and a partial batch. The workers of the indexer meet only in the
channel; the restart run has two, the larger run one.

`CHECK_DEADLOCK FALSE` is set where the system stops: an escrow that is paid out, the
end of the chain, the end of a delivery, a deleted secret, a saved segment.

Fairness. The services have it where a process goes on by itself: weak fairness on
each running handler (the event loop resumes it when its query is answered), on each
repeated job (BullMQ or the interval fires again), on the dispatcher, whose client
has a timeout, and on the GDPR clock; strong fairness on resuming a delayed
workflow job, as the one worker of that queue is busy and free in turns and BullMQ
keeps the job. None on requests, clicks, crashes or failures. In `MCServices` tasks of
different services share a condition (`FirstTask` to `FourthTask`), which asks the
same of each, since the focus never changes. `WorkIsDone` is `[]<>Done`: nothing is due,
pending or half filled again and again. For a quest or broadcast `Done` excuses what a
failure cut off, since no job picks it up; for deletions, segments and secrets it
excuses nothing. `Indexer`: weak fairness on every task of a process that
runs, on the executor and on starting the indexer again after a crash, which is the
supervisor's part; none on `replay`, which a person starts. The escrow, the badges
and the components of `records` have none: all they do is asked for.

Findings, each with the line it contradicts in `PROJECT.json`:

1. `reveal_vote` does not see direct votes: one arbitrator counts twice.
2. Burning a revoked badge frees the entry of its successor.
3. The checkpoint is never written and rows are unique only by time of routing:
   a restart stores every event again.
4. `replay` marks letters before its writer has stored them, and then exits.
5. The webhook's idempotency check and mark are two calls: a retry may repeat an
   event.
6. A refresh answers for the oldest membership, so a switch of workspace lasts 15
   minutes.
7. The page of a broadcast has no route, a vote is sent under another name than
   its DTO has, and the body of a stored secret is stripped of every field.
8. Rows of posted events have other type names than the rules count, the emitter has
   no wildcards, a login has another name than its triggers, and the threshold of a
   workspace is compared with a field the event has elsewhere.

Also seen, without a run of their own:

* `release_vested` lacks the minimum lock of `release`, and a schedule without cliff
  pays at once (`docs/security/architecture.md:211` speaks of the lock without this
  exception).
* The rules the form saves can be evaluated by neither engine
  (`test/manual/06-segments.md` expects the members that match).
* Tags a member saves are in the cached summary for 60 seconds more
  (`profile.controller.ts:70`; `test/manual/04-profiles.md:99`); a refresh of a segment does not
  name the key of its page (`use-segments.ts:79-89`; `test/manual/06-segments.md:91`), nor do
  the wallet buttons that of the profile's domains.
* Whale notices are written for the profile's id as `userId`, so no member's list
  shows them, and the listener of the gas sponsor waits for an event nobody emits.
* Outside the dry run no chain leg succeeds: workspace ids are row uuids, creates leave
  a value unused, some functions named do not exist, and an escrow's row has no
  column for its object, so that funding refuses and releases write rows alone.
* On the canvas of a workflow (`workflow-canvas.tsx:69-88`) a connection back to an
  earlier node makes `flowToSteps` loop for ever, and the palette's `wait_delay` is an
  action the engine does not know.

## 4. Proofs

For every value of the constants (within their assumptions, which are the `ASSUME`s of
the modules and are evaluated by the runs). In each case an inductive invariant is
proved to hold initially and to be kept by every action, and the property follows from
it; where the property is about steps, from the invariant and the action.

* `EscrowProofs`. The inductive invariant `IInv` is the type invariant, the books
  (`AccountingIdentity`), `CustodyMatchesState`, `DisputeRecordMatchesState`,
  `OutcomeFollowsTally` and `StateHistory`. None of them is inductive alone: that a
  payment leaves the right state needs the books, that a vote pays out the whole
  remainder needs the custody, that a dispute may be raised needs the record, and
  `StateHistory` says that an unfunded escrow has
  moved nothing and a live one has refunded nothing. From it follow the
  invariants the runs check. `NextMoneyStep` then sums up every way in which a
  step moves money, and the action properties `NoRefundBeforeExpiry` and
  `DisputeFreezesFunds` and the refinement of `EscrowCustody` follow from this
  summary rather than from the twelve actions each.
  `VestedNeverAhead` and `FullyVestedPaysAll` rest on lemmas about the schedule: the sum of the
  completed milestones is a number and grows with every completion (`SumsGrow`), what
  is vested grows with time and completion despite the floor division
  (`VestedGrows`, `MilestoneVests`), and never exceeds what was funded. The sum is a recursive
  function; induction over its index is by the least counterexample (`Least`), as the
  natural numbers are well-founded. `Ahead` strengthens `VestedNeverAhead` to escrows
  without a schedule. `LocksExplained` is about cardinalities: who may not vote
  any more is in a tally (`VotersAreFew`), so votes cast and votes to come are at least as many
  as the arbitrators, and one of the sides can still reach a threshold of at most a majority
  (`SideCanDecide`). It needs the addresses to be finitely many, as those of a ledger are.
* `IndexerProofs`. A routing that was sent is waiting in a channel or a batch, stored,
  or a dead letter, unless it was killed or dropped (`NoneLost`). That it is kept needs who
  may be working (`RoutersBusy`, `WritersBusy`), that what is in memory was sent
  (`KnownSent`), and how many failures the writer's fallback has cost
  (`FailuresCounted`), since `NothingLost` allows a drop only after three. The refinement
  of `EventStore` is a lemma for each of the actors: what a router adds to the store
  (`RouterStores`), what a writer inserts, shelves or loses (`WriterStores`), what the end
  of a process loses (`EndLoses`), and that a mark takes no letter from the shelf
  (`MarkRests`). In the abstract store nothing is made up and nothing vanishes, which is
  two lines to prove there; through the refinement the indexer has it too: what
  was handed over is exactly what is in memory, in the table, on the shelf or lost
  (`SentIsAccountedFor`).
* `CampaignProofs`. `PendingIsCarried` needs the shape of an invocation
  (`Orderly`): a profile is in its hand or on its list and never in both; then each failure
  either leaves the profile with somebody or puts it among the lost (`StillCarried`,
  `HandedOutAgain`).
  `ActionsFollowPlan` needs `Follows`: a profile whose walk is undisturbed is held by one
  invocation at most, or by one delayed job, with the plan it was started with, and
  the row, the trail and the place in the code agree on the step it is at
  (`HeldWell`, `QueuedWell`). Each action is a lemma for the profile it is about, and
  `SameRow`, `SameQueue`, `SameHold` say what it leaves to every other.
* `ServiceProofs`. Webhook: the mark outlives whoever set it (`MarkIsKept`), and without
  a race at most one emission has happened or is under way (`OneOnTheWay`), which gives
  `OnlyRacesDuplicate` and `DeliveredIsEmitted` for any number of retries and failures.
  Quests: who awards has seen every row (`Earned`), and without
  an overlap one handler at most is active (`Alone`). Broadcasts: for each place of the
  list, messages sent, about to be sent and on the plan are covered by orders, and rows by
  messages (`Covered`); this counts the running senders, so it is about cardinalities of
  sets of handlers. Deletions: the log and the status agree and the run's list is of
  due profiles, unless cancelled late (`Pending`, `Listed`). Segments: `ListenersKeepUp` is
  inductive with the types of the diff's steps. Vault: nobody knows an id or an upload that
  does not exist (`Known`), equal versions mean equal content (`Seen`), what a job
  found is due (`FoundDue`), and notices sent and to come are covered by locks
  (`Announced`).
* `RecordProofs`. Badges: the two properties are inductive with the finiteness of the
  badges ever issued, without which copies cannot be counted; each action moves both sides
  of the bound on copies together. Deals: a call that names the present version has seen the present
  row (`CallsSawDeal`), and a call on the present escrow row writes what the state machine
  allows (`EscrowInLaw`, `Lawful`). Agents: requests passed and passing fit the
  counter and the limit (`WindowsCounted`); what is paid, and what is owed for calls under way at
  their full price, stay below the highest quota and the price of the most calls under way,
  as the row counts whatever was paid and the quota in force is at most the highest
  (`CallsOwed`, `RowMakesSense`); one execution at a time unless noted (`PlanFollowed`), and what a
  counter holds and is about to get is of as many requests (`CountedOnce`). Sessions:
  first logins under way are paid for by overlaps (`FoundersCounted`), and whoever has a
  session, a login or a refresh on its way is a member somewhere (`SessionsAreMembers`),
  without which a refresh would have no workspace to answer for.
  Profiles: two owners or claims of an address are noted as an overlap (`ClaimsNoted`,
  `OwnersNoted`). Listeners: one recalculation writes at a time (`OneRuns`) and has read all
  rows unless another is about to begin (`ScoresInHand`), and what listeners hear follows from
  the names that are posted (`WhalesOnly`).
* `PageProofs`. `PagesLinked` is the static half: for each of the pages, every button
  renews the queries whose tables it writes, or is in `Gaps`. The dynamic half,
  `DirtyForCause`, says that data that will stay old has a cause that is noted, or a
  mutation under way that will renew it. Rules: what the form holds fits its field
  (`Chosen`), so what it saves does, for any sequence of edits; and the split over three queries
  finds whom the rule means, for any people, names and numbers and any number of conditions.
  Calls: the route a call is given is the first that matches, which is a place of the list.
  Chain legs: what is wrong with a transaction does not depend on the state (`FaultsOfLegs`).
  The builders of seven operations name a function that exists, takes what it is given and
  returns nothing (`Exact`), and four of those name the workspace by the id of a row
  (`LegsById`); every other builder names no function, miscounts the arguments, or drops
  the object it is returned (`LegsThatFail`).
* `ServicesTogether` and `RecordsTogether`. A step of a composition is a step of one
  component and a stutter of every other (`EachServiceBehaves`, `EachRecordBehaves`), so
  that what is proved of each component alone holds of all of them together, the type
  invariants `ServiceTypes` and `RecordTypes` among it. The theorems about components assume
  neither fairness nor the bounds of a run, which only restrict the composition.

Some definitions are written for the provers as well as for TLC: the sum of milestones
as a recursive function, the type names of events as literals and not
as concatenations, typed values as a set of at most one field.

`Escrow`'s next-state relation guards every action but creation with
`state # "ABSENT"`, which the proofs use to set creation apart.

Only model-checked:

* All liveness (`WorkIsDone`, `NoDataGap` and what they join): out of reach of the
  provers here.
* `CallsAreServed`: its module has no parameters, the run looks at every call, and a proof
  would be the same enumeration, of some hundred and fifty calls against as many routes in
  the order of their controllers, which the provers do not compute. What does not depend on
  the enumeration, the types, is proved.
* The properties that runs find violated, which are not theorems.

## 5. Plan

What is left: the refinement of further abstract specifications (a broadcast as a
multiset of orders and messages; a versioned row as a register that is compared and
set), and `CallsAreServed` if the routes gain parameters.

## 6. Not modelled

* The bodies of `crm_core`, `crm_data`, `crm_vault`, airdrop and reward. `Workspace` has
  only the ability `key`; `workspace::create` returns it by value, and the one
  `share_object` of `crm_core` (`capabilities.move:61`) is of `GlobalConfig`. So no
  transaction can keep a workspace, and every function that takes one is reachable
  only in the packages' tests, which destroy it. `PauseProposal`, `RateLimitConfig` and
  `PerUserRateLimit` are in the same position. Their signatures are in `ChainCalls`.
* Tickets, notes, comments, templates, workspace settings: single writes without a
  version, with no second actor that reads them.
* Messaging, notifications, social links, the adapters of channels: calls of external
  services, with one row for each.
* Galleries, timelines, net worth, look-alike segments, analytics, the guessing of
  clusters by funding: they read. The gRPC services of the Rust core and the BFF's
  client for them are stubs.
* Infrastructure (cache module, filters, interceptors, logging, clients), schemas,
  migrations, deployment: configuration, read for keys, uniqueness and restart policy.
* Of the frontend: markup, charts, the editor of a workflow and every form but that of
  segment rules; they keep what is typed until one call is made.
* What an event handler of the indexer computes, signatures and HMACs, the content of
  messages, prompts and secrets.
