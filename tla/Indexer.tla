------------------------------- MODULE Indexer -------------------------------
(***************************************************************************)
(* The event indexer of packages/indexer: workers route the events of a    *)
(* checkpoint one by one into a bounded channel and notify the BFF, a      *)
(* single writer task collects the channel into batches and inserts them,  *)
(* and what cannot be inserted or delivered goes to a dead-letter table    *)
(* that the `replay` command routes again, in a process of its own.        *)
(* Tables survive the end of a process; channel, batch and workers do not. *)
(***************************************************************************)
EXTENDS Integers, Sequences, Bags, BagsExt, SequencesExt

CONSTANTS
  Event,      \* events the indexer takes from the chain
  Rejected,   \* the ones whose handler returns an error
  Whale,      \* the ones of at least the whale threshold
  Chain,      \* the checkpoints of the chain, each a sequence of events
  Worker,     \* concurrent workers of the ingestion executor
  Cli,        \* the routing loop of the replay command
  Capacity,   \* of the channel to the writer
  BatchSize,
  MaxReplays, \* bound on the runs of the replay command
  MaxFaults   \* bound on failed calls and crashes

ASSUME IndexerAssumption ==
  /\ Rejected \subseteq Event /\ Whale \subseteq Event
  /\ Chain \in Seq(Seq(Event)) /\ Cli \notin Worker
  /\ Capacity \in Nat \ {0} /\ BatchSize \in Nat \ {0}
  /\ MaxReplays \in Nat /\ MaxFaults \in Nat

Router  == Worker \union {Cli}
Process == {"indexer", "replay"}
Host(r) == IF r = Cli THEN "replay" ELSE "indexer"

VARIABLES
  up,       \* the processes that run
  run,      \* how often each process was started
  next,     \* next checkpoint the executor hands out
  work,     \* by router: the items left of its checkpoint or replay, and its step
  chan,     \* by process: channel to the writer
  batch,    \* by process: the writer's batch
  wpc,      \* by process: where the writer is
  rows,     \* wallet_events: a bag of routings
  letters,  \* dead_letter_events, by creation
  faults,   \* failed calls and crashes so far
  sent,     \* history: routings handed over to a writer
  dropped,  \* history: routings neither inserted nor dead-lettered
  killed    \* history: routings that were in memory when their process ended

memory == <<chan, batch, wpc>>
tables == <<rows, letters>>
vars == <<up, run, next, work, memory, tables, faults, sent, dropped, killed>>

\* An item is an event and the dead letter it is replayed from (0: none).  A
\* routing is the event with what sets its timestamp apart from the event's
\* other routings: time is the moment of the routing, not of the event.
Item(e, letter) == [event |-> e, letter |-> letter]
Routing(r) == [event |-> Head(work[r].todo).event,
               time  |-> <<run[Host(r)], Head(work[r].todo).letter>>]
DeadLetter(e, time, source) ==
  [event |-> e, time |-> time, source |-> source, replayed |-> FALSE]
Resting == [todo |-> <<>>, pc |-> "idle"]

Init ==
  /\ up = {"indexer"}
  /\ run = [p \in Process |-> IF p = "indexer" THEN 1 ELSE 0]
  /\ next = 1
  /\ work = [r \in Router |-> Resting]
  /\ chan = [p \in Process |-> <<>>] /\ batch = [p \in Process |-> <<>>]
  /\ wpc = [p \in Process |-> "recv"]
  /\ rows = EmptyBag /\ letters = <<>>
  /\ faults = 0 /\ sent = {} /\ dropped = {} /\ killed = {}

Fault == faults < MaxFaults /\ faults' = faults + 1
Goto(r, pc) == work' = [work EXCEPT ![r].pc = pc]
\* The router is through with the item at hand.
NextItem(r) ==
  work' = [work EXCEPT ![r] = [todo |-> Tail(@.todo),
                               pc |-> IF Len(@.todo) = 1 THEN "idle" ELSE "route"]]

-----------------------------------------------------------------------------
(* Routing.                                                                *)

\* The executor hands out checkpoints in order to whichever worker is free.
TakeCheckpoint(w) ==
  /\ "indexer" \in up /\ work[w].pc = "idle" /\ next <= Len(Chain)
  /\ next' = next + 1
  /\ work' = [work EXCEPT ![w] =
       IF Chain[next] = <<>> THEN Resting
       ELSE [todo |-> [i \in DOMAIN Chain[next] |-> Item(Chain[next][i], 0)],
             pc |-> "route"]]
  /\ UNCHANGED <<up, run, memory, tables, faults, sent, dropped, killed>>

\* A handler's error is logged: a worker goes on with the next event, and the
\* replay command leaves the letter as it is.
Reject(r) ==
  /\ work[r].pc = "route" /\ Head(work[r].todo).event \in Rejected
  /\ NextItem(r)
  /\ UNCHANGED <<up, run, next, memory, tables, faults, sent, dropped, killed>>

\* The send waits for room in the channel.
Send(r) ==
  LET p == Host(r)
      e == Head(work[r].todo).event
  IN  /\ work[r].pc = "route" /\ e \notin Rejected
      /\ Len(chan[p]) < Capacity
      /\ chan' = [chan EXCEPT ![p] = Append(@, Routing(r))]
      /\ sent' = sent \union {Routing(r)}
      /\ Goto(r, IF e \in Whale THEN "alert" ELSE "webhook")
      /\ UNCHANGED <<up, run, next, batch, wpc, tables, faults, dropped, killed>>

\* A webhook is behind, answered or given up.
Notified(r) ==
  IF work[r].pc = "alert" THEN Goto(r, "webhook")
  ELSE IF r = Cli THEN Goto(r, "mark")
  ELSE NextItem(r)

Notify(r) ==
  /\ work[r].pc \in {"alert", "webhook"}
  /\ Notified(r)
  /\ UNCHANGED <<up, run, next, memory, tables, faults, sent, dropped, killed>>

\* Retries are exhausted, and the letter is inserted or that fails as well.
NotifyFails(r) ==
  LET source == IF work[r].pc = "alert" THEN "alert_webhook" ELSE "webhook"
  IN  /\ work[r].pc \in {"alert", "webhook"}
      /\ Fault
      /\ Notified(r)
      /\ \/ letters' = Append(letters, DeadLetter(Routing(r).event, Routing(r).time, source))
         \/ UNCHANGED letters
      /\ UNCHANGED <<up, run, next, memory, rows, sent, dropped, killed>>

-----------------------------------------------------------------------------
(* The batch writer.                                                       *)

\* Slip: one too many.
Overfull(b) == Len(b) > BatchSize
Full(b) == Len(b) >= BatchSize

Receive(p) ==
  /\ p \in up /\ wpc[p] = "recv" /\ chan[p] # <<>>
  /\ batch' = [batch EXCEPT ![p] = Append(@, Head(chan[p]))]
  /\ chan' = [chan EXCEPT ![p] = Tail(@)]
  /\ wpc' = [wpc EXCEPT ![p] = IF Full(batch'[p]) THEN "multi" ELSE "recv"]
  /\ UNCHANGED <<up, run, next, work, tables, faults, sent, dropped, killed>>

TimerTick(p) ==
  /\ p \in up /\ wpc[p] = "recv" /\ batch[p] # <<>>
  /\ wpc' = [wpc EXCEPT ![p] = "multi"]
  /\ UNCHANGED <<up, run, next, work, chan, batch, tables, faults, sent,
                 dropped, killed>>

\* ON CONFLICT (time, tx_digest, address) DO NOTHING.  Slip: without it.
InsertedAnyway(R) == rows (+) SetToBag(R)
Inserted(R) == rows (+) SetToBag(R \ BagToSet(rows))

\* One statement for the whole batch.  When the call fails, the database may
\* have committed it or not, and the rows are inserted one by one.
MultiRowInsert(p) ==
  /\ wpc[p] = "multi" /\ p \in up
  /\ \/ /\ rows' = Inserted(ToSet(batch[p]))
        /\ batch' = [batch EXCEPT ![p] = <<>>]
        /\ wpc' = [wpc EXCEPT ![p] = "recv"]
        /\ UNCHANGED faults
     \/ /\ Fault
        /\ rows' \in {rows, Inserted(ToSet(batch[p]))}
        /\ wpc' = [wpc EXCEPT ![p] = "single"]
        /\ UNCHANGED batch
  /\ UNCHANGED <<up, run, next, work, chan, letters, sent, dropped, killed>>

\* The fallback is through with the first of its rows.  Slip: it stops there.
FallbackStops(p) ==
  /\ batch' = [batch EXCEPT ![p] = <<>>]
  /\ wpc' = [wpc EXCEPT ![p] = "recv"]
FallbackNext(p) ==
  /\ batch' = [batch EXCEPT ![p] = Tail(@)]
  /\ wpc' = [wpc EXCEPT ![p] = IF Len(batch[p]) = 1 THEN "recv" ELSE "single"]

IndividualInsert(p) ==
  LET b == Head(batch[p])
  IN  /\ wpc[p] = "single" /\ p \in up
      /\ \/ rows' = Inserted({b}) /\ FallbackNext(p) /\ UNCHANGED faults
         \/ /\ Fault
            /\ rows' \in {rows, Inserted({b})}
            /\ wpc' = [wpc EXCEPT ![p] = "letter"]
            /\ UNCHANGED batch
      /\ UNCHANGED <<up, run, next, work, chan, letters, sent, dropped, killed>>

InsertDeadLetter(p) ==
  LET b == Head(batch[p])
  IN  /\ wpc[p] = "letter" /\ p \in up
      /\ FallbackNext(p)
      /\ \/ /\ letters' = Append(letters, DeadLetter(b.event, b.time, "batch_writer"))
            /\ UNCHANGED <<faults, dropped>>
         \/ Fault /\ dropped' = dropped \union {b} /\ UNCHANGED letters
      /\ UNCHANGED <<up, run, next, work, chan, rows, sent, killed>>

-----------------------------------------------------------------------------
(* Processes.                                                              *)

\* The process ends, by itself or not: all it has in memory is gone.
Ends(p) ==
  /\ p \in up
  /\ up' = up \ {p}
  /\ killed' = killed \union ToSet(chan[p]) \union ToSet(batch[p])
  /\ chan' = [chan EXCEPT ![p] = <<>>] /\ batch' = [batch EXCEPT ![p] = <<>>]
  /\ wpc' = [wpc EXCEPT ![p] = "recv"]
  /\ work' = [r \in Router |-> IF Host(r) = p THEN Resting ELSE work[r]]

Crash(p) ==
  /\ Ends(p) /\ Fault
  /\ UNCHANGED <<run, next, tables, sent, dropped>>

\* get_last_checkpoint reads a row that nothing updates: update_checkpoint has
\* no caller.  Slip: the executor goes on where it had got to.
ResumeAtNext == next
StartCheckpoint == 1

Boot(p) ==
  /\ p \notin up
  /\ up' = up \union {p}
  /\ run' = [run EXCEPT ![p] = @ + 1]

RestartIndexer ==
  /\ Boot("indexer")
  /\ next' = StartCheckpoint
  /\ UNCHANGED <<work, memory, tables, faults, sent, dropped, killed>>

\* `replay` lists the letters not replayed yet, of one source or of all, as they
\* were created.
StartReplay(sources) ==
  LET open == {i \in DOMAIN letters : ~letters[i].replayed /\ letters[i].source \in sources}
  IN  /\ Boot("replay") /\ run["replay"] < MaxReplays /\ open # {}
      /\ \E n \in DOMAIN letters : \E list \in [1 .. n -> open] :
           /\ Range(list) = open /\ \A i, j \in 1 .. n : i < j => list[i] < list[j]
           /\ work' = [work EXCEPT ![Cli] =
                [todo |-> [k \in DOMAIN list |-> Item(letters[list[k]].event, list[k])],
                 pc |-> "route"]]
      /\ UNCHANGED <<next, memory, tables, faults, sent, dropped, killed>>

\* Slip: a letter that has been replayed is deleted.
Discarded(i) == RemoveAt(letters, i)
Marked(i) == [letters EXCEPT ![i].replayed = TRUE]

MarkReplayed ==
  /\ work[Cli].pc = "mark"
  /\ letters' = Marked(Head(work[Cli].todo).letter)
  /\ NextItem(Cli)
  /\ UNCHANGED <<up, run, next, memory, rows, faults, sent, dropped, killed>>

\* The command returns after its last letter, or when a letter cannot be
\* marked; it does not wait for its writer.
ReplayEnds ==
  /\ work[Cli].pc = "idle" /\ Ends("replay")
  /\ UNCHANGED <<run, next, tables, faults, sent, dropped>>

MarkFails ==
  /\ work[Cli].pc = "mark" /\ Fault /\ Ends("replay")
  /\ UNCHANGED <<run, next, tables, sent, dropped>>

-----------------------------------------------------------------------------

Sources == {"batch_writer", "webhook", "alert_webhook"}

RouterStep(r) == Reject(r) \/ Send(r) \/ Notify(r) \/ NotifyFails(r)
WriterStep(p) ==
  Receive(p) \/ TimerTick(p) \/ MultiRowInsert(p) \/ IndividualInsert(p)
  \/ InsertDeadLetter(p)
TakeSome  == \E w \in Worker : TakeCheckpoint(w)
ReplayStep == MarkReplayed \/ MarkFails \/ ReplayEnds

Next ==
  \/ TakeSome
  \/ \E r \in Router : RouterStep(r)
  \/ \E p \in Process : WriterStep(p) \/ Crash(p)
  \/ RestartIndexer
  \/ \E S \in {Sources} \union {{s} : s \in Sources} : StartReplay(S)
  \/ ReplayStep

Spec == Init /\ [][Next]_vars

\* The runtime polls every task that can go on; the timer of the writer ticks;
\* the operator starts a stopped indexer again.  Nobody has to run `replay`.
Fairness ==
  /\ WF_vars(TakeSome) /\ WF_vars(RestartIndexer) /\ WF_vars(ReplayStep)
  /\ \A r \in Router : WF_vars(RouterStep(r))
  /\ \A p \in Process : WF_vars(WriterStep(p))
FairSpec == Spec /\ Fairness

-----------------------------------------------------------------------------
(* Properties.                                                             *)

Times == Nat \X Nat
Routings == [event : Event, time : Times]
TypeOK ==
  /\ up \subseteq Process /\ run["indexer"] <= 1 + faults /\ run["replay"] <= MaxReplays
  /\ next \in 1 .. Len(Chain) + 1 /\ faults \in 0 .. MaxFaults
  /\ \A r \in Router : /\ work[r].pc \in {"idle", "route", "alert", "webhook", "mark"}
                       /\ (work[r].pc = "idle") <=> (work[r].todo = <<>>)
                       /\ work[r].pc # "idle" => Host(r) \in up
  /\ \A p \in Process : /\ Len(chan[p]) <= Capacity
                        /\ Len(batch[p]) <= BatchSize
                        /\ wpc[p] \in {"recv", "multi", "single", "letter"}
                        /\ wpc[p] # "recv" => batch[p] # <<>>
                        /\ p \notin up => chan[p] = <<>> /\ batch[p] = <<>>
  /\ BagToSet(rows) \subseteq Routings /\ sent \subseteq Routings
  /\ dropped \union killed \subseteq sent

Waiting(b) == \E p \in Process : b \in ToSet(chan[p]) \union ToSet(batch[p])
Stored(b) == BagIn(b, rows)
Lettered(b) == \E i \in DOMAIN letters : /\ letters[i].source = "batch_writer"
                                         /\ letters[i].event = b.event
                                         /\ letters[i].time = b.time

\* What a router has handed over is in the channel, in the batch, in the table
\* or in a dead letter, unless the process ended under it; and it takes three
\* failed database calls to lose it otherwise.
NothingLost ==
  /\ \A b \in sent \ (killed \union dropped) : Waiting(b) \/ Stored(b) \/ Lettered(b)
  /\ dropped # {} => faults >= 3

\* The indexer implements the abstract store: only what a router has handed over
\* gets into the table, the letters of the writer and the losses, and all of it
\* does, save what is still in a channel or a batch; and neither a repeated
\* insert, a fallback, a crash nor a replay takes any of it out again.
Pending == UNION {ToSet(chan[p]) \union ToSet(batch[p]) : p \in Process}
Table   == BagToSet(rows)
Shelf   == {[event |-> l.event, time |-> l.time] :
              l \in {k \in ToSet(letters) : k.source = "batch_writer"}}
Losses  == dropped \union killed

Store == INSTANCE EventStore WITH
  taken <- sent, pending <- Pending, stored <- Table, shelved <- Shelf, lost <- Losses
ImplementsEventStore == Store!Spec

\* However often an insert is repeated because its answer was lost, a routing
\* has one row.
OneRowPerRouting == \A b \in BagToSet(rows) : rows[b] = 1

\* No gap: whatever crashes, every event of the chain that its handler accepts
\* is at last stored, dead-lettered or dropped.
Kept(e) == \/ \E b \in BagToSet(rows) : b.event = e
           \/ \E i \in DOMAIN letters : letters[i].event = e
           \/ \E b \in dropped : b.event = e
OnChain == {e \in Event \ Rejected : \E c \in DOMAIN Chain : e \in ToSet(Chain[c])}
NoDataGap == \A e \in OnChain : <>Kept(e)

\* What test/manual/18-indexer-webhook.md asks of a restart: no event is in
\* wallet_events twice.
NoDuplicateEvents ==
  \A b, c \in BagToSet(rows) : b.event = c.event => b = c

\* What marking a letter of the writer as replayed says: the command has put
\* its event into wallet_events, or else it is in a letter again.
ReplayedIsKept ==
  \A i \in DOMAIN letters :
    letters[i].source = "batch_writer" /\ letters[i].replayed /\ "replay" \notin up =>
      \/ \E b \in BagToSet(rows) : b.event = letters[i].event
      \/ \E j \in DOMAIN letters : letters[j].event = letters[i].event /\ ~letters[j].replayed
=============================================================================
