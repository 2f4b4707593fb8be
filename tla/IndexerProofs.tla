---------------------------- MODULE IndexerProofs ----------------------------
(***************************************************************************)
(* The safety properties of Indexer hold for any chain, any number of      *)
(* workers, any capacity and batch size, and any number of failures and    *)
(* replays.                                                                *)
(***************************************************************************)
EXTENDS Indexer, SequenceTheorems, TLAPS

Items   == [event : Event, letter : Nat]
Letters == [event : Event, time : Times, source : Sources, replayed : BOOLEAN]
Steps   == {"idle", "route", "alert", "webhook", "mark"}
Phases  == {"recv", "multi", "single", "letter"}

\* The values of each variable.
Types ==
  /\ up \subseteq Process /\ run \in [Process -> Nat]
  /\ next \in 1 .. Len(Chain) + 1
  /\ work \in [Router -> [todo : Seq(Items), pc : Steps]]
  /\ chan \in [Process -> Seq(Routings)] /\ batch \in [Process -> Seq(Routings)]
  /\ wpc \in [Process -> Phases]
  /\ DOMAIN rows \subseteq Routings /\ letters \in Seq(Letters)
  /\ faults \in 0 .. MaxFaults /\ sent \subseteq Routings

\* A router has something to do exactly when it is not idle, and only in a
\* process that runs.
RoutersBusy ==
  \A r \in Router : /\ (work[r].pc = "idle") <=> (work[r].todo = <<>>)
                    /\ work[r].pc # "idle" => Host(r) \in up

\* A process that does not run has nothing in memory; the channel and the batch
\* keep to their sizes, and a batch that is being written is not empty.
WritersBusy ==
  \A p \in Process : /\ Len(chan[p]) <= Capacity /\ Len(batch[p]) <= BatchSize
                     /\ wpc[p] = "recv" => Len(batch[p]) < BatchSize
                     /\ wpc[p] # "recv" => batch[p] # <<>>
                     /\ p \notin up => chan[p] = <<>> /\ batch[p] = <<>>

\* Starts are paid for by crashes and replays.
StartsCounted ==
  /\ run["indexer"] <= (IF "indexer" \in up THEN 1 ELSE 0) + faults
  /\ run["replay"] <= MaxReplays

\* What is in memory or gone has been sent.
KnownSent ==
  /\ \A p \in Process : ToSet(chan[p]) \subseteq sent /\ ToSet(batch[p]) \subseteq sent
  /\ dropped \subseteq sent /\ killed \subseteq sent

\* How far the writer is in its fallback tells how many calls have failed.
FailuresCounted ==
  /\ \A p \in Process : /\ wpc[p] = "single" => faults >= 1
                        /\ wpc[p] = "letter" => faults >= 2
  /\ dropped # {} => faults >= 3

NoneLost == \A b \in sent \ (killed \union dropped) : Waiting(b) \/ Stored(b) \/ Lettered(b)

IInv == /\ Types /\ RoutersBusy /\ WritersBusy /\ StartsCounted
        /\ KnownSent /\ FailuresCounted /\ NoneLost /\ OneRowPerRouting

-----------------------------------------------------------------------------
(* Sequences and bags.                                                     *)

\* The elements of a sequence that grows at its end.
LEMMA ToSetAppend ==
  ASSUME NEW S, NEW s \in Seq(S), NEW e \in S
  PROVE  ToSet(Append(s, e)) = ToSet(s) \union {e}
BY AppendProperties, LenProperties DEF ToSet

\* The elements of a sequence that is taken from at its front.
LEMMA ToSetTail ==
  ASSUME NEW S, NEW s \in Seq(S), s # <<>>
  PROVE  ToSet(s) = {Head(s)} \union ToSet(Tail(s))
<1>1. /\ Len(s) \in Nat \ {0} /\ DOMAIN s = 1 .. Len(s) /\ Head(s) = s[1]
      /\ DOMAIN Tail(s) = 1 .. Len(s) - 1
      /\ \A i \in 1 .. Len(s) - 1 : Tail(s)[i] = s[i + 1]
  BY EmptySeq, HeadTailProperties, LenProperties
<1>2. \A i \in 2 .. Len(s) : i - 1 \in 1 .. Len(s) - 1 /\ Tail(s)[i - 1] = s[i]
  BY <1>1
<1>3. ASSUME NEW x \in ToSet(s) PROVE x \in {Head(s)} \union ToSet(Tail(s))
  <2>1. PICK i \in 1 .. Len(s) : x = s[i]
    BY <1>1 DEF ToSet
  <2>2. CASE i = 1
    BY <1>1, <2>1, <2>2
  <2>3. CASE i # 1
    <3>1. i - 1 \in DOMAIN Tail(s) /\ x = Tail(s)[i - 1]
      BY <1>1, <1>2, <2>1, <2>3
    <3> QED BY <3>1 DEF ToSet
  <2> QED BY <2>2, <2>3
<1>4. {Head(s)} \union ToSet(Tail(s)) \subseteq ToSet(s)
  BY <1>1 DEF ToSet
<1> QED BY <1>3, <1>4

LEMMA ToSetEmpty == ToSet(<<>>) = {}
BY DEF ToSet

\* An insert that ignores conflicts adds what is new, with one copy each.
LEMMA InsertedRows ==
  ASSUME NEW R, OneRowPerRouting
  PROVE  /\ DOMAIN Inserted(R) = DOMAIN rows \union R
         /\ \A b \in DOMAIN Inserted(R) : Inserted(R)[b] = 1
BY DEF Inserted, (+), SetToBag, BagToSet, OneRowPerRouting

-----------------------------------------------------------------------------
(* Steps of the routers.                                                   *)

\* The items of a checkpoint.
LEMMA Checkpoint ==
  ASSUME Types, next <= Len(Chain)
  PROVE  /\ Chain[next] \in Seq(Event)
         /\ [i \in DOMAIN Chain[next] |-> Item(Chain[next][i], 0)] \in Seq(Items)
         /\ [i \in DOMAIN Chain[next] |-> Item(Chain[next][i], 0)] = <<>> <=> Chain[next] = <<>>
<1> DEFINE c == Chain[next]
<1> DEFINE items == [i \in DOMAIN c |-> Item(c[i], 0)]
<1>1. c \in Seq(Event) /\ Len(c) \in Nat /\ DOMAIN c = 1 .. Len(c)
  BY IndexerAssumption, LenProperties DEF IndexerAssumption, Types
<1>2. \A i \in 1 .. Len(c) : c[i] \in Event
  BY <1>1, ElementOfSeq
<1>3. items \in [1 .. Len(c) -> Items]
  BY <1>1, <1>2 DEF Item, Items
<1>4. items \in Seq(Items) /\ Len(items) = Len(c)
  BY <1>1, <1>3
<1> QED BY <1>1, <1>4, EmptySeq

\* What a router that is not idle has at hand, and its routing.
LEMMA AtHand ==
  ASSUME Types, RoutersBusy, NEW r \in Router, work[r].pc # "idle"
  PROVE  /\ work[r].todo \in Seq(Items) /\ work[r].todo # <<>>
         /\ Head(work[r].todo) \in Items /\ Tail(work[r].todo) \in Seq(Items)
         /\ Len(work[r].todo) = 1 <=> Tail(work[r].todo) = <<>>
         /\ Routing(r) \in Routings /\ Host(r) \in up /\ Host(r) \in Process
<1>1. work[r].todo \in Seq(Items) /\ work[r].todo # <<>> /\ Host(r) \in up
  BY DEF Types, RoutersBusy
<1>2. /\ Head(work[r].todo) \in Items /\ Tail(work[r].todo) \in Seq(Items)
      /\ Len(Tail(work[r].todo)) = Len(work[r].todo) - 1 /\ Len(work[r].todo) \in Nat \ {0}
  BY <1>1, HeadTailProperties, EmptySeq
<1>3. Len(work[r].todo) = 1 <=> Tail(work[r].todo) = <<>>
  <2>1. \A t \in Seq(Items) : (t = <<>>) <=> (Len(t) = 0)
    BY EmptySeq
  <2>2. (Tail(work[r].todo) = <<>>) <=> (Len(Tail(work[r].todo)) = 0)
    BY <1>2, <2>1
  <2>3. (Len(work[r].todo) = 1) <=> (Len(Tail(work[r].todo)) = 0)
    BY <1>2
  <2> QED BY <2>2, <2>3
<1>4. Host(r) \in Process
  BY DEF Host, Process
<1>5. Routing(r) \in Routings
  BY <1>2, <1>4 DEF Types, Routing, Routings, Times, Items
<1> QED BY <1>1, <1>2, <1>3, <1>4, <1>5

\* One router changes its work and is idle exactly when nothing is left of it.
LEMMA WorkChanges ==
  ASSUME Types, RoutersBusy, NEW r \in Router, NEW w \in [todo : Seq(Items), pc : Steps],
         work' = [work EXCEPT ![r] = w], (w.pc = "idle") <=> (w.todo = <<>>),
         w.pc # "idle" => Host(r) \in up', up \subseteq up'
  PROVE  /\ work' \in [Router -> [todo : Seq(Items), pc : Steps]]
         /\ RoutersBusy'
<1>1. work' \in [Router -> [todo : Seq(Items), pc : Steps]]
  BY DEF Types
<1>2. work'[r] = w /\ \A q \in Router \ {r} : work'[q] = work[q]
  BY DEF Types
<1>3. RoutersBusy'
  <2> SUFFICES ASSUME NEW q \in Router
               PROVE  /\ (work'[q].pc = "idle") <=> (work'[q].todo = <<>>)
                      /\ work'[q].pc # "idle" => Host(q) \in up'
    BY DEF RoutersBusy, Host
  <2> QED BY <1>2 DEF RoutersBusy
<1> QED BY <1>1, <1>3

\* A router turns to its next item, or goes on with this one.
LEMMA RouterMoves ==
  ASSUME Types, RoutersBusy, NEW r \in Router, work[r].pc # "idle", up' = up,
         NextItem(r) \/ \E pc \in Steps \ {"idle"} : Goto(r, pc)
  PROVE  /\ work' \in [Router -> [todo : Seq(Items), pc : Steps]]
         /\ RoutersBusy'
<1> DEFINE last == [todo |-> Tail(work[r].todo),
                    pc |-> IF Len(work[r].todo) = 1 THEN "idle" ELSE "route"]
<1>1. CASE NextItem(r)
  <2>1. /\ work' = [work EXCEPT ![r] = last] /\ last \in [todo : Seq(Items), pc : Steps]
        /\ (last.pc = "idle") <=> (last.todo = <<>>)
    BY <1>1, AtHand DEF NextItem, Steps
  <2> HIDE DEF last
  <2> QED BY <2>1, AtHand, WorkChanges
<1>2. ASSUME NEW pc \in Steps \ {"idle"}, Goto(r, pc)
      PROVE  /\ work' \in [Router -> [todo : Seq(Items), pc : Steps]]
             /\ RoutersBusy'
  <2> DEFINE w == [work[r] EXCEPT !.pc = pc]
  <2>1. /\ work' = [work EXCEPT ![r] = w] /\ w \in [todo : Seq(Items), pc : Steps]
        /\ w.pc # "idle" /\ w.todo # <<>>
    BY <1>2, AtHand DEF Goto, Types
  <2> HIDE DEF w
  <2> QED BY <2>1, AtHand, WorkChanges
<1> QED BY <1>1, <1>2

\* Whatever leaves memory, tables and history alone keeps what is said of them.
LEMMA RestStays ==
  ASSUME IInv, next' \in 1 .. Len(Chain) + 1,
         work' \in [Router -> [todo : Seq(Items), pc : Steps]], RoutersBusy',
         UNCHANGED <<up, run, memory, tables, faults, sent, dropped, killed>>
  PROVE  IInv'
<1> USE DEF memory, tables
<1>1. Types'
  BY DEF IInv, Types
<1>2. WritersBusy' /\ StartsCounted'
  BY DEF IInv, WritersBusy, StartsCounted
<1>3. KnownSent' /\ FailuresCounted'
  BY DEF IInv, KnownSent, FailuresCounted
<1>4. NoneLost' /\ OneRowPerRouting'
  BY DEF IInv, NoneLost, OneRowPerRouting, Waiting, Stored, Lettered
<1> QED BY <1>1, <1>2, <1>3, <1>4 DEF IInv

LEMMA TakesCheckpoint ==
  ASSUME IInv, NEW w \in Worker, TakeCheckpoint(w)
  PROVE  IInv'
<1> DEFINE taken == IF Chain[next] = <<>> THEN Resting
                    ELSE [todo |-> [i \in DOMAIN Chain[next] |-> Item(Chain[next][i], 0)],
                          pc |-> "route"]
<1>1. /\ work' = [work EXCEPT ![w] = taken] /\ next <= Len(Chain) /\ next' = next + 1
      /\ "indexer" \in up
      /\ UNCHANGED <<up, run, memory, tables, faults, sent, dropped, killed>>
  BY DEF TakeCheckpoint
<1>2. /\ taken \in [todo : Seq(Items), pc : Steps]
      /\ (taken.pc = "idle") <=> (taken.todo = <<>>)
  BY <1>1, Checkpoint, EmptySeq DEF IInv, Resting, Steps
<1>3. w \in Router /\ Host(w) = "indexer"
  BY IndexerAssumption DEF IndexerAssumption, Router, Host
<1> HIDE DEF taken
<1>4. work' \in [Router -> [todo : Seq(Items), pc : Steps]] /\ RoutersBusy'
  <2>1. Types /\ RoutersBusy /\ up' = up /\ Host(w) \in up'
    BY <1>1, <1>3 DEF IInv
  <2>2. w \in Router /\ work' = [work EXCEPT ![w] = taken]
    BY <1>1, <1>3
  <2> QED BY <1>2, <2>1, <2>2, WorkChanges
<1>5. next' \in 1 .. Len(Chain) + 1
  BY <1>1, IndexerAssumption, LenProperties DEF IndexerAssumption, IInv, Types
<1> QED BY <1>1, <1>4, <1>5, RestStays

LEMMA Rejects ==
  ASSUME IInv, NEW r \in Router, Reject(r)
  PROVE  IInv'
BY RouterMoves, RestStays DEF Reject, IInv, Types

\* Where a webhook leaves its router.
LEMMA NotifiedMoves ==
  ASSUME Types, RoutersBusy, NEW r \in Router, work[r].pc \in {"alert", "webhook"},
         Notified(r), up' = up
  PROVE  /\ work' \in [Router -> [todo : Seq(Items), pc : Steps]]
         /\ RoutersBusy'
<1>1. work[r].pc # "idle" /\ "webhook" \in Steps \ {"idle"} /\ "mark" \in Steps \ {"idle"}
  BY DEF Steps
<1> QED BY <1>1, RouterMoves DEF Notified

LEMMA Notifies ==
  ASSUME IInv, NEW r \in Router, Notify(r)
  PROVE  IInv'
BY NotifiedMoves, RestStays DEF Notify, IInv, Types

\* A dead letter more.
LEMMA LettersGrow ==
  ASSUME Types, NEW l \in Letters, letters' = Append(letters, l)
  PROVE  /\ letters' \in Seq(Letters)
         /\ \A b : Lettered(b) => Lettered(b)'
         /\ \A b : l.source = "batch_writer" /\ l.event = b.event /\ l.time = b.time => Lettered(b)'
<1>1. letters \in Seq(Letters)
  BY DEF Types
<1>2. /\ letters' \in Seq(Letters) /\ Len(letters) \in Nat
      /\ DOMAIN letters = 1 .. Len(letters) /\ DOMAIN letters' = 1 .. Len(letters) + 1
      /\ \A i \in DOMAIN letters : letters'[i] = letters[i]
      /\ letters'[Len(letters) + 1] = l
  BY <1>1, AppendProperties, LenProperties
<1> QED BY <1>2 DEF Lettered

\* The same, of whom nothing but the letters and the count of failures changes.
LEMMA NotifyFailing ==
  ASSUME IInv, NEW r \in Router, NotifyFails(r)
  PROVE  IInv'
<1> USE DEF memory
<1> DEFINE l == DeadLetter(Routing(r).event, Routing(r).time,
                           IF work[r].pc = "alert" THEN "alert_webhook" ELSE "webhook")
<1>1. /\ letters' = Append(letters, l) \/ letters' = letters
      /\ work[r].pc \in {"alert", "webhook"} /\ Notified(r)
      /\ faults < MaxFaults /\ faults' = faults + 1
      /\ UNCHANGED <<up, run, next, memory, rows, sent, dropped, killed>>
  BY DEF NotifyFails, Fault
<1>2. l \in Letters
  <2>1. Routing(r) \in Routings
    BY <1>1, AtHand DEF IInv
  <2> QED BY <2>1 DEF DeadLetter, Letters, Routings, Sources
<1> HIDE DEF l
<1>3. letters' \in Seq(Letters) /\ \A b : Lettered(b) => Lettered(b)'
  BY <1>1, <1>2, LettersGrow DEF IInv, Types, Lettered
<1>4. work' \in [Router -> [todo : Seq(Items), pc : Steps]] /\ RoutersBusy'
  BY <1>1, NotifiedMoves DEF IInv
<1>5. faults \in Nat /\ MaxFaults \in Nat /\ faults' \in 0 .. MaxFaults
  BY <1>1, IndexerAssumption DEF IInv, Types, IndexerAssumption
<1>6. Types'
  BY <1>1, <1>3, <1>4, <1>5 DEF IInv, Types
<1>7. WritersBusy' /\ KnownSent'
  BY <1>1 DEF IInv, WritersBusy, KnownSent
<1>8. StartsCounted' /\ FailuresCounted'
  BY <1>1, <1>5 DEF IInv, StartsCounted, FailuresCounted, Types, Process, Phases
<1>9. NoneLost' /\ OneRowPerRouting'
  BY <1>1, <1>3 DEF IInv, NoneLost, OneRowPerRouting, Waiting, Stored
<1> QED BY <1>4, <1>6, <1>7, <1>8, <1>9 DEF IInv

\* A send appends to the channel what it hands over.
LEMMA Sends ==
  ASSUME IInv, NEW r \in Router, Send(r)
  PROVE  IInv'
<1> DEFINE p == Host(r)
<1> DEFINE b == Routing(r)
<1>1. /\ work[r].pc = "route" /\ Len(chan[p]) < Capacity
      /\ chan' = [chan EXCEPT ![p] = Append(@, b)]
      /\ sent' = sent \union {b}
      /\ Goto(r, "alert") \/ Goto(r, "webhook")
      /\ UNCHANGED <<up, run, next, batch, wpc, tables, faults, dropped, killed>>
  BY DEF Send
<1>2. b \in Routings /\ p \in up /\ p \in Process
  BY <1>1, AtHand DEF IInv
<1> HIDE DEF p, b
<1>3. work' \in [Router -> [todo : Seq(Items), pc : Steps]] /\ RoutersBusy'
  <2>1. "alert" \in Steps \ {"idle"} /\ "webhook" \in Steps \ {"idle"} /\ work[r].pc # "idle"
    BY <1>1 DEF Steps
  <2> QED BY <1>1, <2>1, RouterMoves DEF IInv
<1>4. chan[p] \in Seq(Routings)
  BY <1>2 DEF IInv, Types
<1>5. /\ chan'[p] = Append(chan[p], b) /\ chan'[p] \in Seq(Routings)
      /\ Len(chan'[p]) <= Capacity /\ ToSet(chan'[p]) = ToSet(chan[p]) \union {b}
      /\ \A q \in Process \ {p} : chan'[q] = chan[q]
      /\ chan' \in [Process -> Seq(Routings)]
  <2>1. chan \in [Process -> Seq(Routings)]
    BY DEF IInv, Types
  <2>2. chan'[p] = Append(chan[p], b) /\ \A q \in Process \ {p} : chan'[q] = chan[q]
    BY <1>1, <1>2, <2>1
  <2>3. /\ Append(chan[p], b) \in Seq(Routings)
        /\ Len(Append(chan[p], b)) = Len(chan[p]) + 1 /\ Len(chan[p]) \in Nat
    BY <1>2, <1>4, AppendProperties, LenProperties
  <2>4. ToSet(Append(chan[p], b)) = ToSet(chan[p]) \union {b}
    BY <1>2, <1>4, ToSetAppend
  <2>5. Len(chan'[p]) <= Capacity
    BY <1>1, <2>2, <2>3, IndexerAssumption DEF IndexerAssumption
  <2> QED BY <1>1, <1>2, <2>1, <2>2, <2>3, <2>4, <2>5
<1>6. Types'
  BY <1>1, <1>2, <1>3, <1>5 DEF IInv, Types, tables
<1>7. WritersBusy'
  BY <1>1, <1>2, <1>5 DEF IInv, WritersBusy
<1>8. StartsCounted' /\ FailuresCounted' /\ OneRowPerRouting'
  BY <1>1 DEF IInv, StartsCounted, FailuresCounted, OneRowPerRouting, tables
<1>9. KnownSent'
  BY <1>1, <1>5 DEF IInv, KnownSent
<1>10. NoneLost'
  <2>1. \A c : c = b => Waiting(c)'
    BY <1>2, <1>5 DEF Waiting
  <2>2. \A c : (Waiting(c) => Waiting(c)') /\ (Stored(c) => Stored(c)') /\ (Lettered(c) => Lettered(c)')
    BY <1>1, <1>5 DEF Waiting, Stored, Lettered, tables
  <2> QED BY <1>1, <2>1, <2>2 DEF IInv, NoneLost
<1> QED BY <1>3, <1>6, <1>7, <1>8, <1>9, <1>10 DEF IInv

-----------------------------------------------------------------------------
(* Steps of the writers.                                                   *)

\* What the writer of a process receives goes from the channel to the batch.
LEMMA Receives ==
  ASSUME IInv, NEW p \in Process, Receive(p)
  PROVE  IInv'
<1> DEFINE b == Head(chan[p])
<1>1. /\ p \in up /\ wpc[p] = "recv" /\ chan[p] # <<>>
      /\ batch' = [batch EXCEPT ![p] = Append(@, b)]
      /\ chan' = [chan EXCEPT ![p] = Tail(@)]
      /\ wpc' = [wpc EXCEPT ![p] = IF Full(batch'[p]) THEN "multi" ELSE "recv"]
      /\ UNCHANGED <<up, run, next, work, tables, faults, sent, dropped, killed>>
  BY DEF Receive
<1>2. /\ chan[p] \in Seq(Routings) /\ batch[p] \in Seq(Routings)
      /\ chan \in [Process -> Seq(Routings)] /\ batch \in [Process -> Seq(Routings)]
      /\ wpc \in [Process -> Phases]
  BY DEF IInv, Types
<1>3. /\ b \in Routings /\ Tail(chan[p]) \in Seq(Routings)
      /\ Len(Tail(chan[p])) = Len(chan[p]) - 1 /\ Len(chan[p]) \in Nat
      /\ ToSet(chan[p]) = {b} \union ToSet(Tail(chan[p]))
  BY <1>1, <1>2, HeadTailProperties, LenProperties, ToSetTail
<1> HIDE DEF b
<1>4. /\ Append(batch[p], b) \in Seq(Routings) /\ Append(batch[p], b) # <<>>
      /\ Len(Append(batch[p], b)) = Len(batch[p]) + 1 /\ Len(batch[p]) \in Nat
      /\ ToSet(Append(batch[p], b)) = ToSet(batch[p]) \union {b}
  BY <1>2, <1>3, AppendProperties, LenProperties, ToSetAppend
<1>5. /\ batch'[p] = Append(batch[p], b) /\ chan'[p] = Tail(chan[p])
      /\ wpc'[p] = (IF Len(batch'[p]) >= BatchSize THEN "multi" ELSE "recv")
      /\ \A q \in Process \ {p} : chan'[q] = chan[q] /\ batch'[q] = batch[q] /\ wpc'[q] = wpc[q]
  BY <1>1, <1>2 DEF Full
<1>6. Types'
  <2>1. chan' \in [Process -> Seq(Routings)] /\ batch' \in [Process -> Seq(Routings)]
    BY <1>1, <1>2, <1>3, <1>4
  <2>2. wpc' \in [Process -> Phases]
    BY <1>1, <1>2 DEF Phases
  <2> QED BY <1>1, <2>1, <2>2 DEF IInv, Types, tables
<1>7. WritersBusy'
  <2>1. Capacity \in Nat /\ BatchSize \in Nat
    BY IndexerAssumption DEF IndexerAssumption
  <2>2. Len(chan'[p]) <= Capacity /\ Len(batch'[p]) <= BatchSize
    BY <1>1, <1>3, <1>4, <1>5, <2>1 DEF IInv, WritersBusy
  <2>3. wpc'[p] = "recv" => Len(batch'[p]) < BatchSize
    BY <1>4, <1>5, <2>1
  <2> QED BY <1>1, <1>4, <1>5, <2>2, <2>3 DEF IInv, WritersBusy
<1>8. RoutersBusy' /\ StartsCounted' /\ OneRowPerRouting'
  BY <1>1 DEF IInv, RoutersBusy, StartsCounted, OneRowPerRouting, tables, Host
<1>9. KnownSent' /\ FailuresCounted'
  BY <1>1, <1>3, <1>4, <1>5 DEF IInv, KnownSent, FailuresCounted
<1>10. NoneLost'
  <2>1. \A c : (Waiting(c) => Waiting(c)') /\ (Stored(c) => Stored(c)') /\ (Lettered(c) => Lettered(c)')
    BY <1>1, <1>3, <1>4, <1>5 DEF Waiting, Stored, Lettered, tables
  <2> QED BY <1>1, <2>1 DEF IInv, NoneLost
<1> QED BY <1>6, <1>7, <1>8, <1>9, <1>10 DEF IInv

LEMMA TimerTicks ==
  ASSUME IInv, NEW p \in Process, TimerTick(p)
  PROVE  IInv'
<1>1. /\ wpc[p] = "recv" /\ batch[p] # <<>> /\ wpc' = [wpc EXCEPT ![p] = "multi"]
      /\ wpc \in [Process -> Phases] /\ wpc' \in [Process -> Phases]
      /\ wpc'[p] = "multi" /\ \A q \in Process \ {p} : wpc'[q] = wpc[q]
      /\ UNCHANGED <<up, run, next, work, chan, batch, tables, faults, sent, dropped, killed>>
  BY DEF TimerTick, IInv, Types, Phases
<1>2. Types' /\ StartsCounted' /\ OneRowPerRouting'
  BY <1>1 DEF IInv, Types, StartsCounted, OneRowPerRouting, tables
<1>3. RoutersBusy' /\ WritersBusy'
  BY <1>1 DEF IInv, RoutersBusy, WritersBusy, Host
<1>4. KnownSent' /\ FailuresCounted'
  BY <1>1 DEF IInv, KnownSent, FailuresCounted
<1>5. NoneLost'
  BY <1>1 DEF IInv, NoneLost, Waiting, Stored, Lettered, tables
<1> QED BY <1>2, <1>3, <1>4, <1>5 DEF IInv

\* The table after an insert, whether it took effect or not.
LEMMA RowsGrow ==
  ASSUME Types, OneRowPerRouting, NEW R \in SUBSET Routings, rows' \in {rows, Inserted(R)}
  PROVE  /\ DOMAIN rows' \subseteq Routings /\ OneRowPerRouting'
         /\ \A b : Stored(b) => Stored(b)'
         /\ rows' = Inserted(R) => \A b \in R : Stored(b)'
<1>1. CASE rows' = rows /\ rows' # Inserted(R)
  BY <1>1 DEF Types, OneRowPerRouting, Stored
<1>2. CASE rows' = Inserted(R)
  <2>1. DOMAIN rows' = DOMAIN rows \union R /\ \A b \in DOMAIN rows' : rows'[b] = 1
    BY <1>2, InsertedRows
  <2> QED BY <2>1 DEF Types, OneRowPerRouting, Stored, BagIn, BagToSet
<1> QED BY <1>1, <1>2

\* The batch of a writer that has left its receive.
LEMMA BatchAtHand ==
  ASSUME IInv, NEW p \in Process, wpc[p] # "recv"
  PROVE  /\ batch[p] \in Seq(Routings) /\ batch[p] # <<>> /\ p \in up
         /\ Head(batch[p]) \in Routings /\ Tail(batch[p]) \in Seq(Routings)
         /\ Len(batch[p]) \in Nat \ {0} /\ Len(Tail(batch[p])) = Len(batch[p]) - 1
         /\ ToSet(batch[p]) = {Head(batch[p])} \union ToSet(Tail(batch[p]))
         /\ ToSet(batch[p]) \in SUBSET Routings /\ ToSet(batch[p]) \subseteq sent
<1>1. batch[p] \in Seq(Routings) /\ batch[p] # <<>> /\ p \in up /\ ToSet(batch[p]) \subseteq sent
  BY DEF IInv, Types, WritersBusy, KnownSent
<1> QED BY <1>1, HeadTailProperties, LenProperties, EmptySeq, ToSetTail DEF IInv, Types

\* The whole batch is stored at once, or else nothing is known.
LEMMA MultiRowInserts ==
  ASSUME IInv, NEW p \in Process, MultiRowInsert(p)
  PROVE  IInv'
<1> DEFINE R == ToSet(batch[p])
<1>1. /\ wpc[p] = "multi" /\ p \in up
      /\ UNCHANGED <<up, run, next, work, chan, letters, sent, dropped, killed>>
      /\ rows' \in {rows, Inserted(R)}
  BY DEF MultiRowInsert
<1>2. R \in SUBSET Routings /\ batch[p] # <<>>
  BY <1>1, BatchAtHand
<1> HIDE DEF R
<1>3. /\ DOMAIN rows' \subseteq Routings /\ OneRowPerRouting'
      /\ \A b : Stored(b) => Stored(b)'
      /\ rows' = Inserted(R) => \A b \in R : Stored(b)'
  BY <1>1, <1>2, RowsGrow DEF IInv
<1>4. /\ chan \in [Process -> Seq(Routings)] /\ batch \in [Process -> Seq(Routings)]
      /\ wpc \in [Process -> Phases] /\ faults \in Nat /\ faults \in 0 .. MaxFaults
      /\ BatchSize \in Nat \ {0} /\ MaxFaults \in Nat
  BY IndexerAssumption DEF IInv, Types, IndexerAssumption
<1>5. RoutersBusy' /\ \A b : Lettered(b) => Lettered(b)'
  BY <1>1 DEF IInv, RoutersBusy, Host, Lettered
<1>6. CASE /\ rows' = Inserted(R) /\ batch' = [batch EXCEPT ![p] = <<>>]
           /\ wpc' = [wpc EXCEPT ![p] = "recv"] /\ faults' = faults
  <2>1. /\ batch'[p] = <<>> /\ wpc'[p] = "recv" /\ Len(batch'[p]) = 0 /\ ToSet(batch'[p]) = {}
        /\ \A q \in Process \ {p} : batch'[q] = batch[q] /\ wpc'[q] = wpc[q]
    BY <1>4, <1>6, EmptySeq, ToSetEmpty
  <2>2. batch' \in [Process -> Seq(Routings)] /\ wpc' \in [Process -> Phases]
    BY <1>4, <1>6, EmptySeq DEF Phases
  <2>3. Types'
    BY <1>1, <1>3, <1>6, <2>2 DEF IInv, Types
  <2>4. WritersBusy' /\ StartsCounted'
    BY <1>1, <1>4, <1>6, <2>1 DEF IInv, WritersBusy, StartsCounted
  <2>5. KnownSent' /\ FailuresCounted'
    BY <1>1, <1>6, <2>1 DEF IInv, KnownSent, FailuresCounted
  <2>6. NoneLost'
    <3>1. \A b : Waiting(b) => Waiting(b)' \/ b \in R
      BY <1>1, <2>1 DEF Waiting, R
    <3> QED BY <1>1, <1>3, <1>5, <1>6, <3>1 DEF IInv, NoneLost
  <2> QED BY <1>3, <1>5, <2>3, <2>4, <2>5, <2>6 DEF IInv
<1>7. CASE /\ faults < MaxFaults /\ faults' = faults + 1
           /\ wpc' = [wpc EXCEPT ![p] = "single"] /\ batch' = batch
  <2>1. /\ wpc' \in [Process -> Phases] /\ wpc'[p] = "single"
        /\ \A q \in Process \ {p} : wpc'[q] = wpc[q]
        /\ faults' \in Nat /\ faults' >= 1 /\ faults' \in 0 .. MaxFaults
    BY <1>4, <1>7 DEF Phases
  <2>2. Types'
    BY <1>1, <1>3, <1>7, <2>1 DEF IInv, Types
  <2>3. WritersBusy'
    BY <1>1, <1>2, <1>7, <2>1 DEF IInv, WritersBusy
  <2>4. KnownSent' /\ NoneLost'
    BY <1>1, <1>3, <1>5, <1>7 DEF IInv, KnownSent, NoneLost, Waiting
  <2>5. FailuresCounted'
    BY <1>1, <1>4, <1>7, <2>1 DEF IInv, FailuresCounted
  <2>6. StartsCounted'
    BY <1>1, <1>4, <1>7 DEF IInv, StartsCounted, Types, Process
  <2> QED BY <1>3, <1>5, <2>2, <2>3, <2>4, <2>5, <2>6 DEF IInv
<1> QED BY <1>6, <1>7 DEF MultiRowInsert, Fault, R

\* The fallback turns to the next row of the batch.
LEMMA FallbackMoves ==
  ASSUME IInv, NEW p \in Process, wpc[p] \in {"single", "letter"}, FallbackNext(p),
         up' = up, chan' = chan
  PROVE  /\ batch' \in [Process -> Seq(Routings)] /\ wpc' \in [Process -> Phases]
         /\ WritersBusy'
         /\ \A q \in Process : /\ ToSet(batch'[q]) \subseteq ToSet(batch[q])
                               /\ wpc'[q] = "single" => faults >= 1
                               /\ wpc'[q] = "letter" => faults >= 2
         /\ \A b : Waiting(b) => Waiting(b)' \/ b = Head(batch[p])
<1>1. /\ batch' = [batch EXCEPT ![p] = Tail(batch[p])]
      /\ wpc' = [wpc EXCEPT ![p] = IF Len(batch[p]) = 1 THEN "recv" ELSE "single"]
      /\ chan \in [Process -> Seq(Routings)] /\ batch \in [Process -> Seq(Routings)]
      /\ wpc \in [Process -> Phases] /\ faults \in Nat /\ BatchSize \in Nat \ {0}
  BY IndexerAssumption DEF IndexerAssumption, FallbackNext, IInv, Types
<1>2. /\ p \in up /\ Tail(batch[p]) \in Seq(Routings)
      /\ Len(batch[p]) \in Nat \ {0} /\ Len(Tail(batch[p])) = Len(batch[p]) - 1
      /\ ToSet(batch[p]) = {Head(batch[p])} \union ToSet(Tail(batch[p]))
  BY BatchAtHand
<1>3. /\ batch'[p] = Tail(batch[p])
      /\ wpc'[p] = (IF Len(batch[p]) = 1 THEN "recv" ELSE "single")
      /\ \A q \in Process \ {p} : batch'[q] = batch[q] /\ wpc'[q] = wpc[q]
  BY <1>1
<1>4. batch' \in [Process -> Seq(Routings)] /\ wpc' \in [Process -> Phases]
  BY <1>1, <1>2 DEF Phases
<1>5. WritersBusy'
  <2>1. Len(batch[p]) <= BatchSize
    BY DEF IInv, WritersBusy
  <2>2. Len(batch'[p]) <= BatchSize /\ (wpc'[p] = "recv" => Len(batch'[p]) < BatchSize)
    BY <1>1, <1>2, <1>3, <2>1
  <2>3. wpc'[p] # "recv" => batch'[p] # <<>>
    <3>1. wpc'[p] # "recv" => Len(Tail(batch[p])) # 0
      BY <1>2, <1>3
    <3>2. Len(Tail(batch[p])) # 0 => Tail(batch[p]) # <<>>
      BY <1>2, EmptySeq
    <3> QED BY <1>3, <3>1, <3>2
  <2> QED BY <1>2, <1>3, <2>2, <2>3 DEF IInv, WritersBusy
<1>6. \A q \in Process : /\ ToSet(batch'[q]) \subseteq ToSet(batch[q])
                         /\ wpc'[q] = "single" => faults >= 1
                         /\ wpc'[q] = "letter" => faults >= 2
  BY <1>1, <1>2, <1>3 DEF IInv, FailuresCounted
<1>7. \A b : Waiting(b) => Waiting(b)' \/ b = Head(batch[p])
  BY <1>2, <1>3 DEF Waiting
<1> QED BY <1>4, <1>5, <1>6, <1>7

\* One row of the batch is stored, or else it becomes a letter.
LEMMA IndividualInserts ==
  ASSUME IInv, NEW p \in Process, IndividualInsert(p)
  PROVE  IInv'
<1> DEFINE r == Head(batch[p])
<1>1. /\ wpc[p] = "single" /\ p \in up
      /\ UNCHANGED <<up, run, next, work, chan, letters, sent, dropped, killed>>
      /\ rows' \in {rows, Inserted({r})}
  BY DEF IndividualInsert
<1>2. {r} \in SUBSET Routings /\ batch[p] # <<>>
  BY <1>1, BatchAtHand
<1>3. /\ DOMAIN rows' \subseteq Routings /\ OneRowPerRouting'
      /\ \A b : Stored(b) => Stored(b)'
      /\ rows' = Inserted({r}) => \A b \in {r} : Stored(b)'
  BY <1>1, <1>2, RowsGrow DEF IInv
<1>4. /\ wpc \in [Process -> Phases] /\ faults \in Nat /\ faults \in 0 .. MaxFaults
      /\ MaxFaults \in Nat
  BY IndexerAssumption DEF IInv, Types, IndexerAssumption
<1>5. RoutersBusy' /\ \A b : Lettered(b) => Lettered(b)'
  BY <1>1 DEF IInv, RoutersBusy, Host, Lettered
<1>6. CASE rows' = Inserted({r}) /\ FallbackNext(p) /\ faults' = faults
  <2>1. /\ batch' \in [Process -> Seq(Routings)] /\ wpc' \in [Process -> Phases]
        /\ WritersBusy'
        /\ \A q \in Process : /\ ToSet(batch'[q]) \subseteq ToSet(batch[q])
                              /\ wpc'[q] = "single" => faults >= 1
                              /\ wpc'[q] = "letter" => faults >= 2
        /\ \A b : Waiting(b) => Waiting(b)' \/ b = r
    BY <1>1, <1>6, FallbackMoves
  <2>2. Types' /\ StartsCounted'
    BY <1>1, <1>3, <1>6, <2>1 DEF IInv, Types, StartsCounted
  <2>3. KnownSent' /\ FailuresCounted'
    BY <1>1, <1>6, <2>1 DEF IInv, KnownSent, FailuresCounted
  <2>4. NoneLost'
    BY <1>1, <1>3, <1>5, <1>6, <2>1 DEF IInv, NoneLost
  <2> QED BY <1>3, <1>5, <2>1, <2>2, <2>3, <2>4 DEF IInv
<1>7. CASE /\ faults < MaxFaults /\ faults' = faults + 1
           /\ wpc' = [wpc EXCEPT ![p] = "letter"] /\ batch' = batch
  <2>1. /\ wpc' \in [Process -> Phases] /\ wpc'[p] = "letter"
        /\ \A q \in Process \ {p} : wpc'[q] = wpc[q]
        /\ faults' \in Nat /\ faults' \in 0 .. MaxFaults
    BY <1>4, <1>7 DEF Phases
  <2>2. Types'
    BY <1>1, <1>3, <1>7, <2>1 DEF IInv, Types
  <2>3. WritersBusy'
    BY <1>1, <1>2, <1>7, <2>1 DEF IInv, WritersBusy
  <2>4. KnownSent' /\ NoneLost'
    BY <1>1, <1>3, <1>5, <1>7 DEF IInv, KnownSent, NoneLost, Waiting
  <2>5. FailuresCounted'
    BY <1>1, <1>4, <1>7, <2>1 DEF IInv, FailuresCounted
  <2>6. StartsCounted'
    BY <1>1, <1>4, <1>7 DEF IInv, StartsCounted, Types, Process
  <2> QED BY <1>3, <1>5, <2>2, <2>3, <2>4, <2>5, <2>6 DEF IInv
<1> QED BY <1>6, <1>7 DEF IndividualInsert, Fault

\* The row becomes a letter, or is dropped when that fails as well.
LEMMA InsertsDeadLetter ==
  ASSUME IInv, NEW p \in Process, InsertDeadLetter(p)
  PROVE  IInv'
<1> DEFINE r == Head(batch[p])
<1> DEFINE l == DeadLetter(r.event, r.time, "batch_writer")
<1>1. /\ wpc[p] = "letter" /\ p \in up /\ FallbackNext(p)
      /\ UNCHANGED <<up, run, next, work, chan, rows, sent, killed>>
  BY DEF InsertDeadLetter
<1>2. r \in Routings /\ r \in sent /\ l \in Letters
  BY <1>1, BatchAtHand DEF DeadLetter, Letters, Routings, Sources
<1>3. /\ batch' \in [Process -> Seq(Routings)] /\ wpc' \in [Process -> Phases]
      /\ WritersBusy'
      /\ \A q \in Process : /\ ToSet(batch'[q]) \subseteq ToSet(batch[q])
                            /\ wpc'[q] = "single" => faults >= 1
                            /\ wpc'[q] = "letter" => faults >= 2
      /\ \A b : Waiting(b) => Waiting(b)' \/ b = r
  BY <1>1, FallbackMoves
<1>4. RoutersBusy' /\ OneRowPerRouting' /\ \A b : Stored(b) => Stored(b)'
  BY <1>1 DEF IInv, RoutersBusy, Host, OneRowPerRouting, Stored
<1>5. faults \in Nat /\ faults \in 0 .. MaxFaults /\ MaxFaults \in Nat /\ faults >= 2
  BY <1>1, IndexerAssumption DEF IInv, Types, IndexerAssumption, FailuresCounted
<1>6. CASE letters' = Append(letters, l) /\ faults' = faults /\ dropped' = dropped
  <2>1. /\ letters' \in Seq(Letters)
        /\ \A b : Lettered(b) => Lettered(b)'
        /\ \A b : b = r => Lettered(b)'
    <3>1. l.source = "batch_writer" /\ l.event = r.event /\ l.time = r.time
      BY DEF DeadLetter
    <3> HIDE DEF l
    <3> QED BY <1>2, <1>6, <3>1, LettersGrow DEF IInv
  <2>2. Types' /\ StartsCounted'
    BY <1>1, <1>3, <1>6, <2>1 DEF IInv, Types, StartsCounted
  <2>3. KnownSent' /\ FailuresCounted'
    BY <1>1, <1>3, <1>6 DEF IInv, KnownSent, FailuresCounted
  <2>4. NoneLost'
    BY <1>1, <1>3, <1>4, <1>6, <2>1 DEF IInv, NoneLost
  <2> QED BY <1>3, <1>4, <2>2, <2>3, <2>4 DEF IInv
<1>7. CASE /\ faults < MaxFaults /\ faults' = faults + 1
           /\ dropped' = dropped \union {r} /\ letters' = letters
  <2>1. faults' \in Nat /\ faults' \in 0 .. MaxFaults /\ faults' >= 3 /\ faults' >= faults
    BY <1>5, <1>7
  <2>2. Types'
    BY <1>1, <1>3, <1>7, <2>1 DEF IInv, Types
  <2>3. StartsCounted'
    BY <1>1, <1>5, <1>7 DEF IInv, StartsCounted, Types, Process
  <2>4. KnownSent'
    BY <1>1, <1>2, <1>3, <1>7 DEF IInv, KnownSent
  <2>5. FailuresCounted'
    BY <1>3, <1>5, <1>7, <2>1 DEF FailuresCounted
  <2>6. NoneLost'
    BY <1>1, <1>3, <1>4, <1>7 DEF IInv, NoneLost, Lettered
  <2> QED BY <1>3, <1>4, <2>2, <2>3, <2>4, <2>5, <2>6 DEF IInv
<1> QED BY <1>6, <1>7 DEF InsertDeadLetter, Fault

-----------------------------------------------------------------------------
(* Processes that start and end.                                           *)

\* A process ends with what it has in memory; the calls it has made so far do
\* not get fewer.
LEMMA ProcessEnds ==
  ASSUME IInv, NEW p \in Process, Ends(p),
         UNCHANGED <<run, next, tables, sent, dropped>>,
         \/ faults' = faults /\ p = "replay"
         \/ Fault
  PROVE  IInv'
<1>1. /\ up' = up \ {p} /\ p \in up
      /\ killed' = killed \union ToSet(chan[p]) \union ToSet(batch[p])
      /\ chan' = [chan EXCEPT ![p] = <<>>] /\ batch' = [batch EXCEPT ![p] = <<>>]
      /\ wpc' = [wpc EXCEPT ![p] = "recv"]
      /\ work' = [r \in Router |-> IF Host(r) = p THEN Resting ELSE work[r]]
  BY DEF Ends
<1>2. /\ chan \in [Process -> Seq(Routings)] /\ batch \in [Process -> Seq(Routings)]
      /\ wpc \in [Process -> Phases] /\ work \in [Router -> [todo : Seq(Items), pc : Steps]]
      /\ faults \in Nat /\ faults \in 0 .. MaxFaults /\ run \in [Process -> Nat]
      /\ MaxFaults \in Nat /\ Capacity \in Nat \ {0} /\ BatchSize \in Nat \ {0}
  BY IndexerAssumption DEF IInv, Types, IndexerAssumption
<1>3. /\ chan'[p] = <<>> /\ batch'[p] = <<>> /\ wpc'[p] = "recv"
      /\ \A q \in Process \ {p} : chan'[q] = chan[q] /\ batch'[q] = batch[q] /\ wpc'[q] = wpc[q]
      /\ Len(chan'[p]) = 0 /\ Len(batch'[p]) = 0
      /\ ToSet(chan'[p]) = {} /\ ToSet(batch'[p]) = {}
  BY <1>1, <1>2, EmptySeq, ToSetEmpty
<1>4. /\ faults' \in Nat /\ faults' \in 0 .. MaxFaults /\ faults' >= faults
      /\ p = "indexer" => faults' = faults + 1
  BY <1>2 DEF Fault
<1>5. /\ chan' \in [Process -> Seq(Routings)] /\ batch' \in [Process -> Seq(Routings)]
      /\ wpc' \in [Process -> Phases]
  BY <1>1, <1>2, EmptySeq DEF Phases
<1>6. /\ Resting \in [todo : Seq(Items), pc : Steps]
      /\ Resting.pc = "idle" /\ Resting.todo = <<>>
  BY EmptySeq DEF Resting, Steps
<1>7. work' \in [Router -> [todo : Seq(Items), pc : Steps]]
  BY <1>1, <1>2, <1>6
<1>8. Types'
  BY <1>1, <1>4, <1>5, <1>7 DEF IInv, Types, tables
<1>9. RoutersBusy'
  <2> SUFFICES ASSUME NEW q \in Router
               PROVE  /\ (work'[q].pc = "idle") <=> (work'[q].todo = <<>>)
                      /\ work'[q].pc # "idle" => Host(q) \in up'
    BY DEF RoutersBusy, Host
  <2>1. CASE Host(q) = p
    BY <1>1, <1>6, <2>1
  <2>2. CASE Host(q) # p
    BY <1>1, <2>2 DEF IInv, RoutersBusy
  <2> QED BY <2>1, <2>2
<1>10. WritersBusy'
  BY <1>1, <1>2, <1>3 DEF IInv, WritersBusy
<1>11. StartsCounted'
  <2>1. run'["indexer"] \in Nat /\ run' = run
    BY <1>2 DEF Process
  <2>2. CASE p = "indexer"
    BY <1>1, <1>2, <1>4, <2>1, <2>2 DEF IInv, StartsCounted
  <2>3. CASE p = "replay"
    BY <1>1, <1>2, <1>4, <2>1, <2>3 DEF IInv, StartsCounted
  <2> QED BY <2>2, <2>3 DEF Process
<1>12. KnownSent'
  BY <1>1, <1>3 DEF IInv, KnownSent
<1>13. FailuresCounted'
  BY <1>2, <1>3, <1>4 DEF IInv, FailuresCounted
<1>14. NoneLost' /\ OneRowPerRouting'
  <2>1. \A b : Waiting(b) => Waiting(b)' \/ b \in ToSet(chan[p]) \union ToSet(batch[p])
    BY <1>3 DEF Waiting
  <2> QED BY <1>1, <2>1 DEF IInv, NoneLost, OneRowPerRouting, Stored, Lettered, tables
<1> QED BY <1>8, <1>9, <1>10, <1>11, <1>12, <1>13, <1>14 DEF IInv

\* A process starts, with nothing in memory, and its router may get work.
LEMMA ProcessBoots ==
  ASSUME IInv, NEW p \in Process, Boot(p), next' \in 1 .. Len(Chain) + 1,
         work' \in [Router -> [todo : Seq(Items), pc : Steps]], RoutersBusy',
         p = "replay" => run["replay"] < MaxReplays,
         UNCHANGED <<memory, tables, faults, sent, dropped, killed>>
  PROVE  IInv'
<1> USE DEF memory, tables
<1>1. p \notin up /\ up' = up \union {p} /\ run' = [run EXCEPT ![p] = @ + 1]
  BY DEF Boot
<1>2. run \in [Process -> Nat] /\ run' \in [Process -> Nat] /\ MaxReplays \in Nat
  BY <1>1, IndexerAssumption DEF IInv, Types, IndexerAssumption
<1>3. Types'
  BY <1>1, <1>2 DEF IInv, Types
<1>4. WritersBusy'
  BY <1>1 DEF IInv, WritersBusy
<1>5. StartsCounted'
  <2>1. faults \in Nat
    BY DEF IInv, Types
  <2>2. CASE p = "indexer"
    BY <1>1, <1>2, <2>1, <2>2 DEF IInv, StartsCounted, Process
  <2>3. CASE p = "replay"
    BY <1>1, <1>2, <2>1, <2>3 DEF IInv, StartsCounted, Process
  <2> QED BY <2>2, <2>3 DEF Process
<1>6. KnownSent' /\ FailuresCounted'
  BY DEF IInv, KnownSent, FailuresCounted
<1>7. NoneLost' /\ OneRowPerRouting'
  BY DEF IInv, NoneLost, OneRowPerRouting, Waiting, Stored, Lettered
<1> QED BY <1>3, <1>4, <1>5, <1>6, <1>7 DEF IInv

LEMMA IndexerRestarts ==
  ASSUME IInv, RestartIndexer
  PROVE  IInv'
<1>1. /\ Boot("indexer") /\ next' = 1 /\ up \subseteq up'
      /\ UNCHANGED <<work, memory, tables, faults, sent, dropped, killed>>
  BY DEF RestartIndexer, StartCheckpoint, Boot
<1>2. next' \in 1 .. Len(Chain) + 1
  BY <1>1, IndexerAssumption, LenProperties DEF IndexerAssumption
<1>3. work' \in [Router -> [todo : Seq(Items), pc : Steps]] /\ RoutersBusy'
  BY <1>1 DEF IInv, Types, RoutersBusy, Host
<1> QED BY <1>1, <1>2, <1>3, ProcessBoots DEF Process

\* The replay command starts on a list of letters that is not empty.
LEMMA ReplayStarts ==
  ASSUME IInv, NEW S, StartReplay(S)
  PROVE  IInv'
<1> DEFINE open == {i \in DOMAIN letters : ~letters[i].replayed /\ letters[i].source \in S}
<1>1. PICK n \in DOMAIN letters : \E list \in [1 .. n -> open] :
        work' = [work EXCEPT ![Cli] =
          [todo |-> [k \in DOMAIN list |-> Item(letters[list[k]].event, list[k])],
           pc |-> "route"]]
  BY DEF StartReplay
<1>2. PICK list \in [1 .. n -> open] :
        work' = [work EXCEPT ![Cli] =
          [todo |-> [k \in DOMAIN list |-> Item(letters[list[k]].event, list[k])],
           pc |-> "route"]]
  BY <1>1
<1>3. /\ Boot("replay") /\ run["replay"] < MaxReplays
      /\ UNCHANGED <<next, memory, tables, faults, sent, dropped, killed>>
      /\ up' = up \union {"replay"}
  BY DEF StartReplay, Boot
<1>4. /\ letters \in Seq(Letters) /\ DOMAIN letters = 1 .. Len(letters) /\ Len(letters) \in Nat
  BY LenProperties DEF IInv, Types
<1>5. n \in Nat \ {0} /\ open \subseteq 1 .. Len(letters)
  BY <1>4
<1>6. \A i \in open : Item(letters[i].event, i) \in Items
  <2> SUFFICES ASSUME NEW i \in open PROVE Item(letters[i].event, i) \in Items
    OBVIOUS
  <2>1. i \in 1 .. Len(letters) /\ letters[i] \in Letters
    BY <1>4, <1>5, ElementOfSeq
  <2> QED BY <2>1 DEF Letters, Items, Item
<1> HIDE DEF open
<1> DEFINE todo == [k \in DOMAIN list |-> Item(letters[list[k]].event, list[k])]
<1>7. todo \in [1 .. n -> Items]
  BY <1>6
<1>8. todo \in Seq(Items) /\ Len(todo) = n
  BY <1>5, <1>7
<1>9. todo # <<>>
  BY <1>5, <1>8, EmptySeq
<1> DEFINE w == [todo |-> todo, pc |-> "route"]
<1>10. /\ work' = [work EXCEPT ![Cli] = w] /\ w \in [todo : Seq(Items), pc : Steps]
       /\ w.pc # "idle" /\ w.todo # <<>>
  BY <1>2, <1>8, <1>9 DEF Steps
<1> HIDE DEF todo, w
<1>11. Cli \in Router /\ Host(Cli) \in up' /\ up \subseteq up'
  BY <1>3 DEF Router, Host
<1>12. work' \in [Router -> [todo : Seq(Items), pc : Steps]] /\ RoutersBusy'
  BY <1>10, <1>11, WorkChanges DEF IInv
<1>13. next' \in 1 .. Len(Chain) + 1
  BY <1>3 DEF IInv, Types
<1> QED BY <1>3, <1>12, <1>13, ProcessBoots DEF Process

\* The replay command marks the letter it has routed again.
LEMMA MarksReplayed ==
  ASSUME IInv, MarkReplayed
  PROVE  IInv'
<1> USE DEF memory
<1> DEFINE n == Head(work[Cli].todo).letter
<1>1. /\ work[Cli].pc = "mark" /\ NextItem(Cli)
      /\ letters' = [letters EXCEPT ![n].replayed = TRUE]
      /\ UNCHANGED <<up, run, next, memory, rows, faults, sent, dropped, killed>>
  BY DEF MarkReplayed, Marked
<1>2. work' \in [Router -> [todo : Seq(Items), pc : Steps]] /\ RoutersBusy'
  BY <1>1, RouterMoves DEF IInv, Router
<1>3. /\ letters \in Seq(Letters) /\ DOMAIN letters = 1 .. Len(letters) /\ Len(letters) \in Nat
      /\ letters \in [1 .. Len(letters) -> Letters]
  BY LenProperties, ElementOfSeq DEF IInv, Types
<1> HIDE DEF n
<1>4. /\ letters' \in [1 .. Len(letters) -> Letters]
      /\ \A i \in 1 .. Len(letters) : /\ letters'[i].source = letters[i].source
                                      /\ letters'[i].event = letters[i].event
                                      /\ letters'[i].time = letters[i].time
  BY <1>1, <1>3 DEF Letters
<1>5. letters' \in Seq(Letters) /\ \A b : Lettered(b) => Lettered(b)'
  BY <1>3, <1>4 DEF Lettered
<1>6. Types'
  BY <1>1, <1>2, <1>5 DEF IInv, Types
<1>7. WritersBusy' /\ KnownSent' /\ StartsCounted'
  BY <1>1 DEF IInv, WritersBusy, KnownSent, StartsCounted
<1>8. FailuresCounted' /\ OneRowPerRouting'
  BY <1>1 DEF IInv, FailuresCounted, OneRowPerRouting
<1>9. NoneLost'
  BY <1>1, <1>5 DEF IInv, NoneLost, Waiting, Stored
<1> QED BY <1>2, <1>6, <1>7, <1>8, <1>9 DEF IInv

-----------------------------------------------------------------------------
(* The invariant.                                                          *)

LEMMA InitIInv == Init => IInv
<1> SUFFICES ASSUME Init PROVE IInv
  OBVIOUS
<1>1. /\ <<>> \in Seq(Items) /\ <<>> \in Seq(Routings) /\ <<>> \in Seq(Letters)
      /\ Len(<<>>) = 0 /\ ToSet(<<>>) = {} /\ DOMAIN EmptyBag = {}
  BY EmptySeq, ToSetEmpty DEF EmptyBag, SetToBag
<1>2. /\ Len(Chain) \in Nat /\ Capacity \in Nat \ {0} /\ BatchSize \in Nat \ {0}
      /\ MaxReplays \in Nat /\ MaxFaults \in Nat
  BY IndexerAssumption, LenProperties DEF IndexerAssumption
<1>3. Types
  BY <1>1, <1>2 DEF Init, Types, Process, Resting, Steps, Phases
<1>4. RoutersBusy /\ WritersBusy /\ StartsCounted
  BY <1>1, <1>2 DEF Init, RoutersBusy, WritersBusy, StartsCounted, Resting, Process
<1>5. KnownSent /\ FailuresCounted /\ NoneLost /\ OneRowPerRouting
  BY <1>1 DEF Init, KnownSent, FailuresCounted, NoneLost, OneRowPerRouting, BagToSet
<1> QED BY <1>3, <1>4, <1>5 DEF IInv

\* Every step of the indexer and of the replay command keeps the invariant.
LEMMA NextIInv == IInv /\ [Next]_vars => IInv'
<1> SUFFICES ASSUME IInv, [Next]_vars PROVE IInv'
  OBVIOUS
<1>1. CASE TakeSome
  BY <1>1, TakesCheckpoint DEF TakeSome
<1>2. ASSUME NEW r \in Router, RouterStep(r) PROVE IInv'
  BY <1>2, Rejects, Sends, Notifies, NotifyFailing DEF RouterStep
<1>3. ASSUME NEW p \in Process, WriterStep(p) PROVE IInv'
  BY <1>3, Receives, TimerTicks, MultiRowInserts, IndividualInserts, InsertsDeadLetter
  DEF WriterStep
<1>4. ASSUME NEW p \in Process, Crash(p) PROVE IInv'
  BY <1>4, ProcessEnds DEF Crash
<1>5. CASE RestartIndexer
  BY <1>5, IndexerRestarts
<1>6. ASSUME NEW S, StartReplay(S) PROVE IInv'
  BY <1>6, ReplayStarts
<1>7. CASE ReplayStep
  BY <1>7, MarksReplayed, ProcessEnds DEF ReplayStep, ReplayEnds, MarkFails, Process
<1>8. CASE UNCHANGED vars
  <2>1. next' \in 1 .. Len(Chain) + 1 /\ RoutersBusy'
        /\ work' \in [Router -> [todo : Seq(Items), pc : Steps]]
    BY <1>8 DEF vars, IInv, Types, RoutersBusy, Host
  <2> QED BY <1>8, <2>1, RestStays DEF vars
<1> QED BY <1>1, <1>2, <1>3, <1>4, <1>5, <1>6, <1>7, <1>8 DEF Next

LEMMA Invariance == Spec => []IInv
BY InitIInv, NextIInv, PTL DEF Spec

-----------------------------------------------------------------------------
(* What follows.                                                           *)

\* The channel keeps to its capacity, the batch to its size, a process that
\* does not run has nothing in memory, and every start of the indexer but the
\* first is paid for by a failure.
THEOREM IndexerTypeOK == Spec => []TypeOK
<1>1. IInv => TypeOK
  <2> SUFFICES ASSUME IInv PROVE TypeOK
    OBVIOUS
  <2>1. /\ up \subseteq Process /\ next \in 1 .. Len(Chain) + 1 /\ faults \in 0 .. MaxFaults
        /\ run["replay"] <= MaxReplays
        /\ BagToSet(rows) \subseteq Routings /\ sent \subseteq Routings
        /\ dropped \union killed \subseteq sent
    BY DEF IInv, Types, StartsCounted, KnownSent, BagToSet
  <2>2. run["indexer"] <= 1 + faults
    <3>1. run["indexer"] \in Nat /\ faults \in Nat
      BY DEF IInv, Types, Process
    <3> QED BY <3>1 DEF IInv, StartsCounted
  <2>3. \A r \in Router : work[r].pc \in Steps
    BY DEF IInv, Types
  <2>4. \A p \in Process : wpc[p] \in Phases
    BY DEF IInv, Types
  <2> QED BY <2>1, <2>2, <2>3, <2>4 DEF IInv, TypeOK, RoutersBusy, WritersBusy, Steps, Phases
<1> QED BY <1>1, Invariance, PTL

\* An event that was handed to a writer is in memory, in the table or in a dead
\* letter unless its process ended under it, and it takes three failed calls to
\* drop one.
THEOREM IndexerNothingLost == Spec => []NothingLost
<1>1. IInv => NothingLost
  BY DEF IInv, NothingLost, NoneLost, FailuresCounted
<1> QED BY <1>1, Invariance, PTL

\* A routing has at most one row, however often its insert is tried.
THEOREM IndexerOneRow == Spec => []OneRowPerRouting
<1>1. IInv => OneRowPerRouting
  BY DEF IInv
<1> QED BY <1>1, Invariance, PTL

-----------------------------------------------------------------------------
(* The abstract store.                                                     *)

LEMMA PendingIs == \A b : b \in Pending <=> Waiting(b)
BY DEF Pending, Waiting

LEMMA PendingNext == \A b : b \in Pending' <=> Waiting(b)'
BY DEF Pending, Waiting

\* The fallback is through with one routing.
LEMMA FallbackLeaves ==
  ASSUME IInv, NEW p \in Process, wpc[p] \in {"single", "letter"}, FallbackNext(p),
         up' = up, chan' = chan
  PROVE  Pending' \subseteq Pending /\ Pending \ Pending' \subseteq {Head(batch[p])}
<1>1. /\ \A q \in Process : ToSet(batch'[q]) \subseteq ToSet(batch[q])
      /\ \A b : Waiting(b) => Waiting(b)' \/ b = Head(batch[p])
  BY FallbackMoves
<1>2. \A b : Waiting(b)' => Waiting(b)
  BY <1>1 DEF Waiting
<1> QED BY <1>1, <1>2, PendingIs, PendingNext

\* The table after an insert has what it had, and of the rest only what was
\* inserted.
LEMMA TableGrows ==
  ASSUME OneRowPerRouting, NEW R, rows' \in {rows, Inserted(R)}
  PROVE  /\ Table \subseteq Table' /\ Table' \subseteq Table \union R
         /\ rows' = Inserted(R) => R \subseteq Table'
<1>1. CASE rows' = rows /\ rows' # Inserted(R)
  BY <1>1 DEF Table
<1>2. CASE rows' = Inserted(R)
  <2>1. DOMAIN rows' = DOMAIN rows \union R
    BY <1>2, InsertedRows
  <2> QED BY <1>2, <2>1 DEF Table, BagToSet
<1> QED BY <1>1, <1>2

\* The shelf has the letters of the writer, whether they are replayed or not.
LEMMA ShelfIs ==
  ASSUME Types
  PROVE  \A b : b \in Shelf <=> \E i \in DOMAIN letters :
                                  /\ letters[i].source = "batch_writer"
                                  /\ b = [event |-> letters[i].event, time |-> letters[i].time]
BY DEF Shelf, ToSet

LEMMA ShelfGrows ==
  ASSUME Types, NEW l \in Letters, letters' = Append(letters, l)
  PROVE  /\ l.source # "batch_writer" => Shelf' = Shelf
         /\ l.source = "batch_writer" => Shelf' = Shelf \union {[event |-> l.event, time |-> l.time]}
<1>1. letters \in Seq(Letters)
  BY DEF Types
<1>2. ToSet(letters') = ToSet(letters) \union {l}
  BY <1>1, ToSetAppend
<1> QED BY <1>2 DEF Shelf

\* A step of none of the five.
StoreRests == UNCHANGED <<sent, Pending, Table, Shelf, Losses>>

LEMMA Rests ==
  ASSUME UNCHANGED <<sent, chan, batch, rows, letters, dropped, killed>>
  PROVE  StoreRests
BY DEF StoreRests, Pending, Table, Shelf, Losses

\* A router hands over one routing, and does nothing else to the store.
LEMMA RouterStores ==
  ASSUME IInv, NEW r \in Router, RouterStep(r)
  PROVE  Store!Accept \/ StoreRests
<1>1. CASE Reject(r) \/ Notify(r)
  BY <1>1, Rests DEF Reject, Notify, memory, tables
<1>2. CASE NotifyFails(r)
  <2> DEFINE l == DeadLetter(Routing(r).event, Routing(r).time,
                             IF work[r].pc = "alert" THEN "alert_webhook" ELSE "webhook")
  <2>1. /\ letters' = Append(letters, l) \/ letters' = letters
        /\ work[r].pc \in {"alert", "webhook"}
        /\ UNCHANGED <<sent, chan, batch, rows, dropped, killed>>
    BY <1>2 DEF NotifyFails, memory
  <2>2. l \in Letters /\ l.source # "batch_writer"
    <3>1. Routing(r) \in Routings
      BY <2>1, AtHand DEF IInv
    <3> QED BY <3>1 DEF DeadLetter, Letters, Routings, Sources
  <2> HIDE DEF l
  <2>3. Shelf' = Shelf
    <3>1. CASE letters' = letters
      BY <3>1 DEF Shelf
    <3>2. CASE letters' = Append(letters, l)
      BY <2>2, <3>2, ShelfGrows DEF IInv
    <3> QED BY <2>1, <3>1, <3>2
  <2> QED BY <2>1, <2>3 DEF StoreRests, Pending, Table, Losses
<1>3. CASE Send(r)
  <2> DEFINE p == Host(r)
  <2> DEFINE b == Routing(r)
  <2>1. /\ work[r].pc = "route" /\ chan' = [chan EXCEPT ![p] = Append(@, b)]
        /\ sent' = sent \union {b}
        /\ UNCHANGED <<batch, rows, letters, dropped, killed>>
    BY <1>3 DEF Send, tables
  <2>2. b \in Routings /\ p \in Process
    BY <2>1, AtHand DEF IInv
  <2> HIDE DEF p, b
  <2>3. chan \in [Process -> Seq(Routings)] /\ chan[p] \in Seq(Routings)
    BY <2>2 DEF IInv, Types
  <2>4. /\ ToSet(chan'[p]) = ToSet(chan[p]) \union {b}
        /\ \A q \in Process \ {p} : chan'[q] = chan[q]
    <3>1. chan'[p] = Append(chan[p], b)
      BY <2>1, <2>2, <2>3
    <3> QED BY <2>1, <2>2, <2>3, <3>1, ToSetAppend
  <2>5. \A c : Waiting(c)' <=> (Waiting(c) \/ c = b)
    BY <2>1, <2>2, <2>4 DEF Waiting
  <2>6. Pending' = Pending \union {b}
    BY <2>5, PendingIs, PendingNext
  <2>7. UNCHANGED <<Table, Shelf, Losses>>
    BY <2>1 DEF Table, Shelf, Losses
  <2> QED BY <2>1, <2>6, <2>7 DEF Store!Accept
<1> QED BY <1>1, <1>2, <1>3 DEF RouterStep

\* A writer inserts what it has, or shelves or loses one routing.
LEMMA WriterStores ==
  ASSUME IInv, NEW p \in Process, WriterStep(p)
  PROVE  Store!Insert \/ Store!Shelve \/ Store!Lose \/ StoreRests
<1>1. CASE Receive(p)
  <2>1. /\ chan[p] # <<>> /\ chan' = [chan EXCEPT ![p] = Tail(@)]
        /\ batch' = [batch EXCEPT ![p] = Append(@, Head(chan[p]))]
        /\ UNCHANGED <<sent, rows, letters, dropped, killed>>
    BY <1>1 DEF Receive, tables
  <2>2. /\ chan \in [Process -> Seq(Routings)] /\ batch \in [Process -> Seq(Routings)]
        /\ chan[p] \in Seq(Routings) /\ batch[p] \in Seq(Routings)
    BY DEF IInv, Types
  <2>3. Head(chan[p]) \in Routings /\ ToSet(chan[p]) = {Head(chan[p])} \union ToSet(Tail(chan[p]))
    BY <2>1, <2>2, HeadTailProperties, ToSetTail
  <2>4. /\ chan'[p] = Tail(chan[p]) /\ batch'[p] = Append(batch[p], Head(chan[p]))
        /\ \A q \in Process \ {p} : chan'[q] = chan[q] /\ batch'[q] = batch[q]
    BY <2>1, <2>2
  <2>5. ToSet(batch'[p]) = ToSet(batch[p]) \union {Head(chan[p])}
    BY <2>2, <2>3, <2>4, ToSetAppend
  <2>6. \A c : Waiting(c)' <=> Waiting(c)
    BY <2>3, <2>4, <2>5 DEF Waiting
  <2>7. Pending' = Pending
    BY <2>6, PendingIs, PendingNext
  <2> QED BY <2>1, <2>7 DEF StoreRests, Table, Shelf, Losses
<1>2. CASE TimerTick(p)
  BY <1>2, Rests DEF TimerTick, tables
<1>3. CASE MultiRowInsert(p)
  <2> DEFINE R == ToSet(batch[p])
  <2>1. /\ wpc[p] = "multi" /\ rows' \in {rows, Inserted(R)}
        /\ \/ rows' = Inserted(R) /\ batch' = [batch EXCEPT ![p] = <<>>]
           \/ batch' = batch
        /\ UNCHANGED <<sent, chan, letters, dropped, killed>>
    BY <1>3 DEF MultiRowInsert
  <2>2. \A b \in R : Waiting(b)
    BY DEF Waiting
  <2>3. batch \in [Process -> Seq(Routings)]
    BY DEF IInv, Types
  <2> HIDE DEF R
  <2>4. /\ Table \subseteq Table' /\ Table' \subseteq Table \union R
        /\ rows' = Inserted(R) => R \subseteq Table'
    BY <2>1, TableGrows DEF IInv
  <2>5. Pending' \subseteq Pending /\ Pending \ Pending' \subseteq Table'
    <3>1. CASE batch' = batch
      BY <2>1, <3>1 DEF Pending
    <3>2. CASE rows' = Inserted(R) /\ batch' = [batch EXCEPT ![p] = <<>>]
      <4>1. ToSet(batch'[p]) = {} /\ \A q \in Process \ {p} : batch'[q] = batch[q]
        BY <2>3, <3>2, ToSetEmpty
      <4>2. \A c : /\ Waiting(c)' => Waiting(c)
                   /\ Waiting(c) => Waiting(c)' \/ c \in R
        BY <2>1, <4>1 DEF Waiting, R
      <4> QED BY <2>4, <3>2, <4>2, PendingIs, PendingNext
    <3> QED BY <2>1, <3>1, <3>2
  <2>6. R \subseteq Pending
    BY <2>2, PendingIs
  <2>7. UNCHANGED <<sent, Shelf, Losses>>
    BY <2>1 DEF Shelf, Losses
  <2> QED BY <2>4, <2>5, <2>6, <2>7 DEF Store!Insert, Store!Leaves
<1>4. CASE IndividualInsert(p)
  <2> DEFINE r == Head(batch[p])
  <2>1. /\ wpc[p] = "single" /\ rows' \in {rows, Inserted({r})} /\ up' = up
        /\ \/ rows' = Inserted({r}) /\ FallbackNext(p)
           \/ batch' = batch
        /\ UNCHANGED <<sent, chan, letters, dropped, killed>>
    BY <1>4 DEF IndividualInsert
  <2>2. r \in Pending
    <3>1. ToSet(batch[p]) = {r} \union ToSet(Tail(batch[p]))
      BY <2>1, BatchAtHand
    <3> QED BY <3>1, PendingIs DEF Waiting
  <2> HIDE DEF r
  <2>3. /\ Table \subseteq Table' /\ Table' \subseteq Table \union {r}
        /\ rows' = Inserted({r}) => {r} \subseteq Table'
    BY <2>1, TableGrows DEF IInv
  <2>4. Pending' \subseteq Pending /\ Pending \ Pending' \subseteq Table'
    <3>1. CASE batch' = batch
      BY <2>1, <3>1 DEF Pending
    <3>2. CASE rows' = Inserted({r}) /\ FallbackNext(p)
      <4>1. Pending' \subseteq Pending /\ Pending \ Pending' \subseteq {r}
        BY <2>1, <3>2, FallbackLeaves DEF r
      <4> QED BY <2>3, <3>2, <4>1
    <3> QED BY <2>1, <3>1, <3>2
  <2>5. UNCHANGED <<sent, Shelf, Losses>>
    BY <2>1 DEF Shelf, Losses
  <2> QED BY <2>2, <2>3, <2>4, <2>5 DEF Store!Insert, Store!Leaves
<1>5. CASE InsertDeadLetter(p)
  <2> DEFINE r == Head(batch[p])
  <2> DEFINE l == DeadLetter(r.event, r.time, "batch_writer")
  <2>1. /\ wpc[p] = "letter" /\ FallbackNext(p) /\ up' = up
        /\ \/ letters' = Append(letters, l) /\ dropped' = dropped
           \/ dropped' = dropped \union {r} /\ letters' = letters
        /\ UNCHANGED <<sent, chan, rows, killed>>
    BY <1>5 DEF InsertDeadLetter
  <2>2. /\ r \in Routings /\ l \in Letters /\ l.source = "batch_writer"
        /\ [event |-> l.event, time |-> l.time] = r
    BY <2>1, BatchAtHand DEF DeadLetter, Letters, Routings, Sources
  <2>3. Pending' \subseteq Pending /\ Pending \ Pending' \subseteq {r}
    BY <2>1, FallbackLeaves
  <2>4. r \in Pending
    <3>1. ToSet(batch[p]) = {r} \union ToSet(Tail(batch[p]))
      BY <2>1, BatchAtHand
    <3> QED BY <3>1, PendingIs DEF Waiting
  <2> HIDE DEF r, l
  <2>5. UNCHANGED <<sent, Table>>
    BY <2>1 DEF Table
  <2>6. CASE letters' = Append(letters, l) /\ dropped' = dropped
    <3>1. Shelf' = Shelf \union {r}
      BY <2>2, <2>6, ShelfGrows DEF IInv
    <3>2. UNCHANGED Losses
      BY <2>1, <2>6 DEF Losses
    <3>3. Pending \ Pending' \subseteq Shelf'
      BY <2>3, <3>1
    <3> QED BY <2>3, <2>4, <2>5, <3>1, <3>2, <3>3 DEF Store!Shelve, Store!Leaves
  <2>7. CASE dropped' = dropped \union {r} /\ letters' = letters
    <3>1. Losses' = Losses \union {r} /\ UNCHANGED Shelf
      BY <2>1, <2>7 DEF Losses, Shelf
    <3>2. /\ Losses \subseteq Losses' /\ Losses' \subseteq Losses \union Pending
          /\ Pending \ Pending' \subseteq Losses'
      BY <2>3, <2>4, <3>1
    <3> QED BY <2>3, <2>5, <3>1, <3>2 DEF Store!Lose, Store!Leaves
  <2> QED BY <2>1, <2>6, <2>7
<1> QED BY <1>1, <1>2, <1>3, <1>4, <1>5 DEF WriterStep

\* What a process has in memory is lost with it.
LEMMA EndLoses ==
  ASSUME IInv, NEW p \in Process, Ends(p), UNCHANGED <<tables, sent, dropped>>
  PROVE  Store!Lose
<1>1. /\ killed' = killed \union ToSet(chan[p]) \union ToSet(batch[p])
      /\ chan' = [chan EXCEPT ![p] = <<>>] /\ batch' = [batch EXCEPT ![p] = <<>>]
      /\ chan \in [Process -> Seq(Routings)] /\ batch \in [Process -> Seq(Routings)]
  BY DEF Ends, IInv, Types
<1> DEFINE M == ToSet(chan[p]) \union ToSet(batch[p])
<1>2. /\ ToSet(chan'[p]) = {} /\ ToSet(batch'[p]) = {}
      /\ \A q \in Process \ {p} : chan'[q] = chan[q] /\ batch'[q] = batch[q]
  BY <1>1, ToSetEmpty
<1>3. \A c : /\ Waiting(c)' => Waiting(c)
             /\ Waiting(c) => Waiting(c)' \/ c \in M
             /\ c \in M => Waiting(c)
  BY <1>2 DEF Waiting
<1>4. Losses' = Losses \union M
  BY <1>1 DEF Losses
<1> HIDE DEF M
<1>5. Pending' \subseteq Pending /\ Pending \ Pending' \subseteq M /\ M \subseteq Pending
  BY <1>3, PendingIs, PendingNext
<1>6. /\ Losses \subseteq Losses' /\ Losses' \subseteq Losses \union Pending
      /\ Pending \ Pending' \subseteq Losses'
  BY <1>4, <1>5
<1>7. UNCHANGED <<sent, Table, Shelf>>
  BY DEF tables, Table, Shelf
<1> QED BY <1>5, <1>6, <1>7 DEF Store!Lose, Store!Leaves

\* A mark changes nothing of what the shelf has.
LEMMA MarkRests ==
  ASSUME IInv, MarkReplayed
  PROVE  StoreRests
<1> DEFINE n == Head(work[Cli].todo).letter
<1>1. /\ letters' = [letters EXCEPT ![n].replayed = TRUE]
      /\ UNCHANGED <<chan, batch, rows, sent, dropped, killed>>
  BY DEF MarkReplayed, Marked, memory
<1> HIDE DEF n
<1>2. /\ letters \in Seq(Letters) /\ DOMAIN letters = 1 .. Len(letters) /\ Len(letters) \in Nat
      /\ letters \in [1 .. Len(letters) -> Letters]
  BY LenProperties, ElementOfSeq DEF IInv, Types
<1>3. /\ DOMAIN letters' = DOMAIN letters
      /\ \A i \in DOMAIN letters : /\ letters'[i].source = letters[i].source
                                   /\ letters'[i].event = letters[i].event
                                   /\ letters'[i].time = letters[i].time
  BY <1>1, <1>2 DEF Letters
<1>4. Types'
  BY MarksReplayed DEF IInv
<1>5. Shelf' = Shelf
  <2>1. \A b : b \in Shelf' <=> b \in Shelf
    BY <1>3 DEF Shelf, ToSet
  <2> QED BY <2>1
<1> QED BY <1>1, <1>5 DEF StoreRests, Pending, Table, Losses

\* Every step of the indexer is one of the abstract store, or changes nothing of it.
THEOREM IndexerImplementsStore == Spec => ImplementsEventStore
<1>1. Init => Store!Init
  <2> SUFFICES ASSUME Init PROVE Store!Init
    OBVIOUS
  <2>1. Pending = {} /\ Shelf = {}
    BY ToSetEmpty DEF Init, Pending, Shelf
  <2>2. Table = {} /\ Losses = {} /\ sent = {}
    BY DEF Init, Table, Losses, BagToSet, EmptyBag, SetToBag
  <2> QED BY <2>1, <2>2 DEF Store!Init
<1>2. IInv /\ [Next]_vars => [Store!Next]_(Store!store)
  <2> SUFFICES ASSUME IInv, [Next]_vars
               PROVE  Store!Next \/ StoreRests
    BY DEF StoreRests, Store!store
  <2>1. CASE TakeSome \/ RestartIndexer \/ UNCHANGED vars
    BY <2>1, Rests DEF TakeSome, TakeCheckpoint, RestartIndexer, vars, memory, tables
  <2>2. ASSUME NEW S, StartReplay(S) PROVE StoreRests
    BY <2>2, Rests DEF StartReplay, memory, tables
  <2>3. ASSUME NEW r \in Router, RouterStep(r) PROVE Store!Next \/ StoreRests
    BY <2>3, RouterStores DEF Store!Next
  <2>4. ASSUME NEW p \in Process, WriterStep(p) PROVE Store!Next \/ StoreRests
    BY <2>4, WriterStores DEF Store!Next
  <2>5. ASSUME NEW p \in Process, Crash(p) PROVE Store!Next
    BY <2>5, EndLoses DEF Crash, Store!Next
  <2>6. CASE ReplayStep
    <3>1. CASE MarkReplayed
      BY <3>1, MarkRests
    <3>2. CASE MarkFails \/ ReplayEnds
      BY <3>2, EndLoses DEF MarkFails, ReplayEnds, Process, Store!Next
    <3> QED BY <2>6, <3>1, <3>2 DEF ReplayStep
  <2> QED BY <2>1, <2>2, <2>3, <2>4, <2>5, <2>6 DEF Next
<1> QED BY <1>1, <1>2, Invariance, PTL DEF Spec, ImplementsEventStore, Store!Spec

\* In the abstract store nothing is made up and nothing vanishes.
LEMMA StoreAccounts == ImplementsEventStore => []Store!AllAccountedFor
<1>1. Store!Init => Store!AllAccountedFor
  BY DEF Store!Init, Store!AllAccountedFor
<1>2. Store!AllAccountedFor /\ [Store!Next]_(Store!store) => Store!AllAccountedFor'
  <2> SUFFICES ASSUME Store!AllAccountedFor, [Store!Next]_(Store!store)
               PROVE  sent' = Pending' \union Table' \union Shelf' \union Losses'
    BY DEF Store!AllAccountedFor
  <2>0. sent = Pending \union Table \union Shelf \union Losses
    BY DEF Store!AllAccountedFor
  <2>1. CASE Store!Accept
    BY <2>0, <2>1 DEF Store!Accept
  <2>2. CASE Store!Insert
    BY <2>0, <2>2 DEF Store!Insert, Store!Leaves
  <2>3. CASE Store!Shelve
    BY <2>0, <2>3 DEF Store!Shelve, Store!Leaves
  <2>4. CASE Store!Lose
    BY <2>0, <2>4 DEF Store!Lose, Store!Leaves
  <2>5. CASE UNCHANGED Store!store
    BY <2>0, <2>5 DEF Store!store
  <2> QED BY <2>1, <2>2, <2>3, <2>4, <2>5 DEF Store!Next
<1> QED BY <1>1, <1>2, PTL DEF ImplementsEventStore, Store!Spec

\* So neither does the indexer: the routings that were handed over are exactly
\* those in memory, in the table, on the shelf or lost.  In particular no row
\* and no letter of the writer is of a routing that no router has sent.
THEOREM SentIsAccountedFor ==
  Spec => [](sent = Pending \union Table \union Shelf \union Losses)
<1>1. Store!AllAccountedFor => sent = Pending \union Table \union Shelf \union Losses
  BY DEF Store!AllAccountedFor
<1> QED BY <1>1, IndexerImplementsStore, StoreAccounts, PTL
=============================================================================
