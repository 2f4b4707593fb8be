---------------------------- MODULE DealPipeline ----------------------------
(***************************************************************************)
(* One deal of the BFF with its escrow row: deal.service.ts,               *)
(* escrow.service.ts and the listener that releases the escrow of a won    *)
(* deal.  A handler runs without a break from one await to the next, so    *)
(* the read of a row and the write computed from it are two actions, and   *)
(* any other handler may run between them.  The rows are those of the      *)
(* SUI_DRY_RUN mode: create_deal returns a Deal that the transaction of    *)
(* buildCreateDealTx leaves unused, so on chain no deal can come to exist, *)
(* and escrow rows have no column for the object the chain calls need.     *)
(***************************************************************************)
EXTENDS Integers

CONSTANTS
  Handler,      \* handlers that may be running at one time
  Title,        \* values of a field the caller may set or leave alone
  Opening,      \* stages callers of create and update may name
  Amount,       \* amounts a caller may ask to release
  Total,        \* Escrow.totalAmount
  MaxVersion,   \* bound: deal calls start below this version of the deal
  MaxWrites,    \* bound: calls start while both rows together have fewer writes
  KEEP          \* an optional field of the request that is not given

ASSUME DealAssumption ==
  /\ KEEP \notin Title /\ KEEP \notin STRING /\ KEEP \notin Nat
  /\ Opening \subseteq {"prospecting", "qualification", "proposal", "negotiation",
                      "closed_won", "closed_lost"}
  /\ Amount \subseteq Nat /\ Total \in Nat \ {0}
  /\ MaxWrites \in Nat /\ MaxVersion \in Nat

VARIABLES
  deal,     \* the row of deals
  escrow,   \* the row of escrows with its version
  handler,  \* what a running handler has read and is about to write
  won,      \* deal.stage_changed events with closed_won not yet handled
  stale     \* history: an escrow write was computed from an older row

dealVars == <<deal, escrow, handler, won, stale>>

DealStages  == {"prospecting", "qualification", "proposal", "negotiation",
                "closed_won", "closed_lost"}
AllStages   == DealStages \cup {"disputed", "closed"}
ValidTransitions ==
  {<<"prospecting", "qualification">>, <<"qualification", "proposal">>,
   <<"proposal", "negotiation">>}
  \cup {"negotiation"} \X {"closed_won", "closed_lost", "disputed"}
  \cup {"closed_won", "closed_lost"} \X {"closed"}
  \cup {"disputed"} \X {"negotiation", "closed_won", "closed_lost"}

FundableStates   == {"CREATED"}
ReleasableStates == {"FUNDED", "PARTIALLY_RELEASED"}
\* Slip: a disputed escrow may be refunded too.
RefundableInDispute == {"CREATED", "FUNDED", "DISPUTED"}
RefundableStates == {"CREATED", "FUNDED"}
DisputableStates == {"FUNDED", "PARTIALLY_RELEASED"}
EscrowStates == ReleasableStates \cup {"CREATED", "COMPLETED", "REFUNDED", "DISPUTED"}

Idle == [op |-> "idle"]

DealInit ==
  /\ \E s \in Opening, t \in Title :
       deal = [stage |-> s, title |-> t, archived |-> FALSE, version |-> 1]
  /\ escrow = [state |-> "CREATED", released |-> 0, refunded |-> 0, version |-> 0]
  /\ handler = [h \in Handler |-> Idle]
  /\ won = 0 /\ stale = FALSE

----------------------------------------------------------------------------
(* Deals.  The caller sends the version it has seen last.                  *)

CanCall(h) == handler[h] = Idle /\ deal.version + escrow.version =< MaxWrites

Read(h, op, expected, base, stage, title) ==
  /\ CanCall(h) /\ deal.version < MaxVersion
  /\ handler' = [handler EXCEPT ![h] =
       [op |-> op, expected |-> expected, base |-> base, stage |-> stage, title |-> title]]
  /\ UNCHANGED <<deal, escrow, won, stale>>

\* What a request without a field sends: the value of the row it has read.
Fill(asked, current) == IF asked = KEEP THEN current ELSE asked

ReadForUpdate(h) ==
  \E v \in 1..deal.version, s \in Opening \cup {KEEP}, t \in Title \cup {KEEP} :
    Read(h, "update", v, deal, Fill(s, deal.stage), Fill(t, deal.title))

ReadForStage(h) ==
  \E v \in 1..deal.version, s \in AllStages :
    /\ <<deal.stage, s>> \in ValidTransitions
    /\ Read(h, "stage", v, deal, s, deal.title)

ReadForArchive(h) ==
  \E v \in 1..deal.version : Read(h, "archive", v, deal, deal.stage, deal.title)

\* Prisma's update: the row with this id and this version, or an exception.
\* Slip: the write finds its row by the id alone.
MatchesAnyVersion(h) == TRUE
Matches(h) == deal.version = handler[h].expected

WriteDeal(h) ==
  LET r == handler[h] IN
  /\ r.op \in {"update", "stage", "archive"}
  /\ deal' = IF ~Matches(h) THEN deal
             ELSE CASE r.op = "update"  -> [deal EXCEPT !.version = @ + 1,
                                              !.stage = r.stage, !.title = r.title]
                    [] r.op = "stage"   -> [deal EXCEPT !.version = @ + 1, !.stage = r.stage]
                    [] r.op = "archive" -> [deal EXCEPT !.version = @ + 1, !.archived = TRUE]
  /\ won' = IF Matches(h) /\ r.op = "stage" /\ r.stage = "closed_won" THEN won + 1 ELSE won
  /\ handler' = [handler EXCEPT ![h] = Idle]
  /\ UNCHANGED <<escrow, stale>>

----------------------------------------------------------------------------
(* The escrow row.  Its writes name the id alone; the version is only      *)
(* counted.  A handler keeps the state and the amounts it will write.      *)

Take(h, op, states, state, released, refunded) ==
  /\ escrow.state \in states
  /\ handler' = [handler EXCEPT ![h] =
       [op |-> op, seen |-> escrow.version, state |-> state,
        released |-> released, refunded |-> refunded]]
  /\ UNCHANGED <<deal, escrow, won, stale>>

ReadForFund(h) == CanCall(h) /\ Take(h, "fund", FundableStates, "FUNDED", KEEP, KEEP)

\* Slip: nothing compares the sum with the total.
TakeReleaseUnchecked(h, amount) ==
  LET released == escrow.released + amount IN
  Take(h, "release", ReleasableStates,
       IF released >= Total THEN "COMPLETED" ELSE "PARTIALLY_RELEASED", released, KEEP)

\* The body of release(escrowId, amount) up to its write.
TakeRelease(h, amount) ==
  LET released == escrow.released + amount IN
  /\ released =< Total
  /\ Take(h, "release", ReleasableStates,
          IF released >= Total THEN "COMPLETED" ELSE "PARTIALLY_RELEASED", released, KEEP)

ReadForRelease(h) == CanCall(h) /\ \E a \in Amount : TakeRelease(h, a)

\* Slip: a refund also takes what a partial release left.
RefundWhole(h) == CanCall(h) /\ Take(h, "refund", RefundableStates, "REFUNDED", KEEP, Total)

ReadForRefund(h) ==
  CanCall(h) /\ Take(h, "refund", RefundableStates, "REFUNDED", KEEP, Total - escrow.released)

ReadForDispute(h) ==
  CanCall(h) /\ Take(h, "dispute", DisputableStates, "DISPUTED", KEEP, KEEP)

\* One vote of one arbitrator decides; the look-up of the arbitrator is the await.
ReadForVote(h) ==
  /\ CanCall(h)
  /\ \E s \in {"FUNDED", "REFUNDED"} : Take(h, "vote", {"DISPUTED"}, s, KEEP, KEEP)

WriteEscrow(h) ==
  LET r == handler[h] IN
  /\ r.op \in {"fund", "release", "refund", "dispute", "vote"}
  /\ escrow' = [state    |-> r.state, version |-> escrow.version + 1,
                released |-> Fill(r.released, escrow.released),
                refunded |-> Fill(r.refunded, escrow.refunded)]
  /\ stale' = (stale \/ r.seen # escrow.version)
  /\ handler' = [handler EXCEPT ![h] = Idle]
  /\ UNCHANGED <<deal, won>>

----------------------------------------------------------------------------
(* handleStageChange: it reads the row, and release reads it again.        *)

HandleWon(h) ==
  /\ won > 0 /\ handler[h] = Idle
  /\ won' = won - 1
  /\ handler' = [handler EXCEPT ![h] =
       IF escrow.state = "FUNDED"
       THEN [op |-> "pay", amount |-> Total - escrow.released] ELSE Idle]
  /\ UNCHANGED <<deal, escrow, stale>>

Pay(h) ==
  /\ handler[h].op = "pay"
  /\ TakeRelease(h, handler[h].amount)

\* The exception of release is logged and forgotten.
PayRefused(h) ==
  /\ handler[h].op = "pay"
  /\ \/ escrow.state \notin ReleasableStates
     \/ escrow.released + handler[h].amount > Total
  /\ handler' = [handler EXCEPT ![h] = Idle]
  /\ UNCHANGED <<deal, escrow, won, stale>>

Reads(h) == \/ ReadForUpdate(h) \/ ReadForStage(h) \/ ReadForArchive(h)
            \/ ReadForFund(h) \/ ReadForRelease(h) \/ ReadForRefund(h)
            \/ ReadForDispute(h) \/ ReadForVote(h)
Continues(h) == WriteDeal(h) \/ WriteEscrow(h) \/ HandleWon(h) \/ Pay(h) \/ PayRefused(h)

DealNext == \E h \in Handler : Reads(h) \/ Continues(h)
DealSpec == DealInit /\ [][DealNext]_dealVars

----------------------------------------------------------------------------
(* Properties.                                                             *)

\* The rows and what the handlers hold have their types.
DealTypeOK ==
  /\ deal \in [stage : AllStages, title : Title, archived : BOOLEAN, version : Nat]
  /\ escrow \in [state : EscrowStates, released : 0..Total, refunded : 0..Total, version : Nat]
  /\ \A h \in Handler : handler[h].op \in {"idle", "update", "stage", "archive", "fund",
       "release", "refund", "dispute", "vote", "pay"}
  /\ won \in Nat /\ stale \in BOOLEAN

\* A deal is only written over the very row its handler has read, so that what
\* update fills in undoes nobody's change and the transition updateStage has
\* checked is the one that happens (deal.service.ts, the version in the where).
WritesOverWhatItRead ==
  [][\A h \in Handler :
       deal' # deal /\ handler'[h] # handler[h] => handler[h].base = deal]_dealVars

\* Unless two escrow calls overlap, releases and the refund share the total.
TotalIsShared == ~stale => escrow.released + escrow.refunded =< Total

\* Unless two escrow calls overlap, a disputed escrow waits for a vote and
\* what is completed or refunded stays so (the *_STATES of escrow.service.ts).
OnlyVotesEndDisputes ==
  [][~stale' /\ escrow'.state # escrow.state =>
       /\ escrow.state \notin {"COMPLETED", "REFUNDED"}
       /\ escrow.state = "DISPUTED" =>
            \E h \in Handler : handler[h].op = "vote" /\ handler'[h] = Idle]_dealVars

\* The release for a won deal pays out all that is left or nothing, although
\* the listener and release each read the row (deal-event.listener.ts).
AutoReleaseIsWhole ==
  [][\A h \in Handler :
       ~stale /\ handler[h].op = "pay" /\ handler'[h].op = "release"
         => handler'[h].released = Total]_dealVars

\* Deals are written over what was read, disputes end by votes, money is
\* shared once and a won deal pays all that is left.
DealSafety == []TotalIsShared /\ WritesOverWhatItRead /\ OnlyVotesEndDisputes /\ AutoReleaseIsWhole
=============================================================================
