------------------------------ MODULE MCEscrow ------------------------------
(* Instances of Escrow for TLC: the schedules a payer may attach.          *)
EXTENDS Escrow, TLC

CONSTANTS payer, payee, a1, a2, a3

Half(p)  == [pct |-> p, done |-> FALSE]
Linear   == [kind |-> "LINEAR", cliff |-> 1, duration |-> 3, milestones |-> <<>>]
Instant  == [kind |-> "LINEAR", cliff |-> 0, duration |-> 0, milestones |-> <<>>]
Stages   == [kind |-> "MILESTONE", cliff |-> 0, duration |-> 0,
             milestones |-> <<Half(3333), Half(6667)>>]
ShortSum == [kind |-> "MILESTONE", cliff |-> 0, duration |-> 0,
             milestones |-> <<Half(5000)>>]
\* A kind the contract does not know, with unchecked percentages.
Unknown  == [kind |-> "OTHER", cliff |-> 0, duration |-> 0,
             milestones |-> <<Half(7000), Half(7000)>>]

MCOffers   == {Linear, Instant, Stages, ShortSum, Unknown}
MCNoOffers == {}

\* An escrow of two parties goes through the whole range of amounts, times and
\* schedules; one with arbitrators is small, for its votes and commitments are many.
MCBounds ==
  \/ /\ terms'.arbitrators = {} /\ terms'.threshold = 0
     /\ terms'.payee \in {NONE, payer, payee} /\ deposit' # 2
  \/ /\ terms'.arbitrators # {} /\ terms'.expiry # 4
     /\ deposit' \in {0, 2} /\ schedule' = NoSchedule
     /\ now' <= 2 /\ arb'.deadline <= 2
MCSpec == Init /\ [][Next /\ MCBounds]_vars
MCArbSymmetry == Permutations({a1, a2, a3})
=============================================================================
