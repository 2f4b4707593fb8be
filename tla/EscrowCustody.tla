---------------------------- MODULE EscrowCustody ----------------------------
(***************************************************************************)
(* What an escrow promises about money, whatever its terms: it is funded   *)
(* once, it pays the payee out of what it holds, and what it gives back to *)
(* the payer is always the whole remainder, so a refund ends the custody.  *)
(***************************************************************************)
EXTENDS Naturals

VARIABLES held, toPayee, toPayer, opened

custody == <<held, toPayee, toPayer, opened>>

Init == held = 0 /\ toPayee = 0 /\ toPayer = 0 /\ opened = FALSE

Deposit == /\ ~opened /\ opened' = TRUE
           /\ held' \in Nat \ {0}
           /\ UNCHANGED <<toPayee, toPayer>>

PayOut == /\ \E amt \in 1 .. held : /\ held' = held - amt
                                    /\ toPayee' = toPayee + amt
          /\ UNCHANGED <<toPayer, opened>>

GiveBack == /\ held > 0 /\ held' = 0
            /\ toPayer' = toPayer + held
            /\ UNCHANGED <<toPayee, opened>>

Next == Deposit \/ PayOut \/ GiveBack

Spec == Init /\ [][Next]_custody
=============================================================================
