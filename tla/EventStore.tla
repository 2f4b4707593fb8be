----------------------------- MODULE EventStore -----------------------------
(***************************************************************************)
(* What the indexer promises about what a router has handed over to its    *)
(* writer: it stays pending until it is in the table, on the shelf of dead *)
(* letters or among what is known to be lost.  These three only grow, and  *)
(* only by what was pending.                                               *)
(***************************************************************************)

VARIABLES taken, pending, stored, shelved, lost

store == <<taken, pending, stored, shelved, lost>>

Init == taken = {} /\ pending = {} /\ stored = {} /\ shelved = {} /\ lost = {}

\* What leaves is in one of the three from then on.
Leaves(place) == pending' \subseteq pending /\ pending \ pending' \subseteq place

Accept == /\ \E b \in pending' : /\ pending' = pending \union {b}
                                 /\ taken' = taken \union {b}
          /\ UNCHANGED <<stored, shelved, lost>>

\* Rows come in batches, and may be there although the answer was lost.
Insert == /\ stored \subseteq stored' /\ stored' \subseteq stored \union pending
          /\ Leaves(stored')
          /\ UNCHANGED <<taken, shelved, lost>>

Shelve == /\ \E b \in pending : shelved' = shelved \union {b}
          /\ Leaves(shelved')
          /\ UNCHANGED <<taken, stored, lost>>

\* By the last of three failures, or with the process.
Lose == /\ lost \subseteq lost' /\ lost' \subseteq lost \union pending
        /\ Leaves(lost')
        /\ UNCHANGED <<taken, stored, shelved>>

Next == Accept \/ Insert \/ Shelve \/ Lose

Spec == Init /\ [][Next]_store

\* Nothing is made up and nothing vanishes.
AllAccountedFor == taken = pending \union stored \union shelved \union lost
=============================================================================
