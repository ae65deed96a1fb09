------------------------------ MODULE SeatSale ------------------------------
(***************************************************************************)
(* What the slots of a service center promise, with no counters, holds or  *)
(* rows: a slot has a capacity, visits own seats in it, and a seat is sold *)
(* only while fewer seats are owned than the slot has.  An administrator   *)
(* may change a capacity at any time; seats already owned stay owned.      *)
(***************************************************************************)
EXTENDS Integers, FiniteSets

CONSTANTS Slots, Visits

VARIABLES
  cap,      \* the capacity of each slot
  owners    \* the visits that own a seat in each slot

vars == <<cap, owners>>

Init ==
  /\ cap \in [Slots -> Nat]
  /\ owners = [s \in Slots |-> {}]

\* Visit v buys a seat in slot s and, in the same step, gives up the seats it
\* owns in the slots S: a booking when S is empty, a move when it is not.
Buy(v, s, S) ==
  /\ v \notin owners[s] /\ s \notin S
  /\ Cardinality(owners[s]) < cap[s]
  /\ owners' = [r \in Slots |-> IF r = s THEN owners[r] \cup {v}
                                ELSE IF r \in S THEN owners[r] \ {v} ELSE owners[r]]
  /\ UNCHANGED cap

GiveUp(v, S) ==
  /\ owners' = [r \in Slots |-> IF r \in S THEN owners[r] \ {v} ELSE owners[r]]
  /\ UNCHANGED cap

SetCapacity(s) ==
  /\ cap' \in [Slots -> Nat]
  /\ \A r \in Slots \ {s} : cap'[r] = cap[r]
  /\ UNCHANGED owners

Next ==
  \/ \E v \in Visits, S \in SUBSET Slots : GiveUp(v, S) \/ \E s \in Slots : Buy(v, s, S)
  \/ \E s \in Slots : SetCapacity(s)

Spec == Init /\ [][Next]_vars
=============================================================================
