---------------------------- MODULE MCSeatLedger ----------------------------
(* Instances of SeatLedger for TLC.  Cars a1, a2 are a visit of one or two,  *)
(* b1 is a booking of one car.                                               *)
EXTENDS SeatLedger, TLC

CONSTANTS a1, a2, b1, visitA, visitB, Seats, PerDay

CarVisit == [c \in Cars |-> IF c = b1 THEN visitB ELSE visitA]
CarOrder == [c \in Cars |-> IF c = a2 THEN 1 ELSE 0]
EverySlot == [s \in Slots |-> Seats]
EveryDay == [d \in Days |-> PerDay]
NoOverrides == {}
AnyAddress == [h \in Holders |-> CHOOSE a \in Addresses : TRUE]

\* Two calls of hold_slot are alike.
SameRequests == Permutations(Requests)

\* Days are alike, and so are times.
SameSlots == Permutations(Days) \cup Permutations(Times)
=============================================================================
