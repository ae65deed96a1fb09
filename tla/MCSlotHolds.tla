---------------------------- MODULE MCSlotHolds ----------------------------
(* Instances of SlotHolds for TLC: two browsers behind one address, one or   *)
(* two slots of one day, two API calls and the reminder loop.                *)
EXTENDS SlotHolds, TLC

CONSTANTS Small, Large   \* the capacity every slot starts from

OneAddress == [h \in Holders |-> CHOOSE a \in Addresses : TRUE]
OneLargeSlot == LET large == CHOOSE s \in Slots : TRUE IN [s \in Slots |-> IF s = large THEN Large ELSE Small]
ClosedSmall == {[capacity |-> Small, closed |-> TRUE]}
=============================================================================
