---------------------------- MODULE MCReminderLoop ----------------------------
(* Instances of ReminderLoop for TLC. *)
EXTENDS ReminderLoop

(* Every row belongs to the first of the two sweeps. *)
FirstSweep == [i \in Rows |-> 1]
=============================================================================
