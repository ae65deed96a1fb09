----------------------------- MODULE JobStatus -----------------------------
(***************************************************************************)
(* What the service promises of a job's status: it moves along             *)
(* _ALLOWED_TRANSITIONS and no other way, whoever acts on it and from      *)
(* however old a read (booking_service.py, "the single canonical map").    *)
(* The states before payment belong to another module: a job appears here  *)
(* when it is pending.                                                     *)
(***************************************************************************)
CONSTANT Cars

VARIABLE status

Statuses == {"pending", "rescheduled", "assigned", "on_the_way", "started", "completed", "cancelled"}

Allowed ==
    [s \in Statuses |->
        CASE s = "pending"     -> {"assigned", "cancelled", "rescheduled", "completed"}
          [] s = "assigned"    -> {"on_the_way", "pending", "cancelled", "rescheduled", "completed"}
          [] s = "on_the_way"  -> {"started", "pending", "cancelled"}
          [] s = "started"     -> {"completed", "cancelled"}
          [] s = "rescheduled" -> {"assigned", "cancelled", "completed"}
          [] OTHER             -> {}]

Init == status \in [Cars -> {"pending", "assigned"}]

(* One transaction may move several cars of a visit. *)
Next ==
    /\ status' \in [Cars -> Statuses]
    /\ \A c \in Cars : status'[c] = status[c] \/ status'[c] \in Allowed[status[c]]

Spec == Init /\ [][Next]_status
=============================================================================
