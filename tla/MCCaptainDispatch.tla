--------------------------- MODULE MCCaptainDispatch ---------------------------
(* Instances of CaptainDispatch for TLC: a visit of two cars, a booking of one. *)
EXTENDS CaptainDispatch, TLC

CONSTANTS v1, v2, MaxDisturbed

TwoVisits == (1 :> v1) @@ (2 :> v1) @@ (3 :> v2)

Alike == Permutations(Captains) \cup Permutations(Times) \cup Permutations(Calls)

(* What happens besides the calls: a visit moved, a car begun, finished or    *)
(* cancelled, a captain suspended, a call that dies.                           *)
Disturbed ==
    moves + Cardinality({c \in Cars : job[c].status \in {"started"} \cup Over})
          + Cardinality({k \in Captains : ~fit[k]}) + Cardinality({a \in Calls : call[a].step = "dead"})
Few == Disturbed <= MaxDisturbed
=============================================================================
