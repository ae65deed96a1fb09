----------------------------- MODULE MCPassLife -----------------------------
(* Instances of PassLife for TLC. *)
EXTENDS PassLife, TLC

(* Calls and tasks under way at once, one task at most; one call is killed,  *)
(* or one pass renewed or extended; one booking rides.  After a kill, calls   *)
(* meet calls, and tasks run alone.  What follows a step that makes the       *)
(* properties moot is not looked at.                                         *)
CONSTANT MaxUnderWay

AnySale == Permutations(Sales)

Pending == {<<p, k>> \in Sales \X Kinds : task[p][k] # NoRead}
AtOnce == {c \in Calls : InFlight(c)}
Died == {c \in Calls : call[c].step = "dead"}
Moved == {<<p, n>> \in Sales \X (1..2) : n <= pass[p].renewals + pass[p].grants}
Few ==
    /\ Cardinality(Pending) + Cardinality(AtOnce) <= MaxUnderWay /\ Cardinality(Pending) <= 1
    /\ Cardinality(Died) + Cardinality(Moved) <= 1
    /\ Cardinality({p \in Sales : riding[p] > 0}) <= 1
    /\ Died # {} => Pending = {} \/ AtOnce = {}
    /\ revived = {} /\ overwritten = {}
=============================================================================
