--------------------------- MODULE MCPaymentOrders ---------------------------
(* Instances of PaymentOrders for TLC. *)
EXTENDS PaymentOrders, TLC

Symmetry == Permutations(Docs) \cup Permutations(Payments) \cup Permutations(Requests)

(* Bound: two of the calls and the loop's pass at once. *)
TwoAtOnce == Cardinality({p \in Procs : call[p].step # "idle"}) <= 2
=============================================================================
