---------------------------- MODULE MCCouponUses ----------------------------
(* Instances of CouponUses for TLC: b1 and b2 are of one customer, b3 of another. *)
EXTENDS CouponUses, TLC

CONSTANTS ana, ben, b1, b2, b3

OwnerOf == [b \in Bookings |-> IF b = b3 THEN ben ELSE ana]
Kind(b, l, s) == [bundle |-> b, limit |-> l, share |-> s]
Kinds == {Kind(FALSE, 0, 1), Kind(FALSE, 1, 2), Kind(TRUE, 1, 1)}

(* Bound: one booking is crossed by a restore or has a call killed.  What a  *)
(* crossed booking does to a bundle's code, of which nothing is claimed then, *)
(* is not looked at.                                                         *)
OneDisturbed ==
    /\ Cardinality(crossed \cup lost) <= 1
    /\ coupon.bundle => crossed = {}
\* Calls are alike, and so are the bookings of ana.
Symmetry == Permutations(Calls) \cup Permutations({b1, b2})
=============================================================================
