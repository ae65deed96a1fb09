--------------------------- MODULE MCBookingMoney ---------------------------
(* Instances of BookingMoney for TLC: a customer who starts in debt (a .cfg  *)
(* cannot hold a negative number).                                           *)
EXTENDS BookingMoney, TLC

InDebt == {-1}
=============================================================================
