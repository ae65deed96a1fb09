---------------------------- MODULE MCCaptainWallet ----------------------------
(* One booking, two captains, two calls at a time. *)
EXTENDS CaptainWallet, TLC

CONSTANTS k1, k2, a1, a2, w1, w2

Shares == [p \in Prices |-> p - 1]
Alike == Permutations({k1, k2}) \cup Permutations({a1, a2}) \cup Permutations({w1, w2})


(* A changed price, a late start or an administrator's hand meets a withdrawal *)
(* only in the wallet: not in one behaviour.  Nor is a muddled request followed. *)
(* The job costs 3 until an edit.                                              *)
Apart ==
    /\ muddled = {}
    /\ changes = 0 => job.price = 3
    /\ (\E w \in Withdrawals : request[w].status # "none") =>
         changes = 0 /\ job.late = 0 /\ ~handed /\ job.status # "cancelled"

=============================================================================
