---------------------------- MODULE BookingMoney ----------------------------
(***************************************************************************)
(* The money of one customer: a wallet and the bookings it meets           *)
(* (backend/app/services: money_service.py, customer_wallet_service.py,    *)
(* booking_money.py, and the callers in booking_service.py).               *)
(*                                                                         *)
(* A booking (one car) has a total, wallet credit applied to it and money  *)
(* received for it.  A negative balance rides on the next booking as       *)
(* carried debt.  Money that no car owes, and whatever a cancelled booking *)
(* had received, goes to the wallet.  Each action is one transaction, or   *)
(* one guarded write outside any; what a call still has to do after its    *)
(* transaction is in `todo` until it does it or is killed.                 *)
(*                                                                         *)
(* Amounts are whole units of money.                                       *)
(***************************************************************************)
EXTENDS Integers, FiniteSets

CONSTANTS
  N,               \* the number of bookings, numbered as they are made
  Prices,          \* what a wash may cost
  NewPrices,       \* what it may cost after an edit
  Openings,        \* the balances the customer may start with
  Charges,         \* late-cancellation charges
  Amounts,         \* what an order, a link or the captain's screen may ask for
  MaxPayments,     \* bound: payments received
  MaxEdits,        \* bound: price changes
  LatePayments,    \* may a payment come for a booking whose part payment went back?
  KeysReused,      \* may bookings be given back under a key the ledger already has?
  Overlaps         \* may a call meet a delete or restore that is half done?

Cars == 1..N

ASSUME MoneyAssumption ==
  /\ N \in Nat
  /\ Prices \cup NewPrices \subseteq Nat \ {0}
  /\ Openings \subseteq Int
  /\ Charges \subseteq Nat /\ 0 \in Charges
  /\ Amounts \subseteq Nat \ {0}
  /\ MaxPayments \in Nat /\ MaxEdits \in Nat
  /\ {LatePayments, KeysReused, Overlaps} \subseteq BOOLEAN

VARIABLES
  booking,      \* the booking rows
  balance,      \* customer_wallets.balance
  carriedDue,   \* customer_wallets.carried_due: debt riding on unpaid bookings
  posted,       \* the "cancel:<ids>" keys on the ledger, as sets of bookings
  rows,         \* refund_due rows by id, <<parent order, booking>>, and whether resolved
  todo,         \* the steps calls have still to do after their transactions
  lost,         \* the bookings whose confirmation was lost with its process
  payments,     \* how many payments were received
  edits,        \* how many price changes were made
  received,     \* ghost: what the customer started with and gave us since
  charged       \* ghost: the charges for cancelling late

vars == <<booking, balance, carriedDue, posted, rows, todo, lost, payments, edits, received, charged>>

Methods == {"cash", "online"}
Statuses == {"none", "awaiting", "pending", "completed", "cancelled"}
PayStatuses == {"pending", "partially_paid", "paid", "refund_due", "refunded"}
Booking == [visit : 0..N, status : Statuses, deleted : BOOLEAN, total : Nat, applied : Nat, paid : Nat,
            carried : Nat, cleared : BOOLEAN, pay : PayStatuses, method : Methods,
            settled : BOOLEAN, deleteSettled : BOOLEAN, order : Nat]
Steps == {"confirm", "flag", "mark", "clear", "unmark"}

MoneyTypeOK ==
  /\ booking \in [Cars -> Booking]
  /\ balance \in Int
  /\ carriedDue \in Nat
  /\ posted \subseteq SUBSET Cars
  /\ rows \subseteq (Nat \X Cars) \X BOOLEAN
  /\ todo \subseteq Steps \X Cars
  /\ lost \subseteq Cars
  /\ payments \in 0..MaxPayments
  /\ edits \in 0..MaxEdits
  /\ received \in Int
  /\ charged \in Nat

Unmade == [visit |-> 0, status |-> "none", deleted |-> FALSE, total |-> 0, applied |-> 0, paid |-> 0,
           carried |-> 0, cleared |-> FALSE, pay |-> "pending", method |-> "cash",
           settled |-> FALSE, deleteSettled |-> FALSE, order |-> 0]

MoneyInit ==
  /\ booking = [c \in Cars |-> Unmade]
  /\ balance \in Openings
  /\ carriedDue = 0
  /\ posted = {} /\ rows = {} /\ todo = {} /\ lost = {}
  /\ payments = 0 /\ edits = 0
  /\ received = balance /\ charged = 0

---------------------------------------------------------------------------
(* booking_money.py                                                        *)

Least(a, b) == IF a <= b THEN a ELSE b
Positive(n) == IF n > 0 THEN n ELSE 0

\* The sum of an amount over the bookings, and over some of them.
Total(f) == LET upTo[n \in 0..N] == IF n = 0 THEN 0 ELSE upTo[n - 1] + f[n] IN upTo[N]
SumOver(S, f) == Total([c \in Cars |-> IF c \in S THEN f[c] ELSE 0])

\* amount_paid_of: a status that says "paid" means the whole total came in.
AmountPaid(b) ==
  IF b.pay \in {"paid", "refund_due", "refunded"} /\ b.paid < b.total - b.applied
    THEN b.total - b.applied
    ELSE b.paid

StatusFor(total, applied, paid) ==
  IF total <= applied + paid THEN "paid" ELSE IF paid > 0 THEN "partially_paid" ELSE "pending"

AmountDue(b) ==
  IF b.pay \in {"refund_due", "refunded"} \/ b.status \in {"none", "cancelled"} \/ b.deleted
    THEN 0
    ELSE Positive(b.total - b.applied - AmountPaid(b))

\* Mutant of Refundable: the previous balance it settled is paid back as well.
RefundableWithCarry(b) ==
  IF b.pay \in {"refund_due", "refunded"} \/ b.settled THEN 0 ELSE AmountPaid(b) + b.applied

\* What a cancellation returns, before any charge.
Refundable(b) ==
  IF b.pay \in {"refund_due", "refunded"} \/ b.settled
    THEN 0
    ELSE Positive(AmountPaid(b) + b.applied - (IF b.cleared THEN b.carried ELSE 0))

\* A visit is known by its first car.
CarsOf(v) == {c \in Cars : booking[c].visit = v}
Exists(c) == booking[c].status # "none"
Live(c) == Exists(c) /\ ~booking[c].deleted /\ booking[c].status # "cancelled"
Unstarted(c) == Live(c) /\ booking[c].status \in {"awaiting", "pending"}
TodoFor(S) == {t \in todo : t[2] \in S}
\* No delete or restore of S is half done; no call for S is.
NotHalfDone(S) == Overlaps \/ \A t \in TodoFor(S) : t[1] = "confirm"
Undisturbed(S) == Overlaps \/ TodoFor(S) = {}

---------------------------------------------------------------------------
(* apply_wallet_at_create                                                  *)

\* Mutant of Made: whether it waits is decided before the wallet is applied.
MadeWaiting(v, p, m, carry, use) ==
  [Unmade EXCEPT
     !.visit = v, !.method = m,
     !.status = IF m = "online" THEN "awaiting" ELSE "pending",
     !.total = p + carry, !.carried = carry, !.applied = use,
     !.pay = IF carry > 0 \/ use > 0 THEN StatusFor(p + carry, use, 0) ELSE "pending"]

\* What a new booking of price p becomes when it carries `carry` of the debt
\* and spends `use` of the credit.
Made(v, p, m, carry, use) ==
  [Unmade EXCEPT
     !.visit = v, !.method = m,
     !.status = IF m = "online" /\ p + carry > use THEN "awaiting" ELSE "pending",
     !.total = p + carry, !.carried = carry, !.applied = use,
     !.pay = IF carry > 0 \/ use > 0 THEN StatusFor(p + carry, use, 0) ELSE "pending"]

DebtToCarry == Positive(-balance - carriedDue)

\* create_booking's transaction.  A car begins a visit or joins the one before it:
\* create_booking_group makes the cars one at a time, and only the first carries
\* the debt.  The customer may keep the wallet out of it.
Create(c, v, p, m, useWallet) ==
  LET carry == IF useWallet /\ v = c THEN DebtToCarry ELSE 0
      use == IF useWallet /\ DebtToCarry = 0 THEN Least(Positive(balance), p) ELSE 0
  IN
  /\ ~Exists(c) /\ \A d \in 1..(c - 1) : Exists(d)
  /\ v = c \/ (c > 1 /\ v = booking[c - 1].visit)
  /\ booking' = [booking EXCEPT ![c] = Made(v, p, m, carry, use)]
  /\ balance' = balance - use
  /\ carriedDue' = carriedDue + carry
  /\ UNCHANGED <<posted, rows, todo, lost, payments, edits, received, charged>>

---------------------------------------------------------------------------
(* apply_payment                                                           *)

\* _write_payment: `take` is received for booking b.
ClearsCarry(b, take) == b.carried > 0 /\ ~b.cleared /\ AmountPaid(b) + take >= b.carried
Paying(b, take, m) ==
  [b EXCEPT
     !.paid = AmountPaid(b) + take,
     !.pay = IF b.pay \in {"refund_due", "refunded"} \/ b.status = "cancelled"
               THEN b.pay
               ELSE StatusFor(b.total, b.applied, AmountPaid(b) + take),
     !.method = IF take > 0 THEN m ELSE b.method,
     !.cleared = b.cleared \/ ClearsCarry(b, take)]

\* `amount` goes to the cars in order, each taking at most its need: left[c] is
\* what is left after car c.
Split(need, amount, left) ==
  /\ left[0] = amount
  /\ \A c \in Cars : left[c] = left[c - 1] - Least(need[c], left[c - 1])

\* Money for the cars S: each takes what it still owes, whatever is left is the
\* customer's.  A car that was paid for in full is confirmed after the commit.
ApplyPayment(S, amount, m) ==
  \E left \in [0..N -> 0..amount] :
    LET due == [c \in Cars |-> IF c \in S THEN AmountDue(booking[c]) ELSE 0]
        take == [c \in Cars |-> left[c - 1] - left[c]]
        clears == {c \in S : ClearsCarry(booking[c], take[c])}
        cleared == SumOver(clears, [c \in Cars |-> booking[c].carried])
        after == [c \in Cars |-> IF c \in S THEN Paying(booking[c], take[c], m) ELSE booking[c]]
        newlyPaid == {c \in S : take[c] > 0 /\ after[c].pay = "paid"}
    IN
    /\ Split(due, amount, left)
    /\ booking' = [c \in Cars |-> IF c \in S /\ m = "online"
                                    THEN [after[c] EXCEPT !.order = payments + 1] ELSE after[c]]
    /\ balance' = balance + left[N] + cleared
    /\ carriedDue' = Positive(carriedDue - cleared)
    /\ todo' = IF m = "online" THEN todo \cup {<<"confirm", c>> : c \in newlyPaid} ELSE todo
    /\ received' = received + amount
    /\ UNCHANGED <<posted, rows, lost, edits, charged>>

\* Its money went back before its price was paid.
HalfReturned(b) == b.pay = "refunded" /\ b.paid < b.total - b.applied

\* An order or link is settled, for what was due when it was made; or a captain
\* collects what his screen said was due.
Pay(S, amount, m) ==
  /\ payments < MaxPayments
  /\ S # {} /\ \E v \in Cars : S \subseteq CarsOf(v)
  /\ m = "cash" => \A c \in S : booking[c].status = "completed"
  /\ NotHalfDone(S)
  /\ LatePayments \/ \A c \in S : ~HalfReturned(booking[c])
  /\ payments' = payments + 1
  /\ ApplyPayment(S, amount, m)

---------------------------------------------------------------------------
(* on_booking_cancelled                                                    *)

Settled(b) ==
  [b EXCEPT !.settled = TRUE, !.pay = IF Refundable(b) > 0 THEN "refunded" ELSE @]

\* Mutant of GiveBack: the debt the bookings carried stays reserved.
GiveBackKeepingCarry(T, charge) ==
  LET net == SumOver(T, [c \in Cars |-> Refundable(booking[c])]) - charge IN
  /\ balance' = balance + net
  /\ posted' = posted \cup {T}
  /\ UNCHANGED carriedDue

\* The money of the bookings T, less the charge, goes to the wallet under one
\* key; debt that was not settled is open again.
GiveBack(T, charge) ==
  LET net == SumOver(T, [c \in Cars |-> Refundable(booking[c])]) - charge
      carries == {c \in T : ~booking[c].cleared}
  IN
  /\ KeysReused \/ net = 0 \/ T \notin posted
  /\ IF net = 0 \/ T \in posted
       THEN UNCHANGED <<balance, posted>>
       ELSE balance' = balance + net /\ posted' = posted \cup {T}
  /\ carriedDue' = Positive(carriedDue - SumOver(carries, [c \in Cars |-> booking[c].carried]))

\* The bookings T are cancelled, in the same transaction.
CancelCars(T, charge) ==
  /\ T # {} /\ NotHalfDone(T)
  /\ booking' = [c \in Cars |-> IF c \in T THEN [Settled(booking[c]) EXCEPT !.status = "cancelled"]
                                 ELSE booking[c]]
  /\ GiveBack(T, charge)
  /\ charged' = charged + charge
  /\ UNCHANGED <<rows, todo, lost, payments, edits, received>>

\* cancel_booking of one car, cancel_booking_group of a visit; only what ends
\* the visit is charged.
Cancel(v, T, charge) ==
  /\ T \subseteq {c \in CarsOf(v) : Unstarted(c)}
  /\ Cardinality(T) = 1 \/ T = {c \in CarsOf(v) : Unstarted(c)}
  /\ charge > 0 => \A c \in CarsOf(v) \ T : ~Live(c)
  /\ CancelCars(T, charge)

\* _UNPAID_GUARD, evaluated in the cancel's own write.
Unpaid(c) == Live(c) /\ booking[c].status = "awaiting" /\ booking[c].pay = "pending"

Expire(v) == CancelCars({c \in CarsOf(v) : Unpaid(c)}, 0)

---------------------------------------------------------------------------
(* soft_delete_booking, restore_booking and the refund queue               *)

Delete(c) ==
  LET T == {d \in CarsOf(booking[c].visit) : Live(d)} \cup {c}
      W == {d \in T : /\ booking[d].status \notin {"completed", "cancelled"}
                      /\ AmountPaid(booking[d]) = 0
                      /\ booking[d].applied + booking[d].carried > 0}
      listed == {d \in T : /\ booking[d].status # "completed"
                           /\ booking[d].pay = "paid" /\ booking[d].method = "online"}
  IN
  /\ Exists(c) /\ ~booking[c].deleted /\ Undisturbed(T)
  /\ booking' = [d \in Cars |->
       IF d \in W THEN [Settled(booking[d]) EXCEPT !.deleted = TRUE, !.deleteSettled = TRUE]
       ELSE IF d \in T THEN [booking[d] EXCEPT !.deleted = TRUE] ELSE booking[d]]
  /\ IF W = {} THEN UNCHANGED <<balance, posted, carriedDue>> ELSE GiveBack(W, 0)
  /\ todo' = todo \cup {<<"flag", d>> : d \in listed}
  /\ UNCHANGED <<rows, lost, payments, edits, received, charged>>

\* _redue_after_delete: without the credit and the debt the delete gave back.
Redue(b) ==
  [b EXCEPT !.total = Positive(b.total - b.carried), !.carried = 0, !.applied = 0,
            !.settled = FALSE, !.deleteSettled = FALSE,
            !.pay = StatusFor(Positive(b.total - b.carried), 0, b.paid)]

Restored(b) ==
  [(IF b.deleteSettled /\ b.status # "cancelled" THEN Redue(b) ELSE b) EXCEPT !.deleted = FALSE]

Restore(v) ==
  LET T == {c \in CarsOf(v) : booking[c].deleted} IN
  /\ T # {} /\ Undisturbed(T)
  /\ booking' = [c \in Cars |-> IF c \in T THEN Restored(booking[c]) ELSE booking[c]]
  /\ todo' = todo \cup {<<"clear", c>> : c \in T}
  /\ UNCHANGED <<balance, carriedDue, posted, rows, lost, payments, edits, received, charged>>

---------------------------------------------------------------------------
(* on_price_change, and the steps that earn the money                      *)

\* Mutant of Repriced: all of the excess is taken from what was paid.
RepricedFromPaid(b, total) ==
  LET excess == Positive(b.applied + AmountPaid(b) - total)
  IN  [b EXCEPT !.total = total, !.paid = AmountPaid(b) - excess,
                !.pay = StatusFor(total, b.applied, AmountPaid(b) - excess)]

\* The new price of a booking; what is received beyond it goes to the wallet,
\* credit first.
Repriced(b, total) ==
  LET excess == Positive(b.applied + AmountPaid(b) - total)
      credit == Least(b.applied, excess)
  IN  [b EXCEPT !.total = total, !.applied = b.applied - credit,
                !.paid = AmountPaid(b) - (excess - credit),
                !.pay = StatusFor(total, b.applied - credit, AmountPaid(b) - (excess - credit))]

ChangePrice(c, p) ==
  LET b == booking[c]
      total == p + b.carried
  IN
  /\ edits < MaxEdits /\ Live(c) /\ NotHalfDone({c}) /\ total # b.total
  /\ edits' = edits + 1
  /\ booking' = [booking EXCEPT ![c] = Repriced(b, total)]
  /\ balance' = balance + Positive(b.applied + AmountPaid(b) - total)
  /\ todo' = IF b.applied + AmountPaid(b) >= total THEN todo \cup {<<"confirm", c>>} ELSE todo
  /\ UNCHANGED <<carriedDue, posted, rows, lost, payments, received, charged>>

\* switch_to_cash: the write is guarded on the status alone; a payment may have
\* come since the read that refuses a paid booking.
SwitchToCash(c) ==
  /\ Live(c) /\ booking[c].status = "awaiting" /\ NotHalfDone({c})
  /\ booking' = [booking EXCEPT ![c].status = "pending", ![c].method = "cash"]
  /\ UNCHANGED <<balance, carriedDue, posted, rows, todo, lost, payments, edits, received, charged>>

Finish(c) ==
  /\ Live(c) /\ booking[c].status = "pending" /\ NotHalfDone({c})
  /\ booking' = [booking EXCEPT ![c].status = "completed"]
  /\ UNCHANGED <<balance, carriedDue, posted, rows, todo, lost, payments, edits, received, charged>>

\* _close_as_manager_done: whatever is still due is cash the manager took.
ManagerDone(c) ==
  LET b == [booking[c] EXCEPT !.status = "completed"]
      due == AmountDue(b)
      cleared == IF due > 0 /\ ClearsCarry(b, due) THEN b.carried ELSE 0
  IN
  /\ Live(c) /\ booking[c].status = "pending" /\ NotHalfDone({c})
  /\ booking' = [booking EXCEPT ![c] = IF due > 0 THEN Paying(b, due, "cash") ELSE b]
  /\ balance' = balance + cleared
  /\ carriedDue' = Positive(carriedDue - cleared)
  /\ received' = received + due
  /\ UNCHANGED <<posted, rows, todo, lost, payments, edits, charged>>

---------------------------------------------------------------------------
(* What a call does after its transaction                                  *)

Done(step, c, next) == todo' = (todo \ {<<step, c>>}) \cup next

\* confirm_awaiting_payment_booking: it does not find a deleted booking.
Confirm(c) ==
  /\ <<"confirm", c>> \in todo
  /\ booking' = IF Live(c) /\ booking[c].status = "awaiting"
                  THEN [booking EXCEPT ![c].status = "pending"] ELSE booking
  /\ Done("confirm", c, {})
  /\ UNCHANGED <<balance, carriedDue, posted, rows, lost, payments, edits, received, charged>>

\* flag_refund_due: a row of the refund queue, unless its id was used before.
Flag(c) ==
  LET id == <<booking[c].order, c>>
      known == \E resolved \in BOOLEAN : <<id, resolved>> \in rows
  IN
  /\ <<"flag", c>> \in todo
  /\ rows' = IF known THEN rows ELSE rows \cup {<<id, FALSE>>}
  /\ Done("flag", c, IF known THEN {} ELSE {<<"mark", c>>})
  /\ UNCHANGED <<booking, balance, carriedDue, posted, payments, edits, received, charged, lost>>

\* _mark_refund_due
Mark(c) ==
  /\ <<"mark", c>> \in todo
  /\ booking' = IF booking[c].pay = "paid" THEN [booking EXCEPT ![c].pay = "refund_due"] ELSE booking
  /\ Done("mark", c, {})
  /\ UNCHANGED <<balance, carriedDue, posted, rows, lost, payments, edits, received, charged>>

\* Mutant of Clear: the rows of the restored booking stay in the queue.
ClearNothing(c) ==
  /\ <<"clear", c>> \in todo
  /\ Done("clear", c, {<<"unmark", c>>})
  /\ UNCHANGED <<booking, balance, carriedDue, posted, rows, lost, payments, edits, received, charged>>

\* clear_refund_due: the open rows of a restored booking leave the queue, then
\* the booking is paid again.
Clear(c) ==
  /\ <<"clear", c>> \in todo
  /\ rows' = {IF r[1][2] = c THEN <<r[1], TRUE>> ELSE r : r \in rows}
  /\ Done("clear", c, {<<"unmark", c>>})
  /\ UNCHANGED <<booking, balance, carriedDue, posted, payments, edits, received, charged, lost>>

Unmark(c) ==
  /\ <<"unmark", c>> \in todo
  /\ booking' = IF booking[c].pay = "refund_due" THEN [booking EXCEPT ![c].pay = "paid"] ELSE booking
  /\ Done("unmark", c, {})
  /\ UNCHANGED <<balance, carriedDue, posted, rows, lost, payments, edits, received, charged>>

\* _return_to_bin: the pass or coupon of a restored booking cannot be spent again.
ReturnToBin(v) ==
  LET T == {c \in CarsOf(v) : <<"clear", c>> \in todo} IN
  /\ T # {}
  /\ booking' = [c \in Cars |-> IF c \in T THEN [booking[c] EXCEPT !.deleted = TRUE] ELSE booking[c]]
  /\ todo' = todo \ {<<"clear", c>> : c \in T}
  /\ UNCHANGED <<balance, carriedDue, posted, rows, lost, payments, edits, received, charged>>

\* The process is killed between a payment and its confirmation; the retry finds
\* the payment applied and confirms nothing.
Killed(c) ==
  /\ <<"confirm", c>> \in todo
  /\ todo' = todo \ {<<"confirm", c>>}
  /\ lost' = lost \cup {c}
  /\ UNCHANGED <<booking, balance, carriedDue, posted, rows, payments, edits, received, charged>>

---------------------------------------------------------------------------
AfterStep(c) == Confirm(c) \/ Flag(c) \/ Mark(c) \/ Clear(c) \/ Unmark(c)

CarStep(c) ==
  \/ \E v \in 1..c, p \in Prices, m \in Methods, useWallet \in BOOLEAN : Create(c, v, p, m, useWallet)
  \/ \E p \in NewPrices : ChangePrice(c, p)
  \/ SwitchToCash(c) \/ Finish(c) \/ ManagerDone(c)
  \/ Delete(c) \/ AfterStep(c) \/ Killed(c)

VisitStep(v) ==
  \/ \E T \in SUBSET CarsOf(v), charge \in Charges : Cancel(v, T, charge)
  \/ Expire(v) \/ Restore(v) \/ ReturnToBin(v)

MoneyNext ==
  \/ \E c \in Cars : CarStep(c) \/ VisitStep(c)
  \/ \E S \in SUBSET Cars, amount \in Amounts, m \in Methods : Pay(S, amount, m)

MoneySpec == MoneyInit /\ [][MoneyNext]_vars

---------------------------------------------------------------------------
\* The money a booking holds: what was received for it and the credit spent on
\* it, less the old debt it settled; nothing once its money went back.
HeldBy(b) ==
  IF b.status = "none" \/ b.settled
    THEN 0
    ELSE AmountPaid(b) + b.applied - (IF b.cleared THEN b.carried ELSE 0)

\* Nothing the customer gave us is lost and nothing is made up, whatever create,
\* payment, edit, cancel, delete and restore do in any order: it is in the wallet,
\* in a booking, or was charged.
MoneyConserved ==
  received = balance + charged + Total([c \in Cars |-> HeldBy(booking[c])])

\* The debt a wallet counts as carried is that of the bookings that carry it, so
\* no debt is asked for twice and none is forgotten (carried_due).
OpenCarry(b) == IF b.settled \/ b.cleared THEN 0 ELSE b.carried
CarriedMatches == carriedDue = Total([c \in Cars |-> OpenCarry(booking[c])])

\* A booking on which nothing is due any more does not wait for a payment, unless
\* the call that settled it is about to confirm it or was killed: the expiry never releases it
\* and the captain's queue has it.
PaidIsConfirmed ==
  \A c \in Cars :
    Live(c) /\ booking[c].status = "awaiting" /\ booking[c].pay = "paid" =>
      <<"confirm", c>> \in todo \/ c \in lost

\* A restored booking is not on the refund list any more, nor owed back, once its
\* restore is through.
LiveNotRefunded ==
  \A c \in Cars : Live(c) /\ TodoFor({c}) = {} =>
    /\ booking[c].pay # "refund_due"
    /\ \A r \in rows : r[1][2] = c => r[2]
=============================================================================
