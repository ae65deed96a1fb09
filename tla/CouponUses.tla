------------------------------ MODULE CouponUses ------------------------------
(***************************************************************************)
(* The uses of one coupon (coupon_service.py, coupon_repository.py): what  *)
(* bookings spend and give back, counted on the coupon, on a counter for   *)
(* each customer and in a usage row for each booking.  record_usage and    *)
(* reverse_usage write the three one after the other and without a         *)
(* transaction; booking_service.py calls them around its own.              *)
(***************************************************************************)
EXTENDS Integers, FiniteSets

CONSTANTS
    Bookings, Customers,
    Owner,               \* whose each booking is
    Calls,               \* requests and sweeps that may be under way
    Coupons,             \* what the coupon may be: its kind and its two limits
    MaxKills,            \* bound: bookings with a call killed
    NoBooking

\* A total limit of zero is no limit; a bundle's code has one, of one at least.
ASSUME UsesAssumption ==
    /\ Owner \in [Bookings -> Customers]
    /\ \A k \in Coupons : /\ k \in [bundle : BOOLEAN, limit : Nat, share : Nat]
                          /\ k.bundle => k.limit > 0 /\ k.share > 0
    /\ MaxKills \in Nat /\ NoBooking \notin Bookings
    /\ IsFiniteSet(Bookings) /\ IsFiniteSet(Calls)

VARIABLES
    coupon,     \* is it a code of a bundle, and its two limits
    booking,    \* status, whether it is in the recycle bin and still discounted
    rows,       \* the usage rows, each of a booking and under an id
    used,       \* total_used, or used_count of a bundle's code
    spent,      \* the counter of each customer
    call,       \* where each call is
    crossed,    \* a call ran on the booking while a restore of it did
    lost        \* a call on the booking was killed

codeVars == <<rows, used, spent>>
ghosts == <<crossed, lost>>
vars == <<coupon, booking, codeVars, call, ghosts>>

Steps == {"idle", "insert", "share", "total", "unshare", "unrow", "row",
          "commit", "spend", "settle", "delete", "less", "release", "bin"}
UsesTypeOK ==
    /\ coupon \in Coupons
    /\ booking \in [Bookings -> [status : {"none", "making", "live", "cancelled", "gone"},
                                 bin : BOOLEAN, discounted : BOOLEAN]]
    /\ rows \subseteq [on : Bookings, id : Nat] /\ used \in Int /\ spent \in [Customers -> Nat]
    /\ call \in [Calls -> [step : Steps, on : Bookings \cup {NoBooking},
                          why : {"create", "restore", "give", "none"}]]
    /\ crossed \subseteq Bookings /\ lost \subseteq Bookings

Idle == [step |-> "idle", on |-> NoBooking, why |-> "none"]
Under(a) == call[a].step # "idle"
CallsOn(b) == {a \in Calls : Under(a) /\ call[a].on = b}
At(a, s) == call[a].step = s

UsesInit ==
    /\ coupon \in Coupons
    /\ booking = [b \in Bookings |-> [status |-> "none", bin |-> FALSE, discounted |-> TRUE]]
    /\ rows = {} /\ used = 0 /\ spent = [c \in Customers |-> 0]
    /\ call = [a \in Calls |-> Idle]
    /\ crossed = {} /\ lost = {}

\* _UNDER_TOTAL_LIMIT; a bundle's code always has a limit.
UnderLimit == coupon.limit = 0 \/ used < coupon.limit

\* The first write of record_usage: the row of a bundle's code, else the share.
FirstWrite == IF coupon.bundle THEN "insert" ELSE "share"

Go(a, s) == call' = [call EXCEPT ![a].step = s]
Return(a) == call' = [call EXCEPT ![a] = Idle]
Start(a, b, why, s) ==
    /\ ~Under(a)
    /\ call' = [call EXCEPT ![a] = [step |-> s, on |-> b, why |-> why]]
    /\ crossed' = IF \E o \in CallsOn(b) : why = "restore" \/ call[o].why = "restore"
                    THEN crossed \cup {b} ELSE crossed
    /\ UNCHANGED <<coupon, lost>>

Becomes(b, s) == booking' = [booking EXCEPT ![b].status = s]

\* record_usage returned to its caller, or raised.
Recorded(a) == Go(a, IF call[a].why = "create" THEN "commit" ELSE "settle") /\ UNCHANGED booking
Refused(a) ==
    IF call[a].why = "create" THEN Return(a) /\ Becomes(call[a].on, "gone")
                              ELSE Go(a, "bin") /\ UNCHANGED booking

(***************************************************************************)
(* record_usage.                                                           *)
(***************************************************************************)
RowsOf(b) == {r \in rows : r.on = b}

\* A bundle's row is keyed by its booking; the others are inserted under a new id.
OnlyRow(b) == [on |-> b, id |-> 0]
NewRow(b) == LET Row(i) == [on |-> b, id |-> i]
             IN Row(CHOOSE i \in 0..Cardinality(rows) : Row(i) \notin rows)

\* The row of a bundle's code goes in first: a booking that has it holds its use.
InsertRow(a) ==
    LET b == call[a].on IN
    /\ At(a, "insert")
    /\ IF OnlyRow(b) \in rows THEN Recorded(a) /\ UNCHANGED rows
       ELSE /\ rows' = rows \cup {OnlyRow(b)}
            /\ Go(a, "share") /\ UNCHANGED booking
    /\ UNCHANGED <<coupon, used, spent, ghosts>>

ClaimShare(a) ==
    LET c == Owner[call[a].on] IN
    /\ At(a, "share")
    /\ IF spent[c] < coupon.share
         THEN /\ spent' = [spent EXCEPT ![c] = @ + 1]
              /\ Go(a, "total") /\ UNCHANGED booking
         ELSE /\ UNCHANGED spent
              /\ IF coupon.bundle THEN Go(a, "unrow") /\ UNCHANGED booking ELSE Refused(a)
    /\ UNCHANGED <<coupon, rows, used, ghosts>>

CountUse(a) ==
    /\ At(a, "total")
    /\ IF UnderLimit
         THEN /\ used' = used + 1
              /\ IF coupon.bundle THEN Recorded(a) ELSE Go(a, "row") /\ UNCHANGED booking
         ELSE Go(a, "unshare") /\ UNCHANGED <<used, booking>>
    /\ UNCHANGED <<coupon, rows, spent, ghosts>>

\* CouponUserCounterRepository.release: never below zero.
Released(b) == [spent EXCEPT ![Owner[b]] = IF @ > 0 THEN @ - 1 ELSE 0]

GiveShareBack(a) ==
    /\ At(a, "unshare")
    /\ spent' = Released(call[a].on)
    /\ IF coupon.bundle THEN Go(a, "unrow") /\ UNCHANGED booking ELSE Refused(a)
    /\ UNCHANGED <<coupon, rows, used, ghosts>>

RemoveOwnRow(a) ==
    /\ At(a, "unrow")
    /\ rows' = rows \ {OnlyRow(call[a].on)}
    /\ Refused(a)
    /\ UNCHANGED <<coupon, used, spent, ghosts>>

WriteRow(a) ==
    /\ At(a, "row")
    /\ rows' = rows \cup {NewRow(call[a].on)}
    /\ Recorded(a)
    /\ UNCHANGED <<coupon, used, spent, ghosts>>

(***************************************************************************)
(* reverse_usage: only the call that removed a row gives its use back.     *)
(***************************************************************************)
Reversed(a) == IF call[a].why = "restore" THEN Go(a, "bin") ELSE Return(a)

\* Mutant of DeleteRow: a call that found no row goes on as well.
DeleteRowUngated(a) ==
    LET mine == RowsOf(call[a].on) IN
    /\ At(a, "delete")
    /\ Go(a, "less")
    /\ \/ mine = {} /\ UNCHANGED rows
       \/ \E r \in mine : rows' = rows \ {r}
    /\ UNCHANGED <<coupon, booking, used, spent, ghosts>>

DeleteRow(a) ==
    LET mine == RowsOf(call[a].on) IN
    /\ At(a, "delete")
    /\ \/ mine = {} /\ Reversed(a) /\ UNCHANGED rows
       \/ Go(a, "less") /\ \E r \in mine : rows' = rows \ {r}
    /\ UNCHANGED <<coupon, booking, used, spent, ghosts>>

\* Only the count of a bundle's code is kept from falling below zero.
UncountUse(a) ==
    /\ At(a, "less")
    /\ used' = IF coupon.bundle /\ used = 0 THEN used ELSE used - 1
    /\ Go(a, "release")
    /\ UNCHANGED <<coupon, booking, rows, spent, ghosts>>

ReleaseShare(a) ==
    /\ At(a, "release")
    /\ spent' = Released(call[a].on)
    /\ Reversed(a)
    /\ UNCHANGED <<coupon, booking, rows, used, ghosts>>

(***************************************************************************)
(* Who calls them.                                                         *)
(***************************************************************************)
\* create_booking spends the use before its transaction, under the booking's id,
\* and gives it back when the transaction, or then the pass, fails.
Create(a, b) ==
    /\ booking[b].status = "none"
    /\ Start(a, b, "create", FirstWrite)
    /\ Becomes(b, "making")
    /\ UNCHANGED codeVars

Commit(a) ==
    /\ At(a, "commit")
    /\ \/ Becomes(call[a].on, "live") /\ Go(a, "spend")
       \/ Becomes(call[a].on, "gone") /\ Go(a, "delete")
    /\ UNCHANGED <<coupon, codeVars, ghosts>>

\* Mutant of SpendPass: the booking is rolled back and its use is not.
SpendPassKeepsUse(a) ==
    /\ At(a, "spend")
    /\ Return(a)
    /\ UNCHANGED booking \/ Becomes(call[a].on, "gone")
    /\ UNCHANGED <<coupon, codeVars, ghosts>>

\* commit_consumption, then _rollback_uncommitted_booking, which removes the row
\* whatever has become of it.
SpendPass(a) ==
    /\ At(a, "spend")
    /\ \/ Return(a) /\ UNCHANGED booking
       \/ Becomes(call[a].on, "gone") /\ Go(a, "delete")
    /\ UNCHANGED <<coupon, codeVars, ghosts>>

Listed(b) == booking[b].status \in {"live", "cancelled"} /\ ~booking[b].bin
Discounted(b) == booking[b].status = "live" /\ ~booking[b].bin /\ booking[b].discounted

\* What follows a cancel, a delete or an edit that drops the coupon.
GiveBack(a, b) == Start(a, b, "give", "delete") /\ UNCHANGED codeVars

Cancel(a, b) ==
    /\ Discounted(b)
    /\ Becomes(b, "cancelled")
    /\ GiveBack(a, b)

DropCoupon(a, b) ==
    /\ Discounted(b)
    /\ booking' = [booking EXCEPT ![b].discounted = FALSE]
    /\ GiveBack(a, b)

\* A cancelled booking is deleted too, and its use given back once more.
Delete(a, b) ==
    /\ Listed(b) /\ booking[b].discounted
    /\ booking' = [booking EXCEPT ![b].bin = TRUE]
    /\ GiveBack(a, b)

\* restore_booking: back from the bin, then the use is spent again ...
Restore(a, b) ==
    /\ booking[b].bin /\ booking[b].status = "live" /\ booking[b].discounted
    /\ booking' = [booking EXCEPT ![b].bin = FALSE]
    /\ \E s \in {FirstWrite, "bin"} : Start(a, b, "restore", s)
    /\ UNCHANGED codeVars

\* Nothing is spent again for a booking that was cancelled.
RestoreCancelled(b) ==
    /\ booking[b].bin /\ booking[b].status = "cancelled"
    /\ booking' = [booking EXCEPT ![b].bin = FALSE]
    /\ UNCHANGED <<coupon, codeVars, call, ghosts>>

\* ... and given back when another car of the visit cannot be paid for.
SettleRestore(a) ==
    /\ At(a, "settle")
    /\ Return(a) \/ Go(a, "delete")
    /\ UNCHANGED <<coupon, booking, codeVars, ghosts>>

ReturnToBin(a) ==
    LET b == call[a].on IN
    /\ At(a, "bin")
    /\ booking' = [booking EXCEPT ![b].bin = @ \/ Listed(b)]
    /\ Return(a)
    /\ UNCHANGED <<coupon, codeVars, ghosts>>

\* A process dies and the rest of its call with it.
Kill(a) ==
    LET b == call[a].on IN
    /\ Under(a) /\ (b \in lost \/ Cardinality(lost) < MaxKills)
    /\ Return(a)
    /\ lost' = lost \cup {b}
    /\ crossed' = IF call[a].why = "restore" THEN crossed \cup {b} ELSE crossed
    /\ IF booking[b].status = "making" THEN Becomes(b, "gone") ELSE UNCHANGED booking
    /\ UNCHANGED <<coupon, codeVars>>

CallStep(a) ==
    \/ InsertRow(a) \/ ClaimShare(a) \/ CountUse(a) \/ GiveShareBack(a) \/ RemoveOwnRow(a)
    \/ WriteRow(a) \/ DeleteRow(a) \/ UncountUse(a) \/ ReleaseShare(a)
    \/ Commit(a) \/ SpendPass(a) \/ SettleRestore(a) \/ ReturnToBin(a) \/ Kill(a)
StartCall(a, b) == Create(a, b) \/ Cancel(a, b) \/ DropCoupon(a, b) \/ Delete(a, b) \/ Restore(a, b)
Next ==
    \/ \E a \in Calls : CallStep(a) \/ \E b \in Bookings : StartCall(a, b)
    \/ \E b \in Bookings : RestoreCancelled(b)
Spec == UsesInit /\ [][Next]_vars

(***************************************************************************)
(* Properties.                                                             *)
(***************************************************************************)
Settled(b) == CallsOn(b) = {}

\* The last use goes to one: the discounted bookings never outnumber the limit,
\* nor a customer's his share of it, whatever overlaps or dies in between - but
\* where a booking was restored while another call gave its use back, or by a
\* call that died. There a bundle's code can be used once too often.
Entitled == {b \in Bookings : Discounted(b) /\ Settled(b) /\ b \notin crossed \cup lost}
LimitsKept ==
    \/ coupon.bundle /\ crossed # {}
    \/ /\ coupon.limit > 0 => Cardinality(Entitled) <= coupon.limit
       /\ \A c \in Customers : Cardinality({b \in Entitled : Owner[b] = c}) <= coupon.share

\* A booking that stands holds a use and a booking that does not holds none; the
\* counters are the rows and the writes between them still to come.
Pending(S, B) == Cardinality({a \in Calls : call[a].step \in S /\ call[a].on \in B})
Written(B) == Cardinality({r \in rows : r.on \in B})
UsesOf(B) ==
    IF coupon.bundle THEN Written(B) + Pending({"less"}, B) - Pending({"share", "total", "unshare", "unrow"}, B)
                     ELSE Written(B) + Pending({"less", "row"}, B)
SharesOf(B) ==
    IF coupon.bundle THEN Written(B) + Pending({"less", "release"}, B) - Pending({"share", "unrow"}, B)
                     ELSE Written(B) + Pending({"less", "release", "total", "unshare", "row"}, B)
UsesFollowBookings ==
    /\ \A b \in Bookings \ (crossed \cup lost) :
         Settled(b) => Cardinality(RowsOf(b)) = IF Discounted(b) THEN 1 ELSE 0
    /\ lost = {} /\ (coupon.bundle => crossed = {}) =>
         /\ used = UsesOf(Bookings)
         /\ \A c \in Customers : spent[c] = SharesOf({b \in Bookings : Owner[b] = c})
=============================================================================
