# TLA+ models of the blussit booking system

blussit sells doorstep car washes. A customer books a slot (one time of one day at a
service center) for one or more cars; a captain drives there and does the job; money
arrives by cash, online payment, prepaid pass or wallet credit. The backend is one
FastAPI application over MongoDB, run in several processes. Everything below is about
`src/backend/app` (paths in this file are relative to it).

Two facts shape every model:

* MongoDB transactions (`session.with_transaction`) are serializable for the documents a
  booking change touches: every one of them first writes the customer's document
  (`_touch_customer`), so two of the same customer conflict and one is retried. A
  transaction is therefore ONE action. What the code does outside a transaction - each
  `await` on a guarded update, an insert, a delete - is an action of its own.
* Any process may be killed between two awaits, and any number of them run at once.

## Inventory

| Part | State | Operations | What is hard |
|---|---|---|---|
| Seat capacity and holds (`services/booking_service.py` 3939-4443, 10026-10154; `repositories/base_repository.py`) | `slot_capacity` (capacity, booked_count, held_count, is_closed), `daily_capacity`, `slot_holds` | hold_slot, release_hold, _sweep_holds, _reserve_/_release_slot_capacity, set_slot_capacity, counter repair | a hold is two documents written one after the other, without a transaction; sweeps, double taps, kills |
| Seat ownership, booking life cycle (848-2109, 4914-5053, 6448-7320, 8448-8897) | `bookings`: status, slot, holds_seat, seat_key, is_deleted | create (single and visit), roll back, cancel, reschedule, edit, delete, restore, purge | a visit of several cars shares ONE seat, which passes from car to car; the cars are created one transaction at a time |
| Captain dispatch and steps (5054-6400, 8899-9600) | status, captain_id, slot_start_at, self_assigned; photos, arrival code, issue flags | assign, reassign, take over, release, head out, photos, complete, mark done, overdue sweeps | managers, captains and customers act on one visit at once, car by car; claims from old reads; an undo that checks nothing |
| Online payments (`services/payment_service.py`) | `payment_orders`, `razorpay_events` | create order, verify, webhook, reconciliation sweep, expiry, links, refunds | the same money reported by three paths, late, twice, or after the booking is gone |
| Customer wallet, booking money (`customer_wallet_service.py`, `money_service.py`, `booking_money.py`, `customer_charge_service.py`) | wallet balance and entries; a booking's total, applied, paid | spend at create, payment, cancel, price change | idempotency keys; what is paid, applied and credited must add up |
| Captain wallet (`wallet_service.py`, `money_service.py` 532-590) | balance per captain; a booking's captain_earning, platform_earning, late_penalty_amount, captain_cash_collected, captain_wallet_posted; `withdrawal_requests` | settle, collect cash, hand over, request and review withdrawals | shares written from old reads; posted versus target after each correction; claim, balance and row of a review in three writes |
| Passes (`subscription_service.py`, `custom_plan_service.py`) | washes left per pass | commit at booking, restore at cancel, lapse, renew | spent after the booking exists; returned once |
| Coupons (`coupon_service.py`, `coupon_bundle_service.py`) | use counters and rows | record_usage, reverse_usage | last use raced for; recorded before the booking |
| Sign-in (`auth_service.py`, `core/security.py`) | refresh tokens, one-time codes, guards | login, refresh, revoke | rotation against concurrent refreshes |
| Worker lease and reminder loop (`main.py` 426-1200) | lease document; what each sweep marked | claim, renew, lose, pass | two holders, a pass outliving its lease |
| WhatsApp, notifications | outgoing rows, conversation state | send, retry, campaigns | duplicates |
| Society schedule | recurring washes | plan, roll over | |
| Holidays, geo, KPIs, reviews, complaints, inventory, staff, storage, frontends | documents | CRUD and reports | little: no state several actors race for |

What makes the core correct, in words:

* a slot is never sold past its capacity, nor under a customer who holds a seat;
* every seat a booking records is counted, every counted seat is recorded, and it is handed
  back once, by the booking that owned it, whatever cancels, moves, deletes and restores race;
* every visit still to be washed sits in a slot it has a seat in, and only in one;
* money received is applied or credited once, and a wash or coupon is spent once per booking.

## Modules

| Module | Models | Lines |
|---|---|---|
| `SlotHolds` | the counters of the slots and the holds taken from them, one step per await | booking_service 4199-4441, 10117-10154 |
| `SeatLedger` | which car owns which seat: EXTENDS `SlotHolds`, bookings in place of its bare Book/Return | booking_service 1282-1503, 1982-2109, 4914-5053, 6448-6881, 7068-7320, 8442-8897 |
| `SeatLedgerProofs` | the theorems about `SlotHolds` and, with their lemmas, about `SeatLedger` | |
| `SeatSale` | what the ledger promises: a seat is bought below capacity, given up only by its owner | |
| `BookingMoney` | one customer's wallet and bookings: create, pay, edit, cancel, expire, delete, restore, the refund queue | money_service, customer_wallet_service 141-335, booking_money 29-144, booking_service (their callers), payment_service 1008-1084, 1546-1605 |
| `BookingMoneyProofs` | the theorems about it | |
| `PaymentOrders` | the checkout orders and payment links of one booking, from minting to the last sweep, one step per await | payment_service 367-999, 1546-1962, 2029-2225, 2296-2392, 2990-3527 |
| `PaymentOrdersProofs` | the theorems about it | |
| `ReminderLoop` | the worker's minute loop: its lease, its passes of sweeps, send and mark of a row, stops and kills, with a clock | main 426-624, 1152-1214, 1584-1591 |
| `ReminderLoopProofs` | the theorems about it | |
| `PassLife` | the passes of one car and the car's claim document: sale, extension, renewal, switch-off, upgrade, cancellation, lapse, washes spent and given back, one step per await | subscription_service 154-205, 305-460, 1118-1192, 1250-1456, 1674-1751, 1890-1905, 1975-2283, 2812-2962; payment_service 1405-1416 |
| `PassLifeProofs` | the theorems about it | |
| `CaptainDispatch` | who drives to which job: a visit given car by car and put back, taken over, released, headed for, marked done, while it moves and captains are suspended | booking_service 5054-5330, 5385-5410, 5560-5660, 5700-5850, 6280-6400, 9150-9330; employee_service |
| `JobStatus` | what it promises of a status: `_ALLOWED_TRANSITIONS` | booking_service, the map |
| `CaptainDispatchProofs` | the theorems about it | |
| `CaptainWallet` | how a job's price is shared, what it posts to its captain's wallet, cash he takes, withdrawals | booking_service 5580-5815, 6333-6360, 7697-7812, 8023-8156; money_service 157-230, 532-590; booking_adjust_service 236-287; booking_admin_edit_service 547-644; payment_service 2296-2349; wallet_service 44-268 |
| `CaptainWalletProofs` | the theorems about it | |
| `CouponUses` | what bookings spend of one coupon and give back: rows and counters, one step per await | coupon_service 518-625; coupon_repository 96-118; booking_service 1342-1391, 1469-1511, 6718, 7682-7692, 8448-8535, 8572-8699, 8802-8824 |
| `CouponUsesProofs` | the theorems about it | |
| `MCSlotHolds`, `MCSeatLedger`, `MCBookingMoney`, `MCPaymentOrders`, `MCReminderLoop`, `MCPassLife`, `MCCaptainDispatch`, `MCCaptainWallet`, `MCCouponUses` | constants for TLC | |

### SlotHolds

`capacity`, `closed`, `booked`, `held` are the fields of a slot document; `holds` the
`slot_holds` documents, identified by (slot, holder) because a unique index makes them so;
`expired` those whose `expires_at` has passed (a hold expires at any time: HoldExpires).
`req[p]` is where a process is inside hold_slot and what it has read; `batch[p]` the
documents a sweep read and has not deleted yet; `unit[p]` the slot of a held seat that is
counted but not yet backed by a document (between the increment and the insert), or not yet
given back (between the delete and the decrement). Actions: RequestHold, SweepDelete /
GiveBackUnit (the sweep's delete_one and decrement), RenewOrGiveUp, GiveUpOther, CheckSlot,
ClaimUnit (the guarded increment), InsertHold (or the duplicate key), RefreshHold,
ReleaseHold, WorkerSweep, WorkerDone, SetSlotCapacity, RepairHeld, Crash, and Book / Return,
the counter halves of a booking transaction. `Reserve` holds the conversion of a hold.

The code lets an administrator recount held_count at any time. A recount that falls between
an increment and its insert makes the count too low, so RepairHeld takes the constant
`RepairsAnytime`: FALSE means it is run only while no unit of the slot is on its way, and
the runs and the theorems on held_count assume that.

Abstracted: the sweep's batches of 200; available_slots' own sweep (3967) is one more
worker pass; the hour, policy and holiday checks in front of hold_slot only refuse.

### SeatLedger

A car is a booking row; `VisitOf` groups cars into visits (booking_group_id); a booking of
one car is a visit of one. `status` keeps what decides a move or a cancellation: "live" is
awaiting payment, pending, assigned and rescheduled together, "headed" a captain on the way
or at work. `at` is scheduled_date and scheduled_slot, `bin` is_deleted, `holdsSeat` and
`seatKey` the ownership record, `daily` the day's counter. `making`, `wanted`, `undoing`,
`restoring`, `purging` are calls that span several transactions; anything may happen between
two of theirs. `HandBack` is `_release_seat`: it claims the record, passes the seat to a car
of the visit still standing in it (`Heirs`, evaluated on the rows as written) and otherwise
decrements slot and day. edit_booking (7498) moves a seat through the same two halves as
reschedule_booking and is folded into MoveVisit. Reads that precede a transaction are
modelled where they matter: a move or a delete writes the cars it read before, so a car that
a create inserts in between (`Arriving`) may be missed.

Abstracted or left out: which car inherits (the query names no order, any may); legacy rows
(`_backfill_seats`); the advance-window, holiday and customer-overlap checks, which only
refuse; edits by the admin editor; one restore and one purge in flight per visit.

### BookingMoney

`booking[c]` is the money side of a booking row: `total` (total_amount), `applied`
(wallet_applied), `paid` (amount_paid), `carried` / `cleared` (wallet_due_carried,
wallet_due_cleared), `pay` (payment_status), `settled` (cancel_money_settled) and
`deleteSettled` (delete_money_settled). The booking's status keeps "awaiting" (payment),
"pending" (every confirmed state before the work is done), "completed" and "cancelled".
`balance` and `carriedDue` are the wallet's; `posted` the keys `cancel:<ids>` on the ledger;
`rows` the refund_due rows, known by (latest order, car) and open or resolved. Other ledger keys
name a booking, a payment or a revision and cannot recur, so they are not kept.

A transaction is an action: Create (one car; a visit is created car by car), Pay (an order,
link or captain's cash, through apply_payment), Cancel and Expire, Delete, Restore, ReturnToBin,
ChangePrice, ManagerDone. What follows a commit outside it is in `todo`: "confirm" after
a payment or an edit, "flag" and "mark" (flag_refund_due) after a delete, "clear" and "unmark"
(clear_refund_due) after a restore. A process may be killed before a confirm (Killed): the
retry of a payment finds its key, answers "already" and confirms nothing (`lost`).

`received` and `charged` are ghosts: what the customer started with and gave, and what he was
charged for cancelling late. HeldBy is the money a booking holds; MoneyConserved says the wallet,
the bookings and the charges always add up to what came in.

Three constants name what the passing run leaves out because the code breaks under it, each with
a run or a note that shows it: `LatePayments` (a payment for a booking whose price was
part paid when its money went back), `KeysReused` (the same bookings given back twice),
`Overlaps` (a cancel, payment or edit between a delete's or restore's commit and the refund-queue
steps after it: a restored booking cancelled before its row is cleared is still refund_due, gets
nothing back, and then loses its row).

Abstracted or left out: amounts are whole units (the code rounds to paise); parked plan cars;
manager paybacks, adjustments and an administrator's corrections of amounts (paid_adjust,
credit_cap); record_refund; late-cancellation charges of the old kind (`customer_charges`
carried by a booking); the captain's wallet, which these transactions also settle; a
payment for bookings purged meanwhile.

### PaymentOrders

`orders` are the `payment_orders` documents (checkout orders and links); `booking` and `due` what
`BookingMoney` keeps of the booking; `applied` the keys `po:<id>` on its payments, `rows` and
`credited` the duplicate-payment rows and the wallet keys `dup:<id>`; `events` the webhook event
rows; `gateway` and `dead` are Razorpay: payments and cancelled links. `call[p]` is where a process
is and what it has read: every report of a payment - verify_payment, the link callback, the webhook,
the status poll, the captain's QR poll, the sweeps, prepare_expiry, the next create_order - goes
through the same steps: ask the gateway (`AskAbout`), capture what is only authorized (`Capture`),
claim the order (`Settle`, with `Claimable` and `Claim`), apply it (`Apply`, the transaction), confirm
(`Confirm`), void the links (`VoidLinks`), and end (`Finish`); a call that loses the claim reads the
outcome (`Outcome`) and a second payment gets a row and a wallet credit (`RecordRow`, `CreditWallet`).
A process may be killed between any two (`Kill`); `SweepOrders` parks what such a process left
(`Interrupted`). `mintLock` is `payment_order_claims`.

Abstracted or left out: time - an order is young enough to be reused or swept (12 hours, 2 minutes to
48 hours), a settlement shorter than the 10 minutes after which it counts as interrupted, a mint
shorter than the 30 seconds after which its lock is stolen; one booking of one car; the limit of
three orders asked per call; amounts the webhook refuses, refunds at the gateway and gateway-side failure
notices; attention rows are never resolved; plan, society and auto-pay orders.

The model has, and no property denies, this order of steps: the window closes while an order's
captured money is being applied; a claimed order is not open any more, so prepare_expiry does not
see it, the booking is released and its money goes to the wallet instead (1911; the release itself
re-checks only that nothing was paid).

### ReminderLoop

`holder` and `left` are the lease document: whose it is, and how long until its expires_at. `run[p]` is the
loop of instance p: asleep, claiming or renewing (a call of the database is two steps, what it writes and
its answer, for the expiry it writes was computed when it was sent), in a sweep with its rows, or gone.
Time is the action Tick, and everything the code compares is an age: of the call, the pass, the sweep,
the last renewal. `MayWait` holds time back where the code has a timeout (a call answers within `MaxDelay`,
a sweep is cut off at `SweepTimeout`) and where it has no await. `due` are the rows a sweep would find,
`sent`, `again` and `cutOff` ghosts.

`AnswersInTime` is the hypothesis that makes the comment at _SWEEP_TIMEOUT_SECONDS (main 452-456) true:
sweep timeout, the database's slowest answer and the clocks' difference fit in the lease. With the
values of the code (120 s, 90 s) an answer may take 30 s; `core/database.py:34` allows a socket 60 s, so
a renewal written at once and answered after more than that would let two instances sweep together.
No property claims they cannot.

Abstracted or left out: the sweeps differ in what they read and send, not in how; the stamps that make
some of them hourly or nightly; the loops that take no lease (WhatsApp retries, campaigns, templates);
what a database call that was cancelled with its sweep may still write.

### PassLife

`pass[s]` is the `user_subscriptions` row sale s creates: `left` the remaining washes, `period` where now is relative
to its end (or its extension's) and to AUTOPAY_GRACE, `autopay` whether a mandate renews it, `grants` and `renewals`
what moves its end (`EndOf`, which every guard on end_date and extended_until compares). `claim` is the car's
document in `pass_claims`: the token of the call that took it and the pass bound to it. A sale and an extension
are calls with their own steps (`call`): the guard, the claim inserted, judged and taken over (`TryClaim`,
`Conflict`, `JudgedStale`, `TakeOver`), the insert, the bind; an extension reads, retakes the claim when the pass
is not live, writes under its guard or reads again. Everything else that reads a pass, waits and writes is a task
(`task[p][k]` holds what it read): a booking's wash, a lapse found while booking, a renewal, a switch-off, an upgrade, a
cancellation. Calls are killed (`Kill`), tasks lost (`TaskLost`).

Two ghosts name where the code does not keep its rule, so that the properties say what holds everywhere else: `revived`
are the passes brought back to life without the claim being retaken, or while another call was at it;
`overwritten` those written without a guard from a read that was no longer true. Sequences behind them: a refund
revives a pass whose car was sold another (run two_passes); an extension that retook the claim and a sale
that reads between its bind and its write; a renewal charged before and applied after the pass was cancelled makes it
active again, against the docstring at 2042-2047; a switch-off waits for the gateway and then expires a pass that
was refilled meanwhile, or turns "cancelled" into "expired" (2104); booking on an auto-pay pass within its grace expires it
(2843), though the sweep leaves it alone (2923), so the car can be sold another while the mandate still renews the first.

Abstracted or left out: one car, so one claim document; PASS_CLAIM_STALE is taken to be longer than two calls in
a row (`others`: a dead holder has lapsed when every call that was under way with it is over); the ten attempts of
a retake and the six of a write are unbounded; a call retakes the claim once; an upgrade is to a plan of as many
washes; scheduled passes, society plates, per-category and per-service quotas, the type-pass overlap rule, notices.

### CaptainDispatch

`job[c]` is the dispatch side of a booking row: `status`, `captain` (captain_id), `slot` (scheduled_date and _slot),
`start` (slot_start_at) and `self` (self_assigned); `fit` the captains in good standing at the center. A car is a number:
the order of the numbers is the working order in which a call takes the cars of a visit. `call[a]` is where a manager's or
captain's call is and what it read (`seen`): assign_captain_to_group reads the visit (`StartGroup`), asks in a dry run
whether any car clashes (`Precheck`), gives the cars one transaction each (`GiveCar`; inside it standing, status and
conflict are read again, serialized on the captain's row), and when one is refused puts the others back (`Undo`) by a
guarded write without a transaction and without those checks. `StartSelf`/`ClaimCar` are self_assign,
`StartRelease`/`ReleaseCar` captain_cancel, `StartHeading`/`HeadCar`/`ReadSiblings` start_heading, `StartDone`/`CloseCar`
manager_mark_done. What takes one step: photos that start or complete a job, cancellations, moves, a captain
leaving the roster (`Suspend`, under ensure_captain_can_leave_roster) and coming back. A call may die between two cars.

Two ghosts name where the code keeps no rule: `handedBack` are the cars a captain holds because an assignment was undone
(neither his time nor his standing nor the car's slot is looked at again), `crossed` the visits two calls were on at
once, or one broke off on (`others` in a call: the cars somebody else wrote meanwhile). `GivenThenFails`: assign_captain
raises after its transaction committed, and the caller puts back only the cars it had noted before (5121).

Abstracted or left out: a time is a slot and a job starts at its slot's start, so two jobs clash when their starts are
equal; leave, wallet floor, working hours and distance only refuse (`Refused`); photos, positions, arrival codes and issue
flags; pay; the sweeps on late jobs, which alert and write no dispatch field. A leave approved between the check outside the
transaction (5261) and its commit is not seen; add-ons that lengthen a job may make it run into the next (8245).

### CaptainWallet

`job` is the money side of one booking as its captain sees it: `price` (what the services cost), `discount`
(manager_discount), `added` (added_services_total) and `paid`; the two shares `earn` (captain_earning, with its
service part) and `platform` (platform_earning), and `late` (late_penalty_amount); `cash` (captain_cash_collected) and
`settled` (captain_wallet_posted). `keys` are the payment_keys of the cash collections, `wallet` the balances,
`hand` the cash each captain took. `Target` and `Settle` are captain_wallet_target and settle_captain_wallet,
which a completion, a collection and the admin editor call inside their transactions, so each is one action. What reads
first and writes later is a call with two steps (`call[a]` holds the row it read): start_heading
(`ReadToSetOff`, `SetOff`), captain_cancel (`ReadToRelease`, `Release`), captain_collect_cash (`ReadToCollect`, `Collect`).

`request` are the withdrawal requests. request_withdrawal is one step (`Ask`): a balance that drops between its read and its
insert reaches the same states as one that drops just after, and a second pending row is refused by a
unique index. review_withdrawal claims (`Claim`), moves the balance and writes its row (`Draw`; `RowFails`
when only the first happens) or fails (`DrawFails`) and hands the claim back (`HandBack`). Any call may be killed (`Dies`).
`debits` counts what was taken from the wallet for each request.

Three ghosts name where the code does not keep its rule, so that the properties say what holds everywhere else:

* `stale`: start_heading and captain_cancel work out the shares from the row read at their start and guard their write
  on status and captain alone. A discount, an addition or an edit in between changes a share that is then
  overwritten, against the comment "conservation is the invariant" (5774) and "the pay restored above is the pay of
  exactly that state" (5625).
* `handed`: captain_cash_collected stays with the booking when an administrator gives the job to another captain:
  the reversal returns the first captain's posting, cash included, and the next one is charged for it (booking_admin_edit 625-643).
* `muddled`: a request approved by one administrator and rejected by another before the first has debited it is credited
  first, and the debit, when it fails, hands nothing back; a row that fails after its `$inc` is handed back
  as though no money had moved; a hand-back is refused when the captain has asked again; a killed
  review leaves an approval without a debit - against "Money didn't move - return the claim" (242).

Abstracted or left out: one booking of one car (a visit collects for all its cars at once); whole units; a
late start costs up to `Penalty`, whatever the time; the customer's wallet, which receives what a price change or a
collection leaves over (`BookingMoney` has it); price corrections by an administrator, admin_adjust, bank details, the
wallet floor; legacy rows; the hand-over of a cancelled booking, which settles nothing.

### CouponUses

`rows` are the `coupon_usages` documents of one coupon, `used` its total_used (used_count of a bundle's code), `spent` the
counter of each customer. A booking is only its `status`, whether it is in the `bin`, and whether it is still `discounted`. Every
request that spends or gives back is a `call[a]`, at the write it makes next. record_usage writes share, total and row, in that order and
undone backwards (`ClaimShare`, `CountUse`, `GiveShareBack`, `WriteRow`); for a bundle's code the row comes first, under an id of its booking
(`InsertRow`, `RemoveOwnRow`). reverse_usage deletes one row of the booking and, only if it did, takes one off both counters (`DeleteRow`,
`UncountUse`, `ReleaseShare`). create_booking calls the first before its transaction (`Create`, `Commit`), and the second when
that, or then the pass, fails (`SpendPass`); a cancel, a delete and an edit call the second after theirs (`GiveBack`);
restore_booking calls the first after its own (`Restore`), and undoes it (`SettleRestore`, `ReturnToBin`). Calls die anywhere (`Kill`).

Two ghosts name where the code does not keep its rule: `lost` are the bookings with a killed call, and `crossed` those a restore and
another call were on together. A delete's reverse that comes after the restore of the same booking has recorded (or, for a bundle, found its row)
removes that row: the booking is back, with its discount, and holds no use. For a coupon without a bundle the limits are still kept by all other bookings;
a bundle's code whose row a restore found ("this booking already holds the use", coupon_service 594) is then given back under it and
can be used once too often, and LimitsKept says so. When two reverses run at once the booking's one row decides, and both counters follow.

Abstracted or left out: validation (which coupons apply, first-time and code-guessing guards), what the discount is worth; uses by plans and society
orders; a counter seeded from rows older than the counters; a limit edited, or a coupon deleted, while uses stand; the purge, which leaves rows alone;
"last used".

## Runs

The constants are small on purpose: the hazards need two actors on one seat, or two cars
of one visit, or two slots besides the one a visit leaves; no hazard of the list needs more.

| Run | Instance | Checks |
|---|---|---|
| MCSlotHolds_units (388 k states) | 1 browser with 2 API calls, bookings by anybody else, 1 loop pass that may be killed anywhere, a slot of 4 seats (two double taps fit under its cap) and one of 2, either closed at 2 seats by an administrator at any time; `HoldsLiveSpec` | OnlyKillsLoseUnits, HoldsLeaveRoom, NeverSoldPastCapacity, ExpiredHoldsGo |
| MCSeatLedger_holds (354 k) | a visit of 2 cars and one of 1, a browser with a hold call, one slot of 1 seat and its day, kills, failing creates and restores, an administrator who recounts slot and day (its holds while no unit is on its way) | HoldsBacked, HeldSeatsKept, SeatsCounted, NoGhostHolder, SeatsSoldAsPromised (refines `SeatSale`) |
| MCSeatLedger_undisturbed (126 k) | a visit of 2 cars, 2 days of 2 slots of 2 seats and a daily limit of 2, kills, failing restores and purges, under `UndisturbedSpec`; days and times are symmetric | DayCounted, EveryCarSeated, HolderSitsInItsSeat, OneSeatPerSlot |
| MCBookingMoney_books (780 k) | a customer who owes 1, 2 bookings of price 2, in one visit or two, edited to 1 or 3 once, a payment of 3, charges of 0 or 1 | MoneyTypeOK, MoneyConserved, CarriedMatches, PaidIsConfirmed, LiveNotRefunded |
| MCPaymentOrders_orders (1.2 M) | 2 orders or links, 2 payments, 2 API calls and the loop's pass of which two are at work at once (`TwoAtOnce`), price 1, nobody killed | PaymentCountsOnce, OnePayableOrder |
| MCPaymentOrders_found (210 k) | 1 order, 1 payment, calls and loop killed anywhere, edits that raise the price; `OrdersLiveSpec` | PaidMeansApplied, PaidIsNoticed, MoneyFound |
| MCReminderLoop_lease (829 k) | 2 instances, 2 sweeps a pass, 1 row; a lease of 9, sweeps cut off after 6, pauses of 6 and 3, answers within 1, clocks 1 apart, 2 faults (a stop, a kill, a call, sweep or row that fails); `LoopLiveSpec` | OneSweeper, HeardOnce, AlwaysSwept |
| MCCaptainDispatch_dispatch (198 k) | a visit of 2 cars and a booking of 1, 2 captains, 2 times, two calls at once, and besides them (`Few`) one of: a move, a job begun, finished or cancelled, a suspension, a call that dies; captains, times and calls are symmetric | NeverDoubleBooked, HoldersFit, StartFollowsSlot, OneTrip, AllOrNothing, NotYanked, FollowsMap (refines `JobStatus`) |
| MCCaptainWallet_wallet (806 k) | 2 captains, 2 calls at once, 2 withdrawals of 1 from wallets of 1, a price of 3 that an edit may make 2, with a pay of 1 less, a penalty of at most 1, one discount, addition or edit of 1, under the constraint `Apart`; captains, calls and withdrawals are symmetric | SharesAddUp, WalletsFollowJobs, DebitedOnce |
| MCCouponUses_coupon (1.7 M) | 3 bookings of 2 customers, 2 calls at once; a coupon without a total and 1 use each, one of 1 use and 2 each, a bundle code of 1 and 1; one booking (`OneDisturbed`) crossed by a restore, until the properties ask nothing more, or with calls killed; calls, and the two bookings of one customer, are symmetric | LimitsKept, UsesFollowBookings |
| MCPassLife_passes (841 k) | 2 sales, 1 extension, a wash, one renewal or extension or one kill, two calls or a call and a task at once (after a kill, two calls or a task), one booking riding (`Few`) | OneLivePass, WashesUsable |

The type invariants of every other module, CouponUses too, and OneSettler, ReturnedByOwner, PaidIsCaptured,
SelfMeansManager and CancelledStays, are proved for all instances (below), and no run spends its time on them again.

The money run starts in debt, which the first booking may carry; the payment of 3 pays it and
the booking exactly, overpays a booking of 2, or part-pays two, so credit arises too and the second
booking can spend it. `CHECK_DEADLOCK FALSE` in the money runs: bookings, payments and edits are
bounded, so a run ends; in the dispatch run each call is made once; in the wallet run
a job that is over and paid, with every withdrawal reviewed, has nothing left to happen.

`UndisturbedSpec` is the ledger without the steps in which calls get in each other's way. `Undisturbed` leaves out four things the code allows
and that break DayCounted, EveryCarSeated or HolderSitsInItsSeat: somebody touches a visit while its cars are still being created or undone
(`CreatesAlone`); a visit is restored in the middle of its purge (`PurgesAlone`); a move or a restore is decided by a seat_key that
outlived its seat (`DecidesOnFreshKey`); and the heir query, which sorts by nothing, returns another car to wash than the first
(`HeirsInOrder`; it takes a visit of three). The holds run, with `Spec`, keeps them all. No administrator changes
a capacity in it (the units run has that step); that the ledger still implements `SeatSale`, and keeps held seats, when one does is proved. `UndisturbedNext` asks nothing of the steps of holds,
purges and repairs, which disturb nobody.

`Apart` (a CONSTRAINT of the wallet run) keeps its two halves apart: a behaviour in which somebody withdraws has no changed
price, no penalty, no job taken over after cash and none cancelled, and a muddled request is not followed
further. The halves meet only in the balance: DebitedOnce is about requests alone, and SharesAddUp about the job
alone; the completed job, its cash, a hand-over without cash and a reopening are in both.

One run TLC must find violated; it is a finding in PROJECT.json with the text it contradicts:

| Run | Violates | Because |
|---|---|---|
| MCPassLife_two_passes | OneCarOnePass | the last wash of a pass ends it, the car is sold another, and the cancelled booking's refund revives the first (subscription_service 1743) |

Other sequences the models contain and that no run claims absent. A released seat leaves its seat_key on the row
and a reschedule does not touch it, but a move (7077) and a restore (8630) decide from it, and a visit may be left
without a seat, against "a visit holds its seat until its last car leaves" (docstring, 6539): a visit of two is deleted, restored in vain - the way
back to the bin passes the seat through the second car - and restored again; it is moved to the next day, its first car is washed there, and the second
is moved back to the first day at the same time: that counts as the same slot, no seat is taken, and the car
keeps none. With three cars a transfer out of order is enough: a seat that went to the third car while the first two were still to be
washed ends where only the third was. With `Spec`, the first car of a
visit, which owns the seat, is cancelled before the second is inserted, and the visit has no seat, against
docs/ARCHITECTURE.md:554 (2023); a visit with a finished car is rescheduled twice, the holder looked up is the
finished car, and the slot in between keeps a count nobody owns (7078); two hold_slot calls of one
browser each see no other hold, and it holds two slots, against the docstring at 4241 (4289); a hold renewed after a
sweep read it is swept all the same (4229); lowering a capacity below booked + held lets a
holder be refused (4379); repairing held_count between an increment and its insert makes
it one too low, and a later conversion takes it below zero (10135, 4389); a car left
behind by a reschedule that raced its creation, moved to its visit's slot afterwards,
keeps the seat of the slot it left (7078); a purge removes by id a visit that a restore brought
back since it read it, against "only ever reachable from the recycle bin" (8827, 8887). In `PaymentOrders`: a process killed between a
second payment's row and its wallet credit leaves it uncredited, because the next report finds the row (payment_service 987,
against "never applied, never lost", 750-751). In `CaptainDispatch`: two assignments of one visit at once leave
it split between two captains (the docstring at 5064 admits it). In `CaptainWallet`: the three
of its section (`stale`, `handed`, `muddled`). In `BookingMoney`: an online booking
covered by wallet credit and deleted gets the credit back AND a refund row, because the row is
decided on the document read before (8544); a booking deleted, restored and deleted again finds
its resolved refund row under the same id and is not listed again (1027); the refund row asks for
the whole total, credit and carried debt included (1035); a booking that is paid while
switch_to_cash runs says cash, so its delete lists no refund (1764); one that was part paid, or paid
and then edited up, is deleted and is on no refund list (payment_service 1017, against the comment at
8508). With `LatePayments = TRUE` a payment for a deleted booking writes the price inferred from
"refunded" as received (money_service 234) and MoneyConserved breaks; with `KeysReused = TRUE` the
cancel after a delete, a restore and a payment finds the delete's ledger key and credits nothing (387).

## Fairness

`HoldsLiveSpec` assumes weak fairness of each loop pass (`WorkerStep`). The reminder loop runs every
minute in the process that holds the lease, and its next pass starts whether or not the last one
finished; nothing a browser does disables a step of it for good. It may be killed in the middle of a sweep, and
ExpiredHoldsGo says only what happens once that stops (`WorkerKilled`). API calls are not fair: a
browser may vanish at any step.

`OrdersLiveSpec` assumes weak fairness of the steps of a call in progress (every await of one has a
timeout, so it goes on, fails or is killed), and strong fairness of starting each sweep and of the
gateway's answer about each order: a pass may be busy or Razorpay unreachable again and again, but
not for good, and the sweep takes the orders it has not asked about longest first. People owe nothing: no
browser has to verify, and no webhook has to arrive.

`LoopLiveSpec` assumes weak fairness of time and of each instance's own steps, starting again included
(the platform restarts an instance that ended). Faults are bounded, so they stop; a lease is lost to
contention only as long as its holder lives and sweeps.

## Proofs

`SeatLedgerProofs` proves of SlotHolds, for any sets of days, times, holders, calls and passes:

| Theorem | States | Along |
|---|---|---|
| HoldsTyped | []TypeOK | `Shape`: TypeOK with what a call at each step must have read (a slot, a holder), and batches of documents |
| HoldsAreBacked | []HoldsBacked when RepairsAnytime = FALSE | `Shape /\ HoldsBacked` is inductive: each action moves a document to a unit in flight or back, or changes held_count with it; the arithmetic is in cardinality lemmas about HoldsOn and Carriers |
| CapacityKept | NeverSoldPastCapacity when RepairsAnytime = FALSE | the plain guard compares booked + held, and held >= 0 by HoldsBacked |
| HeldSeatsAreKept | HeldSeatsKept when RepairsAnytime = FALSE | booked + held < capacity and documents <= held |
| RoomIsLeft | HoldsLeaveRoom when RepairsAnytime = FALSE and no override grants a slot more seats than it opened with (`NoSlotGrows`) | `CapsOK`: no slot has more seats than it opened with, and a call about to claim has read no larger cap |
| KillsAloneLoseUnits | OnlyKillsLoseUnits when RepairsAnytime = FALSE | `CarryOK`: a process carries a unit only at steps that can still account for it; every step but a kill leaves held_count less documents and units in flight as it was |

It proves of SeatLedger, for any visits, cars, slots, limits and everything above:

| Theorem | States | Along |
|---|---|---|
| LedgerTyped | []LedgerTypeOK | `LedgerShape`, below |
| NoGhostHolders | []NoGhostHolder | `LedgerShape`: whoever inherits stands, whoever keeps a seat still stands |
| OneSeatEach | []OneSeatPerSlot | two holders of one seat would have it from the same holder, and nobody passes a seat twice; a seat taken is guarded by uniq_visit_seat_v1 or taken where the visit has none |
| SeatsAreCounted | []SeatsCounted | the owners after a step inject into the owners before, and a slot that gets a seat back has an owner outside the image |
| OwnersReturn | ReturnedByOwner | the same count, read the other way |
| LedgerSellsAsPromised | SeatsSoldAsPromised when RepairsAnytime = FALSE | each step is GiveUp, Buy, SetCapacity or a stutter of `SeatSale`; Buy's guard is Reserve's, with HoldsBacked and SeatsCounted |
| HoldersSit | HolderSitsInItsSeat of UndisturbedSpec | `CalmInv`, below |
| EveryCarHasItsSeat | EveryCarSeated of UndisturbedSpec | `CalmInv`: the seat of a car that leaves passes to a car that sits in its slot, or there is none; a move takes one for all |
| DaysAreCounted | DayCounted of UndisturbedSpec | the owners of a day inject into those before without the cars nobody inherits; a move that leaves the day's counter alone gives back, by `CalmInv`, a seat of that day |

The inductive invariant is `LedgerInv == LedgerShape /\ OneSeatPerSlot /\ SeatsCounted`.
`LedgerShape` adds to the types what the operations rely on (`RowsOK`): a row has a slot, a
holder a key, a visit not begun has no rows, a call in flight is about rows of its visit. The
argument does not go action by action through the counting: every operation is shown once to be
one of three kinds of step (`Outcome`) - a visit gives up seats (`Sheds`), takes one and may give
up others (`Takes`), or nothing changes hands (`Keeps`) - where `SeatsPass` says from whom each
seat comes and `SeatsPaid` that a decrement is paid by a seat nobody inherits; the invariants and
the refinement then follow from the kind. That the first and last car of a set exist, which
First and Last presuppose, comes from the well-foundedness of the subsets of a finite set.

For `UndisturbedSpec` the invariant is `CalmInv`: `LedgerInv` and, of every visit, what its cars have in common (`Calm`). While it is being
created its cars wait in the slot wanted and the first has the seat (`BeginsOK`); the cars to wash are in one slot, and those that may
hold a seat go in and out of the bin and through a restore together (`TogetherOK`); a seat held is where its car is, only the first car to wash
may hold one among those, and there is one in the slot of every car to wash that is listed (`SeatedOK`). Each operation keeps it for its
own visit and leaves the others untouched (`Only`), and an operation on a visit somebody is still creating has, by `CreatesAlone`, nothing to
write. The same invariant says that all cars of a visit leave a slot when a move keeps the day's counter, so that a seat
of that day really goes back.

`PaymentOrdersProofs` proves, for any orders, payments, calls, kills and prices, OrdersTyped,
SettledByOne (OneSettler), PaidIsApplied (PaidMeansApplied), PaidByCaptured, CountedOnce, OnePayable and
AlwaysNoticed (PaidIsNoticed). Its inductive invariant `OrdersInv` says what an order and a call must
agree on: a call between claim and end has an order marked as settling by it (`Marked`), and nobody
else has it; a settled order has a captured payment of its own (`TodoIsMoney`); a call about to
record a second payment holds one that settled nothing (`SecondIsSecond`); who is in the mint
section holds the lock or nobody does (`MinterAlone`), so that at most one checkout order of an amount is
payable; and a booking with nothing due that waits has an order being settled or parked (`Noticed`).

`ReminderLoopProofs` proves, for any times, instances and rows, LoopTyped (LoopTypeOK) and, assuming
`AnswersInTime`, SweepsAlone (OneSweeper) and ToldOnce (HeardOnce). `Covered` is the invariant: whoever is in
a sweep, or has been granted a lease it has not heard of, holds the lease and has more of it left than its
call or its sweep can still take. `Told` adds that a row sent and not marked is in the hands of the one sweeper or
was cut off.

`PassLifeProofs` proves, for any sales, extensions, washes and bounds, PassTyped (PassTypeOK), OnePassACar (OneLivePass),
WashesStayUsable (WashesUsable) and CancelledForGood (CancelledStays). Its inductive invariant `PassInv` says who may be
between claim and write: a live pass not revived is the one its car's claim names, or is about to be bound by the one call
that holds the claim (`ClaimOK`, `Alone`); what a call read of a claim it may take over was a dead holder and still is (`SeenOK`);
a sale that has not inserted has no pass (`UnsoldOK`). Steps that touch neither claim nor liveness are shown once to be
quiet (`Quiet`, `Mild`) and keep it; the rest is the take-over, the insert, the bind and the extension.

`CaptainDispatchProofs` proves, for any cars, visits, captains, times and calls, DispatchTyped, SelfIsManager (SelfMeansManager),
NobodyDoubleBooked (NeverDoubleBooked), HoldersAreFit (HoldersFit), StartsFollowSlots (StartFollowsSlot), NobodyYanked (NotYanked),
FollowsTheMap (FollowsMap), OneTripForAll (OneTrip) and AssignsAllOrNothing (AllOrNothing). `DispatchBase` is inductive: the types, a job's mark against its captain (`JobOK`), and what a call may have read
by the step it is at (`CallOK`) - without the last, an undo could put back anything. Every step then gives each car
a `Fate`: it was given under MayTake (Tame), goes on with its captain (Onward), or is let go or put back (Left, which adds to
`handedBack`); the three schedule invariants follow from the fates and from what a suspension requires, once, and not
action by action. That a set of cars has a first one comes from the well-foundedness of the naturals.

For the last two the inductive invariant is `TripInv`: what every call under way has made of its visit. `GroupOK` says of a group
assignment that the cars it holds (`InHand`) are taken by its captain in the slot read, and all others of the visit are as read, but for
those others wrote since; `LeftOut` that a car it did not set out to give was his already. `TripOK` says of a visit that no two calls
were on (`crossed`) that at most one is, and whom its waiting cars wait for in that call's middle (`Midway`): during an assignment
the new captain for the cars in hand and the one read for the rest, during a claim the manager for the cars already claimed. A step is
one of two kinds: of a call on its own visit (`Own`, with what it `Leaves`), or from outside the calls, after which no car it writes
waits (`AsideTrips`); one lemma per action says which. A suspension or a call on another visit leaves both untouched.

`CaptainWalletProofs` proves, for any captains, calls, withdrawals, prices and pay, WalletTyped (WalletTypeOK), SharesAlwaysAddUp
(SharesAddUp), DrawnOnce (DebitedOnce) and WalletsAreRight (WalletsFollowJobs). `Fits` is WalletTypeOK with what a row read by a call still has in common with the
job (`CallsFit`): unless a share has moved since, its earning, its platform share and its penalty are the job's; `Fits /\ SharesAddUp`
is inductive, and most actions keep it because they leave the shares alone. For withdrawals, `DrawInv` says of every request that is not muddled
that a call between claim and end is alone on it (`Alone`), that without one the debits match its status (`Once`), and that
a claim went along `Moves` (`ClaimsAreMoves`). For the wallets, `PostInv` says more of a job than WalletsFollowJobs does: there
is cash only for a job that is or was done (`Cashable`, which no step leaves, so that a collection that read it done may still
be written, and a release never finds cash), what the job last posted is what it owes its captain now (`Booked`), and
the cash in a captain's hand is that of his job. A step then leaves what is posted alone (`Keeps`), settles it (`SettleRight`), gives it to
another (`GivePosts`), or is a withdrawal's, which moves a wallet and its own share of what was drawn by the same amount (`DrawnRight`). What
was drawn is a sum over a set (`MapThenSumSet`): that such a sum exists, does not depend on the order its terms are taken in, and moves by what
one term moves is shown from the well-foundedness of the subsets of a finite set (`SumExists`, `SumTakesOut`, `SumsDiffer`).

`BookingMoneyProofs` proves, for any number of bookings, prices, opening balances, charges, payments and edits:

| Theorem | States | When |
|---|---|---|
| MoneyTyped | []MoneyTypeOK: no amount of a booking becomes negative | always |
| CarriedInLine | []CarriedMatches | `Orderly` |
| MoneyIsConserved | []MoneyConserved | `Orderly`, KeysReused = FALSE |
| PaidAreConfirmed | []PaidIsConfirmed | `Orderly` |
| LiveAreNotRefunded | []LiveNotRefunded | `Orderly` |

`Orderly` is LatePayments = FALSE and Overlaps = FALSE, as in the run: what they leave out is under BookingMoney above. The inductive
invariant `MoneyInv` says of a booking alone (`BookOK`) that its payment status follows its amounts, that a debt it carried is settled
exactly when enough came in, and what a delete that settled it may leave behind; and of a booking, its steps to come and its refund rows (`CarOK`)
that at most one kind of step is to come, that flags are raised on deleted bookings only and confirmations and clearings on the others, that a
booking owed back is deleted or being cleared, and that a paid one that waits has its confirmation to come or lost it. Each operation is shown once
on the record (`PayingOK`, `RepricedOK`, `CancelledOK`, `DroppedOK`, `RestoredOK`...): what it leaves valid and by how much it moves what the booking holds
and carries. The balances are sums over the bookings (`Total`, a recursive function); that a sum exists, is unique, adds and moves
by what its terms move follows from induction on the number of bookings, with the well-foundedness of
the naturals in place of the induction theorems, which take an operator. A payment's shares are the differences
of what is left, so they add up to the amount less the rest (`SplitShares`).

`CouponUsesProofs` proves, for any bookings, customers, calls, limits and kinds of coupon, UsesAreTyped (UsesTypeOK), UsesAreRight
(UsesFollowBookings) and LimitsHold (LimitsKept). `BookInv` says of one booking where its calls can be (`CallOK`), that a booking is
made by one call alone and, unless crossed, restored by one alone (`Lonely`), that a bundle's claim is made with its row in place (`Bundled`),
and which row it has at each step (`RowsFit`). The counters are then accounted for: each step of a call moves them by what it does
to the rows and to the writes still to come (`UseDue`, `ShareDue`, `Settles`), so that while nothing is killed they are equal to them (`Exact`). A
killed call leaves its write undone: what it had to take off stays counted, and what a bundle's claim had still to count is outweighed by its row, left behind
with a booking that was never made (`Dead`, `Covered`). The bookings that stand and the claims under way inject into the rows that were not left behind
(`RowsSuffice`): hence no counter is at zero when it is lowered, and the bookings that stand are no more than the counters, which never pass
their limits (`Capped`). LimitsHold needs no bound on kills or crossings; the run that checks it has one.

The theorems assume `HoldsAssumption`, `LedgerAssumption`, `OrdersAssumption`, `LoopAssumption`, `PassAssumption`, `DispatchAssumption`, `WalletAssumption`, `MoneyAssumption` and `UsesAssumption` (finite sets, natural capacities,
distinct offsets within a visit), which TLC evaluates on every run. Those on held_count
assume RepairsAnytime = FALSE, for the reason given under SlotHolds.

Only model-checked: the liveness of the sweeps.

## Not modelled, and the plan

The order of what follows is by how much can go wrong:

1. `JobSteps`: arrival code, photos, issue flags, the sweeps on late jobs.
2. `Sessions`, WhatsApp queue, society schedule.

Reports, reviews, complaints, inventory, storage and the frontends keep no state that
several actors race for and are not planned. Liveness and the reachability of what the
violated runs show stay with TLC.
