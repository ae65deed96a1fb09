----------------------------- MODULE SeatLedger -----------------------------
(***************************************************************************)
(* Which booking owns which seat (backend/app/services/booking_service.py, *)
(* "Seat ownership").  A booking is one car; the cars of a visit share one *)
(* seat.  A booking that took a seat records it (holds_seat, seat_key) in  *)
(* the transaction that counted it, and every hand-back claims that record *)
(* in the transaction that decrements; each action below is one such       *)
(* transaction.  What the code does between two transactions - the next    *)
(* car of a visit, the undo of a failed visit, the re-spending after a     *)
(* restore - is between two actions, and anything may come in between.     *)
(*                                                                         *)
(* The counters and the holds are those of SlotHolds.                      *)
(***************************************************************************)
EXTENDS SlotHolds

CONSTANTS
  Visits, Cars,
  VisitOf,        \* the visit of a car (booking_group_id; a single booking is a visit of one)
  Offset,         \* group_offset_minutes: the order of the cars on their visit
  DayLimit,       \* max_bookings_per_day, 0 when none is configured
  Purges,         \* are visits purged from the bin?
  NoCar

CarsOf(v) == {c \in Cars : VisitOf[c] = v}

ASSUME LedgerAssumption ==
  /\ IsFiniteSet(Cars)
  /\ VisitOf \in [Cars -> Visits]
  /\ \A v \in Visits : CarsOf(v) # {}
  /\ Offset \in [Cars -> Nat]
  /\ \A c, d \in Cars : (VisitOf[c] = VisitOf[d] /\ Offset[c] = Offset[d]) => c = d
  /\ DayLimit \in [Days -> Nat]
  /\ Purges \in BOOLEAN
  /\ NoCar \notin Cars

VARIABLES
  status, at, bin,       \* a row's status, its slot and is_deleted
  holdsSeat, seatKey,    \* its ownership record
  daily,                 \* daily_capacity.booked_count, of a day with a limit
  making,                \* how far create_booking_group is with a visit
  wanted,                \* the slot the visit is being created in
  undoing,               \* the cars a failed create has still to cancel
  restoring,             \* the cars a restore has brought back and not yet paid for
  purging                \* the cars a purge has read in the bin and not yet removed

rowVars == <<status, at, bin>>
seatVars == <<holdsSeat, seatKey>>
callVars == <<making, wanted, undoing, restoring, purging>>
ledgerVars == <<rowVars, seatVars, daily, callVars>>
vars == <<holdsVars, ledgerVars>>

\* "none" is a car not inserted yet, "gone" one deleted for good.  "live" is a
\* car waiting for payment, pending, assigned or rescheduled, "headed" one with
\* the captain on the way or the service started.
Statuses == {"none", "live", "headed", "done", "cancelled", "gone"}
SeatHolding == {"live", "headed", "done"}   \* _SEAT_HOLDING_STATUSES

LedgerTypeOK ==
  /\ status \in [Cars -> Statuses]
  /\ at \in [Cars -> Slots \cup {NoSlot}]
  /\ bin \in [Cars -> BOOLEAN]
  /\ holdsSeat \in [Cars -> BOOLEAN]
  /\ seatKey \in [Cars -> Slots \cup {NoSlot}]
  /\ daily \in [Days -> Nat]
  /\ making \in [Visits -> {"no", "adding", "undoing", "over"}]
  /\ wanted \in [Visits -> Slots \cup {NoSlot}]
  /\ undoing \in [Visits -> SUBSET Cars]
  /\ restoring \in [Visits -> SUBSET Cars]
  /\ purging \in [Visits -> SUBSET Cars]

LedgerInit ==
  /\ HoldsInit
  /\ status = [c \in Cars |-> "none"]
  /\ at = [c \in Cars |-> NoSlot]
  /\ bin = [c \in Cars |-> FALSE]
  /\ holdsSeat = [c \in Cars |-> FALSE]
  /\ seatKey = [c \in Cars |-> NoSlot]
  /\ daily = [d \in Days |-> 0]
  /\ making = [v \in Visits |-> "no"]
  /\ wanted = [v \in Visits |-> NoSlot]
  /\ undoing = [v \in Visits |-> {}]
  /\ restoring = [v \in Visits |-> {}]
  /\ purging = [v \in Visits |-> {}]

Exists(c) == status[c] \notin {"none", "gone"}
Listed(c) == Exists(c) /\ ~bin[c]
Open(c) == Listed(c) /\ status[c] \in {"live", "headed"}
Standing(c) == Listed(c) /\ status[c] \in SeatHolding

\* _visit_cars, _visit_rows: the cars still on the visit.
OnVisit(v) == {c \in CarsOf(v) : Listed(c) /\ status[c] # "cancelled"}
First(S) == CHOOSE c \in S : \A d \in S : Offset[c] <= Offset[d]
Last(S) == CHOOSE c \in S : \A d \in S : Offset[d] <= Offset[c]
SeatKeyOf(c) == IF seatKey[c] # NoSlot THEN seatKey[c] ELSE at[c]

Owners(s) == {c \in Cars : holdsSeat[c] /\ seatKey[c] = s}
OwnersOn(d) == {c \in Cars : holdsSeat[c] /\ \E t \in Times : seatKey[c] = <<d, t>>}

\* The daily half of the counters; a day without a limit has no document.
DayHasRoom(d) == DayLimit[d] = 0 \/ daily[d] < DayLimit[d]
DayTaken(d) == IF DayLimit[d] = 0 THEN daily ELSE [daily EXCEPT ![d] = @ + 1]

DayHanded(count, S) ==
  [d \in Days |-> LET n == Cardinality({s \in S : DayOf(s) = d})
                  IN  IF count[d] >= n THEN count[d] - n ELSE 0]

\* Mutant of DayAfter: a move within its day hands the day back too.
DayAfterAnyMove(count, S, keepDay) == DayHanded(count, S)

\* A move within its day leaves the day's counter alone.
DayAfter(count, S, keepDay) == IF keepDay THEN count ELSE DayHanded(count, S)

\* Mutant of Heirs: a cancelled car's seat goes back though its visit remains.
HeirsNone(c) == {}

\* Who may inherit car c's seat, once the rows are written: a car of the visit
\* still sitting in it, without a seat of its own.  The query names no order.
Heirs(c) ==
  {x \in CarsOf(VisitOf[c]) \ {c} : Standing(x)' /\ at'[x] = seatKey[c] /\ ~holdsSeat[x]}

\* _release_seat for the cars R, which hold seats, after their rows and those of
\* their siblings were written: a seat passes to an heir, and goes back when
\* there is none.  `taken` and `dayTaken` are the counters so far.  Besides, the
\* cars L hold a seat now, and `keys` are seat keys written to other cars.
HandBack(R, L, keys, taken, dayTaken, keepDay) ==
  \E heir \in [R -> UNION {Heirs(c) : c \in R} \cup {NoCar}] :
    LET heirs == {heir[c] : c \in R} \ {NoCar}
        back == {seatKey[c] : c \in {x \in R : heir[x] = NoCar}}
    IN
    /\ \A c \in R : IF Heirs(c) = {} THEN heir[c] = NoCar ELSE heir[c] \in Heirs(c)
    /\ booked' = Handed(taken, back)
    /\ daily' = DayAfter(dayTaken, back, keepDay)
    /\ holdsSeat' = [c \in Cars |-> c \in L \/ c \in heirs \/ (holdsSeat[c] /\ c \notin R)]
    /\ seatKey' = [c \in Cars |-> IF c \in DOMAIN keys THEN keys[c]
                                  ELSE IF c \in heirs THEN at'[c] ELSE seatKey[c]]

HoldersOf(T) == {c \in T : holdsSeat[c]}
NoKeys == [c \in {} |-> NoSlot]

\* The seats the cars T hold go back, nothing is taken.
Release(T) ==
  /\ HandBack(HoldersOf(T), {}, NoKeys, booked, daily, FALSE)
  /\ UNCHANGED <<capacity, closed, held, holdVars, procVars>>

\* A new seat in s for car c, counted in its slot and, unless it only moves
\* within its day, in the day.
TakeSeat(c, s, h) ==
  /\ Book(s, h)
  /\ DayHasRoom(DayOf(s))
  /\ daily' = DayTaken(DayOf(s))
  /\ holdsSeat' = [holdsSeat EXCEPT ![c] = TRUE]
  /\ seatKey' = [seatKey EXCEPT ![c] = s]

\* A step that touches no counter and no ownership.
SeatsUnchanged == UNCHANGED <<holdsVars, seatVars, daily>>

---------------------------------------------------------------------------
(* Creating a visit, car by car.                                           *)

Uncreated(v) == {c \in CarsOf(v) : status[c] = "none"}
Created(v) == CarsOf(v) \ Uncreated(v)

\* create_booking of the first car: it reserves the visit's one seat.
CreateFirst(v, s, h) ==
  LET c == First(CarsOf(v)) IN
  /\ making[v] = "no"
  /\ TakeSeat(c, s, h)
  /\ status' = [status EXCEPT ![c] = "live"]
  /\ at' = [at EXCEPT ![c] = s]
  /\ making' = [making EXCEPT ![v] = "adding"]
  /\ wanted' = [wanted EXCEPT ![v] = s]
  /\ UNCHANGED <<bin, undoing, restoring, purging>>

\* Every car after it rides on that seat, wherever it is by now.
CreateNext(v) ==
  LET c == First(Uncreated(v)) IN
  /\ making[v] = "adding" /\ Uncreated(v) # {}
  /\ status' = [status EXCEPT ![c] = "live"]
  /\ at' = [at EXCEPT ![c] = wanted[v]]
  /\ UNCHANGED <<bin, callVars>>
  /\ SeatsUnchanged

CreateDone(v) ==
  /\ making[v] = "adding" /\ Uncreated(v) = {}
  /\ making' = [making EXCEPT ![v] = "over"]
  /\ UNCHANGED <<rowVars, wanted, undoing, restoring, purging>>
  /\ SeatsUnchanged

\* The create fails: the cars created so far are cancelled one by one.
StartUndo(v, S) ==
  /\ making' = [making EXCEPT ![v] = IF S = {} THEN "over" ELSE "undoing"]
  /\ undoing' = [undoing EXCEPT ![v] = S]
  /\ UNCHANGED <<wanted, restoring, purging>>

CreateFails(v) ==
  /\ making[v] = "adding" /\ Uncreated(v) # {}
  /\ StartUndo(v, Created(v))
  /\ UNCHANGED rowVars
  /\ SeatsUnchanged

\* _rollback_uncommitted_booking: the pass of the car just inserted has no wash
\* left.  Its row is removed, whatever became of it, with the seat it records.
RollBack(v) ==
  LET c == Last(Created(v))
      back == IF holdsSeat[c] THEN {seatKey[c]} ELSE {} IN
  /\ making[v] = "adding"
  /\ status' = [status EXCEPT ![c] = "gone"]
  /\ holdsSeat' = [holdsSeat EXCEPT ![c] = FALSE]
  /\ booked' = Handed(booked, back)
  /\ daily' = DayHanded(daily, back)
  /\ StartUndo(v, Created(v) \ {c})
  /\ UNCHANGED <<at, bin, seatKey, capacity, closed, held, holdVars, procVars>>

UndoCar(v) ==
  LET c == First(undoing[v]) IN
  /\ making[v] = "undoing"
  /\ IF Open(c)
       THEN /\ status' = [status EXCEPT ![c] = "cancelled"]
            /\ UNCHANGED <<at, bin>>
            /\ Release({c})
       ELSE UNCHANGED rowVars /\ SeatsUnchanged
  /\ StartUndo(v, undoing[v] \ {c})

\* The process creating, undoing, restoring or purging is killed between two transactions.
CallKilled(v) ==
  /\ making[v] \in {"adding", "undoing"} \/ restoring[v] # {} \/ purging[v] # {}
  /\ making' = [making EXCEPT ![v] = IF @ = "no" THEN "no" ELSE "over"]
  /\ undoing' = [undoing EXCEPT ![v] = {}]
  /\ restoring' = [restoring EXCEPT ![v] = {}]
  /\ purging' = [purging EXCEPT ![v] = {}]
  /\ UNCHANGED <<rowVars, wanted>>
  /\ SeatsUnchanged

---------------------------------------------------------------------------
(* What happens to a visit that exists.                                    *)

\* A move and a delete read the visit before their transaction: the car that a
\* create inserts in between is not among those they write.
Arriving(v) ==
  IF making[v] = "adding" /\ Cardinality(Created(v)) > 1 THEN {Last(Created(v))} ELSE {}

\* cancel_booking: one car.
CancelCar(c) ==
  /\ Open(c)
  /\ status' = [status EXCEPT ![c] = "cancelled"]
  /\ UNCHANGED <<at, bin, callVars>>
  /\ Release({c})

\* cancel_booking_group: every open car, or the unpaid ones when the payment
\* window closes; seats are handed back after all of them are written.
CancelVisit(v, T) ==
  /\ T # {}
  /\ \/ T = {c \in CarsOf(v) : Open(c)}
     \/ \A c \in T : c \in CarsOf(v) /\ Open(c) /\ status[c] = "live"
  /\ status' = [c \in Cars |-> IF c \in T THEN "cancelled" ELSE status[c]]
  /\ UNCHANGED <<at, bin, callVars>>
  /\ Release(T)

\* start_heading; captain_cancel; the job's end; manager_mark_done.
Advance(c, from, to) ==
  /\ Listed(c) /\ status[c] = from
  /\ status' = [status EXCEPT ![c] = to]
  /\ UNCHANGED <<at, bin, callVars>>
  /\ SeatsUnchanged

SetOff(c) == Advance(c, "live", "headed")
StandDown(c) == Advance(c, "headed", "live")
FinishJob(c) == Advance(c, "headed", "done")
MarkDone(c) ==
  /\ \A d \in OnVisit(VisitOf[c]) : status[d] # "headed"
  /\ Advance(c, "live", "done")

\* Mutant of SameSlot: the day is not compared.
SameTime(c, s) == TimeOf(at[c]) = TimeOf(s)

\* A move to the slot the lead is in already changes no seat.
SameSlot(c, s) == DayOf(SeatKeyOf(c)) = DayOf(s) /\ TimeOf(at[c]) = TimeOf(s)

\* Mutant of UniqueVisitSeat: the index does not exist.
NoVisitSeatIndex(c, s) == TRUE

\* uniq_visit_seat_v1: no other car of the visit owns a seat in slot s.
UniqueVisitSeat(c, s) ==
  \A d \in CarsOf(VisitOf[c]) \ {c} : ~(holdsSeat'[d] /\ seatKey'[d] = s)

\* reschedule_booking: every car of the visit that is not done moves to slot s.
\* _seat_move_begin decides from the lead and from the first car that holds any
\* seat; _seat_move_finish releases that car's seat, if it moved, and records
\* the new one on the lead.
MoveVisit(v, s, late) ==
  LET cars == OnVisit(v)
      movers == {c \in cars \ late : status[c] # "done"}
      lead == First(movers)
      holders == {c \in cars : holdsSeat[c]}
      holder == First(holders)
      oldDay == DayOf(SeatKeyOf(lead))
      holderMoves == holders # {} /\ holder \in movers
      keepDay == oldDay = DayOf(s) /\ holderMoves /\ cars = movers
  IN
  /\ movers # {} /\ \A c \in cars : status[c] # "headed"
  /\ at' = [c \in Cars |-> IF c \in movers THEN s ELSE at[c]]
  /\ UNCHANGED <<status, bin, callVars>>
  /\ IF SameSlot(lead, s)
       THEN SeatsUnchanged
       ELSE /\ Reserve(s, NoHolder)
            /\ keepDay \/ DayHasRoom(DayOf(s))
            /\ HandBack(IF holderMoves THEN {holder} ELSE {}, {lead}, [c \in {lead} |-> s],
                        [booked EXCEPT ![s] = @ + 1],
                        IF keepDay THEN daily ELSE DayTaken(DayOf(s)), keepDay)
            /\ UniqueVisitSeat(lead, s)
            /\ UNCHANGED <<capacity, closed, req, unit>>

\* soft_delete_booking: the cars on the visit, and the one asked for.
DeleteVisit(c, late) ==
  LET T == (OnVisit(VisitOf[c]) \ late) \cup {c} IN
  /\ Listed(c)
  /\ bin' = [x \in Cars |-> bin[x] \/ x \in T]
  /\ UNCHANGED <<status, at, callVars>>
  /\ Release(T)

\* Mutant of Restore: the visit comes back however full its slot is.
RestoreOverCapacity(v) ==
  LET back == {c \in CarsOf(v) : Exists(c) /\ bin[c]}
      lead == First(back)
      key == SeatKeyOf(lead)
  IN
  /\ back # {} /\ restoring[v] = {}
  /\ bin' = [c \in Cars |-> bin[c] /\ c \notin back]
  /\ restoring' = [restoring EXCEPT ![v] = back]
  /\ booked' = [booked EXCEPT ![key] = @ + 1]
  /\ daily' = DayTaken(DayOf(key))
  /\ holdsSeat' = [holdsSeat EXCEPT ![lead] = TRUE]
  /\ seatKey' = [seatKey EXCEPT ![lead] = key]
  /\ UNCHANGED <<status, at, making, wanted, undoing, purging, capacity, closed, held, holdVars, procVars>>

\* restore_booking: the visit's deleted cars come back; if one of them is open
\* and no car of the visit holds its seat, the first takes it or all is refused.
Restore(v) ==
  LET back == {c \in CarsOf(v) : Exists(c) /\ bin[c]}
      open == {c \in back : status[c] \in {"live", "headed"}}
      lead == First(open)
      key == SeatKeyOf(lead)
  IN
  /\ back # {} /\ restoring[v] = {}
  /\ bin' = [c \in Cars |-> bin[c] /\ c \notin back]
  /\ restoring' = [restoring EXCEPT ![v] = back]
  /\ UNCHANGED <<status, at, making, wanted, undoing, purging>>
  /\ IF open = {} \/ \E c \in CarsOf(v) : Listed(c) /\ holdsSeat[c] /\ seatKey[c] = key
       THEN SeatsUnchanged
       ELSE TakeSeat(lead, key, NoHolder)

\* What the restored cars used is spent again.
RestoreDone(v) ==
  /\ restoring[v] # {}
  /\ restoring' = [restoring EXCEPT ![v] = {}]
  /\ UNCHANGED <<rowVars, making, wanted, undoing, purging>>
  /\ SeatsUnchanged

\* Mutant of ReturnToBin: the seat the restore took is not given up again.
ReturnToBinKeepsSeat(v) ==
  LET T == {c \in restoring[v] : Exists(c) /\ ~bin[c]} IN
  /\ restoring[v] # {}
  /\ bin' = [c \in Cars |-> bin[c] \/ c \in T]
  /\ restoring' = [restoring EXCEPT ![v] = {}]
  /\ UNCHANGED <<status, at, making, wanted, undoing, purging>>
  /\ SeatsUnchanged

\* Or it cannot be: _return_to_bin puts the cars back with the seat they took,
\* one after the other, so the seat may pass through cars about to follow.
ReturnToBin(v) ==
  LET T == {c \in restoring[v] : Exists(c) /\ ~bin[c]}
      passable == {c \in T : /\ status[c] \in SeatHolding /\ ~holdsSeat[c]
                             /\ \E d \in HoldersOf(T) : seatKey[d] = at[c]}
  IN
  /\ restoring[v] # {}
  /\ bin' = [c \in Cars |-> bin[c] \/ c \in T]
  /\ restoring' = [restoring EXCEPT ![v] = {}]
  /\ UNCHANGED <<status, at, making, wanted, undoing, purging>>
  /\ \E passed \in SUBSET passable :
       HandBack(HoldersOf(T), {}, [c \in passed |-> at[c]], booked, daily, FALSE)
  /\ UNCHANGED <<capacity, closed, held, holdVars, procVars>>

\* permanently_delete_booking, from the bin only: the cars are read there, then
\* removed one by one, each by its id.
StartPurge(v) ==
  LET T == {c \in CarsOf(v) : Exists(c) /\ bin[c]} IN
  /\ Purges /\ T # {} /\ purging[v] = {}
  /\ purging' = [purging EXCEPT ![v] = T]
  /\ UNCHANGED <<rowVars, making, wanted, undoing, restoring>>
  /\ SeatsUnchanged

PurgeCar(v) ==
  LET c == First(purging[v]) IN
  /\ purging[v] # {}
  /\ purging' = [purging EXCEPT ![v] = @ \ {c}]
  /\ status' = [status EXCEPT ![c] = "gone"]
  /\ holdsSeat' = [holdsSeat EXCEPT ![c] = FALSE]
  /\ UNCHANGED <<at, bin, making, wanted, undoing, restoring, holdsVars, seatKey, daily>>

\* Mutant of RepairSlot: the recount is of open bookings, not of owners.
RecountOpen(s) ==
  /\ booked' = [booked EXCEPT ![s] = Cardinality({c \in Owners(s) : Open(c)})]
  /\ UNCHANGED <<capacity, closed, held, holdVars, procVars, ledgerVars>>

\* _repair_counter, kinds "slot" and "daily": a recount of the owners.
RepairSlot(s) ==
  /\ booked' = [booked EXCEPT ![s] = Cardinality(Owners(s))]
  /\ UNCHANGED <<capacity, closed, held, holdVars, procVars, ledgerVars>>

RepairDay(d) ==
  /\ DayLimit[d] # 0
  /\ daily' = [daily EXCEPT ![d] = Cardinality(OwnersOn(d))]
  /\ UNCHANGED <<holdsVars, rowVars, seatVars, callVars>>

---------------------------------------------------------------------------
CreateStep(v) ==
  \/ \E s \in Slots, h \in Holders \cup {NoHolder} : CreateFirst(v, s, h)
  \/ CreateNext(v) \/ CreateDone(v) \/ CreateFails(v)
  \/ RollBack(v) \/ UndoCar(v) \/ CallKilled(v)

CarStep(c) ==
  \/ CancelCar(c) \/ SetOff(c) \/ StandDown(c) \/ FinishJob(c) \/ MarkDone(c)
  \/ \E late \in SUBSET (Arriving(VisitOf[c]) \ {c}) : DeleteVisit(c, late)

VisitStep(v) ==
  \/ \E T \in SUBSET CarsOf(v) : CancelVisit(v, T)
  \/ \E s \in Slots, late \in SUBSET Arriving(v) : MoveVisit(v, s, late)
  \/ Restore(v) \/ RestoreDone(v) \/ ReturnToBin(v)

PurgeStep(v) == StartPurge(v) \/ PurgeCar(v)

Next ==
  \/ HoldsStep /\ UNCHANGED ledgerVars
  \/ \E v \in Visits : CreateStep(v) \/ VisitStep(v) \/ PurgeStep(v)
  \/ \E c \in Cars : CarStep(c)
  \/ \E s \in Slots : RepairSlot(s)
  \/ \E d \in Days : RepairDay(d)

Spec == LedgerInit /\ [][Next]_vars

---------------------------------------------------------------------------
(* Calls that do not get in each other's way.                              *)

ToWash(v) == {c \in CarsOf(v) : status[c] \in {"live", "headed"}}

\* Nobody else touches a visit while it is being created or undone.
CreatesAlone(v) ==
  making[v] \in {"adding", "undoing"} =>
    \A c \in CarsOf(v) : <<status[c], at[c], bin[c]>>' # <<status[c], at[c], bin[c]>> => CreateStep(v)

\* Nobody restores a visit while it is being purged.
PurgesAlone(v) == purging[v] # {} => ~Restore(v)

\* No move and no restore is decided by a key that outlived its seat, as one does on
\* a car that _return_to_bin passed the seat through and that was moved since.
DecidesOnFreshKey(v) ==
  Restore(v) \/ (\E s \in Slots, late \in SUBSET Arriving(v) : MoveVisit(v, s, late)) =>
    (ToWash(v) # {} => LET lead == First(ToWash(v)) IN seatKey[lead] \in {NoSlot, at[lead]})

\* A seat that passes to a car still to be washed passes to the first of them: the
\* heir query sorts by nothing, and rows come back as they were inserted.
HeirsInOrder(v) ==
  \A c \in ToWash(v)' : (holdsSeat'[c] /\ ~holdsSeat[c]) => c = First(ToWash(v))'

Undisturbed == \A v \in Visits : CreatesAlone(v) /\ PurgesAlone(v) /\ DecidesOnFreshKey(v) /\ HeirsInOrder(v)

\* The steps of holds, purges and repairs disturb nobody.
UndisturbedNext ==
  \/ HoldsStep /\ UNCHANGED ledgerVars
  \/ \E v \in Visits : PurgeStep(v)
  \/ \E s \in Slots : RepairSlot(s)
  \/ \E d \in Days : RepairDay(d)
  \/ ((\E v \in Visits : CreateStep(v) \/ VisitStep(v)) \/ \E c \in Cars : CarStep(c)) /\ Undisturbed

UndisturbedSpec == LedgerInit /\ [][UndisturbedNext]_vars

---------------------------------------------------------------------------
\* Every seat a booking records is counted, so no hand-back, transfer, move or
\* repair ever lets a slot - or a day - be sold past the seats already owned.
SeatsCounted == \A s \in Slots : Cardinality(Owners(s)) <= booked[s]
DayCounted == \A d \in Days : DayLimit[d] > 0 => Cardinality(OwnersOn(d)) <= daily[d]

\* Only a booking that still stands holds a seat: none is left on a cancelled,
\* deleted or removed row, which nobody would ever release.
NoGhostHolder == \A c \in Cars : holdsSeat[c] => Standing(c)

\* Two cars of one visit never hold the same seat, whichever of create, transfer,
\* move and restore made them holders.
OneSeatPerSlot ==
  \A c, d \in Cars : (VisitOf[c] = VisitOf[d] /\ holdsSeat[c] /\ holdsSeat[d] /\ seatKey[c] = seatKey[d]) => c = d

\* A counter falls only when a booking gives up a seat it owned (or an
\* administrator recounts it): nobody returns a stranger's seat.
ReturnedByOwner ==
  [][\A s \in Slots :
       booked'[s] < booked[s] => RepairSlot(s) \/ Cardinality(Owners(s)') < Cardinality(Owners(s))]_vars

\* What the ledger promises in SeatSale's terms: whatever create, cancel, move,
\* delete, restore and repair do to rows and counters, a visit gains a seat only
\* in a slot with fewer owners than capacity, and loses only its own.
VisitsOwning(s) == {VisitOf[c] : c \in Owners(s)}
Sale == INSTANCE SeatSale WITH cap <- capacity, owners <- [s \in Slots |-> VisitsOwning(s)]
SeatsSoldAsPromised == Sale!Spec

\* A car holds the seat of the slot it is booked in, not of one it has left.
HolderSitsInItsSeat == \A c \in Cars : holdsSeat[c] => seatKey[c] = at[c]

\* Every car still to be washed has a seat of its visit in its own slot.
EveryCarSeated ==
  \A c \in Cars : Open(c) => \E d \in CarsOf(VisitOf[c]) : holdsSeat[d] /\ seatKey[d] = at[c]
=============================================================================
