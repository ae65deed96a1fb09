----------------------------- MODULE SlotHolds -----------------------------
(***************************************************************************)
(* The seat counters of one service center and the theater-seat holds      *)
(* taken from them (backend/app/services/booking_service.py).              *)
(*                                                                         *)
(* A slot document counts the seats booked and the seats held.  A hold is  *)
(* a document of its own, so taking one is an increment followed by an     *)
(* insert, and giving one back is a delete followed by a decrement: every  *)
(* await of hold_slot, release_hold and _sweep_holds is a step here, and a *)
(* process may stop between any two.  Bookings appear as Book and Return,  *)
(* the counter halves of creating and ending one; SeatLedger replaces them *)
(* by the bookings themselves.                                             *)
(***************************************************************************)
EXTENDS Integers, FiniteSets

CONSTANTS
  Days, Times,      \* a slot is one time of one day
  Holders,          \* browsers and customers: the values of holder_id
  Addresses,        \* client IPs
  AddressOf,        \* the client IP each holder calls from
  MaxHoldsPerIp,    \* MAX_HOLDS_PER_IP
  Requests,         \* API calls in flight: hold_slot or release_hold
  Workers,          \* passes of the reminder loop: _sweep_holds
  InitialCapacity,  \* what an untouched slot document starts from
  Overrides,        \* the [capacity, closed] an administrator may set
  RepairsAnytime,   \* is held_count repaired also while a call carries a unit of it?
  Mortal,           \* the processes that may be killed between two of their awaits
  NoSlot, NoHolder

Slots == Days \X Times
Procs == Requests \cup Workers
DayOf(s) == s[1]
TimeOf(s) == s[2]

ASSUME HoldsAssumption ==
  /\ IsFiniteSet(Days) /\ IsFiniteSet(Times)
  /\ IsFiniteSet(Holders) /\ IsFiniteSet(Requests) /\ IsFiniteSet(Workers)
  /\ Requests \cap Workers = {}
  /\ AddressOf \in [Holders -> Addresses]
  /\ MaxHoldsPerIp \in Nat
  /\ InitialCapacity \in [Slots -> Nat]
  /\ Overrides \subseteq [capacity : Nat, closed : BOOLEAN]
  /\ RepairsAnytime \in BOOLEAN /\ Mortal \subseteq Procs
  /\ NoSlot \notin Slots
  /\ NoHolder \notin Holders

VARIABLES
  capacity, closed,   \* slot_capacity.capacity, .is_closed
  booked, held,       \* slot_capacity.booked_count, .held_count
  holds,              \* the slot_holds documents, as <<slot, holder>> (a unique index)
  expired,            \* those whose expires_at has passed
  req,                \* where each process is, and what it has read
  batch,              \* the expired documents a sweep has read and not yet deleted
  unit                \* the slot of the held seat a process must account for

slotVars == <<capacity, closed, booked, held>>
holdVars == <<holds, expired>>
procVars == <<req, batch, unit>>
holdsVars == <<slotVars, holdVars, procVars>>

HoldDocs == Slots \X Holders
Steps == {"idle", "sweep", "giveUp", "claim", "insert", "undo", "refresh", "release", "work"}
Request == [step : Steps, holder : Holders \cup {NoHolder}, slot : Slots \cup {NoSlot},
            seen : Nat, others : SUBSET Slots]
Idle == [step |-> "idle", holder |-> NoHolder, slot |-> NoSlot, seen |-> 0, others |-> {}]

TypeOK ==
  /\ capacity \in [Slots -> Nat]
  /\ closed \in [Slots -> BOOLEAN]
  /\ booked \in [Slots -> Nat]
  /\ held \in [Slots -> Int]
  /\ holds \subseteq HoldDocs
  /\ expired \subseteq holds
  /\ req \in [Procs -> Request]
  /\ batch \in [Procs -> SUBSET HoldDocs]
  /\ unit \in [Procs -> Slots \cup {NoSlot}]

HoldsInit ==
  /\ capacity = InitialCapacity
  /\ closed = [s \in Slots |-> FALSE]
  /\ booked = [s \in Slots |-> 0]
  /\ held = [s \in Slots |-> 0]
  /\ holds = {} /\ expired = {}
  /\ req = [p \in Procs |-> Idle]
  /\ batch = [p \in Procs |-> {}]
  /\ unit = [p \in Procs |-> NoSlot]

HoldsOn(s) == {d \in holds : d[1] = s}
HoldsOf(h) == {d \in holds : d[2] = h}
Carriers(s) == {p \in Procs : unit[p] = s}

\* _hold_cap: how many of a slot's seats holds together may take.
HoldCap(n) == IF n <= 1 THEN n ELSE n \div 2

\* Mutant of DropDoc: a sweep does not look at deleted_count.
DropDocUnchecked(d) ==
  /\ holds' = holds \ {d}
  /\ expired' = expired \ {d}
  /\ UNCHANGED batch

\* delete_one on a hold document.  A sweep deletes by _id, so the document is
\* gone from what every sweep has read: a later hold of the pair is another one.
DropDoc(d) ==
  /\ holds' = holds \ {d}
  /\ expired' = expired \ {d}
  /\ batch' = [p \in Procs |-> batch[p] \ {d}]

\* expires_at is set again: the document is no longer due.
Extend(d) == expired' = expired \ {d}

---------------------------------------------------------------------------
\* A hold's five minutes pass.
HoldExpires ==
  \E d \in holds \ expired :
    /\ expired' = expired \cup {d}
    /\ UNCHANGED <<slotVars, holds, procVars>>

\* hold_slot starts: the slot's expired holds are read for sweeping.
RequestHold(p, h, s) ==
  /\ req[p].step = "idle"
  /\ req' = [req EXCEPT ![p] = [Idle EXCEPT !.step = "sweep", !.holder = h, !.slot = s]]
  /\ batch' = [batch EXCEPT ![p] = HoldsOn(s) \cap expired]
  /\ UNCHANGED <<slotVars, holdVars, unit>>

\* Mutant of WorkerSweep: the expiry is compared the wrong way round.
WorkerSweepsLive(w) ==
  /\ req[w].step = "idle"
  /\ expired # {}
  /\ req' = [req EXCEPT ![w] = [Idle EXCEPT !.step = "work"]]
  /\ batch' = [batch EXCEPT ![w] = holds \ expired]
  /\ UNCHANGED <<slotVars, holdVars, unit>>

\* The reminder loop's pass reads every expired hold.
WorkerSweep(w) ==
  /\ req[w].step = "idle"
  /\ expired # {}
  /\ req' = [req EXCEPT ![w] = [Idle EXCEPT !.step = "work"]]
  /\ batch' = [batch EXCEPT ![w] = expired]
  /\ UNCHANGED <<slotVars, holdVars, unit>>

\* One read document is deleted by its _id, whether or not it is still expired.
SweepDelete(p) ==
  /\ req[p].step \in {"sweep", "work"} /\ unit[p] = NoSlot
  /\ \E d \in batch[p] :
       /\ DropDoc(d)
       /\ unit' = [unit EXCEPT ![p] = d[1]]
  /\ UNCHANGED <<slotVars, req>>

WorkerDone(w) ==
  /\ req[w].step = "work" /\ batch[w] = {} /\ unit[w] = NoSlot
  /\ req' = [req EXCEPT ![w] = Idle]
  /\ UNCHANGED <<slotVars, holdVars, batch, unit>>

\* Whoever deleted the document decrements, once, and never below zero.
StepAfter(step) == CASE step = "release" -> "idle" [] step = "undo" -> "refresh" [] OTHER -> step
GiveBackUnit(p) ==
  /\ unit[p] # NoSlot /\ req[p].step # "insert"
  /\ held' = IF held[unit[p]] > 0 THEN [held EXCEPT ![unit[p]] = @ - 1] ELSE held
  /\ unit' = [unit EXCEPT ![p] = NoSlot]
  /\ req' = [req EXCEPT ![p].step = StepAfter(@)]
  /\ UNCHANGED <<capacity, closed, booked, holdVars, batch>>

\* The slot is swept.  A holder who already holds it renews; any other hold of
\* theirs is read, to be given up.
RenewOrGiveUp(p) ==
  LET mine == <<req[p].slot, req[p].holder>> IN
  /\ req[p].step = "sweep" /\ batch[p] = {} /\ unit[p] = NoSlot
  /\ IF mine \in holds
       THEN Extend(mine) /\ req' = [req EXCEPT ![p] = Idle]
       ELSE /\ req' = [req EXCEPT ![p].step = "giveUp",
                                  ![p].others = {d[1] : d \in HoldsOf(req[p].holder)}]
            /\ UNCHANGED expired
  /\ UNCHANGED <<slotVars, holds, batch, unit>>

\* One seat per browser: a hold read there is released, if it is still there.
GiveUpOther(p) ==
  /\ req[p].step = "giveUp" /\ unit[p] = NoSlot
  /\ \E s \in req[p].others :
       /\ req' = [req EXCEPT ![p].others = @ \ {s}]
       /\ IF <<s, req[p].holder>> \in holds
            THEN DropDoc(<<s, req[p].holder>>) /\ unit' = [unit EXCEPT ![p] = s]
            ELSE UNCHANGED <<holdVars, batch, unit>>
  /\ UNCHANGED slotVars

\* The per-IP cap, and the slot document as the check reads it.
HoldAllowed(s, h) ==
  /\ Cardinality({d \in holds \ expired : AddressOf[d[2]] = AddressOf[h]}) < MaxHoldsPerIp
  /\ ~closed[s]
  /\ held[s] + booked[s] < capacity[s]
  /\ held[s] < HoldCap(capacity[s])

\* Both are read; a refusal ends the call.
CheckSlot(p) ==
  LET s == req[p].slot IN
  /\ req[p].step = "giveUp" /\ req[p].others = {} /\ unit[p] = NoSlot
  /\ req' = [req EXCEPT ![p] = IF HoldAllowed(s, req[p].holder)
                                 THEN [@ EXCEPT !.step = "claim", !.seen = HoldCap(capacity[s])]
                                 ELSE Idle]
  /\ UNCHANGED <<slotVars, holdVars, batch, unit>>

\* Mutant of ClaimUnit: the increment trusts the cap check made before it.
ClaimWithoutCap(p) ==
  LET s == req[p].slot IN
  /\ req[p].step = "claim"
  /\ IF ~closed[s] /\ booked[s] + held[s] < capacity[s]
       THEN /\ held' = [held EXCEPT ![s] = @ + 1]
            /\ unit' = [unit EXCEPT ![p] = s]
            /\ req' = [req EXCEPT ![p].step = "insert"]
       ELSE /\ req' = [req EXCEPT ![p] = Idle]
            /\ UNCHANGED <<held, unit>>
  /\ UNCHANGED <<capacity, closed, booked, holdVars, batch>>

\* The guarded increment: live counts, but the hold cap read before.
ClaimUnit(p) ==
  LET s == req[p].slot IN
  /\ req[p].step = "claim"
  /\ IF ~closed[s] /\ held[s] < req[p].seen /\ booked[s] + held[s] < capacity[s]
       THEN /\ held' = [held EXCEPT ![s] = @ + 1]
            /\ unit' = [unit EXCEPT ![p] = s]
            /\ req' = [req EXCEPT ![p].step = "insert"]
       ELSE /\ req' = [req EXCEPT ![p] = Idle]
            /\ UNCHANGED <<held, unit>>
  /\ UNCHANGED <<capacity, closed, booked, holdVars, batch>>

\* Mutant of InsertHold: the duplicate is swallowed and its unit kept.
InsertHoldKeepsUnit(p) ==
  LET mine == <<req[p].slot, req[p].holder>> IN
  /\ req[p].step = "insert"
  /\ holds' = holds \cup {mine}
  /\ unit' = [unit EXCEPT ![p] = NoSlot]
  /\ req' = [req EXCEPT ![p] = Idle]
  /\ UNCHANGED <<slotVars, expired, batch>>

\* The hold document is inserted, unless the same holder's other call did it.
InsertHold(p) ==
  LET mine == <<req[p].slot, req[p].holder>> IN
  /\ req[p].step = "insert"
  /\ IF mine \in holds
       THEN req' = [req EXCEPT ![p].step = "undo"] /\ UNCHANGED <<holds, unit>>
       ELSE /\ holds' = holds \cup {mine}
            /\ unit' = [unit EXCEPT ![p] = NoSlot]
            /\ req' = [req EXCEPT ![p] = Idle]
  /\ UNCHANGED <<slotVars, expired, batch>>

\* After the duplicate's unit went back, its document is extended.
RefreshHold(p) ==
  /\ req[p].step = "refresh"
  /\ Extend(<<req[p].slot, req[p].holder>>)
  /\ req' = [req EXCEPT ![p] = Idle]
  /\ UNCHANGED <<slotVars, holds, batch, unit>>

\* release_hold: delete, and only then a unit to give back.
ReleaseHold(p, h, s) ==
  /\ req[p].step = "idle"
  /\ <<s, h>> \in holds
  /\ DropDoc(<<s, h>>)
  /\ unit' = [unit EXCEPT ![p] = s]
  /\ req' = [req EXCEPT ![p] = [Idle EXCEPT !.step = "release"]]
  /\ UNCHANGED slotVars

\* A process is killed between two awaits; nothing undoes what it had done.
Crash(p) ==
  /\ p \in Mortal
  /\ req[p].step # "idle"
  /\ req' = [req EXCEPT ![p] = Idle]
  /\ batch' = [batch EXCEPT ![p] = {}]
  /\ unit' = [unit EXCEPT ![p] = NoSlot]
  /\ UNCHANGED <<slotVars, holdVars>>

---------------------------------------------------------------------------

\* set_slot_capacity: an override of one slot, whatever is booked or held.
SetSlotCapacity(s, o) ==
  /\ capacity' = [capacity EXCEPT ![s] = o.capacity]
  /\ closed' = [closed EXCEPT ![s] = o.closed]
  /\ UNCHANGED <<booked, held, holdVars, procVars>>

\* _repair_counter, kind "held": held_count becomes the documents counted.
\* The code lets an administrator run it at any time (RepairsAnytime); run only
\* while no unit of the slot is on its way, it repairs what crashes leaked.
RepairHeld(s) ==
  /\ RepairsAnytime \/ Carriers(s) = {}
  /\ held' = [held EXCEPT ![s] = Cardinality(HoldsOn(s))]
  /\ UNCHANGED <<capacity, closed, booked, holdVars, procVars>>

\* Mutants of Reserve: holds block nobody; the guard is off by one; the hold
\* document outlives its count.
ReserveIgnoringHolds(s, h) ==
  /\ ~closed[s] /\ booked[s] < capacity[s]
  /\ UNCHANGED <<held, holdVars, batch>>

ReserveOffByOne(s, h) ==
  /\ ~closed[s] /\ booked[s] + held[s] <= capacity[s]
  /\ UNCHANGED <<held, holdVars, batch>>

\* _reserve_slot_capacity's slot half: the booker's own hold converts into the
\* seat (even one that expired unswept); any other booker must clear the holds.
Reserve(s, h) ==
  /\ ~closed[s]
  /\ IF <<s, h>> \in holds
       THEN /\ booked[s] < capacity[s]
            /\ held' = [held EXCEPT ![s] = @ - 1]
            /\ DropDoc(<<s, h>>)
       ELSE /\ booked[s] + held[s] < capacity[s]
            /\ UNCHANGED <<held, holdVars, batch>>

\* _release_slot_capacity's slot half for a set of seats: never below zero.
Handed(count, S) == [s \in Slots |-> IF s \in S /\ count[s] > 0 THEN count[s] - 1 ELSE count[s]]

\* A booking is made, or one that had a seat ends.
Book(s, h) ==
  /\ Reserve(s, h)
  /\ booked' = [booked EXCEPT ![s] = @ + 1]
  /\ UNCHANGED <<capacity, closed, req, unit>>

Return(s) ==
  /\ booked[s] > 0
  /\ booked' = Handed(booked, {s})
  /\ UNCHANGED <<capacity, closed, held, holdVars, procVars>>

---------------------------------------------------------------------------
HoldSlotStep(p) ==
  \/ RenewOrGiveUp(p) \/ GiveUpOther(p) \/ CheckSlot(p)
  \/ ClaimUnit(p) \/ InsertHold(p) \/ RefreshHold(p)

HoldsStep ==
  \/ HoldExpires
  \/ \E p \in Requests : HoldSlotStep(p)
  \/ \E p \in Requests, h \in Holders, s \in Slots : RequestHold(p, h, s) \/ ReleaseHold(p, h, s)
  \/ \E p \in Procs : SweepDelete(p) \/ GiveBackUnit(p) \/ Crash(p)
  \/ \E w \in Workers : WorkerSweep(w) \/ WorkerDone(w)
  \/ \E s \in Slots, o \in Overrides : SetSlotCapacity(s, o)
  \/ \E s \in Slots : RepairHeld(s)

HoldsNext ==
  \/ HoldsStep
  \/ \E s \in Slots, h \in Holders \cup {NoHolder} : Book(s, h)
  \/ \E s \in Slots : Return(s)

HoldsSpec == HoldsInit /\ [][HoldsNext]_holdsVars

\* The reminder loop runs every minute in the process that holds the lease.
WorkerStep(w) == WorkerSweep(w) \/ SweepDelete(w) \/ GiveBackUnit(w) \/ WorkerDone(w)
WorkerFairness == \A w \in Workers : WF_holdsVars(WorkerStep(w))
HoldsLiveSpec == HoldsSpec /\ WorkerFairness

---------------------------------------------------------------------------
\* Every hold document, and every unit a process still has to insert or give
\* back, is counted in held_count: a lost step may leave it high, never low.
\* A count that is low lets a booking past the holds (_sweep_holds: "only
\* whoever actually deleted the doc decrements").
HoldsBacked ==
  \A s \in Slots : Cardinality(HoldsOn(s)) + Cardinality(Carriers(s)) <= held[s]

\* No booking takes a slot past its capacity, whichever guard let it in: the
\* converted hold's (booked < capacity) or the plain one (booked + held).
NeverSoldPastCapacity ==
  [][\A s \in Slots : booked'[s] > booked[s] => booked'[s] <= capacity[s]]_holdsVars

\* A booking without a hold never takes a seat somebody is holding: whoever
\* else holds the slot can still convert.
HeldSeatsKept ==
  [][\A s \in Slots :
       (booked'[s] > booked[s] /\ holds' = holds)
         => booked'[s] + Cardinality(HoldsOn(s)) <= capacity[s]]_holdsVars

\* While no administrator grants a slot more seats than it opened with, holds never
\* take more than their share of those, leaked units included: the rest stays
\* bookable (_hold_cap).
HoldsLeaveRoom == \A s \in Slots : held[s] <= HoldCap(InitialCapacity[s])

\* An expired hold is swept or renewed by its holder in the end, unless the
\* reminder loop is killed in the middle of its sweeps over and over.
WorkerKilled == \E w \in Workers : Crash(w) /\ (batch[w] # {} \/ unit[w] # NoSlot)
ExpiredHoldsGo ==
  <>[][~WorkerKilled]_holdsVars => \A d \in HoldDocs : (d \in expired) ~> (d \notin expired)

\* A unit counted for no document and no call is lost: its seat can be neither
\* held nor booked again until an administrator recounts it.  Only a kill loses
\* one, never a call that overlaps others, gives up half-way or runs twice.
Lost(s) == held[s] - Cardinality(HoldsOn(s)) - Cardinality(Carriers(s))
OnlyKillsLoseUnits ==
  [][\A s \in Slots : Lost(s)' > Lost(s) => \E p \in Procs : Crash(p) /\ unit[p] = s]_holdsVars
=============================================================================
