-------------------------- MODULE SeatLedgerProofs --------------------------
(***************************************************************************)
(* Proofs about SlotHolds and about SeatLedger, which extends it, for any  *)
(* number of slots, holders, processes, visits and cars.  Of SlotHolds:    *)
(* that held_count backs every hold, that no booking takes a slot past its *)
(* capacity or a seat somebody is holding, and that kills alone lose       *)
(* units.  Of SeatLedger: who holds a seat, that every seat held is        *)
(* counted, that the ledger implements SeatSale, and, of calls that do not *)
(* get in each other's way, that every car to wash has its seat and every  *)
(* day counts its own.                                                     *)
(***************************************************************************)
EXTENDS SeatLedger, FiniteSetTheorems, TLAPS

-----------------------------------------------------------------------------
(* SlotHolds: the slots, the holds and the calls that move them. *)

\* A call past its start has a slot and a holder; one about to insert carries
\* the unit it claimed there.
CallsOK ==
  \A p \in Procs :
    /\ req[p].step \in {"sweep", "giveUp", "claim", "insert", "undo", "refresh"}
         => req[p].slot \in Slots /\ req[p].holder \in Holders
    /\ req[p].step = "insert" => unit[p] = req[p].slot

\* What a sweep still has to delete exists.
BatchesOK == \A p \in Procs : batch[p] \subseteq holds

Shape == TypeOK /\ CallsOK /\ BatchesOK

LEMMA ShapeInit == HoldsInit => Shape
  BY HoldsAssumption DEF HoldsInit, Shape, TypeOK, CallsOK, BatchesOK, Request, Idle, Steps, HoldDocs

\* Dropping a document keeps the documents and the batches in order.
LEMMA DropDocShape ==
  ASSUME Shape, NEW d, DropDoc(d)
  PROVE  /\ holds' \subseteq HoldDocs /\ expired' \subseteq holds'
         /\ batch' \in [Procs -> SUBSET HoldDocs]
         /\ \A p \in Procs : batch'[p] \subseteq holds'
  BY DEF Shape, TypeOK, BatchesOK, DropDoc

\* Every step of the holds keeps the shape.
LEMMA HoldsStepShape == ASSUME Shape, HoldsStep PROVE Shape'
  <1>. USE DEF Shape
  <1>1. ASSUME HoldExpires PROVE Shape'
    BY <1>1 DEF HoldExpires, TypeOK, CallsOK, BatchesOK, slotVars, procVars
  <1>2. ASSUME NEW p \in Requests, NEW h \in Holders, NEW s \in Slots, RequestHold(p, h, s)
        PROVE  Shape'
    BY <1>2 DEF RequestHold, TypeOK, CallsOK, BatchesOK, slotVars, holdVars, Idle, Request, Steps, HoldsOn, Procs
  <1>3. ASSUME NEW p \in Requests, RenewOrGiveUp(p) PROVE Shape'
    <2>1. req' \in [Procs -> Request] /\ CallsOK'
      <3>. DEFINE elsewhere == {d[1] : d \in HoldsOf(req[p].holder)}
                  r == [req[p] EXCEPT !.step = "giveUp", !.others = elsewhere]
      <3>1. p \in Procs /\ req[p] \in Request /\ req[p].step = "sweep"
        BY <1>3 DEF RenewOrGiveUp, TypeOK, Procs
      <3>2. req[p].slot \in Slots /\ req[p].holder \in Holders
        BY <3>1 DEF CallsOK
      <3>3. elsewhere \subseteq Slots
        BY DEF TypeOK, HoldsOf, HoldDocs
      <3>4. Idle \in Request /\ Idle.step = "idle"
        BY HoldsAssumption DEF Idle, Request, Steps
      <3>5. r \in Request /\ r.step = "giveUp" /\ r.slot = req[p].slot /\ r.holder = req[p].holder
        BY <3>1, <3>3 DEF Request, Steps
      <3>6. unit' = unit /\ (req' = [req EXCEPT ![p] = r] \/ req' = [req EXCEPT ![p] = Idle])
        BY <1>3 DEF RenewOrGiveUp
      <3>. HIDE DEF r
      <3>. QED BY <3>1, <3>2, <3>4, <3>5, <3>6 DEF TypeOK, CallsOK
    <2>2. expired' \subseteq holds'
      BY <1>3 DEF RenewOrGiveUp, Extend, TypeOK
    <2>. QED BY <1>3, <2>1, <2>2 DEF RenewOrGiveUp, TypeOK, BatchesOK, slotVars
  <1>4. ASSUME NEW p \in Requests, GiveUpOther(p) PROVE Shape'
    <2>1. PICK s \in req[p].others :
            /\ req' = [req EXCEPT ![p].others = @ \ {s}]
            /\ IF <<s, req[p].holder>> \in holds
                 THEN DropDoc(<<s, req[p].holder>>) /\ unit' = [unit EXCEPT ![p] = s]
                 ELSE UNCHANGED <<holdVars, batch, unit>>
      BY <1>4 DEF GiveUpOther
    <2>2. s \in Slots /\ req' \in [Procs -> Request] /\ unit' \in [Procs -> Slots \cup {NoSlot}] /\ CallsOK'
      BY <1>4, <2>1 DEF GiveUpOther, TypeOK, CallsOK, Request, Procs, Steps
    <2>3. CASE <<s, req[p].holder>> \in holds
      BY <1>4, <2>1, <2>2, <2>3, DropDocShape DEF GiveUpOther, TypeOK, BatchesOK, slotVars
    <2>4. CASE <<s, req[p].holder>> \notin holds
      BY <1>4, <2>1, <2>2, <2>4 DEF GiveUpOther, TypeOK, BatchesOK, slotVars, holdVars
    <2>. QED BY <2>3, <2>4
  <1>5. ASSUME NEW p \in Requests, CheckSlot(p) PROVE Shape'
    <2>1. req[p].slot \in Slots /\ HoldCap(capacity[req[p].slot]) \in Nat
      BY <1>5 DEF CheckSlot, TypeOK, CallsOK, HoldCap, Procs
    <2>2. req' \in [Procs -> Request] /\ CallsOK'
      <3>1. CASE HoldAllowed(req[p].slot, req[p].holder)
        <4>. DEFINE r == [req[p] EXCEPT !.step = "claim", !.seen = HoldCap(capacity[req[p].slot])]
        <4>1. req[p] \in Request /\ req[p].holder \in Holders
          BY <1>5 DEF CheckSlot, TypeOK, CallsOK, Procs
        <4>2. r \in Request /\ r.step = "claim" /\ r.slot = req[p].slot /\ r.holder = req[p].holder
          BY <2>1, <4>1 DEF Request, Steps
        <4>3. req' = [req EXCEPT ![p] = r] /\ unit' = unit
          BY <1>5, <3>1 DEF CheckSlot
        <4>. HIDE DEF r
        <4>. QED BY <2>1, <4>1, <4>2, <4>3 DEF TypeOK, CallsOK, Procs
      <3>2. CASE ~HoldAllowed(req[p].slot, req[p].holder)
        BY <1>5, <3>2 DEF CheckSlot, TypeOK, CallsOK, Idle, Request, Steps, Procs
      <3>. QED BY <3>1, <3>2
    <2>. QED
      BY <1>5, <2>2 DEF CheckSlot, TypeOK, CallsOK, BatchesOK, slotVars, holdVars
  <1>6. ASSUME NEW p \in Requests, ClaimUnit(p) PROVE Shape'
    BY <1>6 DEF ClaimUnit, TypeOK, CallsOK, BatchesOK, holdVars, Idle, Request, Steps, Procs
  <1>7. ASSUME NEW p \in Requests, InsertHold(p) PROVE Shape'
    BY <1>7 DEF InsertHold, TypeOK, CallsOK, BatchesOK, slotVars, Idle, Request, Steps, Procs, HoldDocs
  <1>8. ASSUME NEW p \in Requests, RefreshHold(p) PROVE Shape'
    BY <1>8 DEF RefreshHold, Extend, TypeOK, CallsOK, BatchesOK, slotVars, Idle, Request, Steps, Procs
  <1>9. ASSUME NEW p \in Requests, NEW h \in Holders, NEW s \in Slots, ReleaseHold(p, h, s)
        PROVE  Shape'
    BY <1>9, DropDocShape DEF ReleaseHold, TypeOK, CallsOK, BatchesOK, slotVars, Idle, Request, Steps, Procs
  <1>10. ASSUME NEW p \in Procs, SweepDelete(p) PROVE Shape'
    <2>1. PICK d \in batch[p] : DropDoc(d) /\ unit' = [unit EXCEPT ![p] = d[1]]
      BY <1>10 DEF SweepDelete
    <2>2. d[1] \in Slots
      BY <2>1 DEF TypeOK, HoldDocs
    <2>. QED BY <1>10, <2>1, <2>2, DropDocShape DEF SweepDelete, TypeOK, CallsOK, BatchesOK, slotVars
  <1>11. ASSUME NEW p \in Procs, GiveBackUnit(p) PROVE Shape'
    BY <1>11 DEF GiveBackUnit, StepAfter, TypeOK, CallsOK, BatchesOK, holdVars, Request, Steps
  <1>12. ASSUME NEW p \in Procs, Crash(p) PROVE Shape'
    BY <1>12 DEF Crash, TypeOK, CallsOK, BatchesOK, slotVars, holdVars, Idle, Request, Steps
  <1>13. ASSUME NEW w \in Workers, WorkerSweep(w) \/ WorkerDone(w) PROVE Shape'
    <2>1. w \in Procs /\ UNCHANGED <<slotVars, holdVars, unit>>
      BY <1>13 DEF WorkerSweep, WorkerDone, Procs
    <2>2. batch' \in [Procs -> SUBSET HoldDocs] /\ BatchesOK'
      BY <1>13, <2>1 DEF WorkerSweep, WorkerDone, TypeOK, BatchesOK, holdVars
    <2>3. req' \in [Procs -> Request] /\ CallsOK'
      <3>1. PICK r \in Request : r.step \in {"idle", "work"} /\ req' = [req EXCEPT ![w] = r]
        <4>1. Idle \in Request /\ [Idle EXCEPT !.step = "work"] \in Request
          BY DEF Idle, Request, Steps
        <4>. QED BY <1>13, <4>1 DEF WorkerSweep, WorkerDone, Idle
      <3>. QED BY <2>1, <3>1 DEF TypeOK, CallsOK
    <2>4. TypeOK'
      BY <2>1, <2>2, <2>3 DEF TypeOK, slotVars, holdVars
    <2>. QED BY <2>2, <2>3, <2>4
  <1>14. ASSUME NEW s \in Slots, NEW o \in Overrides, SetSlotCapacity(s, o) PROVE Shape'
    BY <1>14, HoldsAssumption DEF SetSlotCapacity, TypeOK, CallsOK, BatchesOK, holdVars, procVars
  <1>15. ASSUME NEW s \in Slots, RepairHeld(s) PROVE Shape'
    <2>1. IsFiniteSet(HoldsOn(s))
      <3>1. IsFiniteSet(HoldDocs)
        BY HoldsAssumption, FS_Product DEF HoldDocs, Slots
      <3>. QED BY <3>1, FS_Subset DEF HoldsOn, TypeOK
    <2>2. Cardinality(HoldsOn(s)) \in Int
      BY <2>1, FS_CardinalityType
    <2>. QED BY <1>15, <2>2 DEF RepairHeld, TypeOK, CallsOK, BatchesOK, holdVars, procVars
  <1>. QED
    BY <1>1, <1>2, <1>3, <1>4, <1>5, <1>6, <1>7, <1>8, <1>9, <1>10, <1>11, <1>12, <1>13, <1>14, <1>15
    DEF HoldsStep, HoldSlotStep, Procs

\* Reserving a slot keeps the shape of what it touches.
LEMMA ReserveShape ==
  ASSUME Shape, NEW s \in Slots, NEW h, Reserve(s, h)
  PROVE  /\ held' \in [Slots -> Int]
         /\ holds' \subseteq HoldDocs /\ expired' \subseteq holds'
         /\ batch' \in [Procs -> SUBSET HoldDocs]
         /\ \A p \in Procs : batch'[p] \subseteq holds'
  <1>1. CASE <<s, h>> \in holds
    BY <1>1, DropDocShape DEF Reserve, Shape, TypeOK
  <1>2. CASE <<s, h>> \notin holds
    BY <1>2 DEF Reserve, Shape, TypeOK, BatchesOK, holdVars
  <1>. QED BY <1>1, <1>2

LEMMA HandedType ==
  ASSUME NEW count \in [Slots -> Nat], NEW S PROVE Handed(count, S) \in [Slots -> Nat]
  BY DEF Handed

LEMMA BookShape == ASSUME Shape, NEW s \in Slots, NEW h, Book(s, h) PROVE Shape'
  <1>1. booked' \in [Slots -> Nat]
    BY DEF Book, Shape, TypeOK
  <1>. QED BY <1>1, ReserveShape DEF Book, Shape, TypeOK, CallsOK, BatchesOK

LEMMA ReturnShape == ASSUME Shape, NEW s \in Slots, Return(s) PROVE Shape'
  BY HandedType DEF Return, Shape, TypeOK, CallsOK, BatchesOK, holdVars, procVars

LEMMA HoldsNextShape == ASSUME Shape, [HoldsNext]_holdsVars PROVE Shape'
  <1>1. CASE UNCHANGED holdsVars
    BY <1>1 DEF holdsVars, slotVars, holdVars, procVars, Shape, TypeOK, CallsOK, BatchesOK
  <1>. QED BY <1>1, HoldsStepShape, BookShape, ReturnShape DEF HoldsNext

---------------------------------------------------------------------------
(* Counting the documents and the units in flight.                         *)

LEMMA Countable ==
  ASSUME Shape, NEW s
  PROVE  /\ IsFiniteSet(HoldsOn(s)) /\ Cardinality(HoldsOn(s)) \in Nat
         /\ IsFiniteSet(Carriers(s)) /\ Cardinality(Carriers(s)) \in Nat
  <1>1. IsFiniteSet(HoldDocs) /\ IsFiniteSet(Procs)
    BY HoldsAssumption, FS_Product, FS_Union DEF HoldDocs, Slots, Procs
  <1>2. IsFiniteSet(HoldsOn(s)) /\ IsFiniteSet(Carriers(s))
    BY <1>1, FS_Subset DEF HoldsOn, Carriers, Shape, TypeOK
  <1>. QED BY <1>2, FS_CardinalityType

\* A deleted document leaves its own slot only.
LEMMA DroppedCount ==
  ASSUME Shape, NEW d \in holds, DropDoc(d), NEW s
  PROVE  Cardinality(HoldsOn(s)') =
           IF d[1] = s THEN Cardinality(HoldsOn(s)) - 1 ELSE Cardinality(HoldsOn(s))
  <1>1. HoldsOn(s)' = HoldsOn(s) \ {d}
    BY DEF HoldsOn, DropDoc
  <1>2. d \in HoldsOn(s) <=> d[1] = s
    BY DEF HoldsOn
  <1>. QED BY <1>1, <1>2, Countable, FS_RemoveElement

\* A process that takes up a unit carries it; one that drops its unit does not.
LEMMA CarriedCount ==
  ASSUME Shape, NEW p \in Procs, NEW t, unit' = [unit EXCEPT ![p] = t], NEW s
  PROVE  Cardinality(Carriers(s)') <= Cardinality(Carriers(s)) + (IF s = t THEN 1 ELSE 0)
  <1>1. Carriers(s)' \subseteq Carriers(s) \cup (IF s = t THEN {p} ELSE {})
    BY DEF Carriers, Shape, TypeOK
  <1>2. CASE s = t
    <2>1. IsFiniteSet(Carriers(s) \cup {p})
          /\ Cardinality(Carriers(s) \cup {p}) <= Cardinality(Carriers(s)) + 1
      <3>1. IsFiniteSet(Carriers(s)) /\ Cardinality(Carriers(s)) \in Nat
        BY Countable
      <3>2. IsFiniteSet(Carriers(s) \cup {p})
            /\ Cardinality(Carriers(s) \cup {p}) =
                 IF p \in Carriers(s) THEN Cardinality(Carriers(s)) ELSE Cardinality(Carriers(s)) + 1
        BY <3>1, FS_AddElement
      <3>. QED BY <3>1, <3>2
    <2>2. Cardinality(Carriers(s)') <= Cardinality(Carriers(s) \cup {p})
      BY <1>1, <1>2, <2>1, FS_Subset
    <2>3. IsFiniteSet(Carriers(s)')
      BY <1>1, <1>2, <2>1, FS_Subset
    <2>. QED BY <1>2, <2>1, <2>2, <2>3, Countable, FS_CardinalityType
  <1>3. CASE s # t
    BY <1>1, <1>3, Countable, FS_Subset
  <1>. QED BY <1>2, <1>3

LEMMA LaidDownCount ==
  ASSUME Shape, NEW p \in Procs, unit' = [unit EXCEPT ![p] = NoSlot], NEW s \in Slots
  PROVE  Cardinality(Carriers(s)') =
           IF unit[p] = s THEN Cardinality(Carriers(s)) - 1 ELSE Cardinality(Carriers(s))
  <1>1. Carriers(s)' = Carriers(s) \ {p}
    BY HoldsAssumption DEF Carriers, Shape, TypeOK
  <1>2. p \in Carriers(s) <=> unit[p] = s
    BY DEF Carriers
  <1>. QED BY <1>1, <1>2, Countable, FS_RemoveElement

\* A step that touches no document, no unit and no count keeps the balance.
LEMMA QuietBacked ==
  ASSUME HoldsBacked, holds' = holds, unit' = unit, held' = held
  PROVE  HoldsBacked'
  BY DEF HoldsBacked, HoldsOn, Carriers

\* The two steps that move a unit between the documents, the processes and the count.
LEMMA DropAndCarryBacked ==
  ASSUME Shape, HoldsBacked, NEW p \in Procs, NEW d \in holds,
         DropDoc(d), unit' = [unit EXCEPT ![p] = d[1]], held' = held
  PROVE  HoldsBacked'
  <1>. SUFFICES ASSUME NEW s \in Slots
                PROVE  Cardinality(HoldsOn(s)') + Cardinality(Carriers(s)') <= held[s]
    BY DEF HoldsBacked
  <1>1. Cardinality(HoldsOn(s)') =
          IF d[1] = s THEN Cardinality(HoldsOn(s)) - 1 ELSE Cardinality(HoldsOn(s))
    BY DroppedCount
  <1>2. Cardinality(Carriers(s)') <= Cardinality(Carriers(s)) + (IF s = d[1] THEN 1 ELSE 0)
    BY CarriedCount
  <1>3. Cardinality(HoldsOn(s)) \in Nat /\ Cardinality(Carriers(s)) \in Nat /\ held[s] \in Int
    BY Countable DEF Shape, TypeOK
  <1>4. IsFiniteSet(Carriers(s)')
    <2>1. IsFiniteSet(Procs)
      BY HoldsAssumption, FS_Union DEF Procs
    <2>. QED BY <2>1, FS_Subset DEF Carriers
  <1>5. Cardinality(Carriers(s)') \in Nat
    BY <1>4, FS_CardinalityType
  <1>. QED BY <1>1, <1>2, <1>3, <1>5 DEF HoldsBacked

LEMMA GiveBackBacked ==
  ASSUME Shape, HoldsBacked, NEW p \in Procs, GiveBackUnit(p) PROVE HoldsBacked'
  <1>. DEFINE u == unit[p]
  <1>1. u \in Slots /\ unit' = [unit EXCEPT ![p] = NoSlot] /\ holds' = holds
    BY DEF GiveBackUnit, Shape, TypeOK, holdVars
  <1>2. /\ Cardinality(HoldsOn(u)) \in Nat /\ Cardinality(Carriers(u)) \in Nat
        /\ IsFiniteSet(Carriers(u)) /\ held[u] \in Int
    BY <1>1, Countable DEF Shape, TypeOK
  <1>3. Cardinality(Carriers(u)) # 0
    BY <1>2, FS_EmptySet DEF Carriers
  <1>4. held[u] > 0 /\ held' = [held EXCEPT ![u] = @ - 1]
    <2>1. held[u] > 0
      BY <1>1, <1>2, <1>3 DEF HoldsBacked
    <2>. QED BY <2>1 DEF GiveBackUnit
  <1>. SUFFICES ASSUME NEW s \in Slots
                PROVE  Cardinality(HoldsOn(s)') + Cardinality(Carriers(s)') <= held'[s]
    BY DEF HoldsBacked
  <1>5. Cardinality(Carriers(s)') =
          IF u = s THEN Cardinality(Carriers(s)) - 1 ELSE Cardinality(Carriers(s))
    BY <1>1, LaidDownCount
  <1>6. HoldsOn(s)' = HoldsOn(s)
    BY <1>1 DEF HoldsOn
  <1>7. Cardinality(HoldsOn(s)) \in Nat /\ Cardinality(Carriers(s)) \in Nat /\ held[s] \in Int
    BY Countable DEF Shape, TypeOK
  <1>8. held'[s] = IF u = s THEN held[s] - 1 ELSE held[s]
    BY <1>1, <1>4 DEF Shape, TypeOK
  <1>9. Cardinality(HoldsOn(s)) + Cardinality(Carriers(s)) <= held[s]
    BY DEF HoldsBacked
  <1>. HIDE DEF u
  <1>. QED BY <1>5, <1>6, <1>7, <1>8, <1>9

LEMMA ClaimBacked ==
  ASSUME Shape, HoldsBacked, NEW p \in Procs, ClaimUnit(p) PROVE HoldsBacked'
  <1>. DEFINE t == req[p].slot
  <1>1. t \in Slots /\ holds' = holds
    BY DEF ClaimUnit, Shape, CallsOK, holdVars
  <1>2. CASE held' = [held EXCEPT ![t] = @ + 1] /\ unit' = [unit EXCEPT ![p] = t]
    <2>. SUFFICES ASSUME NEW s \in Slots
                  PROVE  Cardinality(HoldsOn(s)') + Cardinality(Carriers(s)') <= held'[s]
      BY DEF HoldsBacked
    <2>1. Cardinality(Carriers(s)') <= Cardinality(Carriers(s)) + (IF s = t THEN 1 ELSE 0)
      BY <1>2, CarriedCount
    <2>2. HoldsOn(s)' = HoldsOn(s)
      BY <1>1 DEF HoldsOn
    <2>3. Cardinality(HoldsOn(s)) \in Nat /\ Cardinality(Carriers(s)) \in Nat /\ held[s] \in Int
      BY Countable DEF Shape, TypeOK
    <2>4. held'[s] = IF s = t THEN held[s] + 1 ELSE held[s]
      BY <1>1, <1>2 DEF Shape, TypeOK
    <2>5. Cardinality(Carriers(s)') \in Nat
      <3>1. IsFiniteSet(Procs)
        BY HoldsAssumption, FS_Union DEF Procs
      <3>. QED BY <3>1, FS_Subset, FS_CardinalityType DEF Carriers
    <2>6. Cardinality(HoldsOn(s)) + Cardinality(Carriers(s)) <= held[s]
      BY DEF HoldsBacked
    <2>. HIDE DEF t
    <2>. QED BY <2>1, <2>2, <2>3, <2>4, <2>5, <2>6
  <1>3. CASE held' = held /\ unit' = unit
    BY <1>1, <1>3, QuietBacked
  <1>. QED BY <1>2, <1>3 DEF ClaimUnit

\* The document takes over from the process that carried its unit.
LEMMA InsertBacked ==
  ASSUME Shape, HoldsBacked, NEW p \in Procs, InsertHold(p) PROVE HoldsBacked'
  <1>. DEFINE t == req[p].slot
              mine == <<req[p].slot, req[p].holder>>
  <1>1. t \in Slots /\ unit[p] = t /\ held' = held
    BY DEF InsertHold, Shape, CallsOK, slotVars
  <1>2. CASE mine \in holds
    BY <1>1, <1>2, QuietBacked DEF InsertHold
  <1>3. CASE mine \notin holds
    <2>1. holds' = holds \cup {mine} /\ unit' = [unit EXCEPT ![p] = NoSlot]
      BY <1>3 DEF InsertHold
    <2>. SUFFICES ASSUME NEW s \in Slots
                  PROVE  Cardinality(HoldsOn(s)') + Cardinality(Carriers(s)') <= held[s]
      BY <1>1 DEF HoldsBacked
    <2>2. Cardinality(Carriers(s)') =
            IF t = s THEN Cardinality(Carriers(s)) - 1 ELSE Cardinality(Carriers(s))
      BY <1>1, <2>1, LaidDownCount
    <2>3. HoldsOn(s)' = IF t = s THEN HoldsOn(s) \cup {mine} ELSE HoldsOn(s)
      BY <2>1 DEF HoldsOn
    <2>4. mine \notin HoldsOn(s)
      BY <1>3 DEF HoldsOn
    <2>5. /\ IsFiniteSet(HoldsOn(s)) /\ Cardinality(HoldsOn(s)) \in Nat
          /\ Cardinality(Carriers(s)) \in Nat /\ held[s] \in Int
      BY Countable DEF Shape, TypeOK
    <2>6. Cardinality(HoldsOn(s)') =
            IF t = s THEN Cardinality(HoldsOn(s)) + 1 ELSE Cardinality(HoldsOn(s))
      BY <2>3, <2>4, <2>5, FS_AddElement
    <2>7. Cardinality(HoldsOn(s)) + Cardinality(Carriers(s)) <= held[s]
      BY DEF HoldsBacked
    <2>. HIDE DEF t, mine
    <2>. QED BY <2>2, <2>5, <2>6, <2>7
  <1>. QED BY <1>2, <1>3

LEMMA CrashBacked ==
  ASSUME Shape, HoldsBacked, NEW p \in Procs, Crash(p) PROVE HoldsBacked'
  <1>1. /\ holds' = holds /\ held' = held
        /\ unit' = [unit EXCEPT ![p] = NoSlot]
    BY DEF Crash, slotVars, holdVars
  <1>. SUFFICES ASSUME NEW s \in Slots
                PROVE  Cardinality(HoldsOn(s)') + Cardinality(Carriers(s)') <= held[s]
    BY <1>1 DEF HoldsBacked
  <1>2. Cardinality(Carriers(s)') =
          IF unit[p] = s THEN Cardinality(Carriers(s)) - 1 ELSE Cardinality(Carriers(s))
    BY <1>1, LaidDownCount
  <1>3. HoldsOn(s)' = HoldsOn(s)
    BY <1>1 DEF HoldsOn
  <1>4. Cardinality(HoldsOn(s)) \in Nat /\ Cardinality(Carriers(s)) \in Nat /\ held[s] \in Int
    BY Countable DEF Shape, TypeOK
  <1>5. Cardinality(HoldsOn(s)) + Cardinality(Carriers(s)) <= held[s]
    BY DEF HoldsBacked
  <1>. QED BY <1>2, <1>3, <1>4, <1>5

\* A booking that converts a hold takes the document and its count together.
LEMMA ReserveBacked ==
  ASSUME Shape, HoldsBacked, NEW t \in Slots, NEW h, Reserve(t, h), unit' = unit
  PROVE  HoldsBacked'
  <1>1. CASE <<t, h>> \notin holds
    BY <1>1, QuietBacked DEF Reserve, holdVars
  <1>2. CASE <<t, h>> \in holds
    <2>1. DropDoc(<<t, h>>) /\ held' = [held EXCEPT ![t] = @ - 1]
      BY <1>2 DEF Reserve
    <2>. SUFFICES ASSUME NEW s \in Slots
                  PROVE  Cardinality(HoldsOn(s)') + Cardinality(Carriers(s)') <= held'[s]
      BY DEF HoldsBacked
    <2>2. Cardinality(HoldsOn(s)') =
            IF t = s THEN Cardinality(HoldsOn(s)) - 1 ELSE Cardinality(HoldsOn(s))
      <3>1. <<t, h>>[1] = t
        OBVIOUS
      <3>. QED BY <1>2, <2>1, <3>1, DroppedCount
    <2>3. Carriers(s)' = Carriers(s)
      BY DEF Carriers
    <2>4. Cardinality(HoldsOn(s)) \in Nat /\ Cardinality(Carriers(s)) \in Nat /\ held[s] \in Int
      BY Countable DEF Shape, TypeOK
    <2>5. held'[s] = IF t = s THEN held[s] - 1 ELSE held[s]
      BY <2>1 DEF Shape, TypeOK
    <2>6. Cardinality(HoldsOn(s)) + Cardinality(Carriers(s)) <= held[s]
      BY DEF HoldsBacked
    <2>. QED BY <2>2, <2>3, <2>4, <2>5, <2>6
  <1>. QED BY <1>1, <1>2

\* With nothing on its way, counting the documents counts everything.
LEMMA RepairBacked ==
  ASSUME RepairsAnytime = FALSE, Shape, HoldsBacked, NEW t \in Slots, RepairHeld(t)
  PROVE  HoldsBacked'
  <1>1. /\ holds' = holds /\ unit' = unit
        /\ held' = [held EXCEPT ![t] = Cardinality(HoldsOn(t))]
        /\ Carriers(t) = {}
    BY DEF RepairHeld, holdVars, procVars
  <1>. SUFFICES ASSUME NEW s \in Slots
                PROVE  Cardinality(HoldsOn(s)) + Cardinality(Carriers(s)) <= held'[s]
    BY <1>1 DEF HoldsBacked, HoldsOn, Carriers
  <1>2. CASE s = t
    <2>1. held'[s] = Cardinality(HoldsOn(s)) /\ Cardinality(Carriers(s)) = 0
      BY <1>1, <1>2, FS_EmptySet DEF Shape, TypeOK
    <2>. QED BY <2>1, Countable
  <1>3. CASE s # t
    BY <1>1, <1>3 DEF HoldsBacked, Shape, TypeOK
  <1>. QED BY <1>2, <1>3

LEMMA HoldsStepBacked ==
  ASSUME RepairsAnytime = FALSE, Shape, HoldsBacked, HoldsStep PROVE HoldsBacked'
  <1>1. ASSUME HoldExpires PROVE HoldsBacked'
    BY <1>1, QuietBacked DEF HoldExpires, slotVars, procVars
  <1>2. ASSUME NEW p \in Requests,
               \/ RenewOrGiveUp(p) \/ CheckSlot(p) \/ RefreshHold(p)
               \/ \E h \in Holders, s \in Slots : RequestHold(p, h, s)
        PROVE  HoldsBacked'
    BY <1>2, QuietBacked DEF RenewOrGiveUp, CheckSlot, RefreshHold, RequestHold, slotVars, holdVars
  <1>3. ASSUME NEW p \in Requests, GiveUpOther(p) PROVE HoldsBacked'
    <2>1. PICK s \in req[p].others :
            IF <<s, req[p].holder>> \in holds
              THEN DropDoc(<<s, req[p].holder>>) /\ unit' = [unit EXCEPT ![p] = s]
              ELSE UNCHANGED <<holdVars, batch, unit>>
      BY <1>3 DEF GiveUpOther
    <2>2. held' = held /\ p \in Procs
      BY <1>3 DEF GiveUpOther, slotVars, Procs
    <2>3. CASE <<s, req[p].holder>> \in holds
      <3>1. <<s, req[p].holder>>[1] = s
        OBVIOUS
      <3>. QED BY <2>1, <2>2, <2>3, <3>1, DropAndCarryBacked
    <2>4. CASE <<s, req[p].holder>> \notin holds
      BY <2>1, <2>2, <2>4, QuietBacked DEF holdVars
    <2>. QED BY <2>3, <2>4
  <1>4. ASSUME NEW p \in Requests, ClaimUnit(p) \/ InsertHold(p) PROVE HoldsBacked'
    BY <1>4, ClaimBacked, InsertBacked DEF Procs
  <1>5. ASSUME NEW p \in Requests, NEW h \in Holders, NEW s \in Slots, ReleaseHold(p, h, s)
        PROVE  HoldsBacked'
    <2>1. /\ <<s, h>> \in holds /\ DropDoc(<<s, h>>) /\ <<s, h>>[1] = s
          /\ unit' = [unit EXCEPT ![p] = s] /\ held' = held /\ p \in Procs
      BY <1>5 DEF ReleaseHold, slotVars, Procs
    <2>. QED BY <2>1, DropAndCarryBacked
  <1>6. ASSUME NEW p \in Procs, SweepDelete(p) PROVE HoldsBacked'
    <2>1. PICK d \in batch[p] : DropDoc(d) /\ unit' = [unit EXCEPT ![p] = d[1]]
      BY <1>6 DEF SweepDelete
    <2>2. d \in holds /\ held' = held
      BY <1>6 DEF SweepDelete, slotVars, Shape, BatchesOK
    <2>. QED BY <2>1, <2>2, DropAndCarryBacked
  <1>7. ASSUME NEW p \in Procs, GiveBackUnit(p) \/ Crash(p) PROVE HoldsBacked'
    BY <1>7, GiveBackBacked, CrashBacked
  <1>8. ASSUME NEW w \in Workers, WorkerSweep(w) \/ WorkerDone(w) PROVE HoldsBacked'
    BY <1>8, QuietBacked DEF WorkerSweep, WorkerDone, slotVars, holdVars
  <1>9. ASSUME NEW s \in Slots, NEW o \in Overrides, SetSlotCapacity(s, o) PROVE HoldsBacked'
    BY <1>9, QuietBacked DEF SetSlotCapacity, holdVars, procVars
  <1>10. ASSUME NEW s \in Slots, RepairHeld(s) PROVE HoldsBacked'
    BY <1>10, RepairBacked
  <1>. QED
    BY <1>1, <1>2, <1>3, <1>4, <1>5, <1>6, <1>7, <1>8, <1>9, <1>10 DEF HoldsStep, HoldSlotStep

LEMMA HoldsNextBacked ==
  ASSUME RepairsAnytime = FALSE, Shape, HoldsBacked, [HoldsNext]_holdsVars PROVE HoldsBacked'
  <1>1. ASSUME NEW s \in Slots, NEW h, Book(s, h) PROVE HoldsBacked'
    BY <1>1, ReserveBacked DEF Book
  <1>2. ASSUME NEW s \in Slots, Return(s) PROVE HoldsBacked'
    BY <1>2, QuietBacked DEF Return, holdVars, procVars
  <1>3. CASE UNCHANGED holdsVars
    BY <1>3, QuietBacked DEF holdsVars, slotVars, holdVars, procVars
  <1>. QED BY <1>1, <1>2, <1>3, HoldsStepBacked DEF HoldsNext

LEMMA BackedInit == HoldsInit => HoldsBacked
  <1>. SUFFICES ASSUME HoldsInit, NEW s \in Slots
                PROVE  Cardinality(HoldsOn(s)) + Cardinality(Carriers(s)) <= held[s]
    BY DEF HoldsBacked
  <1>1. HoldsOn(s) = {} /\ Carriers(s) = {} /\ held[s] = 0
    BY HoldsAssumption DEF HoldsInit, HoldsOn, Carriers
  <1>. QED BY <1>1, FS_EmptySet

---------------------------------------------------------------------------
\* Every variable keeps its type, and a sweep never deletes what is not there.
THEOREM HoldsTyped == HoldsSpec => []TypeOK
  <1>1. HoldsInit => Shape
    BY ShapeInit
  <1>2. Shape /\ [HoldsNext]_holdsVars => Shape'
    BY HoldsNextShape
  <1>3. Shape => TypeOK
    BY DEF Shape
  <1>. QED BY <1>1, <1>2, <1>3, PTL DEF HoldsSpec

\* held_count never falls below the documents and the units in flight, whichever
\* calls overlap, stop half-way or are repeated: unless an administrator
\* recounts it while a unit is on its way.
THEOREM HoldsAreBacked == ASSUME RepairsAnytime = FALSE PROVE HoldsSpec => []HoldsBacked
  <1>1. HoldsInit => Shape /\ HoldsBacked
    BY ShapeInit, BackedInit
  <1>2. Shape /\ HoldsBacked /\ [HoldsNext]_holdsVars => (Shape /\ HoldsBacked)'
    BY HoldsNextShape, HoldsNextBacked
  <1>. QED BY <1>1, <1>2, PTL DEF HoldsSpec

\* What Reserve lets through, given that the holds are backed.
LEMMA ReserveSells ==
  ASSUME Shape, HoldsBacked, NEW s \in Slots, NEW h, Reserve(s, h)
  PROVE  /\ booked[s] + 1 <= capacity[s]
         /\ holds' = holds => booked[s] + 1 + Cardinality(HoldsOn(s)) <= capacity[s]
  <1>1. /\ Cardinality(HoldsOn(s)) \in Nat /\ Cardinality(Carriers(s)) \in Nat
        /\ held[s] \in Int /\ booked[s] \in Nat /\ capacity[s] \in Nat
    BY Countable DEF Shape, TypeOK
  <1>2. Cardinality(HoldsOn(s)) + Cardinality(Carriers(s)) <= held[s]
    BY DEF HoldsBacked
  <1>3. CASE <<s, h>> \in holds
    BY <1>1, <1>3 DEF Reserve, DropDoc
  <1>4. CASE <<s, h>> \notin holds
    BY <1>1, <1>2, <1>4 DEF Reserve
  <1>. QED BY <1>3, <1>4

\* Only a booking adds to booked_count, one seat of one slot at a time.
LEMMA SellsOneSeat ==
  ASSUME Shape, [HoldsNext]_holdsVars, NEW s \in Slots, booked'[s] > booked[s]
  PROVE  (\E h : Reserve(s, h)) /\ booked'[s] = booked[s] + 1
  <1>1. booked \in [Slots -> Nat]
    BY DEF Shape, TypeOK
  <1>2. booked' # booked
    BY <1>1
  <1>3. ~HoldsStep
    BY <1>2 DEF HoldsStep, HoldSlotStep, HoldExpires, RequestHold, ReleaseHold, RenewOrGiveUp, GiveUpOther,
                CheckSlot, ClaimUnit, InsertHold, RefreshHold, SweepDelete, GiveBackUnit, Crash,
                WorkerSweep, WorkerDone, SetSlotCapacity, RepairHeld, slotVars
  <1>4. ~UNCHANGED holdsVars
    BY <1>2 DEF holdsVars, slotVars
  <1>5. ASSUME NEW t \in Slots, Return(t) PROVE FALSE
    BY <1>1, <1>5 DEF Return, Handed
  <1>6. PICK t \in Slots, h \in Holders \cup {NoHolder} : Book(t, h)
    BY <1>3, <1>4, <1>5 DEF HoldsNext
  <1>. QED BY <1>1, <1>6 DEF Book

LEMMA SalesSafe ==
  ASSUME Shape, HoldsBacked, [HoldsNext]_holdsVars, NEW s \in Slots, booked'[s] > booked[s]
  PROVE  /\ booked'[s] <= capacity[s]
         /\ holds' = holds => booked'[s] + Cardinality(HoldsOn(s)) <= capacity[s]
  BY SellsOneSeat, ReserveSells

\* No booking takes a slot past its capacity.  That a holder may book when
\* booked < capacity is safe by itself; that anyone else may when
\* booked + held < capacity is safe because held is never below zero.
THEOREM CapacityKept ==
  ASSUME RepairsAnytime = FALSE PROVE HoldsSpec => NeverSoldPastCapacity
  <1>1. HoldsInit => Shape /\ HoldsBacked
    BY ShapeInit, BackedInit
  <1>2. Shape /\ HoldsBacked /\ [HoldsNext]_holdsVars => (Shape /\ HoldsBacked)'
    BY HoldsNextShape, HoldsNextBacked
  <1>3. Shape /\ HoldsBacked /\ [HoldsNext]_holdsVars
          => [\A s \in Slots : booked'[s] > booked[s] => booked'[s] <= capacity[s]]_holdsVars
    BY SalesSafe
  <1>. QED BY <1>1, <1>2, <1>3, PTL DEF HoldsSpec, NeverSoldPastCapacity

\* A booking without a hold leaves a seat to every hold of the slot.
THEOREM HeldSeatsAreKept ==
  ASSUME RepairsAnytime = FALSE PROVE HoldsSpec => HeldSeatsKept
  <1>1. HoldsInit => Shape /\ HoldsBacked
    BY ShapeInit, BackedInit
  <1>2. Shape /\ HoldsBacked /\ [HoldsNext]_holdsVars => (Shape /\ HoldsBacked)'
    BY HoldsNextShape, HoldsNextBacked
  <1>3. Shape /\ HoldsBacked /\ [HoldsNext]_holdsVars
          => [\A s \in Slots :
                (booked'[s] > booked[s] /\ holds' = holds)
                  => booked'[s] + Cardinality(HoldsOn(s)) <= capacity[s]]_holdsVars
    BY SalesSafe
  <1>. QED BY <1>1, <1>2, <1>3, PTL DEF HoldsSpec, HeldSeatsKept

---------------------------------------------------------------------------
(* What may lose a unit, and how far the holds may go.                     *)

\* A process carries a unit only at the steps that can still account for it.
CarryOK ==
  \A p \in Procs : unit[p] # NoSlot => req[p].step \in {"sweep", "giveUp", "insert", "undo", "work", "release"}

\* No override grants a slot more seats than it opened with.
NoSlotGrows == \A o \in Overrides, s \in Slots : o.capacity <= InitialCapacity[s]

\* Then no slot ever has more seats, and no call has read a larger cap.
CapsOK ==
  NoSlotGrows =>
    /\ \A s \in Slots : capacity[s] <= InitialCapacity[s]
    /\ \A p \in Procs : req[p].step = "claim" => req[p].seen <= HoldCap(InitialCapacity[req[p].slot])

LEMMA CapGrows == ASSUME NEW m \in Nat, NEW n \in Nat, m <= n PROVE HoldCap(m) <= HoldCap(n)
  BY DEF HoldCap

LEMMA CarryInit == HoldsInit => CarryOK /\ CapsOK
  BY HoldsAssumption DEF HoldsInit, CarryOK, CapsOK, Idle

LEMMA CarryNext == ASSUME Shape, CarryOK, CapsOK, [HoldsNext]_holdsVars PROVE CarryOK' /\ CapsOK'
  <1>. USE DEF Shape, TypeOK, CarryOK, CapsOK
  <1>1. CASE \/ HoldExpires \/ UNCHANGED holdsVars
             \/ \E s \in Slots : RepairHeld(s) \/ Return(s)
             \/ \E s \in Slots, h \in Holders \cup {NoHolder} : Book(s, h)
    BY <1>1 DEF HoldExpires, RepairHeld, Return, Book, holdsVars, slotVars, procVars
  <1>9. ASSUME NEW s \in Slots, NEW o \in Overrides, SetSlotCapacity(s, o) PROVE CarryOK' /\ CapsOK'
    <2>1. capacity' = [capacity EXCEPT ![s] = o.capacity] /\ UNCHANGED procVars
      BY <1>9 DEF SetSlotCapacity
    <2>. QED BY <2>1 DEF NoSlotGrows, procVars
  <1>2. ASSUME NEW p \in Requests, NEW h \in Holders, NEW s \in Slots, RequestHold(p, h, s) \/ ReleaseHold(p, h, s)
        PROVE  CarryOK' /\ CapsOK'
    <2>1. PICK r : req' = [req EXCEPT ![p] = r] /\ r.step # "claim" /\ capacity' = capacity
      <3>1. CASE RequestHold(p, h, s)
        <4>1. [Idle EXCEPT !.step = "sweep", !.holder = h, !.slot = s].step # "claim"
          BY DEF Idle
        <4>2. capacity' = capacity
          BY <3>1 DEF RequestHold, slotVars
        <4>. QED BY <3>1, <4>1, <4>2, Zenon DEF RequestHold
      <3>2. CASE ReleaseHold(p, h, s)
        <4>1. [Idle EXCEPT !.step = "release"].step # "claim"
          BY DEF Idle
        <4>2. capacity' = capacity
          BY <3>2 DEF ReleaseHold, slotVars
        <4>. QED BY <3>2, <4>1, <4>2, Zenon DEF ReleaseHold
      <3>. QED BY <1>2, <3>1, <3>2
    <2>2. CapsOK'
      BY <2>1 DEF Procs
    <2>3. CarryOK'
      BY <1>2 DEF RequestHold, ReleaseHold, Idle, Procs
    <2>. QED BY <2>2, <2>3
  <1>3. ASSUME NEW p \in Requests, RenewOrGiveUp(p) PROVE CarryOK' /\ CapsOK'
    BY <1>3 DEF RenewOrGiveUp, slotVars, Idle, Request, Procs
  <1>4. ASSUME NEW p \in Requests, GiveUpOther(p) PROVE CarryOK' /\ CapsOK'
    BY <1>4 DEF GiveUpOther, slotVars, Request, Procs
  <1>5. ASSUME NEW p \in Requests, CheckSlot(p) PROVE CarryOK' /\ CapsOK'
    <2>1. PICK r : req' = [req EXCEPT ![p] = r] /\ UNCHANGED <<capacity, unit>>
      BY <1>5 DEF CheckSlot, slotVars
    <2>2. CarryOK'
      BY <1>5 DEF CheckSlot, Procs
    <2>3. ASSUME NoSlotGrows, r.step = "claim" PROVE r.seen <= HoldCap(InitialCapacity[r.slot])
      <3>1. r.slot = req[p].slot /\ r.seen = HoldCap(capacity[r.slot]) /\ r.slot \in Slots
        <4>1. req[p].step = "giveUp" /\ req[p] \in Request
          BY <1>5 DEF CheckSlot, Procs
        <4>2. req[p].slot \in Slots
          BY <4>1 DEF CallsOK, Procs
        <4>3. r = [req[p] EXCEPT !.step = "claim", !.seen = HoldCap(capacity[req[p].slot])]
          <5>1. r = req'[p]
            BY <2>1 DEF Procs
          <5>2. \/ r = [req[p] EXCEPT !.step = "claim", !.seen = HoldCap(capacity[req[p].slot])]
                \/ r = Idle
            BY <1>5, <5>1 DEF CheckSlot, Procs
          <5>. QED BY <5>2, <2>3 DEF Idle
        <4>. QED BY <4>1, <4>2, <4>3 DEF Request
      <3>. QED BY <2>3, <3>1, CapGrows, HoldsAssumption
    <2>. QED BY <2>1, <2>2, <2>3 DEF Procs
  <1>6. ASSUME NEW p \in Requests, ClaimUnit(p) \/ InsertHold(p) \/ RefreshHold(p) PROVE CarryOK' /\ CapsOK'
    BY <1>6 DEF ClaimUnit, InsertHold, RefreshHold, slotVars, Idle, Request, Procs
  <1>7. ASSUME NEW p \in Procs, SweepDelete(p) \/ GiveBackUnit(p) \/ Crash(p) PROVE CarryOK' /\ CapsOK'
    <2>1. CASE SweepDelete(p) \/ Crash(p)
      BY <2>1 DEF SweepDelete, Crash, slotVars, Idle
    <2>2. CASE GiveBackUnit(p)
      <3>1. unit' = [unit EXCEPT ![p] = NoSlot] /\ capacity' = capacity
        BY <2>2 DEF GiveBackUnit
      <3>2. PICK t : req' = [req EXCEPT ![p].step = t] /\ t # "claim"
        <4>1. req[p].step # "claim"
          BY <2>2 DEF GiveBackUnit
        <4>2. StepAfter(req[p].step) # "claim"
          BY <4>1 DEF StepAfter
        <4>. QED BY <2>2, <4>2 DEF GiveBackUnit
      <3>. QED BY <3>1, <3>2 DEF Request
    <2>. QED BY <1>7, <2>1, <2>2
  <1>8. ASSUME NEW w \in Workers, WorkerSweep(w) \/ WorkerDone(w) PROVE CarryOK' /\ CapsOK'
    BY <1>8 DEF WorkerSweep, WorkerDone, slotVars, Idle, Procs
  <1>. QED
    BY <1>1, <1>2, <1>3, <1>4, <1>5, <1>6, <1>7, <1>8, <1>9 DEF HoldsNext, HoldsStep, HoldSlotStep

\* While no slot grows, no claim takes held_count past the cap, and a recount only brings
\* it down.
LEMMA RoomNext ==
  ASSUME RepairsAnytime = FALSE, NoSlotGrows, Shape, HoldsBacked, CapsOK, HoldsLeaveRoom, [HoldsNext]_holdsVars
  PROVE  HoldsLeaveRoom'
  <1>0. held \in [Slots -> Int] /\ \A s \in Slots : HoldCap(InitialCapacity[s]) \in Nat
    BY HoldsAssumption DEF Shape, TypeOK, HoldCap
  <1>1. ASSUME \A s \in Slots : held'[s] <= held[s] \/ held'[s] <= HoldCap(InitialCapacity[s]),
               \A s \in Slots : held'[s] \in Int
        PROVE  HoldsLeaveRoom'
    BY <1>0, <1>1 DEF HoldsLeaveRoom
  <1>2. ASSUME NEW p \in Requests, ClaimUnit(p) PROVE HoldsLeaveRoom'
    <2>1. req[p].slot \in Slots /\ req[p].seen \in Nat /\ req[p].seen <= HoldCap(InitialCapacity[req[p].slot])
      BY <1>2 DEF ClaimUnit, CapsOK, Shape, TypeOK, Request, CallsOK, Procs
    <2>2. \/ held' = held
          \/ held' = [held EXCEPT ![req[p].slot] = @ + 1] /\ held[req[p].slot] < HoldCap(InitialCapacity[req[p].slot])
      BY <1>0, <1>2, <2>1 DEF ClaimUnit
    <2>. QED BY <1>0, <1>1, <2>1, <2>2
  <1>3. ASSUME NEW t \in Slots, RepairHeld(t) PROVE HoldsLeaveRoom'
    <2>1. Cardinality(HoldsOn(t)) \in Nat /\ Cardinality(Carriers(t)) \in Nat
      BY Countable
    <2>2. Cardinality(HoldsOn(t)) <= held[t]
      BY <1>0, <2>1 DEF HoldsBacked
    <2>3. held' = [held EXCEPT ![t] = Cardinality(HoldsOn(t))]
      BY <1>3 DEF RepairHeld
    <2>. QED BY <1>0, <1>1, <2>1, <2>2, <2>3
  <1>4. ASSUME NEW p \in Procs, GiveBackUnit(p) PROVE HoldsLeaveRoom'
    <2>1. held' = held \/ held' = [held EXCEPT ![unit[p]] = @ - 1]
      BY <1>4 DEF GiveBackUnit
    <2>. QED BY <1>0, <1>1, <2>1
  <1>5. ASSUME NEW s \in Slots, NEW h, Book(s, h) PROVE HoldsLeaveRoom'
    <2>1. held' = held \/ held' = [held EXCEPT ![s] = @ - 1]
      BY <1>5 DEF Book, Reserve
    <2>. QED BY <1>0, <1>1, <2>1
  <1>6. CASE held' = held
    BY <1>0, <1>1, <1>6
  <1>. QED
    BY <1>2, <1>3, <1>4, <1>5, <1>6
    DEF HoldsNext, HoldsStep, HoldSlotStep, HoldExpires, RequestHold, ReleaseHold, RenewOrGiveUp, GiveUpOther,
        CheckSlot, InsertHold, RefreshHold, SweepDelete, Crash, WorkerSweep, WorkerDone, SetSlotCapacity, Return,
        holdsVars, slotVars

\* While no administrator grants a slot more seats than it opened with, holds leave the
\* rest of those bookable, units that kills leaked included.
THEOREM RoomIsLeft ==
  ASSUME RepairsAnytime = FALSE, NoSlotGrows PROVE HoldsSpec => []HoldsLeaveRoom
  <1>1. HoldsInit => Shape /\ HoldsBacked /\ CarryOK /\ CapsOK /\ HoldsLeaveRoom
    <2>1. HoldsInit => HoldsLeaveRoom
      BY HoldsAssumption DEF HoldsInit, HoldsLeaveRoom, HoldCap
    <2>. QED BY <2>1, ShapeInit, BackedInit, CarryInit
  <1>2. Shape /\ HoldsBacked /\ CarryOK /\ CapsOK /\ HoldsLeaveRoom /\ [HoldsNext]_holdsVars
          => (Shape /\ HoldsBacked /\ CarryOK /\ CapsOK /\ HoldsLeaveRoom)'
    BY HoldsNextShape, HoldsNextBacked, CarryNext, RoomNext
  <1>. QED BY <1>1, <1>2, PTL DEF HoldsSpec

\* A process with free hands takes up a unit.
LEMMA TakenUpCount ==
  ASSUME Shape, NEW p \in Procs, unit[p] = NoSlot, NEW t \in Slots, unit' = [unit EXCEPT ![p] = t], NEW s \in Slots
  PROVE  Cardinality(Carriers(s)') = IF s = t THEN Cardinality(Carriers(s)) + 1 ELSE Cardinality(Carriers(s))
  <1>1. Carriers(s)' = IF s = t THEN Carriers(s) \cup {p} ELSE Carriers(s)
    BY HoldsAssumption DEF Carriers, Shape, TypeOK
  <1>2. p \notin Carriers(s)
    BY HoldsAssumption DEF Carriers
  <1>. QED BY <1>1, <1>2, Countable, FS_AddElement

LEMMA SameLost ==
  ASSUME holds' = holds, unit' = unit, held' = held, NEW s PROVE Lost(s)' = Lost(s)
  BY DEF Lost, HoldsOn, Carriers

LEMMA DropAndCarryLost ==
  ASSUME Shape, NEW p \in Procs, unit[p] = NoSlot, NEW d \in holds,
         DropDoc(d), unit' = [unit EXCEPT ![p] = d[1]], held' = held, NEW s \in Slots
  PROVE  Lost(s)' = Lost(s)
  <1>1. d[1] \in Slots
    BY DEF Shape, TypeOK, HoldDocs
  <1>2. Cardinality(HoldsOn(s)') =
          IF d[1] = s THEN Cardinality(HoldsOn(s)) - 1 ELSE Cardinality(HoldsOn(s))
    BY DroppedCount
  <1>3. Cardinality(Carriers(s)') = IF s = d[1] THEN Cardinality(Carriers(s)) + 1 ELSE Cardinality(Carriers(s))
    BY <1>1, TakenUpCount
  <1>4. Cardinality(HoldsOn(s)) \in Nat /\ Cardinality(Carriers(s)) \in Nat /\ held[s] \in Int
    BY Countable DEF Shape, TypeOK
  <1>. QED BY <1>2, <1>3, <1>4 DEF Lost

LEMMA GiveBackLost ==
  ASSUME Shape, HoldsBacked, NEW p \in Procs, GiveBackUnit(p), NEW s \in Slots PROVE Lost(s)' = Lost(s)
  <1>. DEFINE u == unit[p]
  <1>1. u \in Slots /\ unit' = [unit EXCEPT ![p] = NoSlot] /\ holds' = holds
    BY DEF GiveBackUnit, Shape, TypeOK, holdVars
  <1>2. /\ Cardinality(HoldsOn(u)) \in Nat /\ Cardinality(Carriers(u)) \in Nat
        /\ IsFiniteSet(Carriers(u)) /\ held[u] \in Int
    BY <1>1, Countable DEF Shape, TypeOK
  <1>3. Cardinality(Carriers(u)) # 0
    BY <1>2, FS_EmptySet DEF Carriers
  <1>4. held[u] > 0 /\ held' = [held EXCEPT ![u] = @ - 1]
    <2>1. held[u] > 0
      BY <1>1, <1>2, <1>3 DEF HoldsBacked
    <2>. QED BY <2>1 DEF GiveBackUnit
  <1>5. Cardinality(Carriers(s)') =
          IF u = s THEN Cardinality(Carriers(s)) - 1 ELSE Cardinality(Carriers(s))
    BY <1>1, LaidDownCount
  <1>6. HoldsOn(s)' = HoldsOn(s)
    BY <1>1 DEF HoldsOn
  <1>7. Cardinality(HoldsOn(s)) \in Nat /\ Cardinality(Carriers(s)) \in Nat /\ held[s] \in Int
    BY Countable DEF Shape, TypeOK
  <1>8. held'[s] = IF u = s THEN held[s] - 1 ELSE held[s]
    BY <1>1, <1>4 DEF Shape, TypeOK
  <1>. HIDE DEF u
  <1>. QED BY <1>5, <1>6, <1>7, <1>8 DEF Lost

LEMMA ClaimLost ==
  ASSUME Shape, CarryOK, NEW p \in Procs, ClaimUnit(p), NEW s \in Slots PROVE Lost(s)' = Lost(s)
  <1>. DEFINE t == req[p].slot
  <1>1. t \in Slots /\ holds' = holds /\ unit[p] = NoSlot
    BY DEF ClaimUnit, Shape, CallsOK, CarryOK, holdVars
  <1>2. CASE held' = [held EXCEPT ![t] = @ + 1] /\ unit' = [unit EXCEPT ![p] = t]
    <2>1. Cardinality(Carriers(s)') = IF s = t THEN Cardinality(Carriers(s)) + 1 ELSE Cardinality(Carriers(s))
      BY <1>1, <1>2, TakenUpCount
    <2>2. HoldsOn(s)' = HoldsOn(s)
      BY <1>1 DEF HoldsOn
    <2>3. Cardinality(HoldsOn(s)) \in Nat /\ Cardinality(Carriers(s)) \in Nat /\ held[s] \in Int
      BY Countable DEF Shape, TypeOK
    <2>4. held'[s] = IF s = t THEN held[s] + 1 ELSE held[s]
      BY <1>1, <1>2 DEF Shape, TypeOK
    <2>. HIDE DEF t
    <2>. QED BY <2>1, <2>2, <2>3, <2>4 DEF Lost
  <1>3. CASE held' = held /\ unit' = unit
    BY <1>1, <1>3, SameLost
  <1>. QED BY <1>2, <1>3 DEF ClaimUnit

LEMMA InsertLost ==
  ASSUME Shape, NEW p \in Procs, InsertHold(p), NEW s \in Slots PROVE Lost(s)' = Lost(s)
  <1>. DEFINE t == req[p].slot
              mine == <<req[p].slot, req[p].holder>>
  <1>1. t \in Slots /\ unit[p] = t /\ held' = held
    BY DEF InsertHold, Shape, CallsOK, slotVars
  <1>2. CASE mine \in holds
    BY <1>1, <1>2, SameLost DEF InsertHold
  <1>3. CASE mine \notin holds
    <2>1. holds' = holds \cup {mine} /\ unit' = [unit EXCEPT ![p] = NoSlot]
      BY <1>3 DEF InsertHold
    <2>2. Cardinality(Carriers(s)') =
            IF t = s THEN Cardinality(Carriers(s)) - 1 ELSE Cardinality(Carriers(s))
      BY <1>1, <2>1, LaidDownCount
    <2>3. HoldsOn(s)' = IF t = s THEN HoldsOn(s) \cup {mine} ELSE HoldsOn(s)
      BY <2>1 DEF HoldsOn
    <2>4. mine \notin HoldsOn(s)
      BY <1>3 DEF HoldsOn
    <2>5. /\ IsFiniteSet(HoldsOn(s)) /\ Cardinality(HoldsOn(s)) \in Nat
          /\ Cardinality(Carriers(s)) \in Nat /\ held[s] \in Int
      BY Countable DEF Shape, TypeOK
    <2>6. Cardinality(HoldsOn(s)') =
            IF t = s THEN Cardinality(HoldsOn(s)) + 1 ELSE Cardinality(HoldsOn(s))
      BY <2>3, <2>4, <2>5, FS_AddElement
    <2>. HIDE DEF t, mine
    <2>. QED BY <1>1, <2>2, <2>5, <2>6 DEF Lost
  <1>. QED BY <1>2, <1>3

LEMMA ReserveLost ==
  ASSUME Shape, NEW t \in Slots, NEW h, Reserve(t, h), unit' = unit, NEW s \in Slots PROVE Lost(s)' = Lost(s)
  <1>1. CASE <<t, h>> \notin holds
    BY <1>1, SameLost DEF Reserve, holdVars
  <1>2. CASE <<t, h>> \in holds
    <2>1. DropDoc(<<t, h>>) /\ held' = [held EXCEPT ![t] = @ - 1]
      BY <1>2 DEF Reserve
    <2>2. Cardinality(HoldsOn(s)') =
            IF t = s THEN Cardinality(HoldsOn(s)) - 1 ELSE Cardinality(HoldsOn(s))
      <3>1. <<t, h>>[1] = t
        OBVIOUS
      <3>. QED BY <1>2, <2>1, <3>1, DroppedCount
    <2>3. Carriers(s)' = Carriers(s)
      BY DEF Carriers
    <2>4. Cardinality(HoldsOn(s)) \in Nat /\ Cardinality(Carriers(s)) \in Nat /\ held[s] \in Int
      BY Countable DEF Shape, TypeOK
    <2>5. held'[s] = IF t = s THEN held[s] - 1 ELSE held[s]
      BY <2>1 DEF Shape, TypeOK
    <2>. QED BY <2>2, <2>3, <2>4, <2>5 DEF Lost
  <1>. QED BY <1>1, <1>2

\* A recount leaves nothing lost, and nothing less than that was lost before.
LEMMA RepairLost ==
  ASSUME RepairsAnytime = FALSE, Shape, HoldsBacked, NEW t \in Slots, RepairHeld(t), NEW s \in Slots
  PROVE  Lost(s)' <= Lost(s)
  <1>1. /\ holds' = holds /\ unit' = unit
        /\ held' = [held EXCEPT ![t] = Cardinality(HoldsOn(t))]
        /\ Carriers(t) = {}
    BY DEF RepairHeld, holdVars, procVars
  <1>2. HoldsOn(s)' = HoldsOn(s) /\ Carriers(s)' = Carriers(s)
    BY <1>1 DEF HoldsOn, Carriers
  <1>3. Cardinality(HoldsOn(s)) \in Nat /\ Cardinality(Carriers(s)) \in Nat /\ held[s] \in Int
    BY Countable DEF Shape, TypeOK
  <1>4. Cardinality(HoldsOn(s)) + Cardinality(Carriers(s)) <= held[s]
    BY DEF HoldsBacked
  <1>5. held'[s] = IF s = t THEN Cardinality(HoldsOn(s)) ELSE held[s]
    BY <1>1 DEF Shape, TypeOK
  <1>6. s = t => Cardinality(Carriers(s)) = 0
    BY <1>1, FS_EmptySet
  <1>. QED BY <1>2, <1>3, <1>4, <1>5, <1>6 DEF Lost

\* A kill loses the unit of the process killed, and no other.
LEMMA CrashLost ==
  ASSUME Shape, NEW p \in Procs, Crash(p), NEW s \in Slots, unit[p] # s PROVE Lost(s)' = Lost(s)
  <1>1. holds' = holds /\ held' = held /\ unit' = [unit EXCEPT ![p] = NoSlot]
    BY DEF Crash, slotVars, holdVars
  <1>2. Cardinality(Carriers(s)') = Cardinality(Carriers(s))
    BY <1>1, LaidDownCount
  <1>. QED BY <1>1, <1>2 DEF Lost, HoldsOn

LEMMA LostNext ==
  ASSUME RepairsAnytime = FALSE, Shape, HoldsBacked, CarryOK, [HoldsNext]_holdsVars, NEW s \in Slots, Lost(s)' > Lost(s)
  PROVE  \E p \in Procs : Crash(p) /\ unit[p] = s
  <1>0. Lost(s) \in Int
    <2>1. Cardinality(HoldsOn(s)) \in Nat /\ Cardinality(Carriers(s)) \in Nat /\ held[s] \in Int
      BY Countable DEF Shape, TypeOK
    <2>. QED BY <2>1 DEF Lost
  <1>1. Lost(s)' # Lost(s)
    BY <1>0
  <1>2. ASSUME NEW p \in Requests, GiveUpOther(p) PROVE FALSE
    <2>1. PICK t \in req[p].others :
            IF <<t, req[p].holder>> \in holds
              THEN DropDoc(<<t, req[p].holder>>) /\ unit' = [unit EXCEPT ![p] = t]
              ELSE UNCHANGED <<holdVars, batch, unit>>
      BY <1>2 DEF GiveUpOther
    <2>2. held' = held /\ p \in Procs /\ unit[p] = NoSlot
      BY <1>2 DEF GiveUpOther, slotVars, Procs
    <2>3. CASE <<t, req[p].holder>> \in holds
      <3>1. <<t, req[p].holder>>[1] = t
        OBVIOUS
      <3>. QED BY <1>1, <2>1, <2>2, <2>3, <3>1, DropAndCarryLost
    <2>4. CASE <<t, req[p].holder>> \notin holds
      BY <1>1, <2>1, <2>2, <2>4, SameLost DEF holdVars
    <2>. QED BY <2>3, <2>4
  <1>3. ASSUME NEW p \in Requests, NEW h \in Holders, NEW t \in Slots, ReleaseHold(p, h, t) PROVE FALSE
    <2>1. /\ <<t, h>> \in holds /\ DropDoc(<<t, h>>) /\ <<t, h>>[1] = t
          /\ unit' = [unit EXCEPT ![p] = t] /\ held' = held /\ p \in Procs
      BY <1>3 DEF ReleaseHold, slotVars, Procs
    <2>2. unit[p] = NoSlot
      BY <1>3, <2>1 DEF ReleaseHold, CarryOK
    <2>. QED BY <1>1, <2>1, <2>2, DropAndCarryLost
  <1>4. ASSUME NEW p \in Procs, SweepDelete(p) PROVE FALSE
    <2>1. PICK d \in batch[p] : DropDoc(d) /\ unit' = [unit EXCEPT ![p] = d[1]]
      BY <1>4 DEF SweepDelete
    <2>2. d \in holds /\ held' = held /\ unit[p] = NoSlot
      BY <1>4 DEF SweepDelete, slotVars, Shape, BatchesOK
    <2>. QED BY <1>1, <2>1, <2>2, DropAndCarryLost
  <1>5. ASSUME NEW t \in Slots, RepairHeld(t) PROVE FALSE
    <2>1. Lost(s)' <= Lost(s) /\ Lost(s)' \in Int
      <3>1. Shape'
        BY HoldsNextShape
      <3>2. Cardinality(HoldsOn(s)') \in Nat /\ Cardinality(Carriers(s)') \in Nat /\ held'[s] \in Int
        <4>1. held'[s] \in Int
          BY <3>1 DEF Shape, TypeOK
        <4>2. HoldsOn(s)' = HoldsOn(s) /\ Carriers(s)' = Carriers(s)
          BY <1>5 DEF RepairHeld, holdVars, procVars, HoldsOn, Carriers
        <4>. QED BY <4>1, <4>2, Countable
      <3>3. Lost(s)' \in Int
        BY <3>2 DEF Lost
      <3>. QED BY <1>5, <3>3, RepairLost
    <2>. QED BY <1>0, <2>1
  <1>6. ASSUME NEW p \in Procs, GiveBackUnit(p) PROVE FALSE
    BY <1>1, <1>6, GiveBackLost
  <1>7. ASSUME NEW p \in Requests, ClaimUnit(p) \/ InsertHold(p) PROVE FALSE
    BY <1>1, <1>7, ClaimLost, InsertLost DEF Procs
  <1>8. ASSUME NEW t \in Slots, NEW h, Book(t, h) PROVE FALSE
    BY <1>1, <1>8, ReserveLost DEF Book
  <1>9. ASSUME NEW p \in Procs, Crash(p) PROVE Crash(p) /\ unit[p] = s
    BY <1>1, <1>9, CrashLost
  <1>10. ~UNCHANGED <<holds, unit, held>>
    BY <1>1, SameLost
  <1>. QED
    BY <1>2, <1>3, <1>4, <1>5, <1>6, <1>7, <1>8, <1>9, <1>10
    DEF HoldsNext, HoldsStep, HoldSlotStep, HoldExpires, RequestHold, RenewOrGiveUp, CheckSlot, RefreshHold,
        WorkerSweep, WorkerDone, SetSlotCapacity, Return, holdsVars, slotVars, holdVars, procVars

\* A seat counted for nobody is lost by a kill between two awaits, and by nothing else: no
\* overlap, refusal, retry or repetition of calls leaks one.
THEOREM KillsAloneLoseUnits ==
  ASSUME RepairsAnytime = FALSE PROVE HoldsSpec => OnlyKillsLoseUnits
  <1>1. HoldsInit => Shape /\ HoldsBacked /\ CarryOK /\ CapsOK
    BY ShapeInit, BackedInit, CarryInit
  <1>2. Shape /\ HoldsBacked /\ CarryOK /\ CapsOK /\ [HoldsNext]_holdsVars => (Shape /\ HoldsBacked /\ CarryOK /\ CapsOK)'
    BY HoldsNextShape, HoldsNextBacked, CarryNext
  <1>3. Shape /\ HoldsBacked /\ CarryOK /\ [HoldsNext]_holdsVars
          => [\A s \in Slots : Lost(s)' > Lost(s) => \E p \in Procs : Crash(p) /\ unit[p] = s]_holdsVars
    BY LostNext
  <1>. QED BY <1>1, <1>2, <1>3, PTL DEF HoldsSpec, OnlyKillsLoseUnits

-----------------------------------------------------------------------------
(* SeatLedger: the cars, their seats and the visits. *)

\* A car inserted has a slot, one that is not is not in the bin, and one with a
\* seat has the key of it.  Nothing exists
\* of a visit not begun; one being created or undone has cars.  What is being
\* restored is of the visit, what is being purged was inserted once.
RowsOK ==
  /\ \A c \in Cars : (status[c] # "none" => at[c] \in Slots) /\ (holdsSeat[c] => seatKey[c] \in Slots)
  /\ \A c \in Cars : bin[c] => status[c] # "none"
  /\ \A v \in Visits :
       /\ making[v] = "no" => Created(v) = {}
       /\ making[v] = "adding" => Created(v) # {} /\ wanted[v] \in Slots
       /\ making[v] = "undoing" => undoing[v] # {}
       /\ restoring[v] \subseteq CarsOf(v)
       /\ \A c \in purging[v] : status[c] # "none"

LedgerShape == Shape /\ LedgerTypeOK /\ RowsOK /\ NoGhostHolder

---------------------------------------------------------------------------
(* The first and the last car of a set: the offsets order the cars.        *)

LEMMA LeastExists ==
  ASSUME NEW S, IsFiniteSet(S), S # {}, NEW f \in [S -> Int]
  PROVE  \E x \in S : \A y \in S : f[x] <= f[y]
  <1>. DEFINE below(x) == {y \in S : f[y] < f[x]}
              downs == {below(x) : x \in S}
  <1>1. IsWellFoundedOn(StrictSubsetOrdering(S), SUBSET S)
    BY FS_StrictSubsetOrderingWellFounded, FS_FiniteSubsetsOfFinite
  <1>2. downs \subseteq SUBSET S /\ downs # {}
    <2>1. PICK x \in S : TRUE
      OBVIOUS
    <2>2. below(x) \in downs
      OBVIOUS
    <2>. QED BY <2>2
  <1>3. PICK X \in downs : \A Y \in downs : <<Y, X>> \notin StrictSubsetOrdering(S)
    <2>. HIDE DEF downs
    <2>. QED BY <1>1, <1>2, WFMin
  <1>4. PICK x \in S : X = below(x)
    BY <1>3
  <1>5. ASSUME NEW y \in S, f[y] < f[x] PROVE FALSE
    <2>1. below(y) \subseteq below(x) /\ y \in below(x) /\ y \notin below(y)
      BY <1>5
    <2>2. <<below(y), below(x)>> \in StrictSubsetOrdering(S)
      BY <2>1 DEF StrictSubsetOrdering
    <2>. QED BY <1>3, <1>4, <2>2
  <1>. QED BY <1>5

LEMMA FirstLeast ==
  ASSUME NEW S \in SUBSET Cars, S # {}
  PROVE  First(S) \in S /\ \A d \in S : Offset[First(S)] <= Offset[d]
  <1>1. IsFiniteSet(S) /\ Offset \in [Cars -> Nat]
    BY LedgerAssumption, FS_Subset
  <1>2. [c \in S |-> Offset[c]] \in [S -> Int]
    BY <1>1
  <1>3. \E c \in S : \A d \in S : Offset[c] <= Offset[d]
    BY <1>1, <1>2, LeastExists
  <1>. QED BY <1>3 DEF First

LEMMA FirstIn == ASSUME NEW S \in SUBSET Cars, S # {} PROVE First(S) \in S
  BY FirstLeast

LEMMA LastMost ==
  ASSUME NEW S \in SUBSET Cars, S # {}
  PROVE  Last(S) \in S /\ \A d \in S : Offset[d] <= Offset[Last(S)]
  <1>1. IsFiniteSet(S) /\ Offset \in [Cars -> Nat]
    BY LedgerAssumption, FS_Subset
  <1>. DEFINE after == [c \in S |-> -Offset[c]]
  <1>2. after \in [S -> Int]
    BY <1>1
  <1>3. PICK c \in S : \A d \in S : after[c] <= after[d]
    <2>. HIDE DEF after
    <2>. QED BY <1>1, <1>2, LeastExists
  <1>4. \A d \in S : Offset[d] <= Offset[c]
    BY <1>1, <1>3
  <1>. QED BY <1>4 DEF Last

LEMMA LastIn == ASSUME NEW S \in SUBSET Cars, S # {} PROVE Last(S) \in S
  BY LastMost

---------------------------------------------------------------------------
(* Handing seats back: what the heirs take over and what is paid for it.   *)

\* HandBack with its heirs named.
HandBackTo(heir, R, L, keys, taken, dayTaken, keepDay) ==
  LET back == {seatKey[c] : c \in {x \in R : heir[x] = NoCar}} IN
  /\ \A c \in R : heir[c] = NoCar \/ heir[c] \in Heirs(c)
  /\ booked' = Handed(taken, back)
  /\ daily' = DayAfter(dayTaken, back, keepDay)
  /\ holdsSeat' = [c \in Cars |-> \/ c \in L \/ \E r \in R : heir[r] = c
                                  \/ holdsSeat[c] /\ c \notin R]
  /\ seatKey' = [c \in Cars |-> IF c \in DOMAIN keys THEN keys[c]
                                ELSE IF \E r \in R : heir[r] = c THEN at'[c] ELSE seatKey[c]]

LEMMA HandBackHasHeirs ==
  ASSUME NEW R, NEW L, NEW keys, NEW taken, NEW dayTaken, NEW keepDay,
         HandBack(R, L, keys, taken, dayTaken, keepDay)
  PROVE  \E heir : HandBackTo(heir, R, L, keys, taken, dayTaken, keepDay)
  <1>1. PICK heir \in [R -> UNION {Heirs(c) : c \in R} \cup {NoCar}] :
          LET heirs == {heir[c] : c \in R} \ {NoCar}
              back == {seatKey[c] : c \in {x \in R : heir[x] = NoCar}}
          IN
          /\ \A c \in R : IF Heirs(c) = {} THEN heir[c] = NoCar ELSE heir[c] \in Heirs(c)
          /\ booked' = Handed(taken, back)
          /\ daily' = DayAfter(dayTaken, back, keepDay)
          /\ holdsSeat' = [c \in Cars |-> c \in L \/ c \in heirs \/ (holdsSeat[c] /\ c \notin R)]
          /\ seatKey' = [c \in Cars |-> IF c \in DOMAIN keys THEN keys[c]
                                        ELSE IF c \in heirs THEN at'[c] ELSE seatKey[c]]
    BY DEF HandBack
  <1>2. \A c \in Cars : c \in {heir[r] : r \in R} \ {NoCar} <=> \E r \in R : heir[r] = c
    BY LedgerAssumption
  <1>3. HandBackTo(heir, R, L, keys, taken, dayTaken, keepDay)
    BY <1>1, <1>2 DEF HandBackTo
  <1>. QED BY <1>3

\* An heir sits in the seat it inherits, and had none.
LEMMA HeirIs ==
  ASSUME NEW c \in Cars, NEW x \in Heirs(c)
  PROVE  /\ x \in Cars /\ x # c /\ VisitOf[x] = VisitOf[c] /\ ~holdsSeat[x]
         /\ Standing(x)' /\ at'[x] = seatKey[c]
  BY DEF Heirs, CarsOf

LEMMA DayHandedType ==
  ASSUME NEW count \in [Days -> Nat], NEW S \in SUBSET Slots
  PROVE  DayHanded(count, S) \in [Days -> Nat]
  <1>. DEFINE n(d) == Cardinality({s \in S : DayOf(s) = d})
  <1>1. \A d \in Days : n(d) \in Nat
    <2>1. IsFiniteSet(Slots)
      BY HoldsAssumption, FS_Product DEF Slots
    <2>. QED BY <2>1, FS_Subset, FS_CardinalityType
  <1>2. DayHanded(count, S) = [d \in Days |-> IF count[d] >= n(d) THEN count[d] - n(d) ELSE 0]
    BY DEF DayHanded
  <1>. HIDE DEF n
  <1>. QED BY <1>1, <1>2

LEMMA DayTakenType ==
  ASSUME daily \in [Days -> Nat], NEW d PROVE DayTaken(d) \in [Days -> Nat]
  <1>. DEFINE more == [e \in Days |-> daily[e] + 1]
  <1>1. more \in [Days -> Nat]
    OBVIOUS
  <1>2. [daily EXCEPT ![d] = @ + 1] = [e \in Days |-> IF e = d THEN more[e] ELSE daily[e]]
    OBVIOUS
  <1>. HIDE DEF more
  <1>3. [daily EXCEPT ![d] = @ + 1] \in [Days -> Nat]
    BY <1>1, <1>2
  <1>. QED BY <1>3 DEF DayTaken

LEMMA HandBackShape ==
  ASSUME LedgerTypeOK, RowsOK, at' \in [Cars -> Slots \cup {NoSlot}],
         NEW R \in SUBSET Cars, \A c \in R : holdsSeat[c],
         NEW L, NEW keys, L \subseteq DOMAIN keys, \A c \in DOMAIN keys : keys[c] \in Slots,
         NEW taken \in [Slots -> Nat], NEW dayTaken \in [Days -> Nat], NEW keepDay,
         HandBack(R, L, keys, taken, dayTaken, keepDay)
  PROVE  /\ booked' \in [Slots -> Nat] /\ daily' \in [Days -> Nat]
         /\ holdsSeat' \in [Cars -> BOOLEAN] /\ seatKey' \in [Cars -> Slots \cup {NoSlot}]
         /\ \A c \in Cars : holdsSeat'[c] => /\ seatKey'[c] \in Slots
                                             /\ c \in L \/ Standing(c)' \/ (holdsSeat[c] /\ c \notin R)
  <1>1. PICK heir : HandBackTo(heir, R, L, keys, taken, dayTaken, keepDay)
    BY HandBackHasHeirs
  <1>. DEFINE back == {seatKey[c] : c \in {x \in R : heir[x] = NoCar}}
  <1>2. back \subseteq Slots
    BY DEF RowsOK
  <1>3. booked' = Handed(taken, back) /\ daily' = DayAfter(dayTaken, back, keepDay)
    BY <1>1 DEF HandBackTo
  <1>. HIDE DEF back
  <1>4. booked' \in [Slots -> Nat] /\ daily' \in [Days -> Nat]
    BY <1>2, <1>3, HandedType, DayHandedType DEF DayAfter
  <1>5. \A c \in Cars, r \in R : heir[r] = c => Standing(c)' /\ at'[c] \in Slots
    BY <1>1, HeirIs, LedgerAssumption DEF HandBackTo, RowsOK
  <1>. QED BY <1>1, <1>4, <1>5 DEF HandBackTo, LedgerTypeOK, RowsOK

---------------------------------------------------------------------------
(* How seats pass in a step that may take seats from visit v only.         *)

\* Everybody who has a seat after the step, the cars L apart, has it from a car
\* of its visit that had it before: itself, or the one it is the heir of.  No
\* two have theirs from the same car, and the other visits keep what they have.
SeatsPass(v, L, from) ==
  /\ from \in [{c \in Cars \ L : holdsSeat'[c]} -> {c \in Cars : holdsSeat[c]}]
  /\ \A c \in DOMAIN from : VisitOf[from[c]] = VisitOf[c] /\ seatKey[from[c]] = seatKey'[c]
  /\ \A c, d \in DOMAIN from : from[c] = from[d] => c = d
  /\ \A c \in Cars : (VisitOf[c] # v /\ holdsSeat[c]) => holdsSeat'[c] /\ seatKey'[c] = seatKey[c]

\* A slot gets a seat back only from a car whose seat nobody inherits.
SeatsPaid(from, count) ==
  \A s \in Slots :
    \/ booked'[s] >= count[s]
    \/ /\ booked'[s] = count[s] - 1
       /\ \E r \in Owners(s) : \A c \in DOMAIN from : from[c] # r

\* A day gets back the seats of cars R that nobody inherits.
DaysPaid(R, from, dayTaken, keepDay) ==
  \E gone \in SUBSET R :
    /\ \A r \in R : Heirs(r) = {} => r \in gone
    /\ \A r \in gone, c \in DOMAIN from : from[c] # r
    /\ daily' = DayAfter(dayTaken, {seatKey[r] : r \in gone}, keepDay)

LEMMA HandBackPasses ==
  ASSUME LedgerTypeOK,
         NEW v \in Visits, NEW R \in SUBSET CarsOf(v), \A c \in R : holdsSeat[c],
         NEW L \in SUBSET CarsOf(v), NEW keys, L \subseteq DOMAIN keys, DOMAIN keys \subseteq CarsOf(v),
         \A c \in DOMAIN keys \ L : ~holdsSeat[c] /\ ~Standing(c)',
         NEW taken \in [Slots -> Nat], NEW dayTaken, NEW keepDay,
         HandBack(R, L, keys, taken, dayTaken, keepDay)
  PROVE  \E from : SeatsPass(v, L, from) /\ SeatsPaid(from, taken) /\ DaysPaid(R, from, dayTaken, keepDay)
  <1>1. PICK heir : HandBackTo(heir, R, L, keys, taken, dayTaken, keepDay)
    BY HandBackHasHeirs
  <1>2. ASSUME NEW r \in R, heir[r] # NoCar
        PROVE  /\ heir[r] \in Cars /\ heir[r] # r /\ VisitOf[heir[r]] = VisitOf[r] /\ ~holdsSeat[heir[r]]
               /\ Standing(heir[r])' /\ at'[heir[r]] = seatKey[r]
    BY <1>1, <1>2, HeirIs DEF HandBackTo, CarsOf
  <1>. DEFINE left(c) == IF \E r \in R : heir[r] = c THEN CHOOSE r \in R : heir[r] = c ELSE c
              from == [c \in {c \in Cars \ L : holdsSeat'[c]} |-> left(c)]
  <1>3. ASSUME NEW c \in Cars \ L, holdsSeat'[c]
        PROVE  /\ left(c) \in Cars /\ holdsSeat[left(c)] /\ VisitOf[left(c)] = VisitOf[c]
               /\ seatKey[left(c)] = seatKey'[c]
               /\ left(c) \in R => heir[left(c)] = c
               /\ left(c) \notin R => left(c) = c
    <2>1. CASE \E r \in R : heir[r] = c
      <3>1. left(c) \in R /\ heir[left(c)] = c
        BY <2>1
      <3>2. c # NoCar
        BY LedgerAssumption
      <3>3. c \notin DOMAIN keys
        BY <1>2, <3>1, <3>2
      <3>4. seatKey'[c] = at'[c]
        BY <1>1, <2>1, <3>3 DEF HandBackTo
      <3>. HIDE DEF left
      <3>. QED BY <1>2, <3>1, <3>2, <3>4 DEF CarsOf
    <2>2. CASE ~\E r \in R : heir[r] = c
      <3>1. holdsSeat[c] /\ c \notin R
        BY <1>1, <1>3, <2>2 DEF HandBackTo
      <3>2. seatKey'[c] = seatKey[c]
        BY <1>1, <2>2, <3>1 DEF HandBackTo
      <3>. QED BY <2>2, <3>1, <3>2
    <2>. QED BY <2>1, <2>2
  <1>. HIDE DEF left
  <1>4. ASSUME NEW c \in Cars, VisitOf[c] # v, holdsSeat[c] PROVE holdsSeat'[c] /\ seatKey'[c] = seatKey[c]
    <2>1. c \notin CarsOf(v)
      BY <1>4 DEF CarsOf
    <2>2. ~\E r \in R : heir[r] = c
      BY <1>2, <1>4, <2>1, LedgerAssumption DEF CarsOf
    <2>. QED BY <1>1, <1>4, <2>1, <2>2 DEF HandBackTo
  <1>5. SeatsPass(v, L, from)
    BY <1>3, <1>4 DEF SeatsPass
  <1>. DEFINE back == {seatKey[c] : c \in {x \in R : heir[x] = NoCar}}
  <1>6. SeatsPaid(from, taken)
    <2>. SUFFICES ASSUME NEW s \in Slots, ~(booked'[s] >= taken[s])
                  PROVE  /\ booked'[s] = taken[s] - 1
                         /\ \E r \in Owners(s) : \A c \in DOMAIN from : from[c] # r
      BY DEF SeatsPaid
    <2>1. booked' = Handed(taken, back)
      BY <1>1 DEF HandBackTo
    <2>2. s \in back /\ booked'[s] = taken[s] - 1
      <3>. HIDE DEF back
      <3>. QED BY <2>1 DEF Handed
    <2>3. PICK r \in R : heir[r] = NoCar /\ seatKey[r] = s
      BY <2>2
    <2>4. r \in Owners(s)
      BY <2>3 DEF Owners, CarsOf
    <2>5. \A c \in DOMAIN from : from[c] # r
      BY <1>3, <2>3, LedgerAssumption
    <2>. QED BY <2>2, <2>4, <2>5
  <1>7. DaysPaid(R, from, dayTaken, keepDay)
    <2>. DEFINE gone == {x \in R : heir[x] = NoCar}
    <2>1. \A r \in R : Heirs(r) = {} => r \in gone
      BY <1>1 DEF HandBackTo
    <2>2. \A r \in gone, c \in DOMAIN from : from[c] # r
      BY <1>3, LedgerAssumption
    <2>3. gone \in SUBSET R /\ daily' = DayAfter(dayTaken, {seatKey[r] : r \in gone}, keepDay)
      BY <1>1 DEF HandBackTo
    <2>. HIDE DEF gone, from
    <2>. QED BY <2>1, <2>2, <2>3 DEF DaysPaid
  <1>. HIDE DEF from
  <1>. QED BY <1>5, <1>6, <1>7

LEMMA OwnersCountable ==
  ASSUME NEW s PROVE IsFiniteSet(Owners(s)) /\ Cardinality(Owners(s)) \in Nat
  BY LedgerAssumption, FS_Subset, FS_CardinalityType DEF Owners

\* What has passed is paid for: the owners left are as many fewer as was handed back.
LEMMA PassedCount ==
  ASSUME LedgerTypeOK, NEW v, NEW L, NEW from, SeatsPass(v, L, from),
         NEW count \in [Slots -> Nat], SeatsPaid(from, count), booked' \in [Slots -> Nat], NEW s \in Slots
  PROVE  Cardinality(Owners(s)' \ L) + count[s] <= Cardinality(Owners(s)) + booked'[s]
  <1>. DEFINE A == Owners(s)' \ L
              f == [c \in A |-> from[c]]
  <1>1. A \subseteq DOMAIN from
    BY DEF SeatsPass, Owners
  <1>2. \A c \in A : from[c] \in Owners(s)
    BY <1>1 DEF SeatsPass, Owners
  <1>3. \A c, d \in A : from[c] = from[d] => c = d
    BY <1>1 DEF SeatsPass
  <1>. HIDE DEF A
  <1>4. \A B : IsFiniteSet(B) /\ (\A c \in A : from[c] \in B) => IsFiniteSet(A) /\ Cardinality(A) <= Cardinality(B)
    <2>. SUFFICES ASSUME NEW B, IsFiniteSet(B), \A c \in A : from[c] \in B
                  PROVE  IsFiniteSet(A) /\ Cardinality(A) <= Cardinality(B)
      OBVIOUS
    <2>1. f \in Injection(A, B)
      BY <1>3 DEF Injection, IsInjective
    <2>. HIDE DEF f
    <2>. QED BY <2>1, FS_Injection
  <1>5. IsFiniteSet(A) /\ Cardinality(A) \in Nat /\ Cardinality(A) <= Cardinality(Owners(s))
    BY <1>2, <1>4, OwnersCountable, FS_CardinalityType
  <1>6. CASE booked'[s] >= count[s]
    BY <1>5, <1>6, OwnersCountable DEF A
  <1>7. CASE ~(booked'[s] >= count[s])
    <2>1. PICK r \in Owners(s) : \A c \in DOMAIN from : from[c] # r
      BY <1>7 DEF SeatsPaid
    <2>2. Cardinality(A) <= Cardinality(Owners(s) \ {r})
      BY <1>1, <1>2, <1>4, <2>1, OwnersCountable, FS_RemoveElement
    <2>3. Cardinality(Owners(s) \ {r}) = Cardinality(Owners(s)) - 1
      BY <2>1, OwnersCountable, FS_RemoveElement
    <2>4. booked'[s] = count[s] - 1
      BY <1>7 DEF SeatsPaid
    <2>. QED BY <1>5, <2>2, <2>3, <2>4, OwnersCountable DEF A
  <1>. QED BY <1>6, <1>7

---------------------------------------------------------------------------
(* The three kinds of step: visit v gives up seats; car c of it takes one  *)
(* and others may be given up; nothing changes hands.                        *)

Sheds(v) == \E from : SeatsPass(v, {}, from) /\ SeatsPaid(from, booked)

Takes(v, c, s) ==
  /\ c \in CarsOf(v)
  /\ \E from : SeatsPass(v, {c}, from) /\ SeatsPaid(from, [booked EXCEPT ![s] = @ + 1])
  /\ holdsSeat'[c] /\ seatKey'[c] = s
  /\ UniqueVisitSeat(c, s)
  /\ \E h : Reserve(s, h)

Keeps == UNCHANGED seatVars

LEMMA PassKeepsOneSeat ==
  ASSUME OneSeatPerSlot, NEW v, NEW L, NEW from, SeatsPass(v, L, from),
         NEW c \in Cars \ L, NEW d \in Cars \ L, VisitOf[c] = VisitOf[d],
         holdsSeat'[c], holdsSeat'[d], seatKey'[c] = seatKey'[d]
  PROVE  c = d
  <1>1. c \in DOMAIN from /\ d \in DOMAIN from
    BY DEF SeatsPass
  <1>2. from[c] = from[d]
    BY <1>1 DEF SeatsPass, OneSeatPerSlot
  <1>. QED BY <1>1, <1>2 DEF SeatsPass

LEMMA ShedsKeepsSeats ==
  ASSUME LedgerTypeOK, booked \in [Slots -> Nat], booked' \in [Slots -> Nat],
         NEW v, Sheds(v), OneSeatPerSlot, SeatsCounted
  PROVE  OneSeatPerSlot' /\ SeatsCounted'
  <1>1. PICK from : SeatsPass(v, {}, from) /\ SeatsPaid(from, booked)
    BY DEF Sheds
  <1>2. OneSeatPerSlot'
    BY <1>1, PassKeepsOneSeat DEF OneSeatPerSlot
  <1>3. ASSUME NEW s \in Slots PROVE Cardinality(Owners(s)') <= booked'[s]
    <2>1. Owners(s)' \ {} = Owners(s)'
      OBVIOUS
    <2>2. Cardinality(Owners(s)') + booked[s] <= Cardinality(Owners(s)) + booked'[s]
      BY <1>1, <2>1, PassedCount
    <2>3. Cardinality(Owners(s)') \in Nat
      BY LedgerAssumption, FS_Subset, FS_CardinalityType DEF Owners
    <2>. QED BY <2>2, <2>3, OwnersCountable DEF SeatsCounted
  <1>. QED BY <1>2, <1>3 DEF SeatsCounted

LEMMA TakesKeepsSeats ==
  ASSUME LedgerTypeOK, booked \in [Slots -> Nat], booked' \in [Slots -> Nat],
         NEW v, NEW c, NEW t \in Slots, Takes(v, c, t), OneSeatPerSlot, SeatsCounted
  PROVE  OneSeatPerSlot' /\ SeatsCounted'
  <1>. DEFINE count == [booked EXCEPT ![t] = @ + 1]
  <1>1. PICK from : SeatsPass(v, {c}, from) /\ SeatsPaid(from, count)
    BY DEF Takes
  <1>2. OneSeatPerSlot'
    <2>. SUFFICES ASSUME NEW d \in Cars, NEW e \in Cars, VisitOf[d] = VisitOf[e],
                         holdsSeat'[d], holdsSeat'[e], seatKey'[d] = seatKey'[e]
                  PROVE  d = e
      BY DEF OneSeatPerSlot
    <2>1. CASE d # c /\ e # c
      BY <1>1, <2>1, PassKeepsOneSeat
    <2>2. CASE d = c \/ e = c
      BY <2>2 DEF Takes, UniqueVisitSeat, CarsOf
    <2>. QED BY <2>1, <2>2
  <1>3. ASSUME NEW s \in Slots PROVE Cardinality(Owners(s)') <= booked'[s]
    <2>1. count \in [Slots -> Nat] /\ count[s] = booked[s] + (IF s = t THEN 1 ELSE 0)
      OBVIOUS
    <2>. HIDE DEF count
    <2>2. Cardinality(Owners(s)' \ {c}) + count[s] <= Cardinality(Owners(s)) + booked'[s]
      BY <1>1, <2>1, PassedCount
    <2>3. IsFiniteSet(Owners(s)') /\ Cardinality(Owners(s)') \in Nat
      BY LedgerAssumption, FS_Subset, FS_CardinalityType DEF Owners
    <2>4. Cardinality(Owners(s)' \ {c}) =
            IF c \in Owners(s)' THEN Cardinality(Owners(s)') - 1 ELSE Cardinality(Owners(s)')
      BY <2>3, FS_RemoveElement
    <2>5. c \in Owners(s)' => s = t
      BY DEF Owners, Takes
    <2>6. Cardinality(Owners(s)) <= booked[s]
      BY DEF SeatsCounted
    <2>. QED BY <2>1, <2>2, <2>3, <2>4, <2>5, <2>6, OwnersCountable
  <1>. QED BY <1>2, <1>3 DEF SeatsCounted

LEMMA KeepsKeepsSeats ==
  ASSUME Keeps, OneSeatPerSlot, SeatsCounted, \A s \in Slots : booked'[s] = booked[s] \/ RepairSlot(s),
         booked \in [Slots -> Nat]
  PROVE  OneSeatPerSlot' /\ SeatsCounted'
  <1>1. OneSeatPerSlot'
    BY DEF OneSeatPerSlot, Keeps, seatVars
  <1>2. ASSUME NEW s \in Slots PROVE Cardinality(Owners(s)') <= booked'[s]
    <2>1. Owners(s)' = Owners(s)
      BY DEF Owners, Keeps, seatVars
    <2>2. RepairSlot(s) => booked'[s] = Cardinality(Owners(s))
      BY DEF RepairSlot
    <2>. QED BY <2>1, <2>2, OwnersCountable DEF SeatsCounted
  <1>. QED BY <1>1, <1>2 DEF SeatsCounted

---------------------------------------------------------------------------
(* Every operation is one of the three.                                    *)

Outcome ==
  /\ LedgerShape'
  /\ UNCHANGED <<capacity, unit>>
  /\ UNCHANGED <<held, holds>> \/ \E s \in Slots : \E h : Reserve(s, h)
  /\ \/ \E v \in Visits : Sheds(v)
     \/ \E v \in Visits, c \in Cars, s \in Slots : Takes(v, c, s)
     \/ Keeps /\ \A s \in Slots : booked'[s] = booked[s] \/ RepairSlot(s)

\* A step that touches no seat, by what it does to the rows and the calls.
LEMMA QuietOutcome ==
  ASSUME LedgerShape, SeatsUnchanged, LedgerTypeOK', RowsOK', \A c \in Cars : Standing(c) => Standing(c)'
  PROVE  Outcome
  <1>1. Shape'
    BY HoldsNextShape DEF SeatsUnchanged, LedgerShape
  <1>2. NoGhostHolder'
    BY DEF NoGhostHolder, LedgerShape, SeatsUnchanged, seatVars
  <1>. QED
    BY <1>1, <1>2 DEF Outcome, LedgerShape, SeatsUnchanged, Keeps, holdsVars, slotVars, holdVars, procVars

LEMMA SameCreated ==
  ASSUME \A c \in Cars : status[c] = "none" <=> status'[c] = "none", NEW v
  PROVE  Created(v)' = Created(v)
  BY DEF Created, Uncreated, CarsOf

LEMMA CreateNextOutcome ==
  ASSUME LedgerShape, NEW v \in Visits, CreateNext(v) PROVE Outcome
  <1>. DEFINE c == First(Uncreated(v))
  <1>1. c \in CarsOf(v) /\ c \in Cars /\ status[c] = "none" /\ wanted[v] \in Slots
    BY FirstIn DEF CreateNext, Uncreated, CarsOf, LedgerShape, RowsOK
  <1>. HIDE DEF c
  <1>2. /\ status' = [status EXCEPT ![c] = "live"] /\ at' = [at EXCEPT ![c] = wanted[v]]
        /\ UNCHANGED <<bin, callVars>> /\ SeatsUnchanged
    BY DEF CreateNext, c
  <1>3. LedgerTypeOK'
    BY <1>1, <1>2 DEF LedgerShape, LedgerTypeOK, Statuses, SeatsUnchanged, seatVars, callVars
  <1>4. ASSUME NEW w \in Visits, making[w] = "no" PROVE w # v
    BY <1>4 DEF CreateNext
  <1>5. RowsOK'
    BY <1>1, <1>2, <1>4
    DEF LedgerShape, LedgerTypeOK, RowsOK, Created, Uncreated, CarsOf, SeatsUnchanged, seatVars, callVars
  <1>6. \A d \in Cars : Standing(d) => Standing(d)'
    BY <1>1, <1>2 DEF LedgerShape, LedgerTypeOK, Standing, Listed, Exists, SeatHolding
  <1>. QED BY <1>2, <1>3, <1>5, <1>6, QuietOutcome

LEMMA CreateDoneOutcome ==
  ASSUME LedgerShape, NEW v \in Visits, CreateDone(v) PROVE Outcome
  <1>1. LedgerTypeOK'
    BY DEF CreateDone, LedgerShape, LedgerTypeOK, SeatsUnchanged, seatVars, rowVars
  <1>2. RowsOK'
    BY DEF CreateDone, LedgerShape, LedgerTypeOK, RowsOK, Created, Uncreated, CarsOf, SeatsUnchanged, seatVars, rowVars
  <1>3. \A d \in Cars : Standing(d) => Standing(d)'
    BY DEF CreateDone, Standing, Listed, Exists, rowVars
  <1>. QED BY <1>1, <1>2, <1>3, QuietOutcome DEF CreateDone

LEMMA CreateFailsOutcome ==
  ASSUME LedgerShape, NEW v \in Visits, CreateFails(v) PROVE Outcome
  <1>1. Created(v) # {} /\ Created(v) \subseteq Cars
    BY DEF CreateFails, Created, CarsOf, LedgerShape, RowsOK
  <1>2. LedgerTypeOK'
    BY <1>1 DEF CreateFails, StartUndo, LedgerShape, LedgerTypeOK, SeatsUnchanged, seatVars, rowVars
  <1>3. RowsOK'
    BY <1>1 DEF CreateFails, StartUndo, LedgerShape, LedgerTypeOK, RowsOK, Created, Uncreated, CarsOf,
                SeatsUnchanged, seatVars, rowVars
  <1>4. \A d \in Cars : Standing(d) => Standing(d)'
    BY DEF CreateFails, Standing, Listed, Exists, rowVars
  <1>. QED BY <1>2, <1>3, <1>4, QuietOutcome DEF CreateFails

LEMMA CallKilledOutcome ==
  ASSUME LedgerShape, NEW v \in Visits, CallKilled(v) PROVE Outcome
  <1>1. LedgerTypeOK'
    BY DEF CallKilled, LedgerShape, LedgerTypeOK, SeatsUnchanged, seatVars, rowVars
  <1>2. RowsOK'
    BY DEF CallKilled, LedgerShape, LedgerTypeOK, RowsOK, Created, Uncreated, CarsOf, SeatsUnchanged, seatVars, rowVars
  <1>3. \A d \in Cars : Standing(d) => Standing(d)'
    BY DEF CallKilled, Standing, Listed, Exists, rowVars
  <1>. QED BY <1>1, <1>2, <1>3, QuietOutcome DEF CallKilled

LEMMA AdvanceOutcome ==
  ASSUME LedgerShape, NEW c \in Cars, SetOff(c) \/ StandDown(c) \/ FinishJob(c) \/ MarkDone(c) PROVE Outcome
  <1>1. PICK from \in SeatHolding, to \in SeatHolding : Advance(c, from, to)
    BY DEF SetOff, StandDown, FinishJob, MarkDone, SeatHolding
  <1>2. status' = [status EXCEPT ![c] = to] /\ status[c] = from /\ UNCHANGED <<at, bin, callVars>> /\ SeatsUnchanged
    BY <1>1 DEF Advance
  <1>3. LedgerTypeOK'
    BY <1>2 DEF SeatHolding, LedgerShape, LedgerTypeOK, Statuses, SeatsUnchanged, seatVars, callVars
  <1>4. RowsOK'
    BY <1>2 DEF SeatHolding, LedgerShape, LedgerTypeOK, RowsOK, Created, Uncreated, CarsOf, SeatsUnchanged, seatVars, callVars
  <1>5. \A d \in Cars : Standing(d) => Standing(d)'
    BY <1>2 DEF LedgerShape, LedgerTypeOK, Standing, Listed, Exists, SeatHolding
  <1>. QED BY <1>2, <1>3, <1>4, <1>5, QuietOutcome

LEMMA RestoreDoneOutcome ==
  ASSUME LedgerShape, NEW v \in Visits, RestoreDone(v) \/ StartPurge(v) PROVE Outcome
  <1>1. LedgerTypeOK'
    BY DEF RestoreDone, StartPurge, CarsOf, LedgerShape, LedgerTypeOK, SeatsUnchanged, seatVars, rowVars
  <1>2. UNCHANGED <<rowVars, making, wanted, undoing>> /\ SeatsUnchanged
    BY DEF RestoreDone, StartPurge
  <1>3. ASSUME NEW w \in Visits
        PROVE  /\ restoring'[w] \subseteq restoring[w]
               /\ \A c \in purging'[w] : c \in purging[w] \/ status[c] # "none"
    BY DEF RestoreDone, StartPurge, Exists, LedgerShape, LedgerTypeOK
  <1>4. \A w \in Visits : Created(w)' = Created(w)
    BY <1>2, SameCreated DEF rowVars
  <1>5. RowsOK'
    BY <1>2, <1>3, <1>4 DEF LedgerShape, RowsOK, SeatsUnchanged, seatVars, rowVars
  <1>6. \A d \in Cars : Standing(d) => Standing(d)'
    BY <1>2 DEF Standing, Listed, Exists, rowVars
  <1>. QED BY <1>1, <1>2, <1>5, <1>6, QuietOutcome

---------------------------------------------------------------------------
(* The operations that hand seats back.                                    *)

SeatTypes ==
  /\ holdsSeat \in [Cars -> BOOLEAN] /\ seatKey \in [Cars -> Slots \cup {NoSlot}]
  /\ daily \in [Days -> Nat]
  /\ \A c \in Cars : holdsSeat[c] => seatKey[c] \in Slots

LEMMA CountedShape ==
  ASSUME Shape, booked' \in [Slots -> Nat], UNCHANGED <<capacity, closed, held, holdVars, procVars>>
  PROVE  Shape'
  BY DEF Shape, TypeOK, CallsOK, BatchesOK, holdVars, procVars

\* Seats of visit v are handed back.  The step's rows and calls are in order if
\* its seats are, and whoever keeps a seat still stands.
LEMMA HandBackOutcome ==
  ASSUME LedgerShape, at' \in [Cars -> Slots \cup {NoSlot}], SeatTypes' => LedgerTypeOK' /\ RowsOK',
         NEW v \in Visits, NEW R \in SUBSET CarsOf(v), \A c \in R : holdsSeat[c],
         \A c \in Cars \ R : holdsSeat[c] => Standing(c)',
         NEW keys, DOMAIN keys \subseteq CarsOf(v), \A c \in DOMAIN keys : keys[c] \in Slots,
         \A c \in DOMAIN keys : ~holdsSeat[c] /\ ~Standing(c)',
         HandBack(R, {}, keys, booked, daily, FALSE),
         UNCHANGED <<capacity, closed, held, holdVars, procVars>>
  PROVE  Outcome
  <1>1. /\ booked \in [Slots -> Nat] /\ daily \in [Days -> Nat] /\ R \in SUBSET Cars
        /\ {} \subseteq DOMAIN keys /\ LedgerTypeOK /\ RowsOK
    BY DEF LedgerShape, Shape, TypeOK, LedgerTypeOK, CarsOf
  <1>. DEFINE L == {}
              keepDay == FALSE
  <1>2. HandBack(R, L, keys, booked, daily, keepDay) /\ L \in SUBSET CarsOf(v) /\ L \subseteq DOMAIN keys
    OBVIOUS
  <1>. HIDE DEF L, keepDay
  <1>3. /\ booked' \in [Slots -> Nat] /\ daily' \in [Days -> Nat]
        /\ holdsSeat' \in [Cars -> BOOLEAN] /\ seatKey' \in [Cars -> Slots \cup {NoSlot}]
        /\ \A c \in Cars : holdsSeat'[c] => /\ seatKey'[c] \in Slots
                                            /\ c \in L \/ Standing(c)' \/ (holdsSeat[c] /\ c \notin R)
    BY <1>1, <1>2, HandBackShape
  <1>4. \E from : SeatsPass(v, L, from) /\ SeatsPaid(from, booked)
    BY <1>1, <1>2, HandBackPasses
  <1>5. Sheds(v)
    BY <1>4 DEF Sheds, L
  <1>6. LedgerTypeOK' /\ RowsOK' /\ NoGhostHolder'
    BY <1>3 DEF SeatTypes, NoGhostHolder, L
  <1>7. Shape'
    BY <1>3, CountedShape DEF LedgerShape
  <1>. QED BY <1>5, <1>6, <1>7 DEF Outcome, LedgerShape, holdVars, procVars

LEMMA ReleaseOutcome ==
  ASSUME LedgerShape, at' \in [Cars -> Slots \cup {NoSlot}], SeatTypes' => LedgerTypeOK' /\ RowsOK',
         NEW v \in Visits, NEW T \in SUBSET CarsOf(v), Release(T),
         \A c \in Cars \ T : Standing(c) => Standing(c)'
  PROVE  Outcome
  <1>1. /\ HoldersOf(T) \subseteq CarsOf(v) /\ \A c \in HoldersOf(T) : holdsSeat[c]
        /\ \A c \in Cars \ HoldersOf(T) : holdsSeat[c] => c \notin T
    BY DEF HoldersOf
  <1>2. DOMAIN NoKeys = {}
    BY DEF NoKeys
  <1>3. \A c \in Cars \ HoldersOf(T) : holdsSeat[c] => Standing(c)'
    BY <1>1 DEF LedgerShape, NoGhostHolder
  <1>. QED BY <1>1, <1>2, <1>3, HandBackOutcome DEF Release

LEMMA CancelCarOutcome ==
  ASSUME LedgerShape, NEW c \in Cars, CancelCar(c) PROVE Outcome
  <1>. DEFINE v == VisitOf[c]
  <1>1. v \in Visits /\ {c} \subseteq CarsOf(v)
    BY LedgerAssumption DEF CarsOf
  <1>2. /\ status' = [status EXCEPT ![c] = "cancelled"] /\ UNCHANGED <<at, bin, callVars>>
        /\ Release({c}) /\ status[c] # "none"
    BY DEF CancelCar, Open, Listed, Exists
  <1>3. SeatTypes' => LedgerTypeOK' /\ RowsOK'
    <2>1. \A w : Created(w)' = Created(w)
      BY <1>2, SameCreated DEF LedgerShape, LedgerTypeOK
    <2>2. SeatTypes' => LedgerTypeOK'
      BY <1>2 DEF SeatTypes, LedgerShape, LedgerTypeOK, Statuses, callVars
    <2>. QED BY <1>2, <2>1, <2>2 DEF SeatTypes, LedgerShape, LedgerTypeOK, RowsOK, callVars
  <1>4. \A d \in Cars \ {c} : Standing(d) => Standing(d)'
    BY <1>2 DEF LedgerShape, LedgerTypeOK, Standing, Listed, Exists
  <1>5. at' \in [Cars -> Slots \cup {NoSlot}]
    BY <1>2 DEF LedgerShape, LedgerTypeOK
  <1>. HIDE DEF v
  <1>. QED BY <1>1, <1>2, <1>3, <1>4, <1>5, ReleaseOutcome

LEMMA CancelVisitOutcome ==
  ASSUME LedgerShape, NEW v \in Visits, NEW T \in SUBSET CarsOf(v), CancelVisit(v, T) PROVE Outcome
  <1>1. /\ status' = [c \in Cars |-> IF c \in T THEN "cancelled" ELSE status[c]]
        /\ UNCHANGED <<at, bin, callVars>> /\ Release(T)
        /\ \A c \in T : status[c] # "none"
    BY DEF CancelVisit, Open, Listed, Exists
  <1>2. SeatTypes' => LedgerTypeOK' /\ RowsOK'
    <2>1. \A w : Created(w)' = Created(w)
      BY <1>1, SameCreated DEF CarsOf, LedgerShape, LedgerTypeOK
    <2>2. SeatTypes' => LedgerTypeOK'
      BY <1>1 DEF SeatTypes, LedgerShape, LedgerTypeOK, Statuses, callVars
    <2>3. \A c \in Cars : status[c] # "none" <=> status'[c] # "none"
      BY <1>1
    <2>. QED BY <1>1, <2>1, <2>2, <2>3 DEF SeatTypes, LedgerShape, LedgerTypeOK, RowsOK, callVars
  <1>3. \A c \in Cars \ T : Standing(c) => Standing(c)'
    BY <1>1 DEF LedgerShape, LedgerTypeOK, Standing, Listed, Exists
  <1>4. at' \in [Cars -> Slots \cup {NoSlot}]
    BY <1>1 DEF LedgerShape, LedgerTypeOK
  <1>. QED BY <1>1, <1>2, <1>3, <1>4, ReleaseOutcome

LEMMA UndoCarOutcome ==
  ASSUME LedgerShape, NEW v \in Visits, UndoCar(v) PROVE Outcome
  <1>. DEFINE c == First(undoing[v])
              w == VisitOf[c]
  <1>1. c \in Cars /\ undoing[v] \in SUBSET Cars
    BY FirstIn DEF UndoCar, LedgerShape, LedgerTypeOK, RowsOK
  <1>2. w \in Visits /\ {c} \subseteq CarsOf(w)
    BY <1>1, LedgerAssumption DEF CarsOf
  <1>. HIDE DEF w
  <1>3. StartUndo(v, undoing[v] \ {c}) /\ making[v] = "undoing"
    BY DEF UndoCar
  <1>4. CASE Open(c)
    <2>1. /\ status' = [status EXCEPT ![c] = "cancelled"] /\ UNCHANGED <<at, bin>> /\ Release({c})
          /\ status[c] # "none"
      BY <1>4 DEF UndoCar, Open, Listed, Exists
    <2>. HIDE DEF c
    <2>2. SeatTypes' => LedgerTypeOK' /\ RowsOK'
      <3>1. \A u : Created(u)' = Created(u)
        BY <2>1, SameCreated DEF LedgerShape, LedgerTypeOK
      <3>2. SeatTypes' => LedgerTypeOK'
        BY <1>1, <1>3, <2>1 DEF StartUndo, SeatTypes, LedgerShape, LedgerTypeOK, Statuses
      <3>. QED
        BY <1>3, <2>1, <3>1, <3>2 DEF StartUndo, SeatTypes, LedgerShape, LedgerTypeOK, RowsOK
    <2>3. \A d \in Cars \ {c} : Standing(d) => Standing(d)'
      BY <2>1 DEF LedgerShape, LedgerTypeOK, Standing, Listed, Exists
    <2>4. at' \in [Cars -> Slots \cup {NoSlot}]
      BY <2>1 DEF LedgerShape, LedgerTypeOK
    <2>. QED BY <1>2, <2>1, <2>2, <2>3, <2>4, ReleaseOutcome
  <1>5. CASE ~Open(c)
    <2>1. UNCHANGED rowVars /\ SeatsUnchanged
      BY <1>5 DEF UndoCar
    <2>. HIDE DEF c
    <2>2. LedgerTypeOK' /\ RowsOK'
      BY <1>1, <1>3, <2>1
      DEF StartUndo, SeatsUnchanged, seatVars, rowVars, LedgerShape, LedgerTypeOK, RowsOK, Created, Uncreated, CarsOf
    <2>3. \A d \in Cars : Standing(d) => Standing(d)'
      BY <2>1 DEF rowVars, Standing, Listed, Exists
    <2>. QED BY <2>1, <2>2, <2>3, QuietOutcome
  <1>. QED BY <1>4, <1>5

LEMMA DeleteVisitOutcome ==
  ASSUME LedgerShape, NEW c \in Cars, NEW late, DeleteVisit(c, late) PROVE Outcome
  <1>. DEFINE v == VisitOf[c]
              T == (OnVisit(v) \ late) \cup {c}
  <1>1. v \in Visits /\ T \subseteq CarsOf(v) /\ \A x \in T : status[x] # "none"
    BY LedgerAssumption DEF DeleteVisit, CarsOf, OnVisit, Listed, Exists
  <1>2. /\ bin' = [x \in Cars |-> bin[x] \/ x \in T] /\ UNCHANGED <<status, at, callVars>>
        /\ Release(T)
    BY DEF DeleteVisit
  <1>. HIDE DEF v, T
  <1>3. SeatTypes' => LedgerTypeOK' /\ RowsOK'
    <2>1. \A w : Created(w)' = Created(w)
      BY <1>2, SameCreated
    <2>2. SeatTypes' => LedgerTypeOK'
      BY <1>2 DEF SeatTypes, LedgerShape, LedgerTypeOK, callVars
    <2>. QED BY <1>1, <1>2, <2>1, <2>2 DEF SeatTypes, LedgerShape, LedgerTypeOK, RowsOK, callVars
  <1>4. \A d \in Cars \ T : Standing(d) => Standing(d)'
    BY <1>2 DEF LedgerShape, LedgerTypeOK, Standing, Listed, Exists
  <1>5. at' \in [Cars -> Slots \cup {NoSlot}]
    BY <1>2 DEF LedgerShape, LedgerTypeOK
  <1>. QED BY <1>1, <1>2, <1>3, <1>4, <1>5, ReleaseOutcome

LEMMA ReturnToBinOutcome ==
  ASSUME LedgerShape, NEW v \in Visits, ReturnToBin(v) PROVE Outcome
  <1>. DEFINE T == {c \in restoring[v] : Exists(c) /\ ~bin[c]}
              R == HoldersOf(T)
  <1>1. /\ T \subseteq CarsOf(v) /\ R \subseteq CarsOf(v) /\ CarsOf(v) \subseteq Cars
        /\ \A c \in T : status[c] # "none"
    BY DEF LedgerShape, RowsOK, HoldersOf, CarsOf, Exists
  <1>2. /\ bin' = [c \in Cars |-> bin[c] \/ c \in T] /\ restoring' = [restoring EXCEPT ![v] = {}]
        /\ UNCHANGED <<status, at, making, wanted, undoing, purging>>
        /\ UNCHANGED <<capacity, closed, held, holdVars, procVars>>
    BY DEF ReturnToBin
  <1>3. PICK passed \in SUBSET {c \in T : /\ status[c] \in SeatHolding /\ ~holdsSeat[c]
                                          /\ \E d \in HoldersOf(T) : seatKey[d] = at[c]} :
          HandBack(R, {}, [c \in passed |-> at[c]], booked, daily, FALSE)
    BY DEF ReturnToBin
  <1>. DEFINE keys == [c \in passed |-> at[c]]
  <1>4. /\ DOMAIN keys \subseteq CarsOf(v) /\ \A c \in DOMAIN keys : keys[c] \in Slots
        /\ \A c \in DOMAIN keys : ~holdsSeat[c] /\ ~Standing(c)'
    BY <1>1, <1>2, <1>3 DEF Standing, Listed, Exists, LedgerShape, RowsOK
  <1>5. \A c \in R : holdsSeat[c]
    BY DEF HoldersOf
  <1>6. \A c \in Cars \ R : holdsSeat[c] => Standing(c)'
    BY <1>2 DEF HoldersOf, LedgerShape, LedgerTypeOK, NoGhostHolder, Standing, Listed, Exists
  <1>. HIDE DEF T
  <1>7. SeatTypes' => LedgerTypeOK' /\ RowsOK'
    <2>1. \A w : Created(w)' = Created(w)
      BY <1>2, SameCreated
    <2>2. SeatTypes' => LedgerTypeOK'
      BY <1>2 DEF SeatTypes, LedgerShape, LedgerTypeOK
    <2>. QED BY <1>1, <1>2, <2>1, <2>2 DEF SeatTypes, LedgerShape, LedgerTypeOK, RowsOK
  <1>8. at' \in [Cars -> Slots \cup {NoSlot}]
    BY <1>2 DEF LedgerShape, LedgerTypeOK
  <1>9. HandBack(R, {}, keys, booked, daily, FALSE)
    BY <1>3
  <1>. HIDE DEF R, keys
  <1>. QED BY <1>1, <1>2, <1>4, <1>5, <1>6, <1>7, <1>8, <1>9, HandBackOutcome

\* One car's row goes for good, with the record of its seat.
LEMMA DropSeatSheds ==
  ASSUME LedgerTypeOK, RowsOK, booked \in [Slots -> Nat], NEW v \in Visits, NEW c \in CarsOf(v),
         holdsSeat' = [holdsSeat EXCEPT ![c] = FALSE], seatKey' = seatKey,
         booked' = Handed(booked, IF holdsSeat[c] THEN {seatKey[c]} ELSE {}) \/ booked' = booked
  PROVE  Sheds(v)
  <1>1. c \in Cars
    BY DEF CarsOf
  <1>. DEFINE from == [d \in {d \in Cars \ {} : holdsSeat'[d]} |-> d]
  <1>2. \A d \in Cars : holdsSeat'[d] <=> holdsSeat[d] /\ d # c
    BY <1>1 DEF LedgerTypeOK
  <1>3. SeatsPass(v, {}, from)
    BY <1>2 DEF SeatsPass, CarsOf
  <1>4. SeatsPaid(from, booked)
    <2>. SUFFICES ASSUME NEW s \in Slots, ~(booked'[s] >= booked[s])
                  PROVE  booked'[s] = booked[s] - 1 /\ \E r \in Owners(s) : \A d \in DOMAIN from : from[d] # r
      BY DEF SeatsPaid
    <2>1. holdsSeat[c] /\ s = seatKey[c] /\ booked'[s] = booked[s] - 1
      BY DEF Handed
    <2>2. c \in Owners(s) /\ \A d \in DOMAIN from : from[d] # c
      BY <1>1, <1>2, <2>1 DEF Owners
    <2>. QED BY <2>1, <2>2
  <1>. QED BY <1>3, <1>4 DEF Sheds

LEMMA PurgeCarOutcome ==
  ASSUME LedgerShape, NEW v \in Visits, PurgeCar(v) PROVE Outcome
  <1>. DEFINE c == First(purging[v])
              w == VisitOf[c]
  <1>1. c \in Cars /\ w \in Visits /\ c \in CarsOf(w) /\ c \in purging[v] /\ purging[v] \in SUBSET Cars
    BY FirstIn, LedgerAssumption DEF PurgeCar, LedgerShape, LedgerTypeOK, CarsOf
  <1>2. /\ purging' = [purging EXCEPT ![v] = @ \ {c}] /\ status' = [status EXCEPT ![c] = "gone"]
        /\ holdsSeat' = [holdsSeat EXCEPT ![c] = FALSE]
        /\ UNCHANGED <<at, bin, making, wanted, undoing, restoring, holdsVars, seatKey, daily>>
    BY DEF PurgeCar
  <1>. HIDE DEF c, w
  <1>3. Shape' /\ booked \in [Slots -> Nat]
    BY <1>2, HoldsNextShape DEF LedgerShape, Shape, TypeOK
  <1>4. Sheds(w)
    BY <1>1, <1>2, <1>3, DropSeatSheds DEF LedgerShape, holdsVars, slotVars
  <1>5. LedgerTypeOK'
    BY <1>1, <1>2 DEF LedgerShape, LedgerTypeOK, Statuses
  <1>6. RowsOK'
    <2>1. status[c] # "none"
      BY <1>1 DEF LedgerShape, RowsOK
    <2>2. \A u : Created(u)' = Created(u)
      BY <1>1, <1>2, <2>1, SameCreated DEF LedgerShape, LedgerTypeOK
    <2>. QED BY <1>1, <1>2, <2>2 DEF LedgerShape, LedgerTypeOK, RowsOK
  <1>7. NoGhostHolder'
    BY <1>1, <1>2 DEF LedgerShape, LedgerTypeOK, NoGhostHolder, Standing, Listed, Exists
  <1>. QED BY <1>1, <1>2, <1>3, <1>4, <1>5, <1>6, <1>7 DEF Outcome, LedgerShape, holdsVars, slotVars, holdVars, procVars

LEMMA RollBackOutcome ==
  ASSUME LedgerShape, NEW v \in Visits, RollBack(v) PROVE Outcome
  <1>. DEFINE c == Last(Created(v))
              back == IF holdsSeat[c] THEN {seatKey[c]} ELSE {}
  <1>1. making[v] = "adding" /\ Created(v) \in SUBSET Cars /\ Created(v) # {}
    BY DEF RollBack, LedgerShape, RowsOK, Created, CarsOf
  <1>2. c \in Created(v)
    BY <1>1, LastIn
  <1>3. c \in CarsOf(v) /\ c \in Cars /\ status[c] # "none"
    BY <1>2 DEF Created, Uncreated, CarsOf
  <1>4. /\ status' = [status EXCEPT ![c] = "gone"] /\ holdsSeat' = [holdsSeat EXCEPT ![c] = FALSE]
        /\ booked' = Handed(booked, back) /\ daily' = DayHanded(daily, back)
        /\ StartUndo(v, Created(v) \ {c})
        /\ UNCHANGED <<at, bin, seatKey, capacity, closed, held, holdVars, procVars>>
    BY DEF RollBack
  <1>5. back \in SUBSET Slots
    BY <1>3 DEF LedgerShape, RowsOK
  <1>6. booked \in [Slots -> Nat] /\ daily \in [Days -> Nat]
    BY DEF LedgerShape, Shape, TypeOK, LedgerTypeOK
  <1>7. booked' \in [Slots -> Nat] /\ daily' \in [Days -> Nat]
    <2>. HIDE DEF back
    <2>. QED BY <1>4, <1>5, <1>6, HandedType, DayHandedType
  <1>. HIDE DEF c
  <1>8. Sheds(v)
    BY <1>3, <1>4, <1>6, DropSeatSheds DEF LedgerShape
  <1>. HIDE DEF back
  <1>9. Shape'
    BY <1>4, <1>7, CountedShape DEF LedgerShape
  <1>10. LedgerTypeOK'
    BY <1>1, <1>3, <1>4, <1>7 DEF StartUndo, LedgerShape, LedgerTypeOK, Statuses
  <1>11. RowsOK'
    <2>1. \A u : Created(u)' = Created(u)
      BY <1>3, <1>4, SameCreated DEF LedgerShape, LedgerTypeOK
    <2>. QED BY <1>1, <1>3, <1>4, <2>1 DEF StartUndo, LedgerShape, LedgerTypeOK, RowsOK
  <1>12. NoGhostHolder'
    BY <1>3, <1>4 DEF LedgerShape, LedgerTypeOK, NoGhostHolder, Standing, Listed, Exists
  <1>. QED BY <1>4, <1>8, <1>9, <1>10, <1>11, <1>12 DEF Outcome, LedgerShape, holdVars, procVars

LEMMA RepairSlotOutcome ==
  ASSUME LedgerShape, NEW s \in Slots, RepairSlot(s) PROVE Outcome
  <1>1. /\ booked' = [booked EXCEPT ![s] = Cardinality(Owners(s))]
        /\ UNCHANGED <<capacity, closed, held, holdVars, procVars, ledgerVars>>
    BY DEF RepairSlot
  <1>2. booked' \in [Slots -> Nat] /\ \A t \in Slots : booked'[t] = booked[t] \/ RepairSlot(t)
    BY <1>1, OwnersCountable DEF LedgerShape, Shape, TypeOK
  <1>3. Shape'
    BY <1>1, <1>2, CountedShape DEF LedgerShape
  <1>4. LedgerTypeOK' /\ NoGhostHolder'
    BY <1>1 DEF LedgerShape, LedgerTypeOK, NoGhostHolder, Standing, Listed, Exists, ledgerVars, rowVars, seatVars, callVars
  <1>5. RowsOK'
    BY <1>1 DEF LedgerShape, RowsOK, Created, Uncreated, CarsOf, ledgerVars, rowVars, seatVars, callVars
  <1>. QED BY <1>1, <1>2, <1>3, <1>4, <1>5 DEF Outcome, LedgerShape, Keeps, ledgerVars, holdVars, procVars

LEMMA RepairDayOutcome ==
  ASSUME LedgerShape, NEW d \in Days, RepairDay(d) PROVE Outcome
  <1>1. /\ daily' = [daily EXCEPT ![d] = Cardinality(OwnersOn(d))]
        /\ UNCHANGED <<holdsVars, rowVars, seatVars, callVars>>
    BY DEF RepairDay
  <1>2. Cardinality(OwnersOn(d)) \in Nat
    BY LedgerAssumption, FS_Subset, FS_CardinalityType DEF OwnersOn
  <1>3. Shape'
    BY <1>1, HoldsNextShape DEF LedgerShape
  <1>4. LedgerTypeOK' /\ NoGhostHolder'
    BY <1>1, <1>2 DEF LedgerShape, LedgerTypeOK, NoGhostHolder, Standing, Listed, Exists, rowVars, seatVars, callVars
  <1>5. RowsOK'
    BY <1>1 DEF LedgerShape, RowsOK, Created, Uncreated, CarsOf, rowVars, seatVars, callVars
  <1>. QED BY <1>1, <1>3, <1>4, <1>5 DEF Outcome, LedgerShape, Keeps, holdsVars, slotVars, holdVars, procVars

---------------------------------------------------------------------------
(* The operations that take a seat.                                        *)

LEMMA TakeSeatTakes ==
  ASSUME LedgerShape, NEW v \in Visits, NEW c \in CarsOf(v), NEW s \in Slots, NEW h, TakeSeat(c, s, h),
         \A d \in CarsOf(v) \ {c} : ~(holdsSeat[d] /\ seatKey[d] = s)
  PROVE  /\ Shape' /\ SeatTypes' /\ Takes(v, c, s) /\ UNCHANGED <<capacity, unit>>
         /\ \A d \in Cars : holdsSeat'[d] => holdsSeat[d] \/ d = c
  <1>1. c \in Cars
    BY DEF CarsOf
  <1>2. /\ Book(s, h) /\ daily' = DayTaken(DayOf(s))
        /\ holdsSeat' = [holdsSeat EXCEPT ![c] = TRUE] /\ seatKey' = [seatKey EXCEPT ![c] = s]
    BY DEF TakeSeat
  <1>3. Shape'
    BY <1>2, BookShape DEF LedgerShape
  <1>4. booked' = [booked EXCEPT ![s] = @ + 1] /\ Reserve(s, h) /\ UNCHANGED <<capacity, unit>>
    BY <1>2 DEF Book
  <1>5. SeatTypes'
    <2>1. daily' \in [Days -> Nat]
      <3>1. daily \in [Days -> Nat]
        BY DEF LedgerShape, LedgerTypeOK
      <3>. QED BY <1>2, <3>1, DayTakenType
    <2>. QED BY <1>1, <1>2, <2>1 DEF SeatTypes, LedgerShape, LedgerTypeOK, RowsOK
  <1>6. \A d \in Cars \ {c} : (holdsSeat'[d] <=> holdsSeat[d]) /\ seatKey'[d] = seatKey[d]
    BY <1>2 DEF LedgerShape, LedgerTypeOK
  <1>. DEFINE from == [d \in {d \in Cars \ {c} : holdsSeat'[d]} |-> d]
  <1>7. SeatsPass(v, {c}, from)
    BY <1>6 DEF SeatsPass, CarsOf
  <1>8. SeatsPaid(from, [booked EXCEPT ![s] = @ + 1])
    BY <1>3, <1>4 DEF SeatsPaid, LedgerShape, Shape, TypeOK
  <1>9. UniqueVisitSeat(c, s)
    BY <1>6, LedgerAssumption DEF UniqueVisitSeat, CarsOf
  <1>10. holdsSeat'[c] /\ seatKey'[c] = s
    BY <1>1, <1>2 DEF LedgerShape, LedgerTypeOK
  <1>. QED BY <1>3, <1>4, <1>5, <1>6, <1>7, <1>8, <1>9, <1>10 DEF Takes

LEMMA CreateFirstOutcome ==
  ASSUME LedgerShape, NEW v \in Visits, NEW s \in Slots, NEW h, CreateFirst(v, s, h) PROVE Outcome
  <1>. DEFINE c == First(CarsOf(v))
  <1>1. CarsOf(v) \in SUBSET Cars /\ c \in CarsOf(v) /\ c \in Cars
    BY LedgerAssumption, FirstIn DEF CarsOf
  <1>2. \A d \in CarsOf(v) : status[d] = "none" /\ ~holdsSeat[d]
    BY <1>1 DEF CreateFirst, LedgerShape, RowsOK, Created, Uncreated, NoGhostHolder, Standing, Listed, Exists
  <1>3. /\ TakeSeat(c, s, h) /\ making[v] = "no"
        /\ status' = [status EXCEPT ![c] = "live"] /\ at' = [at EXCEPT ![c] = s]
        /\ making' = [making EXCEPT ![v] = "adding"] /\ wanted' = [wanted EXCEPT ![v] = s]
        /\ UNCHANGED <<bin, undoing, restoring, purging>>
    BY DEF CreateFirst
  <1>. HIDE DEF c
  <1>4. /\ Shape' /\ SeatTypes' /\ Takes(v, c, s) /\ UNCHANGED <<capacity, unit>>
        /\ \A d \in Cars : holdsSeat'[d] => holdsSeat[d] \/ d = c
    BY <1>1, <1>2, <1>3, TakeSeatTakes
  <1>5. LedgerTypeOK'
    BY <1>3, <1>4 DEF SeatTypes, LedgerShape, LedgerTypeOK, Statuses
  <1>6. RowsOK'
    <2>1. c \in Created(v)'
      BY <1>1, <1>3 DEF LedgerShape, LedgerTypeOK, Created, Uncreated, CarsOf
    <2>2. \A u \in Visits \ {v} : Created(u)' = Created(u)
      BY <1>1, <1>3 DEF LedgerShape, LedgerTypeOK, Created, Uncreated, CarsOf
    <2>. QED BY <1>3, <1>4, <2>1, <2>2 DEF SeatTypes, LedgerShape, LedgerTypeOK, RowsOK
  <1>7. NoGhostHolder'
    <2>1. \A d \in Cars : holdsSeat[d] => Standing(d)'
      BY <1>3 DEF LedgerShape, LedgerTypeOK, NoGhostHolder, Standing, Listed, Exists, SeatHolding
    <2>2. ~bin[c]
      BY <1>1, <1>2 DEF LedgerShape, RowsOK
    <2>3. Standing(c)'
      BY <1>1, <1>3, <2>2 DEF LedgerShape, LedgerTypeOK, Standing, Listed, Exists, SeatHolding
    <2>. QED BY <1>4, <2>1, <2>3 DEF NoGhostHolder
  <1>. QED BY <1>1, <1>4, <1>5, <1>6, <1>7 DEF Outcome, LedgerShape, Takes

LEMMA RestoreOutcome ==
  ASSUME LedgerShape, NEW v \in Visits, Restore(v) PROVE Outcome
  <1>. DEFINE back == {c \in CarsOf(v) : Exists(c) /\ bin[c]}
              open == {c \in back : status[c] \in {"live", "headed"}}
              lead == First(open)
              key == SeatKeyOf(lead)
              owned == \E c \in CarsOf(v) : Listed(c) /\ holdsSeat[c] /\ seatKey[c] = key
  <1>1. /\ bin' = [c \in Cars |-> bin[c] /\ c \notin back]
        /\ restoring' = [restoring EXCEPT ![v] = back]
        /\ UNCHANGED <<status, at, making, wanted, undoing, purging>>
        /\ back \subseteq CarsOf(v) /\ back \subseteq Cars
    BY DEF Restore, CarsOf
  <1>2. \A d \in Cars : Standing(d) => Standing(d)'
    BY <1>1 DEF LedgerShape, LedgerTypeOK, Standing, Listed, Exists
  <1>3. SeatTypes' => LedgerTypeOK' /\ RowsOK'
    <2>1. \A w : Created(w)' = Created(w)
      BY <1>1, SameCreated
    <2>. HIDE DEF back
    <2>2. SeatTypes' => LedgerTypeOK'
      BY <1>1 DEF SeatTypes, LedgerShape, LedgerTypeOK
    <2>. QED BY <1>1, <2>1, <2>2 DEF SeatTypes, LedgerShape, LedgerTypeOK, RowsOK
  <1>4. CASE open = {} \/ owned
    <2>1. SeatsUnchanged
      BY <1>4 DEF Restore
    <2>2. SeatTypes'
      BY <2>1 DEF SeatTypes, SeatsUnchanged, seatVars, LedgerShape, LedgerTypeOK, RowsOK
    <2>. QED BY <1>2, <1>3, <2>1, <2>2, QuietOutcome
  <1>5. CASE open # {} /\ ~owned
    <2>1. TakeSeat(lead, key, NoHolder)
      BY <1>5 DEF Restore
    <2>2. PICK c \in open : c = lead
      BY <1>1, <1>5, FirstIn
    <2>3. c \in CarsOf(v) /\ c \in Cars /\ status[c] \in {"live", "headed"} /\ ~bin'[c]
      BY <1>1
    <2>4. Standing(c)' /\ key = SeatKeyOf(c)
      BY <1>1, <2>2, <2>3 DEF Standing, Listed, Exists, SeatHolding
    <2>. HIDE DEF lead
    <2>5. key \in Slots
      BY <2>3, <2>4 DEF SeatKeyOf, LedgerShape, LedgerTypeOK, RowsOK
    <2>. HIDE DEF key
    <2>6. \A d \in CarsOf(v) \ {c} : ~(holdsSeat[d] /\ seatKey[d] = key)
      BY <1>5 DEF LedgerShape, NoGhostHolder, Standing, CarsOf
    <2>7. /\ Shape' /\ SeatTypes' /\ Takes(v, c, key) /\ UNCHANGED <<capacity, unit>>
          /\ \A d \in Cars : holdsSeat'[d] => holdsSeat[d] \/ d = c
      BY <2>1, <2>2, <2>3, <2>5, <2>6, TakeSeatTakes
    <2>8. NoGhostHolder'
      BY <1>2, <2>4, <2>7 DEF LedgerShape, NoGhostHolder
    <2>. QED BY <1>3, <2>3, <2>5, <2>7, <2>8 DEF Outcome, LedgerShape, Takes
  <1>. QED BY <1>4, <1>5

LEMMA MoveVisitOutcome ==
  ASSUME LedgerShape, NEW v \in Visits, NEW s \in Slots, NEW late, MoveVisit(v, s, late) PROVE Outcome
  <1>. DEFINE cars == OnVisit(v)
              movers == {c \in cars \ late : status[c] # "done"}
              lead == First(movers)
              holders == {c \in cars : holdsSeat[c]}
              holder == First(holders)
              oldDay == DayOf(SeatKeyOf(lead))
              holderMoves == holders # {} /\ holder \in movers
              sameDay == oldDay = DayOf(s) /\ holderMoves /\ cars = movers
              R == IF holderMoves THEN {holder} ELSE {}
  <1>1. cars \subseteq CarsOf(v) /\ CarsOf(v) \subseteq Cars
    BY DEF OnVisit, CarsOf
  <1>2. /\ movers # {} /\ at' = [c \in Cars |-> IF c \in movers THEN s ELSE at[c]]
        /\ UNCHANGED <<status, bin, callVars>>
    BY DEF MoveVisit
  <1>3. lead \in movers
    BY <1>1, <1>2, FirstIn
  <1>4. \A c \in movers : c \in Cars /\ Standing(c) /\ status[c] # "none"
    BY <1>1, <1>2 DEF OnVisit, Standing, Listed, Exists, SeatHolding, Statuses, LedgerShape, LedgerTypeOK
  <1>5. R \subseteq CarsOf(v) /\ \A c \in R : holdsSeat[c]
    BY <1>1, FirstIn
  <1>6. \A d \in Cars : Standing(d) => Standing(d)'
    BY <1>2 DEF Standing, Listed, Exists
  <1>7. SeatTypes' => LedgerTypeOK' /\ RowsOK'
    <2>1. \A w : Created(w)' = Created(w)
      BY <1>2, SameCreated
    <2>. HIDE DEF movers
    <2>2. SeatTypes' => LedgerTypeOK'
      BY <1>2 DEF SeatTypes, LedgerShape, LedgerTypeOK, callVars
    <2>. QED BY <1>2, <2>1, <2>2 DEF SeatTypes, LedgerShape, LedgerTypeOK, RowsOK, callVars
  <1>8. CASE SameSlot(lead, s)
    <2>1. SeatsUnchanged
      BY <1>8 DEF MoveVisit
    <2>2. SeatTypes'
      BY <2>1 DEF SeatTypes, SeatsUnchanged, seatVars, LedgerShape, LedgerTypeOK, RowsOK
    <2>. QED BY <1>6, <1>7, <2>1, <2>2, QuietOutcome
  <1>9. CASE ~SameSlot(lead, s)
    <2>. DEFINE L == {lead}
                keys == [c \in {lead} |-> s]
                taken == [booked EXCEPT ![s] = @ + 1]
                dayTaken == IF sameDay THEN daily ELSE DayTaken(DayOf(s))
    <2>1. /\ Reserve(s, NoHolder) /\ HandBack(R, L, keys, taken, dayTaken, sameDay)
          /\ UniqueVisitSeat(lead, s) /\ UNCHANGED <<capacity, closed, req, unit>>
      BY <1>9 DEF MoveVisit
    <2>2. /\ L \in SUBSET CarsOf(v) /\ L \subseteq DOMAIN keys /\ DOMAIN keys \subseteq CarsOf(v)
          /\ \A c \in DOMAIN keys : keys[c] \in Slots
          /\ \A c \in DOMAIN keys \ L : ~holdsSeat[c] /\ ~Standing(c)'
      BY <1>1, <1>3
    <2>3. taken \in [Slots -> Nat] /\ dayTaken \in [Days -> Nat]
      BY DayTakenType DEF LedgerShape, Shape, TypeOK, LedgerTypeOK
    <2>4. R \in SUBSET Cars /\ R \in SUBSET CarsOf(v) /\ LedgerTypeOK /\ RowsOK
      BY <1>1, <1>5 DEF LedgerShape
    <2>5. at' \in [Cars -> Slots \cup {NoSlot}]
      BY <1>2 DEF LedgerShape, LedgerTypeOK
    <2>6. holdsSeat'[lead] /\ seatKey'[lead] = s
      BY <1>3, <1>4, <2>1 DEF HandBack
    <2>. HIDE DEF R, sameDay, dayTaken, taken, keys, L
    <2>7. /\ booked' \in [Slots -> Nat] /\ daily' \in [Days -> Nat]
          /\ holdsSeat' \in [Cars -> BOOLEAN] /\ seatKey' \in [Cars -> Slots \cup {NoSlot}]
          /\ \A c \in Cars : holdsSeat'[c] => /\ seatKey'[c] \in Slots
                                              /\ c \in L \/ Standing(c)' \/ (holdsSeat[c] /\ c \notin R)
      BY <1>5, <2>1, <2>2, <2>3, <2>4, <2>5, HandBackShape
    <2>8. \E from : SeatsPass(v, L, from) /\ SeatsPaid(from, taken)
      BY <1>5, <2>1, <2>2, <2>3, <2>4, HandBackPasses
    <2>9. Takes(v, lead, s)
      BY <1>1, <1>3, <2>1, <2>6, <2>8 DEF Takes, L, taken
    <2>10. Shape'
      BY <2>1, <2>7, ReserveShape DEF LedgerShape, Shape, TypeOK, CallsOK, BatchesOK
    <2>11. LedgerTypeOK' /\ RowsOK'
      BY <1>7, <2>7 DEF SeatTypes
    <2>12. NoGhostHolder'
      BY <1>3, <1>4, <1>6, <2>7 DEF L, LedgerShape, NoGhostHolder
    <2>. HIDE DEF lead
    <2>. QED BY <1>3, <1>4, <2>1, <2>9, <2>10, <2>11, <2>12 DEF Outcome, LedgerShape
  <1>. QED BY <1>8, <1>9

---------------------------------------------------------------------------
(* Every step.                                                             *)

LEMMA CreateStepOutcome == ASSUME LedgerShape, NEW v \in Visits, CreateStep(v) PROVE Outcome
  BY CreateFirstOutcome, CreateNextOutcome, CreateDoneOutcome, CreateFailsOutcome, RollBackOutcome,
     UndoCarOutcome, CallKilledOutcome
  DEF CreateStep

LEMMA CarStepOutcome == ASSUME LedgerShape, NEW c \in Cars, CarStep(c) PROVE Outcome
  BY CancelCarOutcome, AdvanceOutcome, DeleteVisitOutcome DEF CarStep

LEMMA VisitStepOutcome == ASSUME LedgerShape, NEW v \in Visits, VisitStep(v) PROVE Outcome
  BY CancelVisitOutcome, MoveVisitOutcome, RestoreOutcome, RestoreDoneOutcome, ReturnToBinOutcome DEF VisitStep

LEMMA PurgeStepOutcome == ASSUME LedgerShape, NEW v \in Visits, PurgeStep(v) PROVE Outcome
  BY RestoreDoneOutcome, PurgeCarOutcome DEF PurgeStep

LEMMA StepOutcome ==
  ASSUME LedgerShape, [Next]_vars PROVE Outcome \/ (HoldsStep /\ UNCHANGED ledgerVars)
  <1>1. CASE UNCHANGED vars
    <2>1. SeatsUnchanged /\ UNCHANGED <<rowVars, callVars>>
      BY <1>1 DEF vars, ledgerVars, SeatsUnchanged
    <2>2. LedgerTypeOK' /\ \A c \in Cars : Standing(c) => Standing(c)'
      BY <2>1 DEF LedgerShape, LedgerTypeOK, SeatsUnchanged, seatVars, rowVars, callVars, Standing, Listed, Exists
    <2>3. RowsOK'
      BY <2>1 DEF LedgerShape, RowsOK, Created, Uncreated, CarsOf, SeatsUnchanged, seatVars, rowVars, callVars
    <2>. QED BY <2>1, <2>2, <2>3, QuietOutcome
  <1>. QED
    BY <1>1, CreateStepOutcome, CarStepOutcome, VisitStepOutcome, PurgeStepOutcome,
       RepairSlotOutcome, RepairDayOutcome DEF Next

LEMMA HoldsStepKeeps ==
  ASSUME LedgerShape, HoldsStep, UNCHANGED ledgerVars
  PROVE  LedgerShape' /\ Keeps /\ booked' = booked
  <1>1. Shape'
    BY HoldsStepShape DEF LedgerShape
  <1>2. LedgerTypeOK' /\ NoGhostHolder'
    BY DEF LedgerShape, LedgerTypeOK, NoGhostHolder, Standing, Listed, Exists, ledgerVars, rowVars, seatVars, callVars
  <1>3. RowsOK'
    BY DEF LedgerShape, RowsOK, Created, Uncreated, CarsOf, ledgerVars, rowVars, seatVars, callVars
  <1>4. booked' = booked
    BY DEF HoldsStep, HoldSlotStep, HoldExpires, RequestHold, ReleaseHold, RenewOrGiveUp, GiveUpOther,
           CheckSlot, ClaimUnit, InsertHold, RefreshHold, SweepDelete, GiveBackUnit, Crash,
           WorkerSweep, WorkerDone, SetSlotCapacity, RepairHeld, slotVars
  <1>. QED BY <1>1, <1>2, <1>3, <1>4 DEF LedgerShape, Keeps, ledgerVars

LedgerInv == LedgerShape /\ OneSeatPerSlot /\ SeatsCounted

LEMMA LedgerInvInit == LedgerInit => LedgerInv
  <1>. SUFFICES ASSUME LedgerInit PROVE LedgerInv
    OBVIOUS
  <1>1. Shape
    BY ShapeInit DEF LedgerInit
  <1>2. LedgerTypeOK /\ NoGhostHolder /\ OneSeatPerSlot
    BY DEF LedgerInit, LedgerTypeOK, Statuses, NoGhostHolder, OneSeatPerSlot
  <1>3. RowsOK
    BY DEF LedgerInit, RowsOK, Created, Uncreated, CarsOf
  <1>4. ASSUME NEW s \in Slots PROVE Cardinality(Owners(s)) <= booked[s]
    <2>1. Owners(s) = {} /\ booked[s] = 0
      BY DEF LedgerInit, HoldsInit, Owners
    <2>. QED BY <2>1, FS_EmptySet
  <1>. QED BY <1>1, <1>2, <1>3, <1>4 DEF LedgerInv, LedgerShape, SeatsCounted

LEMMA LedgerInvStep == LedgerInv /\ [Next]_vars => LedgerInv'
  <1>. SUFFICES ASSUME LedgerInv, [Next]_vars PROVE LedgerInv'
    OBVIOUS
  <1>1. LedgerShape /\ LedgerTypeOK /\ OneSeatPerSlot /\ SeatsCounted /\ booked \in [Slots -> Nat]
    BY DEF LedgerInv, LedgerShape, Shape, TypeOK
  <1>2. CASE Outcome
    <2>1. LedgerShape' /\ booked' \in [Slots -> Nat]
      BY <1>2 DEF Outcome, LedgerShape, Shape, TypeOK
    <2>2. OneSeatPerSlot' /\ SeatsCounted'
      BY <1>1, <1>2, <2>1, ShedsKeepsSeats, TakesKeepsSeats, KeepsKeepsSeats DEF Outcome
    <2>. QED BY <2>1, <2>2 DEF LedgerInv
  <1>3. CASE HoldsStep /\ UNCHANGED ledgerVars
    <2>1. LedgerShape' /\ Keeps /\ booked' = booked
      BY <1>1, <1>3, HoldsStepKeeps
    <2>2. OneSeatPerSlot' /\ SeatsCounted'
      BY <1>1, <2>1, KeepsKeepsSeats
    <2>. QED BY <2>1, <2>2 DEF LedgerInv
  <1>. QED BY <1>1, <1>2, <1>3, StepOutcome

---------------------------------------------------------------------------
\* Every variable of the ledger keeps its type.
THEOREM LedgerTyped == Spec => []LedgerTypeOK
  <1>1. LedgerInv => LedgerTypeOK
    BY DEF LedgerInv, LedgerShape
  <1>. QED BY <1>1, LedgerInvInit, LedgerInvStep, PTL DEF Spec

\* Only a booking that stands holds a seat, whatever create, undo, cancel, move,
\* delete, restore and purge are interleaved or killed half-way.
THEOREM NoGhostHolders == Spec => []NoGhostHolder
  <1>1. LedgerInv => NoGhostHolder
    BY DEF LedgerInv, LedgerShape
  <1>. QED BY <1>1, LedgerInvInit, LedgerInvStep, PTL DEF Spec

\* The cars of a visit never hold one seat twice.
THEOREM OneSeatEach == Spec => []OneSeatPerSlot
  <1>1. LedgerInv => OneSeatPerSlot
    BY DEF LedgerInv
  <1>. QED BY <1>1, LedgerInvInit, LedgerInvStep, PTL DEF Spec

\* Every seat a booking records is counted in its slot.
THEOREM SeatsAreCounted == Spec => []SeatsCounted
  <1>1. LedgerInv => SeatsCounted
    BY DEF LedgerInv
  <1>. QED BY <1>1, LedgerInvInit, LedgerInvStep, PTL DEF Spec

---------------------------------------------------------------------------
(* Who may make a counter fall.                                            *)

LEMMA FallsForOwner ==
  ASSUME LedgerInv, [Next]_vars, NEW s \in Slots, booked'[s] < booked[s]
  PROVE  RepairSlot(s) \/ Cardinality(Owners(s)') < Cardinality(Owners(s))
  <1>1. LedgerShape /\ LedgerTypeOK /\ booked \in [Slots -> Nat]
    BY DEF LedgerInv, LedgerShape, Shape, TypeOK
  <1>2. booked'[s] # booked[s]
    <2>. DEFINE n == booked'[s]
                m == booked[s]
    <2>1. m \in Nat /\ n < m
      BY <1>1
    <2>. HIDE DEF n, m
    <2>2. n # m
      BY <2>1
    <2>. QED BY <2>2 DEF n, m
  <1>3. Outcome
    BY <1>1, <1>2, StepOutcome, HoldsStepKeeps
  <1>4. booked' \in [Slots -> Nat]
    BY <1>3 DEF Outcome, LedgerShape, Shape, TypeOK
  <1>5. IsFiniteSet(Owners(s)') /\ Cardinality(Owners(s)') \in Nat
    BY LedgerAssumption, FS_Subset, FS_CardinalityType DEF Owners
  <1>6. ASSUME NEW v, Sheds(v) PROVE Cardinality(Owners(s)') < Cardinality(Owners(s))
    <2>1. Owners(s)' \ {} = Owners(s)'
      OBVIOUS
    <2>2. Cardinality(Owners(s)') + booked[s] <= Cardinality(Owners(s)) + booked'[s]
      BY <1>1, <1>4, <1>6, <2>1, PassedCount DEF Sheds
    <2>. QED BY <1>1, <1>4, <1>5, <2>2, OwnersCountable
  <1>7. ASSUME NEW v, NEW c, NEW t \in Slots, Takes(v, c, t)
        PROVE  Cardinality(Owners(s)') < Cardinality(Owners(s))
    <2>. DEFINE count == [booked EXCEPT ![t] = @ + 1]
    <2>1. count \in [Slots -> Nat] /\ count[s] = booked[s] + (IF s = t THEN 1 ELSE 0)
      BY <1>1
    <2>2. \E from : SeatsPass(v, {c}, from) /\ SeatsPaid(from, count)
      BY <1>7 DEF Takes
    <2>. HIDE DEF count
    <2>3. Cardinality(Owners(s)' \ {c}) + count[s] <= Cardinality(Owners(s)) + booked'[s]
      BY <1>1, <1>4, <2>1, <2>2, PassedCount
    <2>4. Cardinality(Owners(s)' \ {c}) =
            IF c \in Owners(s)' THEN Cardinality(Owners(s)') - 1 ELSE Cardinality(Owners(s)')
      BY <1>5, FS_RemoveElement
    <2>5. c \in Owners(s)' => s = t
      BY <1>7 DEF Owners, Takes
    <2>. QED BY <1>1, <1>4, <1>5, <2>1, <2>3, <2>4, <2>5, OwnersCountable
  <1>. QED BY <1>2, <1>3, <1>6, <1>7 DEF Outcome

\* A counter falls only when a booking gives up a seat it owned, or when an
\* administrator recounts it.
THEOREM OwnersReturn == Spec => ReturnedByOwner
  <1>1. LedgerInv /\ [Next]_vars
          => [\A s \in Slots :
                booked'[s] < booked[s]
                  => RepairSlot(s) \/ Cardinality(Owners(s)') < Cardinality(Owners(s))]_vars
    BY FallsForOwner
  <1>. QED BY <1>1, LedgerInvInit, LedgerInvStep, PTL DEF Spec, ReturnedByOwner

---------------------------------------------------------------------------
(* The ledger implements SeatSale, given that held_count backs the holds.  *)

LEMMA LedgerBacked ==
  ASSUME RepairsAnytime = FALSE, LedgerInv, HoldsBacked, [Next]_vars PROVE HoldsBacked'
  <1>1. LedgerShape /\ Shape
    BY DEF LedgerInv, LedgerShape
  <1>2. CASE Outcome
    <2>1. CASE UNCHANGED <<held, holds>>
      BY <1>2, <2>1, QuietBacked DEF Outcome
    <2>2. CASE \E s \in Slots : \E h : Reserve(s, h)
      BY <1>1, <1>2, <2>2, ReserveBacked DEF Outcome
    <2>. QED BY <1>2, <2>1, <2>2 DEF Outcome
  <1>3. CASE HoldsStep
    BY <1>1, <1>3, HoldsStepBacked
  <1>. QED BY <1>1, <1>2, <1>3, StepOutcome

LEMMA VisitsCount ==
  ASSUME NEW s
  PROVE  /\ Cardinality(VisitsOwning(s)) \in Nat
         /\ Cardinality(VisitsOwning(s)) <= Cardinality(Owners(s))
  <1>. DEFINE f == [c \in Owners(s) |-> VisitOf[c]]
  <1>1. f \in Surjection(Owners(s), VisitsOwning(s))
    BY DEF Surjection, VisitsOwning
  <1>. HIDE DEF f
  <1>. QED BY <1>1, OwnersCountable, FS_Surjection, FS_CardinalityType

\* A visit other than the one a step is about owns what it owned; that one
\* gains a seat only by taking it.
LEMMA VisitsOwningAfter ==
  ASSUME LedgerTypeOK, NEW v, NEW L \in SUBSET CarsOf(v), NEW from, SeatsPass(v, L, from), NEW r \in Slots
  PROVE  /\ \A w : w # v => (w \in VisitsOwning(r)' <=> w \in VisitsOwning(r))
         /\ v \in VisitsOwning(r)' => v \in VisitsOwning(r) \/ \E c \in L : holdsSeat'[c] /\ seatKey'[c] = r
  <1>1. ASSUME NEW w, w # v, w \in VisitsOwning(r) PROVE w \in VisitsOwning(r)'
    BY <1>1 DEF VisitsOwning, Owners, SeatsPass
  <1>2. ASSUME NEW c \in Cars \ L, holdsSeat'[c], seatKey'[c] = r PROVE VisitOf[c] \in VisitsOwning(r)
    <2>1. c \in DOMAIN from
      BY <1>2 DEF SeatsPass
    <2>2. from[c] \in Owners(r) /\ VisitOf[from[c]] = VisitOf[c]
      BY <1>2, <2>1 DEF SeatsPass, Owners
    <2>. QED BY <2>2 DEF VisitsOwning
  <1>3. ASSUME NEW w, w # v, w \in VisitsOwning(r)' PROVE w \in VisitsOwning(r)
    BY <1>2, <1>3 DEF VisitsOwning, Owners, CarsOf
  <1>4. ASSUME v \in VisitsOwning(r)'
        PROVE  v \in VisitsOwning(r) \/ \E c \in L : holdsSeat'[c] /\ seatKey'[c] = r
    BY <1>2, <1>4 DEF VisitsOwning, Owners
  <1>. QED BY <1>1, <1>3, <1>4

\* The cardinality SeatSale speaks of is the one counted here.
LEMMA SameCardinality == \A S : Sale!Cardinality(S) = Cardinality(S)
  BY DEF Sale!Cardinality, Cardinality

LEMMA ShedsGivesUp ==
  ASSUME LedgerTypeOK, NEW v \in Visits, Sheds(v), UNCHANGED capacity PROVE Sale!Next
  <1>. DEFINE S == {r \in Slots : v \in VisitsOwning(r) /\ v \notin VisitsOwning(r)'}
  <1>1. \A r \in Slots : VisitsOwning(r)' = IF r \in S THEN VisitsOwning(r) \ {v} ELSE VisitsOwning(r)
    BY VisitsOwningAfter DEF Sheds
  <1>. HIDE DEF S
  <1>2. Sale!GiveUp(v, S)
    BY <1>1 DEF Sale!GiveUp
  <1>3. S \in SUBSET Slots
    BY DEF S
  <1>. QED BY <1>2, <1>3 DEF Sale!Next

LEMMA TakesBuys ==
  ASSUME LedgerInv, HoldsBacked, NEW v \in Visits, NEW c, NEW s \in Slots, Takes(v, c, s), UNCHANGED capacity
  PROVE  Sale!Next
  <1>. DEFINE S == {r \in Slots : v \in VisitsOwning(r) /\ v \notin VisitsOwning(r)'}
  <1>1. LedgerTypeOK /\ Shape /\ SeatsCounted
    BY DEF LedgerInv, LedgerShape
  <1>2. v \in VisitsOwning(s)'
    BY DEF Takes, VisitsOwning, Owners, CarsOf
  <1>3. \A r \in Slots : VisitsOwning(r)' = IF r = s THEN VisitsOwning(r) \cup {v}
                                           ELSE IF r \in S THEN VisitsOwning(r) \ {v} ELSE VisitsOwning(r)
    <2>. SUFFICES ASSUME NEW r \in Slots, NEW w
                  PROVE  w \in VisitsOwning(r)' <=>
                           w \in (IF r = s THEN VisitsOwning(r) \cup {v}
                                  ELSE IF r \in S THEN VisitsOwning(r) \ {v} ELSE VisitsOwning(r))
      OBVIOUS
    <2>1. PICK from : SeatsPass(v, {c}, from)
      BY DEF Takes
    <2>2. {c} \in SUBSET CarsOf(v) /\ seatKey'[c] = s
      BY DEF Takes
    <2>3. /\ w # v => (w \in VisitsOwning(r)' <=> w \in VisitsOwning(r))
          /\ v \in VisitsOwning(r)' => v \in VisitsOwning(r) \/ r = s
      BY <1>1, <2>1, <2>2, VisitsOwningAfter
    <2>. QED BY <1>2, <2>3
  <1>4. S \in SUBSET Slots /\ s \notin S
    BY <1>2
  <1>. HIDE DEF S
  <1>5. CASE v \in VisitsOwning(s)
    <2>1. VisitsOwning(s) \cup {v} = VisitsOwning(s)
      BY <1>5
    <2>2. Sale!GiveUp(v, S)
      BY <1>3, <1>4, <2>1 DEF Sale!GiveUp
    <2>. QED BY <1>4, <2>2 DEF Sale!Next
  <1>6. CASE v \notin VisitsOwning(s)
    <2>1. Cardinality(VisitsOwning(s)) < capacity[s]
      <3>1. booked[s] + 1 <= capacity[s]
        BY <1>1, ReserveSells DEF Takes
      <3>2. Cardinality(Owners(s)) <= booked[s]
        BY <1>1 DEF SeatsCounted
      <3>3. booked[s] \in Nat /\ capacity[s] \in Nat
        BY <1>1 DEF Shape, TypeOK
      <3>. QED BY <3>1, <3>2, <3>3, VisitsCount, OwnersCountable
    <2>2. Sale!Buy(v, s, S)
      BY <1>3, <1>4, <1>6, <2>1, SameCardinality DEF Sale!Buy
    <2>. QED BY <1>4, <2>2 DEF Sale!Next
  <1>. QED BY <1>5, <1>6

LEMMA KeepsOwning == ASSUME Keeps, NEW r PROVE VisitsOwning(r)' = VisitsOwning(r)
  BY DEF Keeps, seatVars, VisitsOwning, Owners

LEMMA HoldsStepCapacity ==
  ASSUME LedgerShape, HoldsStep, UNCHANGED ledgerVars PROVE [Sale!Next]_Sale!vars
  <1>1. Keeps /\ capacity' \in [Slots -> Nat]
    BY HoldsStepKeeps DEF LedgerShape, Shape, TypeOK
  <1>2. \A r \in Slots : VisitsOwning(r)' = VisitsOwning(r)
    BY <1>1, KeepsOwning
  <1>3. CASE capacity' = capacity
    BY <1>2, <1>3 DEF Sale!vars
  <1>4. CASE capacity' # capacity
    <2>1. PICK s \in Slots, o \in Overrides : SetSlotCapacity(s, o)
      BY <1>4 DEF HoldsStep, HoldSlotStep, HoldExpires, RequestHold, ReleaseHold, RenewOrGiveUp, GiveUpOther,
                  CheckSlot, ClaimUnit, InsertHold, RefreshHold, SweepDelete, GiveBackUnit, Crash,
                  WorkerSweep, WorkerDone, RepairHeld, slotVars
    <2>2. \A r \in Slots \ {s} : capacity'[r] = capacity[r]
      BY <2>1 DEF SetSlotCapacity, LedgerShape, Shape, TypeOK
    <2>3. Sale!SetCapacity(s)
      BY <1>1, <1>2, <2>2 DEF Sale!SetCapacity
    <2>. QED BY <2>3 DEF Sale!Next
  <1>. QED BY <1>3, <1>4

LEMMA SaleInit == LedgerInit => Sale!Init
  <1>. SUFFICES ASSUME LedgerInit PROVE Sale!Init
    OBVIOUS
  <1>1. \A s \in Slots : VisitsOwning(s) = {}
    BY DEF LedgerInit, VisitsOwning, Owners
  <1>2. capacity \in [Slots -> Nat]
    BY HoldsAssumption DEF LedgerInit, HoldsInit
  <1>. QED BY <1>1, <1>2 DEF Sale!Init

LEMMA SaleStep == LedgerInv /\ HoldsBacked /\ [Next]_vars => [Sale!Next]_Sale!vars
  <1>. SUFFICES ASSUME LedgerInv, HoldsBacked, [Next]_vars PROVE [Sale!Next]_Sale!vars
    OBVIOUS
  <1>1. LedgerShape /\ LedgerTypeOK
    BY DEF LedgerInv, LedgerShape
  <1>2. CASE Outcome
    <2>1. UNCHANGED capacity
      BY <1>2 DEF Outcome
    <2>2. CASE Keeps
      <3>1. \A r \in Slots : VisitsOwning(r)' = VisitsOwning(r)
        BY <2>2, KeepsOwning
      <3>. QED BY <2>1, <3>1 DEF Sale!vars
    <2>. QED BY <1>1, <1>2, <2>1, <2>2, ShedsGivesUp, TakesBuys DEF Outcome
  <1>. QED BY <1>1, <1>2, StepOutcome, HoldsStepCapacity

\* Whatever is done to rows, records and counters, a visit gains a seat only in
\* a slot with fewer owners than capacity, and loses only its own: unless an
\* administrator recounts the holds while a unit is on its way.
THEOREM LedgerSellsAsPromised == ASSUME RepairsAnytime = FALSE PROVE Spec => SeatsSoldAsPromised
  <1>1. LedgerInit => LedgerInv /\ HoldsBacked /\ Sale!Init
    BY LedgerInvInit, BackedInit, SaleInit DEF LedgerInit
  <1>2. LedgerInv /\ HoldsBacked /\ [Next]_vars => (LedgerInv /\ HoldsBacked)'
    BY LedgerInvStep, LedgerBacked
  <1>3. LedgerInv /\ HoldsBacked /\ [Next]_vars => [Sale!Next]_Sale!vars
    BY SaleStep
  <1>. QED BY <1>1, <1>2, <1>3, PTL DEF Spec, SeatsSoldAsPromised, Sale!Spec

---------------------------------------------------------------------------
(* Calls that do not get in each other's way: what holds of a visit then.  *)

\* While a visit is being created, its cars wait where they are to be, one has their
\* seat, and nothing of it is in the bin.
BeginsOK(v) ==
  /\ making[v] \in {"no", "adding", "undoing"} =>
       restoring[v] = {} /\ purging[v] = {} /\ \A c \in CarsOf(v) : ~bin[c]
  /\ making[v] = "adding" =>
       /\ \A c \in Created(v) : status[c] = "live" /\ at[c] = wanted[v] /\ seatKey[c] \in {NoSlot, wanted[v]}
       /\ First(CarsOf(v)) \in Created(v) /\ holdsSeat[First(CarsOf(v))]
  /\ \A c \in CarsOf(v) : status[c] = "none" => seatKey[c] = NoSlot

\* The cars to wash are in one slot, and those that may hold a seat go in and out of
\* the bin together; a call undoes, restores and purges cars of its visit.
TogetherOK(v) ==
  /\ \A c, d \in ToWash(v) : at[c] = at[d]
  /\ \A c, d \in CarsOf(v) :
       (status[c] \in SeatHolding /\ status[d] \in SeatHolding) =>
         (bin[c] => bin[d]) /\ (c \in restoring[v] => d \in restoring[v])
  /\ undoing[v] \subseteq CarsOf(v)
  /\ purging[v] \subseteq CarsOf(v) /\ \A c \in purging[v] : ~Listed(c)

\* A seat is where its car is, the first car to wash has the one of those to wash
\* that have one, and there is one for all.
SeatedOK(v) ==
  /\ \A c \in CarsOf(v) : holdsSeat[c] => seatKey[c] = at[c]
  /\ \A c \in ToWash(v) : holdsSeat[c] => c = First(ToWash(v))
  /\ \A c \in ToWash(v) : ~bin[c] => \E d \in CarsOf(v) : holdsSeat[d] /\ seatKey[d] = at[c]

Calm(v) == BeginsOK(v) /\ TogetherOK(v) /\ SeatedOK(v)

CalmInv == LedgerInv /\ \A v \in Visits : Calm(v)

LEMMA CalmIs ==
  ASSUME CalmInv PROVE HolderSitsInItsSeat /\ EveryCarSeated
  <1>1. \A c \in Cars : VisitOf[c] \in Visits /\ c \in CarsOf(VisitOf[c])
    BY LedgerAssumption DEF CarsOf
  <1>2. HolderSitsInItsSeat
    BY <1>1 DEF CalmInv, Calm, SeatedOK, HolderSitsInItsSeat
  <1>3. EveryCarSeated
    BY <1>1 DEF CalmInv, Calm, SeatedOK, EveryCarSeated, ToWash, Open, Listed
  <1>. QED BY <1>2, <1>3

LEMMA CalmInit == LedgerInit => CalmInv
  <1>. SUFFICES ASSUME LedgerInit PROVE CalmInv
    OBVIOUS
  <1>1. ASSUME NEW v \in Visits PROVE Calm(v)
    <2>1. /\ making[v] = "no" /\ restoring[v] = {} /\ purging[v] = {} /\ undoing[v] = {}
          /\ \A c \in CarsOf(v) : status[c] = "none" /\ ~bin[c] /\ ~holdsSeat[c] /\ seatKey[c] = NoSlot
      BY DEF LedgerInit, CarsOf
    <2>2. ToWash(v) = {}
      BY <2>1 DEF ToWash
    <2>. QED BY <2>1, <2>2 DEF Calm, BeginsOK, TogetherOK, SeatedOK, SeatHolding
  <1>. QED BY <1>1, LedgerInvInit DEF CalmInv

\* The first car of a visit's set is the one of least offset; it stays first of what
\* is left while it is left.
LEMMA FirstIs ==
  ASSUME NEW v \in Visits, NEW S \in SUBSET CarsOf(v), NEW c \in S, \A d \in S : Offset[c] <= Offset[d]
  PROVE  First(S) = c
  <1>1. Offset \in [Cars -> Nat] /\ S \subseteq Cars /\ \A d \in S : VisitOf[d] = v
    BY LedgerAssumption DEF CarsOf
  <1>2. \E d \in S : \A e \in S : Offset[d] <= Offset[e]
    OBVIOUS
  <1>3. First(S) \in S /\ \A e \in S : Offset[First(S)] <= Offset[e]
    BY <1>2 DEF First
  <1>4. Offset[First(S)] = Offset[c]
    BY <1>1, <1>3
  <1>. QED BY <1>1, <1>3, <1>4, LedgerAssumption

LEMMA FirstOfRest ==
  ASSUME NEW v \in Visits, NEW S \in SUBSET CarsOf(v), NEW Q \in SUBSET S, First(S) \in Q
  PROVE  First(Q) = First(S)
  <1>1. S \in SUBSET Cars /\ S # {}
    BY DEF CarsOf
  <1>2. \A d \in Q : Offset[First(S)] <= Offset[d]
    BY <1>1, FirstLeast
  <1>. QED BY <1>2, FirstIs

---------------------------------------------------------------------------
(* A visit whose rows, seats and calls a step leaves alone.                *)

SameRow(c) == <<status[c], at[c], bin[c], holdsSeat[c], seatKey[c]>>' = <<status[c], at[c], bin[c], holdsSeat[c], seatKey[c]>>
SameCalls(v) == <<making[v], wanted[v], undoing[v], restoring[v], purging[v]>>' = <<making[v], wanted[v], undoing[v], restoring[v], purging[v]>>
Untouched(v) == SameCalls(v) /\ \A c \in CarsOf(v) : SameRow(c)

LEMMA SameSets ==
  ASSUME NEW v, \A c \in CarsOf(v) : status'[c] = status[c]
  PROVE  CarsOf(v)' = CarsOf(v) /\ ToWash(v)' = ToWash(v) /\ Created(v)' = Created(v)
  <1>1. CarsOf(v)' = CarsOf(v)
    BY DEF CarsOf
  <1>. QED BY <1>1 DEF ToWash, Created, Uncreated

LEMMA UntouchedCalm ==
  ASSUME NEW v \in Visits, Calm(v), Untouched(v) PROVE Calm(v)'
  <1>1. CarsOf(v)' = CarsOf(v) /\ ToWash(v)' = ToWash(v) /\ Created(v)' = Created(v)
    BY SameSets DEF Untouched, SameRow
  <1>2. First(CarsOf(v))' = First(CarsOf(v)) /\ First(ToWash(v))' = First(ToWash(v))
    BY <1>1 DEF First
  <1>3. First(CarsOf(v)) \in Created(v) => First(CarsOf(v)) \in CarsOf(v)
    BY DEF Created
  <1>4. BeginsOK(v)'
    BY <1>1, <1>2, <1>3 DEF Calm, BeginsOK, Untouched, SameCalls, SameRow, Created
  <1>5. TogetherOK(v)'
    BY <1>1 DEF Calm, TogetherOK, Untouched, SameCalls, SameRow, ToWash, Listed, Exists
  <1>6. SeatedOK(v)'
    BY <1>1, <1>2 DEF Calm, SeatedOK, Untouched, SameRow, ToWash
  <1>. QED BY <1>4, <1>5, <1>6 DEF Calm

\* A step that leaves rows, seats and calls of v alone because it is about another car.
LEMMA OtherVisit ==
  ASSUME NEW v \in Visits, NEW w \in Visits, w # v PROVE \A c \in CarsOf(w) : c \in Cars /\ c \notin CarsOf(v)
  BY DEF CarsOf

---------------------------------------------------------------------------
(* Handing seats back.                                                     *)

LEMMA HandBackFull ==
  ASSUME NEW R, NEW L, NEW keys, NEW taken, NEW dayTaken, NEW keepDay,
         HandBack(R, L, keys, taken, dayTaken, keepDay)
  PROVE  \E heir : /\ HandBackTo(heir, R, L, keys, taken, dayTaken, keepDay)
                   /\ \A c \in R : heir[c] = NoCar => Heirs(c) = {}
  <1>1. PICK heir \in [R -> UNION {Heirs(c) : c \in R} \cup {NoCar}] :
          LET heirs == {heir[c] : c \in R} \ {NoCar}
              back == {seatKey[c] : c \in {x \in R : heir[x] = NoCar}}
          IN
          /\ \A c \in R : IF Heirs(c) = {} THEN heir[c] = NoCar ELSE heir[c] \in Heirs(c)
          /\ booked' = Handed(taken, back)
          /\ daily' = DayAfter(dayTaken, back, keepDay)
          /\ holdsSeat' = [c \in Cars |-> c \in L \/ c \in heirs \/ (holdsSeat[c] /\ c \notin R)]
          /\ seatKey' = [c \in Cars |-> IF c \in DOMAIN keys THEN keys[c]
                                        ELSE IF c \in heirs THEN at'[c] ELSE seatKey[c]]
    BY DEF HandBack
  <1>2. \A c \in Cars : c \in {heir[r] : r \in R} \ {NoCar} <=> \E r \in R : heir[r] = c
    BY LedgerAssumption
  <1>3. HandBackTo(heir, R, L, keys, taken, dayTaken, keepDay)
    BY <1>1, <1>2 DEF HandBackTo
  <1>4. \A c \in R : heir[c] = NoCar => Heirs(c) = {}
    BY <1>1, LedgerAssumption DEF Heirs, CarsOf
  <1>. QED BY <1>3, <1>4

\* The other visits' seats stay as they are.
LEMMA HandBackElsewhere ==
  ASSUME NEW v \in Visits, NEW R \in SUBSET CarsOf(v), NEW L \in SUBSET CarsOf(v), NEW keys,
         DOMAIN keys \subseteq CarsOf(v), LedgerTypeOK, NEW taken, NEW dayTaken, NEW keepDay,
         HandBack(R, L, keys, taken, dayTaken, keepDay)
  PROVE  \A c \in Cars \ CarsOf(v) : holdsSeat'[c] = holdsSeat[c] /\ seatKey'[c] = seatKey[c]
  <1>1. PICK heir : HandBackTo(heir, R, L, keys, taken, dayTaken, keepDay)
    BY HandBackHasHeirs
  <1>2. ASSUME NEW c \in Cars \ CarsOf(v), NEW r \in R, heir[r] = c PROVE FALSE
    <2>1. c \in Heirs(r) /\ r \in Cars
      BY <1>1, <1>2, LedgerAssumption DEF HandBackTo, CarsOf
    <2>. QED BY <1>2, <2>1, HeirIs DEF CarsOf
  <1>3. ASSUME NEW c \in Cars \ CarsOf(v) PROVE (holdsSeat'[c] <=> holdsSeat[c]) /\ seatKey'[c] = seatKey[c]
    BY <1>1, <1>2 DEF HandBackTo
  <1>4. holdsSeat' \in [Cars -> BOOLEAN]
    BY <1>1 DEF HandBackTo
  <1>. QED BY <1>3, <1>4 DEF LedgerTypeOK

\* Cars T of visit v stop standing and give up their seats, where everybody else stays
\* where and what it is: what is to be said of seats still is.
LEMMA ReleaseSeated ==
  ASSUME LedgerInv, NEW v \in Visits, SeatedOK(v), NEW T \in SUBSET CarsOf(v), HeirsInOrder(v),
         NEW keys, DOMAIN keys = {},
         HandBack(HoldersOf(T), {}, keys, booked, daily, FALSE),
         at' = at, \A c \in T : ~Standing(c)',
         \A c \in CarsOf(v) \ T : status'[c] = status[c] /\ bin'[c] = bin[c],
         \A c \in T : status'[c] \in {"live", "headed"} => status[c] \in {"live", "headed"}
  PROVE  SeatedOK(v)'
  <1>. DEFINE R == HoldersOf(T)
              L == {}
              keepDay == FALSE
  <1>0. HandBack(R, L, keys, booked, daily, keepDay)
    OBVIOUS
  <1>. HIDE DEF R, L, keepDay
  <1>1. PICK heir : /\ HandBackTo(heir, R, L, keys, booked, daily, keepDay)
                    /\ \A c \in R : heir[c] = NoCar => Heirs(c) = {}
    BY <1>0, HandBackFull
  <1>2. /\ LedgerTypeOK /\ RowsOK /\ OneSeatPerSlot /\ NoGhostHolder
        /\ CarsOf(v) \subseteq Cars /\ CarsOf(v)' = CarsOf(v) /\ NoCar \notin Cars
        /\ R = {c \in T : holdsSeat[c]} /\ L = {}
    BY LedgerAssumption DEF LedgerInv, LedgerShape, CarsOf, HoldersOf, R, L
  <1>3. ASSUME NEW r \in R, heir[r] # NoCar
        PROVE  /\ heir[r] \in CarsOf(v) /\ ~holdsSeat[heir[r]] /\ at[heir[r]] = seatKey[r]
               /\ holdsSeat'[heir[r]] /\ seatKey'[heir[r]] = seatKey[r]
    <2>1. heir[r] \in Heirs(r) /\ r \in Cars /\ VisitOf[r] = v
      BY <1>1, <1>2, <1>3 DEF HandBackTo, CarsOf
    <2>2. heir[r] \in Cars /\ VisitOf[heir[r]] = v /\ ~holdsSeat[heir[r]] /\ at'[heir[r]] = seatKey[r]
      BY <2>1, HeirIs
    <2>. QED BY <1>1, <2>2 DEF HandBackTo, CarsOf
  <1>4. ASSUME NEW c \in CarsOf(v), holdsSeat[c], c \notin R PROVE holdsSeat'[c] /\ seatKey'[c] = seatKey[c]
    <2>1. ~\E r \in R : heir[r] = c
      BY <1>2, <1>3, <1>4
    <2>. QED BY <1>1, <1>2, <1>4, <2>1 DEF HandBackTo
  <1>5. ASSUME NEW c \in CarsOf(v), holdsSeat'[c]
        PROVE  seatKey'[c] = at'[c] /\ c \notin R
    <2>1. CASE \E r \in R : heir[r] = c
      <3>1. PICK r \in R : heir[r] = c
        BY <2>1
      <3>. QED BY <1>2, <1>3, <3>1
    <2>2. CASE ~\E r \in R : heir[r] = c
      <3>1. holdsSeat[c] /\ c \notin R
        BY <1>1, <1>2, <1>5, <2>2 DEF HandBackTo
      <3>. QED BY <1>4, <3>1 DEF SeatedOK
    <2>. QED BY <2>1, <2>2
  <1>6. ToWash(v)' \subseteq ToWash(v) /\ ToWash(v) \subseteq CarsOf(v)
    BY <1>2 DEF ToWash
  <1>7. ASSUME NEW c \in ToWash(v)', holdsSeat'[c] PROVE c = First(ToWash(v)')
    <2>1. CASE ~holdsSeat[c]
      <3>1. First(ToWash(v))' = First(ToWash(v)')
        BY DEF First
      <3>. QED BY <1>7, <2>1, <3>1 DEF HeirsInOrder
    <2>2. CASE holdsSeat[c]
      <3>1. c = First(ToWash(v))
        BY <1>6, <2>2 DEF SeatedOK
      <3>. QED BY <1>6, <3>1, FirstOfRest
    <2>. QED BY <2>1, <2>2
  <1>8. ASSUME NEW c \in ToWash(v)', ~bin'[c] PROVE \E d \in CarsOf(v) : holdsSeat'[d] /\ seatKey'[d] = at'[c]
    <2>1. c \in CarsOf(v) /\ c \in Cars /\ Standing(c)'
      BY <1>2, <1>6, <1>8 DEF ToWash, Standing, Listed, Exists, SeatHolding
    <2>2. c \notin T /\ ~bin[c]
      BY <1>8, <2>1
    <2>3. PICK d \in CarsOf(v) : holdsSeat[d] /\ seatKey[d] = at[c]
      BY <1>6, <2>2 DEF SeatedOK
    <2>4. CASE d \notin R
      BY <1>4, <2>3, <2>4
    <2>5. CASE d \in R
      <3>1. c # d
        BY <1>2, <2>2, <2>5
      <3>2. ~holdsSeat[c]
        BY <1>2, <2>1, <2>3, <3>1 DEF OneSeatPerSlot, SeatedOK, CarsOf
      <3>3. c \in Heirs(d)
        BY <2>1, <2>3, <3>1, <3>2 DEF Heirs, CarsOf
      <3>. QED BY <1>1, <1>3, <2>3, <2>5, <3>3
    <2>. QED BY <2>4, <2>5
  <1>9. \A c \in CarsOf(v)' : holdsSeat'[c] => seatKey'[c] = at'[c]
    BY <1>2, <1>5
  <1>10. \A c \in ToWash(v)' : ~bin'[c] => \E d \in CarsOf(v)' : holdsSeat'[d] /\ seatKey'[d] = at'[c]
    BY <1>2, <1>8
  <1>11. First(ToWash(v)') = First(ToWash(v))'
    BY DEF First
  <1>. QED BY <1>7, <1>9, <1>10, <1>11 DEF SeatedOK

\* Nothing but visit v is touched.
Only(v) == \A w \in Visits \ {v} : Untouched(w)

LEMMA OnlyIf ==
  ASSUME NEW v \in Visits, \A c \in Cars \ CarsOf(v) : SameRow(c), \A w \in Visits \ {v} : SameCalls(w)
  PROVE  Only(v)
  BY OtherVisit DEF Only, Untouched

---------------------------------------------------------------------------
(* Creating.                                                               *)

LEMMA CreateFirstCalm ==
  ASSUME CalmInv, NEW v \in Visits, NEW s \in Slots, NEW h, CreateFirst(v, s, h) PROVE Calm(v)' /\ Only(v)
  <1>. DEFINE c == First(CarsOf(v))
  <1>1. /\ CarsOf(v) \subseteq Cars /\ CarsOf(v)' = CarsOf(v) /\ LedgerTypeOK /\ RowsOK /\ NoGhostHolder
        /\ BeginsOK(v) /\ TogetherOK(v)
    BY DEF CarsOf, CalmInv, LedgerInv, LedgerShape, Calm
  <1>2. c \in CarsOf(v) /\ c \in Cars
    BY <1>1, LedgerAssumption, FirstLeast DEF CarsOf
  <1>3. /\ making[v] = "no" /\ holdsSeat' = [holdsSeat EXCEPT ![c] = TRUE] /\ seatKey' = [seatKey EXCEPT ![c] = s]
        /\ status' = [status EXCEPT ![c] = "live"] /\ at' = [at EXCEPT ![c] = s]
        /\ making' = [making EXCEPT ![v] = "adding"] /\ wanted' = [wanted EXCEPT ![v] = s]
        /\ UNCHANGED <<bin, undoing, restoring, purging>>
    BY DEF CreateFirst, TakeSeat
  <1>4. First(CarsOf(v))' = c
    BY <1>1 DEF First
  <1>. HIDE DEF c
  <1>5. \A d \in CarsOf(v) : status[d] = "none" /\ ~holdsSeat[d] /\ ~bin[d] /\ seatKey[d] = NoSlot
    BY <1>1, <1>3 DEF RowsOK, Created, Uncreated, NoGhostHolder, Standing, Listed, Exists, BeginsOK
  <1>6. /\ status'[c] = "live" /\ at'[c] = s /\ holdsSeat'[c] /\ seatKey'[c] = s
        /\ \A d \in Cars \ {c} : SameRow(d)
        /\ making'[v] = "adding" /\ wanted'[v] = s /\ restoring'[v] = {} /\ purging'[v] = {}
    BY <1>1, <1>2, <1>3 DEF LedgerTypeOK, SameRow, BeginsOK
  <1>7. Only(v)
    <2>1. \A d \in Cars \ CarsOf(v) : SameRow(d)
      BY <1>2, <1>6
    <2>2. \A w \in Visits \ {v} : SameCalls(w)
      BY <1>1, <1>3 DEF LedgerTypeOK, SameCalls
    <2>. QED BY <2>1, <2>2, OnlyIf
  <1>8. Created(v)' = {c} /\ ToWash(v)' = {c}
    BY <1>1, <1>2, <1>5, <1>6 DEF Created, Uncreated, ToWash, SameRow
  <1>9. BeginsOK(v)'
    BY <1>1, <1>2, <1>3, <1>4, <1>5, <1>6, <1>8 DEF BeginsOK, SameRow
  <1>10. TogetherOK(v)'
    BY <1>1, <1>2, <1>3, <1>5, <1>6, <1>8 DEF TogetherOK, SameRow, SeatHolding
  <1>11. First(ToWash(v)') = c
    <2>1. \A d \in {c} : Offset[c] <= Offset[d]
      BY <1>2, LedgerAssumption
    <2>. QED BY <1>2, <1>8, <2>1, FirstIs
  <1>12. First(ToWash(v))' = c
    BY <1>11 DEF First
  <1>13. SeatedOK(v)'
    BY <1>1, <1>2, <1>5, <1>6, <1>8, <1>12 DEF SeatedOK, SameRow
  <1>. QED BY <1>7, <1>9, <1>10, <1>13 DEF Calm

LEMMA CreateNextCalm ==
  ASSUME CalmInv, NEW v \in Visits, CreateNext(v) PROVE Calm(v)' /\ Only(v)
  <1>. DEFINE c == First(Uncreated(v))
              f == First(CarsOf(v))
  <1>1. /\ CarsOf(v) \subseteq Cars /\ CarsOf(v)' = CarsOf(v) /\ LedgerTypeOK /\ RowsOK /\ NoGhostHolder
        /\ BeginsOK(v) /\ TogetherOK(v) /\ SeatedOK(v)
    BY DEF CarsOf, CalmInv, LedgerInv, LedgerShape, Calm
  <1>2. c \in CarsOf(v) /\ c \in Cars /\ status[c] = "none"
    BY <1>1, FirstIn DEF CreateNext, Uncreated, CarsOf
  <1>3. /\ making[v] = "adding" /\ status' = [status EXCEPT ![c] = "live"] /\ at' = [at EXCEPT ![c] = wanted[v]]
        /\ UNCHANGED <<bin, callVars>> /\ SeatsUnchanged
    BY DEF CreateNext
  <1>4. f \in Created(v) /\ holdsSeat[f] /\ \A d \in CarsOf(v) : Offset[f] <= Offset[d]
    BY <1>1, <1>3, <1>2, FirstLeast DEF BeginsOK, CarsOf
  <1>5. First(CarsOf(v))' = f
    BY <1>1 DEF First
  <1>. HIDE DEF c, f
  <1>6. /\ status'[c] = "live" /\ at'[c] = wanted[v]
        /\ bin' = bin /\ holdsSeat' = holdsSeat /\ seatKey' = seatKey
        /\ \A d \in Cars \ {c} : SameRow(d)
        /\ \A w \in Visits : SameCalls(w)
    BY <1>1, <1>2, <1>3 DEF LedgerTypeOK, SameRow, SameCalls, callVars, SeatsUnchanged, seatVars
  <1>7. Only(v)
    BY <1>2, <1>6, OnlyIf
  <1>8. Created(v)' = Created(v) \cup {c} /\ ToWash(v)' = ToWash(v) \cup {c} /\ ToWash(v) = Created(v)
    <2>1. \A d \in Created(v) : status[d] = "live" /\ d \in CarsOf(v)
      BY <1>1, <1>3 DEF BeginsOK, Created
    <2>. QED BY <1>1, <1>2, <1>6, <2>1 DEF Created, Uncreated, ToWash, SameRow
  <1>9. /\ \A d \in Created(v) : status[d] = "live" /\ at[d] = wanted[v] /\ seatKey[d] \in {NoSlot, wanted[v]}
        /\ seatKey[c] = NoSlot /\ c \notin Created(v) /\ f # c
        /\ \A d \in CarsOf(v) : ~bin[d]
    BY <1>1, <1>2, <1>3, <1>4 DEF BeginsOK, Created, Uncreated
  <1>10. BeginsOK(v)'
    BY <1>1, <1>2, <1>3, <1>4, <1>5, <1>6, <1>8, <1>9 DEF BeginsOK, SameRow, SameCalls, Created, Uncreated
  <1>11. TogetherOK(v)'
    <2>1. \A d, e \in ToWash(v)' : at'[d] = at'[e]
      BY <1>1, <1>2, <1>6, <1>8, <1>9 DEF SameRow, Created
    <2>2. restoring[v] = {} /\ purging[v] = {} /\ undoing[v] \subseteq CarsOf(v)
      BY <1>1, <1>3 DEF BeginsOK, TogetherOK
    <2>. QED BY <1>1, <1>6, <1>9, <2>1, <2>2 DEF TogetherOK, SameRow, SameCalls
  <1>12. First(ToWash(v)') = f /\ First(ToWash(v)) = f
    BY <1>1, <1>2, <1>4, <1>8, FirstIs DEF Created
  <1>13. First(ToWash(v))' = f
    BY <1>12 DEF First
  <1>14. SeatedOK(v)'
    <2>1. ~holdsSeat[c]
      BY <1>1, <1>2 DEF NoGhostHolder, Standing, Listed, Exists
    <2>2. \A d \in CarsOf(v) : holdsSeat[d] => seatKey[d] = at[d]
      BY <1>1 DEF SeatedOK
    <2>3. \A d \in CarsOf(v)' : holdsSeat'[d] => seatKey'[d] = at'[d]
      BY <1>1, <1>6, <2>1, <2>2 DEF SameRow
    <2>4. \A d \in ToWash(v)' : holdsSeat'[d] => d = f
      BY <1>1, <1>6, <1>8, <1>12, <2>1 DEF SeatedOK
    <2>5. f \in CarsOf(v) /\ holdsSeat'[f] /\ seatKey'[f] = wanted[v]
      BY <1>4, <1>6, <1>9, <2>2 DEF Created
    <2>6. \A d \in ToWash(v)' : at'[d] = wanted[v]
      BY <1>1, <1>6, <1>8, <1>9 DEF SameRow, Created
    <2>. QED BY <1>1, <1>13, <2>3, <2>4, <2>5, <2>6 DEF SeatedOK
  <1>. QED BY <1>7, <1>10, <1>11, <1>14 DEF Calm

\* A step about the calls of v only.
LEMMA CallsOnlyCalm ==
  ASSUME CalmInv, NEW v \in Visits, \A c \in Cars : SameRow(c), \A w \in Visits \ {v} : SameCalls(w),
         making'[v] \in {"no", "adding", "undoing"} =>
           restoring'[v] = {} /\ purging'[v] = {} /\ \A c \in CarsOf(v) : ~bin[c],
         making'[v] # "adding",
         restoring'[v] \in {{}, restoring[v]}, undoing'[v] \subseteq CarsOf(v),
         \A c \in purging'[v] : c \in CarsOf(v) /\ ~Listed(c)
  PROVE  Calm(v)' /\ Only(v)
  <1>1. /\ CarsOf(v) \subseteq Cars /\ CarsOf(v)' = CarsOf(v) /\ ToWash(v)' = ToWash(v) /\ Calm(v)
        /\ First(ToWash(v))' = First(ToWash(v))
    <2>1. CarsOf(v)' = CarsOf(v) /\ ToWash(v)' = ToWash(v)
      BY SameSets DEF SameRow, CarsOf
    <2>. QED BY <2>1 DEF CalmInv, CarsOf, First
  <1>2. BeginsOK(v)'
    BY <1>1 DEF Calm, BeginsOK, SameRow
  <1>3. TogetherOK(v)'
    BY <1>1 DEF Calm, TogetherOK, SameRow, ToWash, Listed, Exists
  <1>4. SeatedOK(v)'
    BY <1>1 DEF Calm, SeatedOK, SameRow, ToWash
  <1>5. Only(v)
    BY OnlyIf
  <1>. QED BY <1>2, <1>3, <1>4, <1>5 DEF Calm

LEMMA CallsCalm ==
  ASSUME CalmInv, NEW v \in Visits, CreateDone(v) \/ CreateFails(v) \/ CallKilled(v) \/ RestoreDone(v) \/ StartPurge(v)
  PROVE  Calm(v)' /\ Only(v)
  <1>1. /\ \A c \in Cars : SameRow(c)
        /\ LedgerTypeOK /\ BeginsOK(v) /\ TogetherOK(v)
        /\ Created(v) \subseteq CarsOf(v)
    BY DEF CreateDone, CreateFails, CallKilled, RestoreDone, StartPurge, SeatsUnchanged, rowVars, seatVars, SameRow,
           CalmInv, LedgerInv, LedgerShape, Calm, Created
  <1>2. CASE CreateDone(v) \/ CreateFails(v)
    <2>1. /\ \A w \in Visits \ {v} : SameCalls(w)
          /\ making[v] = "adding" /\ making'[v] \in {"over", "undoing"}
          /\ restoring' = restoring /\ purging' = purging /\ undoing'[v] \in {undoing[v], Created(v)}
      BY <1>1, <1>2 DEF CreateDone, CreateFails, StartUndo, LedgerTypeOK, SameCalls
    <2>2. restoring[v] = {} /\ purging[v] = {} /\ \A c \in CarsOf(v) : ~bin[c]
      BY <1>1, <2>1 DEF BeginsOK
    <2>. QED BY <1>1, <2>1, <2>2, CallsOnlyCalm DEF TogetherOK
  <1>3. CASE CallKilled(v)
    <2>1. /\ \A w \in Visits \ {v} : SameCalls(w)
          /\ making'[v] \in {"over", "no"} /\ (making'[v] = "no" => making[v] = "no")
          /\ restoring'[v] = {} /\ purging'[v] = {} /\ undoing'[v] = {}
      BY <1>1, <1>3 DEF CallKilled, LedgerTypeOK, SameCalls
    <2>2. making'[v] = "no" => \A c \in CarsOf(v) : ~bin[c]
      BY <1>1, <2>1 DEF BeginsOK
    <2>. QED BY <1>1, <2>1, <2>2, CallsOnlyCalm
  <1>4. CASE RestoreDone(v) \/ StartPurge(v)
    <2>1. /\ \A w \in Visits \ {v} : SameCalls(w)
          /\ making' = making /\ undoing' = undoing
          /\ restoring'[v] \in {{}, restoring[v]}
          /\ \A c \in purging'[v] : c \in purging[v] \/ (c \in CarsOf(v) /\ bin[c])
      BY <1>1, <1>4 DEF RestoreDone, StartPurge, LedgerTypeOK, SameCalls
    <2>2. making[v] \notin {"no", "adding", "undoing"}
      BY <1>1, <1>4 DEF RestoreDone, StartPurge, BeginsOK
    <2>. QED BY <1>1, <2>1, <2>2, CallsOnlyCalm DEF TogetherOK, Listed
  <1>. QED BY <1>2, <1>3, <1>4

LEMMA RollBackCalm ==
  ASSUME CalmInv, NEW v \in Visits, RollBack(v) PROVE Calm(v)' /\ Only(v)
  <1>. DEFINE c == Last(Created(v))
              f == First(CarsOf(v))
  <1>1. /\ CarsOf(v) \subseteq Cars /\ CarsOf(v)' = CarsOf(v) /\ LedgerTypeOK /\ RowsOK
        /\ BeginsOK(v) /\ TogetherOK(v) /\ SeatedOK(v) /\ making[v] = "adding"
        /\ Created(v) \subseteq CarsOf(v)
    BY DEF CarsOf, CalmInv, LedgerInv, LedgerShape, Calm, RollBack, Created
  <1>2. f \in Created(v) /\ c \in Created(v) /\ \A d \in Created(v) : Offset[f] <= Offset[d] /\ Offset[d] <= Offset[c]
    <2>1. Created(v) # {} /\ Created(v) \in SUBSET Cars /\ CarsOf(v) \in SUBSET Cars /\ CarsOf(v) # {}
      BY <1>1, LedgerAssumption DEF RowsOK
    <2>. QED BY <1>1, <2>1, FirstLeast, LastMost DEF BeginsOK
  <1>3. /\ status' = [status EXCEPT ![c] = "gone"] /\ holdsSeat' = [holdsSeat EXCEPT ![c] = FALSE]
        /\ StartUndo(v, Created(v) \ {c}) /\ UNCHANGED <<at, bin, seatKey>>
    BY DEF RollBack
  <1>. HIDE DEF c
  <1>4. /\ status'[c] = "gone" /\ ~holdsSeat'[c] /\ \A d \in Cars \ {c} : SameRow(d)
        /\ at' = at /\ bin' = bin /\ seatKey' = seatKey
        /\ \A w \in Visits \ {v} : SameCalls(w)
        /\ making'[v] \in {"over", "undoing"} /\ undoing'[v] = Created(v) \ {c}
        /\ restoring' = restoring /\ purging' = purging
    BY <1>1, <1>2, <1>3 DEF StartUndo, LedgerTypeOK, SameRow, SameCalls
  <1>5. Only(v)
    BY <1>1, <1>2, <1>4, OnlyIf
  <1>6. ToWash(v) = Created(v) /\ ToWash(v)' = Created(v) \ {c}
    <2>1. \A d \in Created(v) : status[d] = "live" /\ d \in CarsOf(v)
      BY <1>1 DEF BeginsOK
    <2>. QED BY <1>1, <1>2, <1>4, <2>1 DEF Created, Uncreated, ToWash, SameRow
  <1>7. /\ restoring[v] = {} /\ purging[v] = {} /\ \A d \in CarsOf(v) : ~bin[d]
        /\ \A d \in CarsOf(v) : status[d] = "none" => seatKey[d] = NoSlot
    BY <1>1 DEF BeginsOK
  <1>8. BeginsOK(v)'
    BY <1>1, <1>4, <1>7 DEF BeginsOK, SameRow
  <1>9. TogetherOK(v)'
    BY <1>1, <1>4, <1>6, <1>7 DEF TogetherOK
  <1>10. holdsSeat[c] => Created(v) = {c}
    <2>. SUFFICES ASSUME holdsSeat[c] PROVE Created(v) = {c}
      OBVIOUS
    <2>1. c = First(Created(v))
      BY <1>1, <1>2, <1>6 DEF SeatedOK
    <2>2. First(Created(v)) = f
      BY <1>1, <1>2, FirstIs
    <2>3. \A d \in Created(v) : Offset[d] = Offset[c]
      BY <1>1, <1>2, <2>1, <2>2, LedgerAssumption DEF CarsOf
    <2>. QED BY <1>1, <1>2, <2>3, LedgerAssumption DEF CarsOf
  <1>11. SeatedOK(v)'
    <2>1. CASE Created(v) = {c}
      BY <1>1, <1>4, <1>6, <2>1 DEF SeatedOK, SameRow
    <2>2. CASE ~holdsSeat[c] /\ Created(v) # {c}
      <3>1. \A d \in CarsOf(v) : (holdsSeat'[d] <=> holdsSeat[d]) /\ seatKey'[d] = seatKey[d]
        BY <1>1, <1>2, <1>4, <2>2 DEF SameRow
      <3>2. First(Created(v) \ {c}) = f /\ First(Created(v)) = f
        <4>1. f # c
          <5>1. f = c => \A d \in Created(v) : Offset[d] = Offset[c]
            BY <1>1, <1>2, LedgerAssumption DEF CarsOf
          <5>. QED BY <1>1, <1>2, <2>2, <5>1, LedgerAssumption DEF CarsOf
        <4>. QED BY <1>1, <1>2, <4>1, FirstIs
      <3>3. First(ToWash(v)') = f /\ First(ToWash(v)) = f
        BY <1>6, <3>2
      <3>4. First(ToWash(v))' = f
        BY <3>3 DEF First
      <3>. QED BY <1>1, <1>4, <1>6, <3>1, <3>3, <3>4 DEF SeatedOK
    <2>. QED BY <1>10, <2>1, <2>2
  <1>. QED BY <1>5, <1>8, <1>9, <1>11 DEF Calm

---------------------------------------------------------------------------
(* Cancelling, undoing, deleting.                                          *)

\* What a step that stops cars T and hands back their seats leaves elsewhere.
LEMMA ReleaseOnly ==
  ASSUME CalmInv, NEW v \in Visits, NEW T \in SUBSET CarsOf(v), Release(T),
         \A c \in Cars \ CarsOf(v) : <<status[c], at[c], bin[c]>>' = <<status[c], at[c], bin[c]>>,
         \A w \in Visits \ {v} : SameCalls(w)
  PROVE  Only(v)
  <1>. DEFINE R == HoldersOf(T)
              L == {}
              keys == NoKeys
              keepDay == FALSE
  <1>1. HandBack(R, L, keys, booked, daily, keepDay) /\ LedgerTypeOK /\ R \in SUBSET CarsOf(v) /\ L \in SUBSET CarsOf(v)
        /\ DOMAIN keys \subseteq CarsOf(v)
    BY DEF Release, HoldersOf, NoKeys, CalmInv, LedgerInv, LedgerShape
  <1>. HIDE DEF R, L, keys, keepDay
  <1>2. \A c \in Cars \ CarsOf(v) : holdsSeat'[c] = holdsSeat[c] /\ seatKey'[c] = seatKey[c]
    BY <1>1, HandBackElsewhere
  <1>3. \A c \in Cars \ CarsOf(v) : SameRow(c)
    BY <1>2 DEF SameRow
  <1>. QED BY <1>3, OnlyIf

\* Keys of cars not inserted are not written.
LEMMA HandBackKeys ==
  ASSUME LedgerTypeOK, NEW R \in SUBSET Cars, NEW L, NEW keys, NEW taken, NEW dayTaken, NEW keepDay,
         HandBack(R, L, keys, taken, dayTaken, keepDay),
         NEW c \in Cars \ DOMAIN keys, ~Standing(c)'
  PROVE  seatKey'[c] = seatKey[c]
  <1>1. PICK heir : HandBackTo(heir, R, L, keys, taken, dayTaken, keepDay)
    BY HandBackHasHeirs
  <1>2. \A r \in R : heir[r] # c
    BY <1>1, LedgerAssumption, HeirIs DEF HandBackTo
  <1>. QED BY <1>1, <1>2 DEF HandBackTo

LEMMA ReleaseKeys ==
  ASSUME CalmInv, NEW v \in Visits, NEW T \in SUBSET CarsOf(v), Release(T), BeginsOK(v),
         NEW c \in CarsOf(v), status[c] = "none", status'[c] = "none"
  PROVE  seatKey'[c] = NoSlot
  <1>. DEFINE R == HoldersOf(T)
              L == {}
              keys == NoKeys
              keepDay == FALSE
  <1>1. /\ HandBack(R, L, keys, booked, daily, keepDay) /\ LedgerTypeOK /\ R \in SUBSET Cars
        /\ c \in Cars \ DOMAIN keys /\ ~Standing(c)'
    BY DEF Release, HoldersOf, NoKeys, CalmInv, LedgerInv, LedgerShape, CarsOf, Standing, Listed, Exists
  <1>. HIDE DEF R, L, keys, keepDay
  <1>2. seatKey'[c] = seatKey[c]
    BY <1>1, HandBackKeys
  <1>. QED BY <1>2 DEF BeginsOK

LEMMA ReleaseCalm ==
  ASSUME CalmInv, NEW v \in Visits, NEW T \in SUBSET CarsOf(v), Release(T), HeirsInOrder(v),
         at' = at, \A c \in T : ~Standing(c)',
         \A c \in Cars \ T : status'[c] = status[c] /\ bin'[c] = bin[c],
         \A c \in T : status'[c] \in {"live", "headed"} => status[c] \in {"live", "headed"}
  PROVE  SeatedOK(v)'
  <1>1. HandBack(HoldersOf(T), {}, NoKeys, booked, daily, FALSE) /\ DOMAIN NoKeys = {}
    BY DEF Release, NoKeys
  <1>2. LedgerInv /\ SeatedOK(v)
    BY DEF CalmInv, Calm
  <1>3. \A c \in CarsOf(v) \ T : status'[c] = status[c] /\ bin'[c] = bin[c]
    BY DEF CarsOf
  <1>. QED BY <1>1, <1>2, <1>3, ReleaseSeated

\* Cars T of v are cancelled.
LEMMA CancelledCalm ==
  ASSUME CalmInv, NEW v \in Visits, NEW T \in SUBSET CarsOf(v), Release(T), HeirsInOrder(v), \A c \in T : Listed(c),
         UNCHANGED <<at, bin>>, status' = [c \in Cars |-> IF c \in T THEN "cancelled" ELSE status[c]],
         \A w \in Visits \ {v} : SameCalls(w), wanted'[v] = wanted[v],
         restoring'[v] = restoring[v], purging'[v] = purging[v], undoing'[v] \subseteq undoing[v],
         making'[v] # "adding",
         making'[v] \in {"no", "undoing"} => making[v] \in {"no", "undoing"}
  PROVE  Calm(v)' /\ Only(v)
  <1>1. /\ CarsOf(v) \subseteq Cars /\ CarsOf(v)' = CarsOf(v) /\ LedgerTypeOK
        /\ BeginsOK(v) /\ TogetherOK(v)
    BY DEF CarsOf, CalmInv, LedgerInv, LedgerShape, Calm
  <1>2. Only(v)
    <2>1. \A c \in Cars \ CarsOf(v) : <<status[c], at[c], bin[c]>>' = <<status[c], at[c], bin[c]>>
      OBVIOUS
    <2>. QED BY <2>1, ReleaseOnly
  <1>3. SeatedOK(v)'
    <2>1. \A c \in T : ~Standing(c)'
      BY <1>1 DEF Standing, SeatHolding
    <2>. QED BY <1>1, <2>1, ReleaseCalm
  <1>4. BeginsOK(v)'
    BY <1>1, ReleaseKeys DEF BeginsOK
  <1>5. ToWash(v)' \subseteq ToWash(v)
    BY <1>1 DEF ToWash
  <1>6. TogetherOK(v)'
    <2>1. \A c, d \in ToWash(v)' : at'[c] = at'[d]
      BY <1>1, <1>5 DEF TogetherOK
    <2>2. \A c \in CarsOf(v) : status'[c] \in SeatHolding => status[c] \in SeatHolding
      BY <1>1 DEF SeatHolding
    <2>3. \A c \in purging[v] : ~Listed(c)'
      BY <1>1 DEF TogetherOK, Listed, Exists
    <2>. QED BY <1>1, <2>1, <2>2, <2>3 DEF TogetherOK
  <1>. QED BY <1>2, <1>3, <1>4, <1>6 DEF Calm

LEMMA UndoCarCalm ==
  ASSUME CalmInv, NEW v \in Visits, UndoCar(v), HeirsInOrder(v) PROVE Calm(v)' /\ Only(v)
  <1>. DEFINE c == First(undoing[v])
  <1>1. /\ CarsOf(v) \subseteq Cars /\ LedgerTypeOK /\ RowsOK /\ undoing[v] \subseteq CarsOf(v) /\ making[v] = "undoing"
        /\ BeginsOK(v) /\ TogetherOK(v)
    BY DEF CarsOf, CalmInv, LedgerInv, LedgerShape, Calm, TogetherOK, UndoCar
  <1>2. c \in CarsOf(v) /\ c \in Cars
    BY <1>1, FirstIn DEF RowsOK
  <1>3. /\ \A w \in Visits \ {v} : SameCalls(w)
        /\ wanted' = wanted /\ restoring' = restoring /\ purging' = purging
        /\ undoing'[v] \subseteq undoing[v] /\ making'[v] \in {"over", "undoing"}
    BY <1>1 DEF UndoCar, StartUndo, LedgerTypeOK, SameCalls
  <1>4. CASE Open(c)
    <2>1. Release({c}) /\ UNCHANGED <<at, bin>> /\ status' = [status EXCEPT ![c] = "cancelled"]
      BY <1>4 DEF UndoCar
    <2>2. Listed(c)
      BY <1>4 DEF Open
    <2>. HIDE DEF c
    <2>3. /\ {c} \in SUBSET CarsOf(v) /\ \A d \in {c} : Listed(d)
          /\ status' = [d \in Cars |-> IF d \in {c} THEN "cancelled" ELSE status[d]]
      BY <1>1, <1>2, <2>1, <2>2 DEF LedgerTypeOK
    <2>. QED BY <1>1, <1>3, <2>1, <2>3, CancelledCalm
  <1>5. CASE ~Open(c)
    <2>1. UNCHANGED rowVars /\ SeatsUnchanged
      BY <1>5 DEF UndoCar
    <2>2. \A d \in Cars : SameRow(d)
      BY <2>1 DEF rowVars, SeatsUnchanged, seatVars, SameRow
    <2>3. restoring[v] = {} /\ purging[v] = {} /\ \A d \in CarsOf(v) : ~bin[d]
      BY <1>1 DEF BeginsOK
    <2>. QED BY <1>1, <1>3, <2>2, <2>3, CallsOnlyCalm
  <1>. QED BY <1>4, <1>5

---------------------------------------------------------------------------
(* Steps about a visit nobody is creating or undoing.                      *)

Settled(v) == making[v] \notin {"adding", "undoing"}

LEMMA CancelCarCalm ==
  ASSUME CalmInv, NEW c \in Cars, Settled(VisitOf[c]), CancelCar(c), HeirsInOrder(VisitOf[c])
  PROVE  Calm(VisitOf[c])' /\ Only(VisitOf[c])
  <1>. DEFINE v == VisitOf[c]
  <1>1. v \in Visits /\ {c} \in SUBSET CarsOf(v) /\ LedgerTypeOK
    BY LedgerAssumption DEF CarsOf, CalmInv, LedgerInv, LedgerShape
  <1>2. /\ Release({c}) /\ UNCHANGED <<at, bin, callVars>> /\ Listed(c) /\ HeirsInOrder(v) /\ Settled(v)
        /\ status' = [status EXCEPT ![c] = "cancelled"]
    BY DEF CancelCar, Open
  <1>. HIDE DEF v
  <1>3. /\ status' = [d \in Cars |-> IF d \in {c} THEN "cancelled" ELSE status[d]]
        /\ \A d \in {c} : Listed(d)
    BY <1>1, <1>2 DEF LedgerTypeOK
  <1>4. /\ \A w \in Visits \ {v} : SameCalls(w)
        /\ wanted' = wanted /\ restoring' = restoring /\ purging' = purging /\ undoing' = undoing /\ making' = making
    BY <1>2 DEF callVars, SameCalls
  <1>5. Calm(v)' /\ Only(v)
    BY <1>1, <1>2, <1>3, <1>4, CancelledCalm DEF Settled
  <1>6. v = VisitOf[c]
    BY DEF v
  <1>. QED BY <1>5, <1>6 DEF v

LEMMA CancelVisitCalm ==
  ASSUME CalmInv, NEW v \in Visits, Settled(v), NEW T \in SUBSET CarsOf(v), CancelVisit(v, T), HeirsInOrder(v)
  PROVE  Calm(v)' /\ Only(v)
  <1>1. /\ Release(T) /\ UNCHANGED <<at, bin, callVars>> /\ \A c \in T : Listed(c)
        /\ status' = [c \in Cars |-> IF c \in T THEN "cancelled" ELSE status[c]]
    BY DEF CancelVisit, Open
  <1>2. /\ \A w \in Visits \ {v} : SameCalls(w)
        /\ wanted' = wanted /\ restoring' = restoring /\ purging' = purging /\ undoing' = undoing /\ making' = making
    BY <1>1 DEF callVars, SameCalls
  <1>. QED BY <1>1, <1>2, CancelledCalm DEF Settled

LEMMA AdvanceCalm ==
  ASSUME CalmInv, NEW c \in Cars, Settled(VisitOf[c]), SetOff(c) \/ StandDown(c) \/ FinishJob(c) \/ MarkDone(c)
  PROVE  Calm(VisitOf[c])' /\ Only(VisitOf[c])
  <1>. DEFINE v == VisitOf[c]
  <1>1. v \in Visits /\ c \in CarsOf(v) /\ LedgerTypeOK /\ BeginsOK(v) /\ TogetherOK(v) /\ SeatedOK(v) /\ Settled(v)
    BY LedgerAssumption DEF CarsOf, CalmInv, LedgerInv, LedgerShape, Calm
  <1>2. CarsOf(v)' = CarsOf(v) /\ CarsOf(v) \subseteq Cars
    BY DEF CarsOf
  <1>3. PICK from \in {"live", "headed"}, to \in SeatHolding : Advance(c, from, to)
    BY DEF SetOff, StandDown, FinishJob, MarkDone, SeatHolding
  <1>4. /\ Listed(c) /\ status[c] \in {"live", "headed"} /\ status' = [status EXCEPT ![c] = to]
        /\ UNCHANGED <<at, bin, callVars>> /\ SeatsUnchanged
    BY <1>3 DEF Advance
  <1>. HIDE DEF v
  <1>5. /\ status'[c] = to /\ \A d \in Cars \ {c} : SameRow(d)
        /\ at' = at /\ bin' = bin /\ holdsSeat' = holdsSeat /\ seatKey' = seatKey
        /\ \A w \in Visits : SameCalls(w)
    BY <1>1, <1>4 DEF LedgerTypeOK, SameRow, SameCalls, callVars, SeatsUnchanged, seatVars
  <1>6. Only(v)
    BY <1>1, <1>5, OnlyIf
  <1>7. ToWash(v)' \subseteq ToWash(v) /\ ToWash(v) \subseteq CarsOf(v)
    BY <1>1, <1>2, <1>4, <1>5 DEF ToWash, SameRow
  <1>8. BeginsOK(v)'
    BY <1>1, <1>2, <1>3, <1>5 DEF BeginsOK, SameRow, SameCalls, Settled, SeatHolding
  <1>9. TogetherOK(v)'
    <2>1. \A d, e \in ToWash(v)' : at'[d] = at'[e]
      BY <1>1, <1>5, <1>7 DEF TogetherOK
    <2>2. \A d \in CarsOf(v) : status'[d] \in SeatHolding => status[d] \in SeatHolding
      BY <1>2, <1>4, <1>5 DEF SeatHolding, SameRow
    <2>3. \A d \in purging[v] : ~Listed(d)'
      <3>1. \A d \in purging[v] : d # c /\ d \in Cars /\ ~Listed(d)
        BY <1>1, <1>2, <1>4 DEF TogetherOK
      <3>. QED BY <1>5, <3>1 DEF Listed, Exists, SameRow
    <2>. QED BY <1>1, <1>2, <1>5, <2>1, <2>2, <2>3 DEF TogetherOK, SameCalls
  <1>10. SeatedOK(v)'
    <2>1. ASSUME NEW d \in ToWash(v)', holdsSeat'[d] PROVE d = First(ToWash(v)')
      <3>1. d = First(ToWash(v))
        BY <1>1, <1>5, <1>7, <2>1 DEF SeatedOK
      <3>. QED BY <1>1, <1>7, <3>1, FirstOfRest
    <2>2. First(ToWash(v))' = First(ToWash(v)')
      BY DEF First
    <2>3. \A d \in ToWash(v)' : ~bin'[d] => \E e \in CarsOf(v) : holdsSeat'[e] /\ seatKey'[e] = at'[d]
      BY <1>1, <1>5, <1>7 DEF SeatedOK
    <2>4. \A d \in CarsOf(v)' : holdsSeat'[d] => seatKey'[d] = at'[d]
      BY <1>1, <1>2, <1>5 DEF SeatedOK
    <2>. QED BY <1>2, <2>1, <2>2, <2>3, <2>4 DEF SeatedOK
  <1>11. Calm(v)' /\ Only(v)
    BY <1>6, <1>8, <1>9, <1>10 DEF Calm
  <1>. QED BY <1>11 DEF v

LEMMA DeleteVisitCalm ==
  ASSUME CalmInv, NEW c \in Cars, Settled(VisitOf[c]), NEW late \in SUBSET (Arriving(VisitOf[c]) \ {c}),
         DeleteVisit(c, late), HeirsInOrder(VisitOf[c])
  PROVE  Calm(VisitOf[c])' /\ Only(VisitOf[c])
  <1>. DEFINE v == VisitOf[c]
              T == OnVisit(v) \cup {c}
  <1>1. /\ v \in Visits /\ c \in CarsOf(v) /\ LedgerTypeOK /\ RowsOK /\ NoGhostHolder
        /\ BeginsOK(v) /\ TogetherOK(v) /\ Settled(v) /\ HeirsInOrder(v)
        /\ CarsOf(v)' = CarsOf(v) /\ CarsOf(v) \subseteq Cars
    BY LedgerAssumption DEF CarsOf, CalmInv, LedgerInv, LedgerShape, Calm
  <1>2. late = {}
    BY DEF Settled, Arriving
  <1>3. /\ Listed(c) /\ bin' = [x \in Cars |-> bin[x] \/ x \in T] /\ UNCHANGED <<status, at, callVars>> /\ Release(T)
    BY <1>2 DEF DeleteVisit
  <1>4. T \in SUBSET CarsOf(v) /\ \A d \in CarsOf(v) : (Listed(d) /\ status[d] # "cancelled") => d \in T
    BY <1>1 DEF OnVisit
  <1>5. v = VisitOf[c]
    OBVIOUS
  <1>. HIDE DEF v, T
  <1>6. /\ \A w \in Visits : SameCalls(w)
        /\ wanted' = wanted /\ restoring' = restoring /\ purging' = purging /\ undoing' = undoing /\ making' = making
    BY <1>3 DEF callVars, SameCalls
  <1>7. making[v] = "over"
    <2>1. making[v] # "no"
      BY <1>1, <1>3 DEF RowsOK, Created, Uncreated, Listed, Exists
    <2>. QED BY <1>1, <2>1 DEF LedgerTypeOK, Settled
  <1>8. Only(v)
    <2>1. \A d \in Cars \ CarsOf(v) : <<status[d], at[d], bin[d]>>' = <<status[d], at[d], bin[d]>>
      BY <1>3, <1>4 DEF LedgerShape, LedgerTypeOK, CalmInv, LedgerInv
    <2>. QED BY <1>1, <1>3, <1>4, <1>6, <2>1, ReleaseOnly
  <1>9. SeatedOK(v)'
    <2>1. \A d \in T : ~Standing(d)'
      BY <1>1, <1>3, <1>4 DEF Standing, Listed
    <2>2. \A d \in Cars \ T : status'[d] = status[d] /\ bin'[d] = bin[d]
      BY <1>1, <1>3 DEF LedgerTypeOK
    <2>3. \A d \in T : status'[d] \in {"live", "headed"} => status[d] \in {"live", "headed"}
      BY <1>3
    <2>. QED BY <1>1, <1>3, <1>4, <2>1, <2>2, <2>3, ReleaseCalm
  <1>10. BeginsOK(v)'
    BY <1>1, <1>3, <1>4, <1>6, <1>7, ReleaseKeys DEF BeginsOK
  <1>11. TogetherOK(v)'
    <2>1. ToWash(v)' = ToWash(v) /\ ToWash(v) \subseteq CarsOf(v)
      BY <1>1, <1>3 DEF ToWash
    <2>2. \A d \in CarsOf(v) : status[d] \in SeatHolding => bin'[d]
      BY <1>1, <1>3, <1>4 DEF SeatHolding, Listed, Exists
    <2>3. \A d \in Cars : bin[d] => bin'[d]
      BY <1>3
    <2>. QED BY <1>1, <1>3, <1>6, <2>1, <2>2, <2>3 DEF TogetherOK, Listed, Exists
  <1>12. Calm(v)' /\ Only(v)
    BY <1>8, <1>9, <1>10, <1>11 DEF Calm
  <1>. QED BY <1>5, <1>12 DEF v

LEMMA RestoreCalm ==
  ASSUME CalmInv, NEW v \in Visits, Settled(v), Restore(v), PurgesAlone(v), DecidesOnFreshKey(v)
  PROVE  Calm(v)' /\ Only(v)
  <1>. DEFINE back == {c \in CarsOf(v) : Exists(c) /\ bin[c]}
              open == {c \in back : status[c] \in {"live", "headed"}}
              lead == First(open)
              key == SeatKeyOf(lead)
              owned == \E c \in CarsOf(v) : Listed(c) /\ holdsSeat[c] /\ seatKey[c] = key
  <1>1. /\ CarsOf(v) \subseteq Cars /\ CarsOf(v)' = CarsOf(v) /\ LedgerTypeOK /\ RowsOK /\ NoGhostHolder
        /\ BeginsOK(v) /\ TogetherOK(v) /\ SeatedOK(v)
    BY DEF CarsOf, CalmInv, LedgerInv, LedgerShape, Calm
  <1>2. /\ bin' = [c \in Cars |-> bin[c] /\ c \notin back] /\ restoring' = [restoring EXCEPT ![v] = back]
        /\ UNCHANGED <<status, at, making, wanted, undoing, purging>>
        /\ back # {} /\ back \subseteq CarsOf(v)
    BY DEF Restore
  <1>3. making[v] = "over" /\ purging[v] = {}
    <2>1. making[v] # "no"
      BY <1>1, <1>2 DEF BeginsOK
    <2>. QED BY <1>1, <2>1 DEF LedgerTypeOK, Settled, PurgesAlone
  <1>4. /\ \A w \in Visits \ {v} : SameCalls(w)
        /\ restoring'[v] = back /\ ToWash(v)' = ToWash(v) /\ ToWash(v) \subseteq CarsOf(v)
        /\ \A c \in Cars \ CarsOf(v) : <<status[c], at[c], bin[c]>>' = <<status[c], at[c], bin[c]>>
    BY <1>1, <1>2 DEF LedgerTypeOK, SameCalls, ToWash
  <1>5. ASSUME NEW c \in CarsOf(v), status[c] \in SeatHolding, bin[c]
        PROVE  \A d \in CarsOf(v) : status[d] \in SeatHolding => d \in back /\ ~holdsSeat[d]
    <2>1. \A d \in CarsOf(v) : status[d] \in SeatHolding => bin[d] /\ Exists(d)
      BY <1>1, <1>5 DEF TogetherOK, Exists, SeatHolding
    <2>. QED BY <1>1, <2>1 DEF NoGhostHolder, Standing, Listed
  <1>6. /\ \A c \in CarsOf(v) : status[c] \in SeatHolding => ~bin'[c]
        /\ \A c, d \in CarsOf(v) : (status[c] \in SeatHolding /\ status[d] \in SeatHolding /\ c \in back) => d \in back
    <2>1. \A c \in CarsOf(v) : status[c] \in SeatHolding => Exists(c)
      BY DEF SeatHolding, Exists
    <2>2. \A c \in CarsOf(v) : status[c] \in SeatHolding => ~bin'[c]
      BY <1>1, <1>2, <2>1
    <2>. QED BY <1>5, <2>2
  <1>. DEFINE first == First(ToWash(v))
  <1>7. First(ToWash(v))' = first
    <2>1. First(ToWash(v)') = first
      BY <1>4
    <2>. QED BY <2>1 DEF First
  <1>8. TogetherOK(v)'
    <2>1. \A c, d \in ToWash(v)' : at'[c] = at'[d]
      BY <1>1, <1>2, <1>4 DEF TogetherOK
    <2>. HIDE DEF back
    <2>. QED BY <1>1, <1>2, <1>3, <1>4, <1>6, <2>1 DEF TogetherOK
  <1>9. ASSUME \A c \in CarsOf(v) : status[c] = "none" => seatKey'[c] = seatKey[c] PROVE BeginsOK(v)'
    BY <1>1, <1>2, <1>3, <1>9 DEF BeginsOK
  <1>10. CASE open = {} \/ owned
    <2>1. holdsSeat' = holdsSeat /\ seatKey' = seatKey
      BY <1>10 DEF Restore, SeatsUnchanged, seatVars
    <2>2. open = {}
      <3>. SUFFICES ASSUME owned, open # {} PROVE FALSE
        BY <1>10
      <3>1. PICK c \in CarsOf(v) : Listed(c) /\ holdsSeat[c]
        OBVIOUS
      <3>2. PICK d \in open : TRUE
        OBVIOUS
      <3>. QED BY <1>1, <1>5, <3>1, <3>2 DEF NoGhostHolder, Standing, SeatHolding
    <2>3. \A c \in ToWash(v) : c \notin back
      BY <2>2 DEF ToWash
    <2>4. \A c \in ToWash(v) : ~bin[c]
      BY <1>1, <1>2, <2>3 DEF ToWash, Exists
    <2>. HIDE DEF back, open, owned
    <2>5. SeatedOK(v)'
      BY <1>1, <1>2, <1>4, <1>7, <2>1, <2>4 DEF SeatedOK
    <2>6. Only(v)
      <3>1. \A c \in Cars \ CarsOf(v) : SameRow(c)
        BY <1>4, <2>1 DEF SameRow
      <3>. QED BY <1>4, <3>1, OnlyIf
    <2>. QED BY <1>8, <1>9, <2>1, <2>5, <2>6 DEF Calm
  <1>11. CASE open # {} /\ ~owned
    <2>1. holdsSeat' = [holdsSeat EXCEPT ![lead] = TRUE] /\ seatKey' = [seatKey EXCEPT ![lead] = key]
      BY <1>11 DEF Restore, TakeSeat
    <2>2. \A d \in CarsOf(v) : status[d] \in SeatHolding => d \in back /\ ~holdsSeat[d]
      BY <1>5, <1>11 DEF SeatHolding
    <2>3. open = ToWash(v)
      BY <2>2 DEF ToWash, SeatHolding
    <2>4. lead = first /\ lead \in ToWash(v) /\ lead \in CarsOf(v) /\ lead \in Cars
      BY <1>1, <1>4, <1>11, <2>3, FirstLeast
    <2>5. key = at[lead]
      <3>1. seatKey[first] \in {NoSlot, at[first]}
        BY <2>4 DEF DecidesOnFreshKey
      <3>. QED BY <2>4, <3>1 DEF SeatKeyOf
    <2>. HIDE DEF back, open, owned, lead, key
    <2>6. /\ holdsSeat'[lead] /\ seatKey'[lead] = at[lead]
          /\ \A c \in CarsOf(v) : c # lead => ~holdsSeat'[c] /\ seatKey'[c] = seatKey[c]
      <3>1. \A c \in CarsOf(v) : ~holdsSeat[c]
        BY <1>1, <2>2 DEF NoGhostHolder, Standing
      <3>. QED BY <1>1, <2>1, <2>4, <2>5, <3>1 DEF LedgerTypeOK
    <2>7. SeatedOK(v)'
      <3>1. \A c \in ToWash(v) : at'[c] = at[lead]
        BY <1>1, <1>2, <2>4 DEF TogetherOK
      <3>2. at' = at
        BY <1>2
      <3>. QED BY <1>1, <1>4, <1>7, <2>4, <2>6, <3>1, <3>2 DEF SeatedOK
    <2>8. Only(v)
      <3>1. \A c \in Cars \ CarsOf(v) : SameRow(c)
        BY <1>1, <1>4, <2>1, <2>4 DEF SameRow, LedgerTypeOK
      <3>. QED BY <1>4, <3>1, OnlyIf
    <2>9. \A c \in CarsOf(v) : status[c] = "none" => seatKey'[c] = seatKey[c]
      BY <2>4, <2>6 DEF ToWash
    <2>. QED BY <1>8, <1>9, <2>7, <2>8, <2>9 DEF Calm
  <1>. QED BY <1>10, <1>11

LEMMA ReturnToBinCalm ==
  ASSUME CalmInv, LedgerInv', NEW v \in Visits, Settled(v), ReturnToBin(v) PROVE Calm(v)' /\ Only(v)
  <1>. DEFINE T == {c \in restoring[v] : Exists(c) /\ ~bin[c]}
              R == HoldersOf(T)
              L == {}
              keepDay == FALSE
  <1>1. /\ CarsOf(v) \subseteq Cars /\ CarsOf(v)' = CarsOf(v) /\ LedgerTypeOK /\ RowsOK /\ NoGhostHolder
        /\ BeginsOK(v) /\ TogetherOK(v) /\ SeatedOK(v) /\ NoGhostHolder'
    BY DEF CarsOf, CalmInv, LedgerInv, LedgerShape, Calm
  <1>2. /\ bin' = [c \in Cars |-> bin[c] \/ c \in T] /\ restoring' = [restoring EXCEPT ![v] = {}]
        /\ UNCHANGED <<status, at, making, wanted, undoing, purging>>
        /\ restoring[v] # {}
    BY DEF ReturnToBin
  <1>3. T \in SUBSET CarsOf(v) /\ R \in SUBSET CarsOf(v) /\ R \in SUBSET Cars /\ \A c \in R : c \in T /\ holdsSeat[c]
    BY <1>1 DEF RowsOK, HoldersOf
  <1>4. making[v] = "over"
    <2>1. making[v] # "no"
      BY <1>1, <1>2 DEF BeginsOK
    <2>. QED BY <1>1, <2>1 DEF LedgerTypeOK, Settled
  <1>5. PICK passed \in SUBSET {c \in T : /\ status[c] \in SeatHolding /\ ~holdsSeat[c]
                                          /\ \E d \in HoldersOf(T) : seatKey[d] = at[c]} :
          HandBack(HoldersOf(T), {}, [c \in passed |-> at[c]], booked, daily, FALSE)
    BY DEF ReturnToBin
  <1>. DEFINE keys == [c \in passed |-> at[c]]
  <1>6. /\ HandBack(R, L, keys, booked, daily, keepDay) /\ L \in SUBSET CarsOf(v)
        /\ DOMAIN keys = passed /\ passed \subseteq T
    BY <1>5
  <1>7. \A c \in passed : status[c] \in SeatHolding /\ R # {}
    BY <1>5
  <1>. HIDE DEF R, L, keepDay, keys
  <1>8. /\ \A w \in Visits \ {v} : SameCalls(w)
        /\ restoring'[v] = {} /\ ToWash(v)' = ToWash(v) /\ ToWash(v) \subseteq CarsOf(v)
        /\ \A c \in Cars \ CarsOf(v) : <<status[c], at[c], bin[c]>>' = <<status[c], at[c], bin[c]>>
    <2>. HIDE DEF T
    <2>. QED BY <1>1, <1>2, <1>3 DEF LedgerTypeOK, SameCalls, ToWash
  <1>9. Only(v)
    <2>1. \A c \in Cars \ CarsOf(v) : holdsSeat'[c] = holdsSeat[c] /\ seatKey'[c] = seatKey[c]
      BY <1>1, <1>3, <1>6, HandBackElsewhere
    <2>2. \A c \in Cars \ CarsOf(v) : SameRow(c)
      BY <1>8, <2>1 DEF SameRow
    <2>. QED BY <1>8, <2>2, OnlyIf
  <1>10. BeginsOK(v)'
    <2>1. ASSUME NEW c \in CarsOf(v), status[c] = "none" PROVE seatKey'[c] = NoSlot
      <3>1. c \in Cars \ DOMAIN keys /\ ~Standing(c)'
        BY <1>1, <1>2, <1>6, <1>7, <2>1 DEF Standing, Listed, Exists, SeatHolding
      <3>2. seatKey'[c] = seatKey[c]
        BY <1>1, <1>3, <1>6, <3>1, HandBackKeys
      <3>. QED BY <1>1, <2>1, <3>2 DEF BeginsOK
    <2>. QED BY <1>1, <1>2, <1>4, <2>1 DEF BeginsOK
  <1>11. First(ToWash(v))' = First(ToWash(v)')
    BY DEF First
  <1>12. CASE \E c \in T : status[c] \in SeatHolding
    <2>1. \A d \in CarsOf(v) : status[d] \in SeatHolding => bin'[d]
      <3>1. PICK c \in T : status[c] \in SeatHolding
        BY <1>12
      <3>2. \A d \in CarsOf(v) : status[d] \in SeatHolding => d \in restoring[v] /\ Exists(d)
        BY <1>1, <1>3, <3>1 DEF TogetherOK, Exists, SeatHolding
      <3>. QED BY <1>1, <1>2, <3>2
    <2>. HIDE DEF T
    <2>2. \A d \in CarsOf(v) : ~holdsSeat'[d]
      BY <1>1, <1>2, <2>1 DEF NoGhostHolder, Standing, Listed
    <2>3. SeatedOK(v)'
      <3>1. \A d \in ToWash(v) : bin'[d]
        BY <1>8, <2>1 DEF ToWash, SeatHolding
      <3>. QED BY <1>1, <1>8, <2>2, <3>1 DEF SeatedOK
    <2>4. TogetherOK(v)'
      <3>1. \A c, d \in ToWash(v)' : at'[c] = at'[d]
        BY <1>1, <1>2, <1>8 DEF TogetherOK
      <3>2. \A c \in purging[v] : ~Listed(c)'
        BY <1>1, <1>2 DEF TogetherOK, Listed, Exists
      <3>. QED BY <1>1, <1>2, <1>8, <2>1, <3>1, <3>2 DEF TogetherOK
    <2>. QED BY <1>9, <1>10, <2>3, <2>4 DEF Calm
  <1>13. CASE ~\E c \in T : status[c] \in SeatHolding
    <2>1. R = {} /\ passed = {}
      BY <1>1, <1>3, <1>6, <1>7, <1>13 DEF NoGhostHolder, Standing
    <2>2. \A c \in CarsOf(v) : (holdsSeat'[c] <=> holdsSeat[c]) /\ seatKey'[c] = seatKey[c]
      <3>1. PICK heir : HandBackTo(heir, R, L, keys, booked, daily, keepDay)
        BY <1>6, HandBackHasHeirs
      <3>. QED BY <1>1, <1>6, <2>1, <3>1 DEF HandBackTo, L
    <2>3. \A d \in CarsOf(v) : status[d] \in SeatHolding => (bin'[d] <=> bin[d])
      BY <1>1, <1>2, <1>13
    <2>. HIDE DEF T
    <2>4. SeatedOK(v)'
      <3>1. \A d \in ToWash(v) : bin'[d] <=> bin[d]
        BY <1>8, <2>3 DEF ToWash, SeatHolding
      <3>2. First(ToWash(v))' = First(ToWash(v))
        BY <1>8, <1>11
      <3>. QED BY <1>1, <1>2, <1>8, <2>2, <3>1, <3>2 DEF SeatedOK
    <2>5. TogetherOK(v)'
      <3>1. \A c, d \in ToWash(v)' : at'[c] = at'[d]
        BY <1>1, <1>2, <1>8 DEF TogetherOK
      <3>2. \A c \in purging[v] : ~Listed(c)'
        BY <1>1, <1>2 DEF TogetherOK, Listed, Exists
      <3>. QED BY <1>1, <1>2, <1>8, <2>3, <3>1, <3>2 DEF TogetherOK
    <2>. QED BY <1>9, <1>10, <2>4, <2>5 DEF Calm
  <1>. QED BY <1>12, <1>13

LEMMA PurgeCarCalm ==
  ASSUME CalmInv, NEW v \in Visits, Settled(v), PurgeCar(v) PROVE Calm(v)' /\ Only(v)
  <1>. DEFINE c == First(purging[v])
  <1>1. /\ CarsOf(v) \subseteq Cars /\ CarsOf(v)' = CarsOf(v) /\ LedgerTypeOK /\ RowsOK /\ NoGhostHolder
        /\ BeginsOK(v) /\ TogetherOK(v) /\ SeatedOK(v) /\ purging[v] # {}
    BY DEF CarsOf, CalmInv, LedgerInv, LedgerShape, Calm, PurgeCar
  <1>2. c \in purging[v] /\ c \in CarsOf(v) /\ ~holdsSeat[c]
    <2>1. c \in purging[v]
      BY <1>1, FirstIn DEF TogetherOK
    <2>. QED BY <1>1, <2>1 DEF TogetherOK, NoGhostHolder, Standing
  <1>3. /\ purging' = [purging EXCEPT ![v] = @ \ {c}] /\ status' = [status EXCEPT ![c] = "gone"]
        /\ holdsSeat' = [holdsSeat EXCEPT ![c] = FALSE]
        /\ UNCHANGED <<at, bin, making, wanted, undoing, restoring, seatKey>>
    BY DEF PurgeCar
  <1>. HIDE DEF c
  <1>4. making[v] = "over"
    <2>1. making[v] # "no"
      BY <1>1 DEF BeginsOK
    <2>. QED BY <1>1, <2>1 DEF LedgerTypeOK, Settled
  <1>5. /\ status'[c] = "gone" /\ \A d \in Cars \ {c} : SameRow(d)
        /\ holdsSeat' = holdsSeat /\ seatKey' = seatKey /\ at' = at /\ bin' = bin
        /\ purging'[v] = purging[v] \ {c}
        /\ \A w \in Visits \ {v} : SameCalls(w)
    BY <1>1, <1>2, <1>3 DEF LedgerTypeOK, SameRow, SameCalls
  <1>6. Only(v)
    BY <1>1, <1>2, <1>5, OnlyIf
  <1>7. /\ ToWash(v)' \subseteq ToWash(v) /\ ToWash(v) \subseteq CarsOf(v)
        /\ \A d \in CarsOf(v) : status'[d] # "gone" => status'[d] = status[d]
    BY <1>1, <1>2, <1>5 DEF ToWash, SameRow
  <1>8. BeginsOK(v)'
    BY <1>1, <1>3, <1>4, <1>5, <1>7 DEF BeginsOK
  <1>9. TogetherOK(v)'
    <2>1. \A d, e \in ToWash(v)' : at'[d] = at'[e]
      BY <1>1, <1>5, <1>7 DEF TogetherOK
    <2>2. \A d \in CarsOf(v) : status'[d] \in SeatHolding => status[d] \in SeatHolding
      BY <1>7 DEF SeatHolding
    <2>3. \A d \in purging'[v] : ~Listed(d)'
      BY <1>1, <1>5, <1>7 DEF TogetherOK, Listed, Exists
    <2>. QED BY <1>1, <1>3, <1>5, <2>1, <2>2, <2>3 DEF TogetherOK
  <1>10. SeatedOK(v)'
    <2>1. ASSUME NEW d \in ToWash(v)', holdsSeat'[d] PROVE d = First(ToWash(v)')
      <3>1. d = First(ToWash(v))
        BY <1>1, <1>5, <1>7, <2>1 DEF SeatedOK
      <3>. QED BY <1>1, <1>7, <2>1, <3>1, FirstOfRest
    <2>2. First(ToWash(v))' = First(ToWash(v)')
      BY DEF First
    <2>3. \A d \in ToWash(v)' : ~bin'[d] => \E e \in CarsOf(v) : holdsSeat'[e] /\ seatKey'[e] = at'[d]
      BY <1>1, <1>5, <1>7 DEF SeatedOK
    <2>. QED BY <1>1, <1>5, <2>1, <2>2, <2>3 DEF SeatedOK
  <1>. QED BY <1>6, <1>8, <1>9, <1>10 DEF Calm

Movers(v, late) == {c \in OnVisit(v) \ late : status[c] # "done"}

LEMMA MoversAre ==
  ASSUME LedgerTypeOK, NEW v \in Visits, NEW late, Movers(v, late) # {}
  PROVE  /\ Movers(v, late) \subseteq ToWash(v) /\ \A c \in Movers(v, late) : ~bin[c]
         /\ First(Movers(v, late)) \in Movers(v, late)
  <1>1. Movers(v, late) \subseteq ToWash(v) /\ \A c \in Movers(v, late) : ~bin[c]
    <2>1. CarsOf(v) \subseteq Cars
      BY DEF CarsOf
    <2>. QED BY <2>1 DEF Movers, OnVisit, ToWash, Listed, Exists, LedgerTypeOK, Statuses
  <1>2. Movers(v, late) \in SUBSET Cars
    BY <1>1 DEF ToWash, CarsOf
  <1>. QED BY <1>1, <1>2, FirstLeast

\* Unless a car has just been inserted, all cars to wash move.
LEMMA MoversAreAll ==
  ASSUME LedgerTypeOK, NEW v \in Visits, TogetherOK(v), making[v] # "adding", NEW late \in SUBSET Arriving(v),
         Movers(v, late) # {}
  PROVE  Movers(v, late) = ToWash(v)
  <1>1. late = {}
    BY DEF Arriving
  <1>2. PICK c \in Movers(v, late) : TRUE
    OBVIOUS
  <1>3. c \in ToWash(v) /\ ~bin[c]
    BY MoversAre
  <1>4. \A d \in ToWash(v) : ~bin[d]
    BY <1>3 DEF TogetherOK, ToWash, SeatHolding
  <1>5. ToWash(v) \subseteq Movers(v, late)
    BY <1>1, <1>4 DEF Movers, OnVisit, ToWash, Listed, Exists
  <1>. QED BY <1>5, MoversAre

LEMMA MoveVisitIs ==
  ASSUME NEW v, NEW s, NEW late, MoveVisit(v, s, late)
  PROVE  LET cars == OnVisit(v)
             lead == First(Movers(v, late))
             holders == {c \in cars : holdsSeat[c]}
             holder == First(holders)
             oldDay == DayOf(SeatKeyOf(lead))
             holderMoves == holders # {} /\ holder \in Movers(v, late)
             keepDay == oldDay = DayOf(s) /\ holderMoves /\ cars = Movers(v, late)
         IN
         /\ Movers(v, late) # {}
         /\ at' = [c \in Cars |-> IF c \in Movers(v, late) THEN s ELSE at[c]]
         /\ UNCHANGED <<status, bin, callVars>>
         /\ IF SameSlot(lead, s)
              THEN SeatsUnchanged
              ELSE /\ Reserve(s, NoHolder)
                   /\ keepDay \/ DayHasRoom(DayOf(s))
                   /\ HandBack(IF holderMoves THEN {holder} ELSE {}, {lead}, [c \in {lead} |-> s],
                               [booked EXCEPT ![s] = @ + 1],
                               IF keepDay THEN daily ELSE DayTaken(DayOf(s)), keepDay)
                   /\ UniqueVisitSeat(lead, s)
                   /\ UNCHANGED <<capacity, closed, req, unit>>
  BY DEF MoveVisit, Movers

LEMMA MoveVisitRows ==
  ASSUME NEW v, NEW s, NEW late, MoveVisit(v, s, late)
  PROVE  /\ Movers(v, late) # {}
         /\ at' = [c \in Cars |-> IF c \in Movers(v, late) THEN s ELSE at[c]]
         /\ UNCHANGED <<status, bin, callVars>>
         /\ SameSlot(First(Movers(v, late)), s) => SeatsUnchanged
  BY DEF MoveVisit, Movers

\* A move to where all is already changes nothing.
LEMMA MoveNowhere ==
  ASSUME LedgerTypeOK, NEW v \in Visits, NEW s \in Slots, NEW late, MoveVisit(v, s, late),
         SeatKeyOf(First(Movers(v, late))) = s, \A c \in Movers(v, late) : at[c] = s
  PROVE  SeatsUnchanged /\ \A w \in Visits : Untouched(w)
  <1>. DEFINE lead == First(Movers(v, late))
  <1>1. Movers(v, late) # {} /\ at' = [c \in Cars |-> IF c \in Movers(v, late) THEN s ELSE at[c]]
        /\ UNCHANGED <<status, bin, callVars>>
        /\ (SameSlot(lead, s) => SeatsUnchanged)
    BY MoveVisitRows
  <1>2. at[lead] = s
    BY <1>1, MoversAre
  <1>3. SameSlot(lead, s)
    BY <1>2 DEF SameSlot
  <1>4. \A c \in Cars : at'[c] = at[c]
    BY <1>1
  <1>5. \A c \in Cars : SameRow(c)
    BY <1>1, <1>3, <1>4 DEF SameRow, SeatsUnchanged, seatVars
  <1>6. \A w \in Visits : SameCalls(w)
    BY <1>1 DEF SameCalls, callVars
  <1>. QED BY <1>1, <1>3, <1>5, <1>6 DEF Untouched, CarsOf

SameRows(v) == \A c \in CarsOf(v) : <<status[c], at[c], bin[c]>>' = <<status[c], at[c], bin[c]>>

LEMMA MoveWhileCreating ==
  ASSUME CalmInv, NEW v \in Visits, NEW s \in Slots, NEW late \in SUBSET Arriving(v), MoveVisit(v, s, late),
         DecidesOnFreshKey(v), ~Settled(v), SameRows(v)
  PROVE  SeatsUnchanged /\ \A w \in Visits : Untouched(w)
  <1>. DEFINE lead == First(Movers(v, late))
  <1>1. LedgerTypeOK /\ RowsOK /\ BeginsOK(v) /\ TogetherOK(v) /\ CarsOf(v) \subseteq Cars
    BY DEF CarsOf, CalmInv, LedgerInv, LedgerShape, Calm
  <1>2. Movers(v, late) # {} /\ at' = [c \in Cars |-> IF c \in Movers(v, late) THEN s ELSE at[c]]
    BY MoveVisitRows
  <1>3. Movers(v, late) \subseteq ToWash(v) /\ ToWash(v) \subseteq CarsOf(v) /\ lead \in Movers(v, late)
    BY <1>1, <1>2, MoversAre DEF ToWash
  <1>4. \A c \in Movers(v, late) : at[c] = s
    BY <1>1, <1>2, <1>3 DEF SameRows
  <1>5. s # NoSlot
    BY HoldsAssumption
  <1>6. CASE making[v] = "adding"
    <2>1. ToWash(v) \subseteq Created(v)
      BY DEF ToWash, Created, Uncreated
    <2>2. seatKey[lead] \in {NoSlot, s}
      BY <1>1, <1>3, <1>4, <1>6, <2>1 DEF BeginsOK
    <2>3. SeatKeyOf(lead) = s
      BY <1>3, <1>4, <2>2 DEF SeatKeyOf
    <2>. QED BY <1>1, <1>4, <2>3, MoveNowhere
  <1>7. CASE making[v] = "undoing"
    <2>1. Movers(v, late) = ToWash(v)
      BY <1>1, <1>2, <1>7, MoversAreAll
    <2>2. seatKey[lead] \in {NoSlot, at[lead]}
      BY <1>2, <2>1 DEF DecidesOnFreshKey
    <2>3. SeatKeyOf(lead) = s
      BY <1>3, <1>4, <2>2 DEF SeatKeyOf
    <2>. QED BY <1>1, <1>4, <2>3, MoveNowhere
  <1>. QED BY <1>6, <1>7 DEF Settled

\* What a move of a visit nobody is creating writes, and from where.
LEMMA MoveSettled ==
  ASSUME CalmInv, NEW v \in Visits, NEW s \in Slots, NEW late \in SUBSET Arriving(v), MoveVisit(v, s, late),
         DecidesOnFreshKey(v), Settled(v), NEW lead, lead = First(Movers(v, late))
  PROVE  /\ making[v] = "over"
         /\ Movers(v, late) = ToWash(v) /\ ToWash(v) \subseteq CarsOf(v)
         /\ lead = First(ToWash(v)) /\ lead \in ToWash(v) /\ lead \in CarsOf(v) /\ lead \in Cars
         /\ SeatKeyOf(lead) = at[lead] /\ at[lead] \in Slots
         /\ SameSlot(lead, s) <=> at[lead] = s
  <1>1. LedgerTypeOK /\ RowsOK /\ TogetherOK(v) /\ CarsOf(v) \subseteq Cars
    BY DEF CarsOf, CalmInv, LedgerInv, LedgerShape, Calm
  <1>2. Movers(v, late) # {}
    BY MoveVisitRows
  <1>3. making[v] = "over"
    <2>1. PICK c \in Movers(v, late) : TRUE
      BY <1>2
    <2>2. c \in CarsOf(v) /\ status[c] # "none"
      BY <1>1, <1>2, MoversAre DEF ToWash
    <2>3. making[v] # "no"
      BY <1>1, <2>2 DEF RowsOK, Created, Uncreated
    <2>. QED BY <1>1, <2>3 DEF LedgerTypeOK, Settled
  <1>4. Movers(v, late) = ToWash(v) /\ ToWash(v) \subseteq CarsOf(v)
    BY <1>1, <1>2, <1>3, MoversAreAll DEF ToWash
  <1>5. lead = First(ToWash(v)) /\ lead \in ToWash(v) /\ lead \in CarsOf(v) /\ lead \in Cars
    BY <1>1, <1>2, <1>4, MoversAre
  <1>6. SeatKeyOf(lead) = at[lead] /\ at[lead] \in Slots
    <2>1. seatKey[lead] \in {NoSlot, at[lead]}
      BY <1>5 DEF DecidesOnFreshKey
    <2>2. status[lead] # "none"
      BY <1>5 DEF ToWash
    <2>. QED BY <1>1, <1>5, <2>1, <2>2 DEF SeatKeyOf, RowsOK
  <1>7. SameSlot(lead, s) <=> at[lead] = s
    BY <1>6 DEF SameSlot, Slots, DayOf, TimeOf
  <1>. QED BY <1>3, <1>4, <1>5, <1>6, <1>7

LEMMA MoveVisitCalm ==
  ASSUME CalmInv, NEW v \in Visits, NEW s \in Slots, NEW late \in SUBSET Arriving(v), MoveVisit(v, s, late),
         DecidesOnFreshKey(v), HeirsInOrder(v), Settled(v)
  PROVE  (\A w \in Visits : Untouched(w)) \/ (Calm(v)' /\ Only(v))
  <1>. DEFINE lead == First(Movers(v, late))
              holders == {c \in OnVisit(v) : holdsSeat[c]}
              holder == First(holders)
              R == IF holders # {} /\ holder \in Movers(v, late) THEN {holder} ELSE {}
              L == {lead}
              keys == [c \in {lead} |-> s]
  <1>1. /\ LedgerTypeOK /\ RowsOK /\ BeginsOK(v) /\ TogetherOK(v) /\ SeatedOK(v)
        /\ CarsOf(v) \subseteq Cars /\ CarsOf(v)' = CarsOf(v)
    BY DEF CarsOf, CalmInv, LedgerInv, LedgerShape, Calm
  <1>2. /\ at' = [c \in Cars |-> IF c \in Movers(v, late) THEN s ELSE at[c]]
        /\ UNCHANGED <<status, bin, callVars>>
    BY MoveVisitRows
  <1>3. making[v] = "over"
    BY MoveSettled
  <1>4. Movers(v, late) = ToWash(v) /\ ToWash(v) \subseteq CarsOf(v)
    BY MoveSettled
  <1>5. lead = First(ToWash(v)) /\ lead \in ToWash(v) /\ lead \in CarsOf(v) /\ lead \in Cars
    BY MoveSettled
  <1>6. SeatKeyOf(lead) = at[lead] /\ at[lead] \in Slots /\ (SameSlot(lead, s) <=> at[lead] = s)
    BY MoveSettled
  <1>7. CASE SameSlot(lead, s)
    <2>1. at[lead] = s
      BY <1>6, <1>7
    <2>2. \A c \in ToWash(v) : at[c] = s
      BY <1>1, <1>5, <2>1 DEF TogetherOK
    <2>. QED BY <1>1, <1>4, <1>6, <2>1, <2>2, MoveNowhere
  <1>8. CASE ~SameSlot(lead, s)
    <2>1. \E taken, dayTaken, keepDay : HandBack(R, L, keys, taken, dayTaken, keepDay)
      BY <1>8, MoveVisitIs
    <2>2. PICK taken, dayTaken, keepDay : HandBack(R, L, keys, taken, dayTaken, keepDay)
      BY <2>1
    <2>3. /\ R \in SUBSET CarsOf(v) /\ R \in SUBSET Cars /\ L \in SUBSET CarsOf(v) /\ DOMAIN keys = {lead} /\ keys[lead] = s
          /\ L = {lead}
      BY <1>1, <1>4, <1>5
    <2>. HIDE DEF lead, holder, holders, R, L, keys
    <2>4. PICK heir : HandBackTo(heir, R, L, keys, taken, dayTaken, keepDay)
      BY <2>2, HandBackHasHeirs
    <2>5. holdsSeat'[lead] /\ seatKey'[lead] = s /\ at'[lead] = s
      BY <1>2, <1>4, <1>5, <2>3, <2>4 DEF HandBackTo
    <2>6. ToWash(v)' = ToWash(v)
      BY <1>1, <1>2 DEF ToWash
    <2>7. First(ToWash(v))' = lead
      <3>1. First(ToWash(v)') = lead
        BY <1>5, <2>6
      <3>. QED BY <3>1 DEF First
    <2>8. ASSUME NEW c \in CarsOf(v), holdsSeat'[c] PROVE seatKey'[c] = at'[c]
      <3>1. CASE c = lead
        BY <2>5, <3>1
      <3>2. CASE c # lead /\ \E r \in R : heir[r] = c
        BY <1>1, <2>3, <2>4, <3>2 DEF HandBackTo
      <3>3. CASE c # lead /\ ~\E r \in R : heir[r] = c
        <4>1. holdsSeat[c] /\ seatKey'[c] = seatKey[c]
          BY <1>1, <2>3, <2>4, <2>8, <3>3 DEF HandBackTo
        <4>2. c \notin ToWash(v)
          BY <1>1, <1>5, <3>3, <4>1 DEF SeatedOK
        <4>. QED BY <1>1, <1>2, <1>4, <4>1, <4>2 DEF SeatedOK
      <3>. QED BY <3>1, <3>2, <3>3
    <2>9. ASSUME NEW c \in ToWash(v), holdsSeat'[c] PROVE c = lead
      BY <1>1, <1>5, <2>6, <2>7, <2>9 DEF HeirsInOrder, SeatedOK
    <2>10. SeatedOK(v)'
      <3>1. \A c \in ToWash(v) : at'[c] = s
        BY <1>1, <1>2, <1>4
      <3>. QED BY <1>1, <1>5, <2>5, <2>6, <2>7, <2>8, <2>9, <3>1 DEF SeatedOK
    <2>11. TogetherOK(v)'
      <3>1. \A c \in ToWash(v) : at'[c] = s
        BY <1>1, <1>2, <1>4
      <3>2. \A c \in purging'[v] : ~Listed(c)'
        BY <1>1, <1>2 DEF TogetherOK, Listed, Exists, callVars
      <3>. QED BY <1>1, <1>2, <2>6, <3>1, <3>2 DEF TogetherOK, callVars
    <2>12. BeginsOK(v)'
      <3>1. ASSUME NEW c \in CarsOf(v), status[c] = "none" PROVE seatKey'[c] = NoSlot
        <4>1. c # lead
          BY <1>5, <3>1 DEF ToWash
        <4>2. c \in Cars \ DOMAIN keys /\ ~Standing(c)'
          BY <1>1, <1>2, <2>3, <3>1, <4>1 DEF Standing, Listed, Exists
        <4>3. seatKey'[c] = seatKey[c]
          BY <1>1, <2>2, <2>3, <4>2, HandBackKeys
        <4>. QED BY <1>1, <3>1, <4>3 DEF BeginsOK
      <3>. QED BY <1>1, <1>2, <1>3, <3>1 DEF BeginsOK, callVars
    <2>13. Only(v)
      <3>1. \A c \in Cars \ CarsOf(v) : holdsSeat'[c] = holdsSeat[c] /\ seatKey'[c] = seatKey[c]
        BY <1>1, <1>5, <2>2, <2>3, HandBackElsewhere
      <3>2. \A c \in Cars \ CarsOf(v) : SameRow(c)
        BY <1>1, <1>2, <1>4, <3>1 DEF SameRow
      <3>3. \A w \in Visits : SameCalls(w)
        BY <1>2 DEF SameCalls, callVars
      <3>. QED BY <3>2, <3>3, OnlyIf
    <2>. QED BY <2>10, <2>11, <2>12, <2>13 DEF Calm
  <1>. QED BY <1>7, <1>8

---------------------------------------------------------------------------
(* Every step.                                                             *)

LEMMA CreateStepCalm ==
  ASSUME CalmInv, NEW v \in Visits, CreateStep(v), HeirsInOrder(v) PROVE Calm(v)' /\ Only(v)
  BY CreateFirstCalm, CreateNextCalm, CallsCalm, RollBackCalm, UndoCarCalm DEF CreateStep

LEMMA VisitStepCalm ==
  ASSUME CalmInv, LedgerInv', NEW v \in Visits, VisitStep(v), Undisturbed
  PROVE  (\A w \in Visits : Untouched(w)) \/ (Calm(v)' /\ Only(v))
  <1>1. CreatesAlone(v) /\ PurgesAlone(v) /\ DecidesOnFreshKey(v) /\ HeirsInOrder(v)
    BY DEF Undisturbed
  <1>2. CASE Settled(v)
    BY <1>1, <1>2, CancelVisitCalm, MoveVisitCalm, RestoreCalm, CallsCalm, ReturnToBinCalm DEF VisitStep
  <1>3. CASE ~Settled(v) /\ ~CreateStep(v)
    <2>1. SameRows(v) /\ BeginsOK(v) /\ LedgerTypeOK
      BY <1>1, <1>3 DEF CreatesAlone, Settled, SameRows, CalmInv, Calm, LedgerInv, LedgerShape
    <2>2. restoring[v] = {} /\ purging[v] = {} /\ \A c \in CarsOf(v) : ~bin[c]
      BY <1>3, <2>1 DEF BeginsOK, Settled
    <2>3. ~Restore(v) /\ ~ReturnToBin(v)
      BY <2>2 DEF Restore, ReturnToBin
    <2>4. ASSUME NEW T \in SUBSET CarsOf(v), CancelVisit(v, T) PROVE FALSE
      <3>1. PICK c \in T : TRUE
        BY <2>4 DEF CancelVisit
      <3>2. c \in Cars /\ status[c] # "cancelled" /\ status'[c] = "cancelled"
        BY <2>4, <3>1 DEF CancelVisit, Open, CarsOf
      <3>. QED BY <2>1, <3>2 DEF SameRows
    <2>. QED BY <1>1, <1>3, <2>1, <2>3, <2>4, MoveWhileCreating, CallsCalm DEF VisitStep
  <1>. QED BY <1>1, <1>2, <1>3, CreateStepCalm

LEMMA PurgeStepCalm ==
  ASSUME CalmInv, NEW v \in Visits, PurgeStep(v) PROVE Calm(v)' /\ Only(v)
  <1>1. CASE StartPurge(v)
    BY <1>1, CallsCalm
  <1>2. CASE PurgeCar(v)
    <2>1. Settled(v)
      BY <1>2 DEF PurgeCar, CalmInv, Calm, BeginsOK, Settled
    <2>. QED BY <1>2, <2>1, PurgeCarCalm
  <1>. QED BY <1>1, <1>2 DEF PurgeStep

LEMMA CarStepCalm ==
  ASSUME CalmInv, NEW c \in Cars, CarStep(c), Undisturbed
  PROVE  Calm(VisitOf[c])' /\ Only(VisitOf[c])
  <1>. DEFINE v == VisitOf[c]
  <1>1. v \in Visits /\ CreatesAlone(v) /\ HeirsInOrder(v) /\ LedgerTypeOK /\ c \in CarsOf(v)
    BY LedgerAssumption DEF Undisturbed, CalmInv, LedgerInv, LedgerShape, CarsOf
  <1>2. CASE Settled(v)
    BY <1>1, <1>2, CancelCarCalm, AdvanceCalm, DeleteVisitCalm DEF CarStep
  <1>3. CASE ~Settled(v)
    <2>1. <<status[c], bin[c]>>' # <<status[c], bin[c]>>
      <3>1. CASE CancelCar(c)
        BY <1>1, <3>1 DEF CancelCar, Open, LedgerTypeOK
      <3>2. CASE SetOff(c) \/ StandDown(c) \/ FinishJob(c) \/ MarkDone(c)
        BY <1>1, <3>2 DEF SetOff, StandDown, FinishJob, MarkDone, Advance, LedgerTypeOK
      <3>3. CASE \E late \in SUBSET (Arriving(v) \ {c}) : DeleteVisit(c, late)
        <4>1. bin' = [x \in Cars |-> bin[x] \/ x \in {c}] \/ bin'[c]
          BY <3>3 DEF DeleteVisit
        <4>2. ~bin[c]
          BY <3>3 DEF DeleteVisit, Listed
        <4>. QED BY <1>1, <4>1, <4>2 DEF LedgerTypeOK
      <3>. QED BY <3>1, <3>2, <3>3 DEF CarStep
    <2>2. CreateStep(v)
      BY <1>1, <1>3, <2>1 DEF CreatesAlone, Settled
    <2>. QED BY <1>1, <2>2, CreateStepCalm
  <1>. QED BY <1>2, <1>3

LEMMA AllUntouched ==
  ASSUME UNCHANGED <<rowVars, seatVars, callVars>> PROVE \A w \in Visits : Untouched(w)
  BY DEF Untouched, SameRow, SameCalls, rowVars, seatVars, callVars

LEMMA CalmStep ==
  ASSUME CalmInv, [UndisturbedNext]_vars PROVE CalmInv'
  <1>1. LedgerInv'
    <2>1. [Next]_vars
      BY DEF UndisturbedNext, Next
    <2>. QED BY <2>1, LedgerInvStep DEF CalmInv
  <1>2. (\A w \in Visits : Untouched(w)) \/ \E v \in Visits : Calm(v)' /\ Only(v)
    <2>1. CASE UNCHANGED vars
      BY <2>1, AllUntouched DEF vars, ledgerVars
    <2>2. CASE UndisturbedNext
      <3>1. CASE HoldsStep /\ UNCHANGED ledgerVars
        BY <3>1, AllUntouched DEF ledgerVars
      <3>2. ASSUME NEW v \in Visits, Undisturbed, CreateStep(v) PROVE Calm(v)' /\ Only(v)
        BY <3>2, CreateStepCalm DEF Undisturbed
      <3>3. ASSUME NEW v \in Visits, Undisturbed, VisitStep(v) PROVE (\A w \in Visits : Untouched(w)) \/ (Calm(v)' /\ Only(v))
        BY <1>1, <3>3, VisitStepCalm
      <3>4. ASSUME NEW c \in Cars, Undisturbed, CarStep(c) PROVE VisitOf[c] \in Visits /\ Calm(VisitOf[c])' /\ Only(VisitOf[c])
        BY <3>4, CarStepCalm, LedgerAssumption
      <3>5. ASSUME NEW s \in Slots, RepairSlot(s) PROVE \A w \in Visits : Untouched(w)
        BY <3>5, AllUntouched DEF RepairSlot, ledgerVars
      <3>6. ASSUME NEW d \in Days, RepairDay(d) PROVE \A w \in Visits : Untouched(w)
        BY <3>6, AllUntouched DEF RepairDay
      <3>7. ASSUME NEW v \in Visits, PurgeStep(v) PROVE Calm(v)' /\ Only(v)
        BY <3>7, PurgeStepCalm
      <3>. QED BY <2>2, <3>1, <3>2, <3>3, <3>4, <3>5, <3>6, <3>7 DEF UndisturbedNext
    <2>. QED BY <2>1, <2>2
  <1>3. \A w \in Visits : Calm(w)'
    BY <1>2, UntouchedCalm DEF CalmInv, Only
  <1>. QED BY <1>1, <1>3 DEF CalmInv

\* A car holds the seat of the slot it is booked in, not of one it has left, as long as
\* calls do not get in each other's way.
THEOREM HoldersSit == UndisturbedSpec => []HolderSitsInItsSeat
  <1>1. LedgerInit => CalmInv
    BY CalmInit
  <1>2. CalmInv /\ [UndisturbedNext]_vars => CalmInv'
    BY CalmStep
  <1>3. CalmInv => HolderSitsInItsSeat
    BY CalmIs
  <1>. QED BY <1>1, <1>2, <1>3, PTL DEF UndisturbedSpec

\* Every car still to be washed has a seat of its visit in its own slot, as long as
\* calls do not get in each other's way.
THEOREM EveryCarHasItsSeat == UndisturbedSpec => []EveryCarSeated
  <1>1. LedgerInit => CalmInv
    BY CalmInit
  <1>2. CalmInv /\ [UndisturbedNext]_vars => CalmInv'
    BY CalmStep
  <1>3. CalmInv => EveryCarSeated
    BY CalmIs
  <1>. QED BY <1>1, <1>2, <1>3, PTL DEF UndisturbedSpec

---------------------------------------------------------------------------
(* The days' counters.                                                     *)

DaysCounted(d) == Cardinality(OwnersOn(d)) <= daily[d]
DayStep == \A d \in Days : (DayLimit[d] > 0 /\ DaysCounted(d)) => DaysCounted(d)'

LEMMA DayOwnersCountable ==
  ASSUME NEW d
  PROVE  /\ IsFiniteSet(OwnersOn(d)) /\ Cardinality(OwnersOn(d)) \in Nat
         /\ IsFiniteSet(OwnersOn(d)') /\ Cardinality(OwnersOn(d)') \in Nat
  BY LedgerAssumption, FS_Subset, FS_CardinalityType DEF OwnersOn

\* What has passed is paid for, day by day: as many owners fewer as seats given back.
LEMMA PassedDay ==
  ASSUME LedgerTypeOK, RowsOK, NEW v, NEW L, NEW from, SeatsPass(v, L, from),
         NEW gone \in SUBSET Cars, \A r \in gone : holdsSeat[r],
         \A r \in gone, c \in DOMAIN from : from[c] # r, NEW d \in Days
  PROVE  LET n == Cardinality({t \in {seatKey[r] : r \in gone} : DayOf(t) = d})
         IN  /\ n \in Nat
             /\ Cardinality(OwnersOn(d)' \ L) \in Nat
             /\ Cardinality(OwnersOn(d)' \ L) + n <= Cardinality(OwnersOn(d))
  <1>. DEFINE A == OwnersOn(d)' \ L
              G == {r \in gone : DayOf(seatKey[r]) = d}
              B == {t \in {seatKey[r] : r \in gone} : DayOf(t) = d}
              O == OwnersOn(d)
              f == [c \in A |-> from[c]]
              g == [r \in G |-> seatKey[r]]
  <1>1. A \subseteq DOMAIN from
    BY DEF SeatsPass, OwnersOn
  <1>2. \A c \in A : from[c] \in O \ G
    BY <1>1 DEF SeatsPass, OwnersOn
  <1>3. \A c, e \in A : from[c] = from[e] => c = e
    BY <1>1 DEF SeatsPass
  <1>4. G \subseteq O
    <2>. SUFFICES ASSUME NEW r \in G PROVE r \in O
      OBVIOUS
    <2>1. r \in Cars /\ holdsSeat[r] /\ seatKey[r] \in Slots /\ DayOf(seatKey[r]) = d
      BY DEF RowsOK
    <2>2. \E t \in Times : seatKey[r] = <<d, t>>
      BY <2>1 DEF Slots, DayOf
    <2>. QED BY <2>1, <2>2 DEF OwnersOn
  <1>5. IsFiniteSet(O) /\ Cardinality(O) \in Nat
    BY DayOwnersCountable
  <1>6. f \in Injection(A, O \ G)
    <2>. HIDE DEF A, G, O
    <2>. QED BY <1>2, <1>3 DEF Injection, IsInjective
  <1>7. g \in Surjection(G, B)
    BY DEF Surjection
  <1>. HIDE DEF A, G, B, O, f, g
  <1>8. IsFiniteSet(G) /\ Cardinality(G) \in Nat
    BY <1>4, <1>5, FS_Subset, FS_CardinalityType
  <1>9. O \cap G = G
    BY <1>4
  <1>10. IsFiniteSet(O \ G) /\ Cardinality(O \ G) = Cardinality(O) - Cardinality(G)
    BY <1>5, <1>9, FS_Difference
  <1>11. IsFiniteSet(A) /\ Cardinality(A) \in Nat /\ Cardinality(A) <= Cardinality(O \ G)
    BY <1>6, <1>10, FS_Injection, FS_CardinalityType
  <1>12. IsFiniteSet(B) /\ Cardinality(B) \in Nat /\ Cardinality(B) <= Cardinality(G)
    BY <1>7, <1>8, FS_Surjection, FS_CardinalityType
  <1>13. Cardinality(A) + Cardinality(B) <= Cardinality(O)
    BY <1>5, <1>8, <1>10, <1>11, <1>12
  <1>. QED BY <1>11, <1>12, <1>13 DEF A, B, O

\* So a counter that counted the owners, and one more when a seat is taken on its day,
\* counts those left.
LEMMA PaidDay ==
  ASSUME LedgerTypeOK, RowsOK, NEW v, NEW L, NEW from, SeatsPass(v, L, from),
         NEW R \in SUBSET Cars, \A r \in R : holdsSeat[r],
         NEW count \in [Days -> Nat], DaysPaid(R, from, count, FALSE), NEW d \in Days,
         daily[d] <= count[d], DaysCounted(d)
  PROVE  daily'[d] \in Nat /\ Cardinality(OwnersOn(d)' \ L) + (count[d] - daily[d]) <= daily'[d]
  <1>1. PICK gone \in SUBSET R :
          /\ \A r \in gone, c \in DOMAIN from : from[c] # r
          /\ daily' = DayAfter(count, {seatKey[r] : r \in gone}, FALSE)
    BY DEF DaysPaid
  <1>. DEFINE n == Cardinality({t \in {seatKey[r] : r \in gone} : DayOf(t) = d})
              a == Cardinality(OwnersOn(d)' \ L)
              o == Cardinality(OwnersOn(d))
              x == daily[d]
              y == count[d]
              z == daily'[d]
  <1>2. gone \in SUBSET Cars /\ \A r \in gone : holdsSeat[r]
    OBVIOUS
  <1>3. n \in Nat /\ a \in Nat /\ a + n <= o
    BY <1>1, <1>2, PassedDay
  <1>4. o \in Nat /\ x \in Nat /\ y \in Nat /\ x <= y /\ o <= x
    BY DayOwnersCountable DEF LedgerTypeOK, DaysCounted
  <1>5. z = IF y >= n THEN y - n ELSE 0
    BY <1>1 DEF DayAfter, DayHanded
  <1>. HIDE DEF n, a, o, x, y, z
  <1>6. z \in Nat /\ a + (y - x) <= z
    BY <1>3, <1>4, <1>5
  <1>. QED BY <1>6 DEF a, x, y, z

LEMMA StillDay == ASSUME SeatsUnchanged \/ UNCHANGED <<seatVars, daily>> PROVE DayStep
  BY DEF SeatsUnchanged, seatVars, DayStep, DaysCounted, OwnersOn

\* Seats of visit v are handed back, none is taken.
LEMMA HandBackDay ==
  ASSUME LedgerShape, NEW v \in Visits, NEW R \in SUBSET CarsOf(v), \A c \in R : holdsSeat[c],
         NEW keys, DOMAIN keys \subseteq CarsOf(v), \A c \in DOMAIN keys : ~holdsSeat[c] /\ ~Standing(c)',
         HandBack(R, {}, keys, booked, daily, FALSE)
  PROVE  DayStep
  <1>. DEFINE L == {}
              keepDay == FALSE
  <1>1. /\ LedgerTypeOK /\ RowsOK /\ booked \in [Slots -> Nat] /\ daily \in [Days -> Nat]
        /\ R \in SUBSET Cars /\ CarsOf(v) \subseteq Cars
    BY DEF LedgerShape, LedgerTypeOK, Shape, TypeOK, CarsOf
  <1>2. /\ HandBack(R, L, keys, booked, daily, keepDay) /\ L \in SUBSET CarsOf(v) /\ L \subseteq DOMAIN keys
        /\ \A c \in DOMAIN keys \ L : ~holdsSeat[c] /\ ~Standing(c)'
    OBVIOUS
  <1>. HIDE DEF L, keepDay
  <1>3. PICK from : SeatsPass(v, L, from) /\ DaysPaid(R, from, daily, keepDay)
    BY <1>1, <1>2, HandBackPasses
  <1>. SUFFICES ASSUME NEW d \in Days, DaysCounted(d) PROVE DaysCounted(d)'
    BY DEF DayStep
  <1>4. daily[d] \in Nat /\ daily[d] <= daily[d]
    BY <1>1
  <1>5. DaysPaid(R, from, daily, FALSE)
    BY <1>3 DEF keepDay
  <1>6. Cardinality(OwnersOn(d)' \ L) + (daily[d] - daily[d]) <= daily'[d]
    BY <1>1, <1>3, <1>4, <1>5, PaidDay
  <1>7. OwnersOn(d)' \ L = OwnersOn(d)' /\ Cardinality(OwnersOn(d)') \in Nat
    BY DayOwnersCountable DEF L
  <1>8. Cardinality(OwnersOn(d)') <= daily'[d]
    <2>. DEFINE a == Cardinality(OwnersOn(d)')
                x == daily[d]
                z == daily'[d]
    <2>1. a + (x - x) <= z /\ a \in Nat /\ x \in Nat
      BY <1>4, <1>6, <1>7
    <2>. HIDE DEF a, x, z
    <2>2. a <= z
      BY <2>1
    <2>. QED BY <2>2 DEF a, z
  <1>. QED BY <1>8 DEF DaysCounted

LEMMA ReleaseDay ==
  ASSUME LedgerShape, NEW v \in Visits, NEW T \in SUBSET CarsOf(v), Release(T) PROVE DayStep
  <1>. DEFINE R == HoldersOf(T)
              keys == NoKeys
  <1>1. R \in SUBSET CarsOf(v) /\ \A c \in R : holdsSeat[c]
    BY DEF HoldersOf
  <1>2. DOMAIN keys = {} /\ HandBack(R, {}, keys, booked, daily, FALSE)
    BY DEF NoKeys, Release
  <1>. HIDE DEF R, keys
  <1>. QED BY <1>1, <1>2, HandBackDay

\* A car's row and its seat go for good.
LEMMA DropSeatDay ==
  ASSUME LedgerShape, NEW c \in Cars, holdsSeat' = [holdsSeat EXCEPT ![c] = FALSE], seatKey' = seatKey,
         daily' = DayHanded(daily, IF holdsSeat[c] THEN {seatKey[c]} ELSE {}) \/ daily' = daily
  PROVE  DayStep
  <1>1. LedgerTypeOK /\ RowsOK
    BY DEF LedgerShape
  <1>2. \A e \in Cars : holdsSeat'[e] <=> holdsSeat[e] /\ e # c
    BY <1>1 DEF LedgerTypeOK
  <1>. SUFFICES ASSUME NEW d \in Days, DaysCounted(d) PROVE DaysCounted(d)'
    BY DEF DayStep
  <1>3. OwnersOn(d)' = OwnersOn(d) \ {c}
    BY <1>2 DEF OwnersOn
  <1>. DEFINE back == IF holdsSeat[c] THEN {seatKey[c]} ELSE {}
              B == {s \in back : DayOf(s) = d}
              o == Cardinality(OwnersOn(d))
              n == Cardinality(B)
              x == daily[d]
              z == daily'[d]
  <1>4. Cardinality(OwnersOn(d)') = IF c \in OwnersOn(d) THEN o - 1 ELSE o
    BY <1>3, DayOwnersCountable, FS_RemoveElement
  <1>5. o \in Nat /\ x \in Nat /\ o <= x
    BY <1>1, DayOwnersCountable DEF LedgerTypeOK, DaysCounted
  <1>6. n \in Nat /\ (n > 0 => n = 1 /\ c \in OwnersOn(d))
    <2>1. CASE B = {}
      BY <2>1, FS_EmptySet
    <2>2. CASE B # {}
      <3>1. B = {seatKey[c]} /\ holdsSeat[c] /\ DayOf(seatKey[c]) = d
        BY <2>2
      <3>2. seatKey[c] \in Slots
        BY <1>1, <3>1 DEF RowsOK
      <3>3. \E t \in Times : seatKey[c] = <<d, t>>
        BY <3>1, <3>2 DEF Slots, DayOf
      <3>4. c \in OwnersOn(d)
        BY <3>1, <3>3 DEF OwnersOn
      <3>5. n = 1
        BY <3>1, FS_Singleton
      <3>. QED BY <3>4, <3>5
    <2>. QED BY <2>1, <2>2
  <1>7. z = x \/ z = IF x >= n THEN x - n ELSE 0
    BY DEF DayHanded
  <1>. HIDE DEF o, n, x, z
  <1>8. Cardinality(OwnersOn(d)') <= z
    BY <1>4, <1>5, <1>6, <1>7
  <1>. QED BY <1>8 DEF DaysCounted, z

\* A new seat is counted in its day.
LEMMA TakeSeatDay ==
  ASSUME LedgerShape, NEW c \in Cars, NEW s \in Slots, NEW h, TakeSeat(c, s, h) PROVE DayStep
  <1>1. LedgerTypeOK /\ daily' = DayTaken(DayOf(s))
        /\ holdsSeat' = [holdsSeat EXCEPT ![c] = TRUE] /\ seatKey' = [seatKey EXCEPT ![c] = s]
    BY DEF LedgerShape, TakeSeat
  <1>. SUFFICES ASSUME NEW d \in Days, DayLimit[d] > 0, DaysCounted(d) PROVE DaysCounted(d)'
    BY DEF DayStep
  <1>2. OwnersOn(d)' \subseteq IF d = DayOf(s) THEN OwnersOn(d) \cup {c} ELSE OwnersOn(d)
    BY <1>1 DEF LedgerTypeOK, OwnersOn, DayOf
  <1>. DEFINE o == Cardinality(OwnersOn(d))
              x == daily[d]
              z == daily'[d]
  <1>3. o \in Nat /\ x \in Nat /\ o <= x /\ Cardinality(OwnersOn(d)') \in Nat
    BY <1>1, DayOwnersCountable DEF LedgerTypeOK, DaysCounted
  <1>4. z = IF d = DayOf(s) THEN x + 1 ELSE x
    <2>1. DayLimit[d] # 0
      BY LedgerAssumption
    <2>2. CASE d = DayOf(s)
      BY <1>1, <2>1, <2>2 DEF DayTaken, LedgerTypeOK
    <2>3. CASE d # DayOf(s)
      BY <1>1, <2>3 DEF DayTaken, LedgerTypeOK
    <2>. QED BY <2>2, <2>3
  <1>5. Cardinality(OwnersOn(d)') <= IF d = DayOf(s) THEN o + 1 ELSE o
    <2>1. CASE d = DayOf(s)
      <3>1. OwnersOn(d)' \in SUBSET (OwnersOn(d) \cup {c})
        BY <1>2, <2>1
      <3>2. IsFiniteSet(OwnersOn(d) \cup {c}) /\ Cardinality(OwnersOn(d) \cup {c}) \in Nat /\ Cardinality(OwnersOn(d) \cup {c}) <= o + 1
        <4>. DEFINE W == OwnersOn(d)
        <4>1. IsFiniteSet(W) /\ Cardinality(W) \in Nat
          BY DayOwnersCountable
        <4>. HIDE DEF W
        <4>2. /\ IsFiniteSet(W \cup {c})
              /\ Cardinality(W \cup {c}) = IF c \in W THEN Cardinality(W) ELSE Cardinality(W) + 1
          BY <4>1, FS_AddElement
        <4>3. Cardinality(W \cup {c}) \in Nat /\ Cardinality(W \cup {c}) <= Cardinality(W) + 1
          BY <4>1, <4>2
        <4>. QED BY <4>2, <4>3 DEF W
      <3>3. Cardinality(OwnersOn(d)') <= Cardinality(OwnersOn(d) \cup {c})
        BY <3>1, <3>2, FS_Subset
      <3>. QED BY <1>3, <2>1, <3>2, <3>3
    <2>2. CASE d # DayOf(s)
      <3>1. OwnersOn(d)' \in SUBSET OwnersOn(d)
        BY <1>2, <2>2
      <3>2. Cardinality(OwnersOn(d)') <= o
        BY <3>1, DayOwnersCountable, FS_Subset
      <3>. QED BY <2>2, <3>2
    <2>. QED BY <2>1, <2>2
  <1>. HIDE DEF o, x, z
  <1>6. Cardinality(OwnersOn(d)') <= z
    BY <1>3, <1>4, <1>5
  <1>. QED BY <1>6 DEF DaysCounted, z

LEMMA ReturnToBinDay ==
  ASSUME LedgerShape, NEW v \in Visits, ReturnToBin(v) PROVE DayStep
  <1>. DEFINE T == {c \in restoring[v] : Exists(c) /\ ~bin[c]}
  <1>1. T \in SUBSET CarsOf(v) /\ CarsOf(v) \subseteq Cars
    BY DEF LedgerShape, RowsOK, CarsOf
  <1>2. PICK passed \in SUBSET {c \in T : /\ status[c] \in SeatHolding /\ ~holdsSeat[c]
                                          /\ \E d \in HoldersOf(T) : seatKey[d] = at[c]} :
          HandBack(HoldersOf(T), {}, [c \in passed |-> at[c]], booked, daily, FALSE)
    BY DEF ReturnToBin
  <1>. DEFINE keys == [c \in passed |-> at[c]]
              R == HoldersOf(T)
  <1>3. DOMAIN keys = passed /\ passed \subseteq T /\ \A c \in passed : ~holdsSeat[c]
    BY <1>2
  <1>4. \A c \in T : ~Standing(c)'
    <2>1. bin' = [c \in Cars |-> bin[c] \/ c \in T]
      BY DEF ReturnToBin
    <2>. QED BY <1>1, <2>1 DEF Standing, Listed
  <1>5. R \in SUBSET CarsOf(v) /\ \A c \in R : holdsSeat[c]
    BY <1>1 DEF HoldersOf
  <1>6. HandBack(R, {}, keys, booked, daily, FALSE)
    BY <1>2
  <1>. HIDE DEF T, keys, R
  <1>7. \A c \in DOMAIN keys : ~holdsSeat[c] /\ ~Standing(c)'
    BY <1>3, <1>4
  <1>8. DOMAIN keys \subseteq CarsOf(v)
    BY <1>1, <1>3
  <1>. QED BY <1>5, <1>6, <1>7, <1>8, HandBackDay

LEMMA MoveVisitDay ==
  ASSUME CalmInv, NEW v \in Visits, NEW s \in Slots, NEW late \in SUBSET Arriving(v), MoveVisit(v, s, late),
         DecidesOnFreshKey(v), Settled(v)
  PROVE  DayStep
  <1>. DEFINE lead == First(Movers(v, late))
              holders == {c \in OnVisit(v) : holdsSeat[c]}
              holder == First(holders)
              oldDay == DayOf(SeatKeyOf(lead))
              holderMoves == holders # {} /\ holder \in Movers(v, late)
              keepDay == oldDay = DayOf(s) /\ holderMoves /\ OnVisit(v) = Movers(v, late)
              R == IF holderMoves THEN {holder} ELSE {}
              L == {lead}
              keys == [c \in {lead} |-> s]
              taken == [booked EXCEPT ![s] = @ + 1]
              count == IF keepDay THEN daily ELSE DayTaken(DayOf(s))
  <1>1. /\ LedgerTypeOK /\ RowsOK /\ TogetherOK(v) /\ SeatedOK(v) /\ CarsOf(v) \subseteq Cars
        /\ booked \in [Slots -> Nat]
    BY DEF CarsOf, CalmInv, LedgerInv, LedgerShape, Calm, Shape, TypeOK
  <1>2. /\ at' = [c \in Cars |-> IF c \in Movers(v, late) THEN s ELSE at[c]]
        /\ UNCHANGED <<status, bin, callVars>>
        /\ SameSlot(lead, s) => SeatsUnchanged
    BY MoveVisitRows
  <1>3. /\ Movers(v, late) = ToWash(v) /\ ToWash(v) \subseteq CarsOf(v)
        /\ lead \in ToWash(v) /\ lead \in CarsOf(v) /\ lead \in Cars
        /\ SeatKeyOf(lead) = at[lead] /\ at[lead] \in Slots
        /\ SameSlot(lead, s) <=> at[lead] = s
    BY MoveSettled
  <1>4. CASE SameSlot(lead, s)
    BY <1>2, <1>4, StillDay
  <1>5. CASE ~SameSlot(lead, s)
    <2>1. HandBack(R, L, keys, taken, count, keepDay)
      BY <1>5, MoveVisitIs
    <2>2. holders # {} => holder \in holders
      <3>1. holders \in SUBSET Cars
        BY <1>1 DEF OnVisit
      <3>. QED BY <3>1, FirstIn
    <2>3. /\ R \in SUBSET CarsOf(v) /\ R \in SUBSET Cars /\ \A r \in R : holdsSeat[r]
          /\ L \in SUBSET CarsOf(v) /\ L \subseteq DOMAIN keys /\ DOMAIN keys \subseteq CarsOf(v)
          /\ DOMAIN keys \ L = {}
      BY <1>1, <1>3, <2>2 DEF OnVisit
    <2>4. taken \in [Slots -> Nat]
      BY <1>1
    <2>5. \A c \in DOMAIN keys \ L : ~holdsSeat[c] /\ ~Standing(c)'
      BY <2>3
    <2>. HIDE DEF R, L, keys, taken, count, keepDay
    <2>6. PICK from : SeatsPass(v, L, from) /\ DaysPaid(R, from, count, keepDay)
      BY <1>1, <2>1, <2>3, <2>4, <2>5, HandBackPasses
    <2>7. seatKey'[lead] = s
      <3>1. PICK heir : HandBackTo(heir, R, L, keys, taken, count, keepDay)
        BY <2>1, HandBackHasHeirs
      <3>. QED BY <1>3, <3>1 DEF HandBackTo, keys
    <2>. SUFFICES ASSUME NEW d \in Days, DayLimit[d] > 0, DaysCounted(d) PROVE DaysCounted(d)'
      BY DEF DayStep
    <2>8. /\ IsFiniteSet(OwnersOn(d)' \ L) /\ Cardinality(OwnersOn(d)' \ L) \in Nat
          /\ Cardinality(OwnersOn(d)') \in Nat
          /\ Cardinality(OwnersOn(d)') <= Cardinality(OwnersOn(d)' \ L) + (IF d = DayOf(s) THEN 1 ELSE 0)
      <3>. DEFINE W == OwnersOn(d)'
      <3>1. IsFiniteSet(W) /\ Cardinality(W) \in Nat
        BY DayOwnersCountable
      <3>2. d # DayOf(s) => lead \notin W
        BY <2>7 DEF OwnersOn, DayOf
      <3>. HIDE DEF W, lead
      <3>3. /\ IsFiniteSet(W \ {lead})
            /\ Cardinality(W \ {lead}) = IF lead \in W THEN Cardinality(W) - 1 ELSE Cardinality(W)
        BY <3>1, FS_RemoveElement
      <3>4. Cardinality(W \ {lead}) \in Nat
        BY <3>3, FS_CardinalityType
      <3>5. Cardinality(W) <= Cardinality(W \ {lead}) + (IF d = DayOf(s) THEN 1 ELSE 0)
        BY <3>1, <3>2, <3>3, <3>4
      <3>. QED BY <3>1, <3>3, <3>4, <3>5 DEF W, L
    <2>. DEFINE a == Cardinality(OwnersOn(d)' \ L)
                b == Cardinality(OwnersOn(d)')
                o == Cardinality(OwnersOn(d))
                x == daily[d]
                z == daily'[d]
    <2>9. o \in Nat /\ x \in Nat /\ o <= x
      BY <1>1, DayOwnersCountable DEF LedgerTypeOK, DaysCounted
    <2>10. CASE keepDay
      <3>1. /\ holder \in ToWash(v) /\ holder \in OnVisit(v) /\ holdsSeat[holder] /\ R = {holder}
            /\ OnVisit(v) = ToWash(v) /\ DayOf(at[lead]) = DayOf(s)
        BY <1>3, <2>2, <2>10 DEF keepDay, R
      <3>2. seatKey[holder] = at[lead]
        BY <1>1, <1>3, <3>1 DEF TogetherOK, SeatedOK
      <3>3. Heirs(holder) = {}
        <4>. SUFFICES ASSUME NEW y \in Heirs(holder) PROVE FALSE
          OBVIOUS
        <4>1. holder \in Cars /\ VisitOf[holder] = v
          BY <3>1 DEF ToWash, CarsOf
        <4>2. y \in CarsOf(v) /\ Standing(y)' /\ at'[y] = at[lead]
          BY <3>2, <4>1 DEF Heirs
        <4>3. y \in OnVisit(v)
          BY <1>2, <4>2 DEF OnVisit, Standing, Listed, Exists, SeatHolding
        <4>4. at'[y] = s
          BY <1>1, <1>2, <1>3, <3>1, <4>3
        <4>. QED BY <1>3, <1>5, <4>2, <4>4
      <3>4. PICK gone \in SUBSET R :
              /\ holder \in gone /\ \A r \in gone, c \in DOMAIN from : from[c] # r
              /\ daily' = DayAfter(count, {seatKey[r] : r \in gone}, keepDay)
        BY <2>6, <3>1, <3>3 DEF DaysPaid
      <3>5. daily' = daily
        BY <2>10, <3>4 DEF DayAfter, count
      <3>. DEFINE n == Cardinality({t \in {seatKey[r] : r \in gone} : DayOf(t) = d})
      <3>6. n \in Nat /\ a \in Nat /\ a + n <= o
        <4>1. gone \in SUBSET Cars /\ \A r \in gone : holdsSeat[r]
          BY <2>3
        <4>2. \A r \in gone, c \in DOMAIN from : from[c] # r
          BY <3>4
        <4>3. LedgerTypeOK /\ RowsOK /\ SeatsPass(v, L, from)
          BY <1>1, <2>6
        <4>. HIDE DEF n, a, o
        <4>4. LET m == Cardinality({t \in {seatKey[r] : r \in gone} : DayOf(t) = d})
              IN  /\ m \in Nat
                  /\ Cardinality(OwnersOn(d)' \ L) \in Nat
                  /\ Cardinality(OwnersOn(d)' \ L) + m <= Cardinality(OwnersOn(d))
          BY <4>1, <4>2, <4>3, PassedDay
        <4>. QED BY <4>4 DEF n, a, o
      <3>7. d = DayOf(s) => n = 1
        <4>. SUFFICES ASSUME d = DayOf(s) PROVE n = 1
          OBVIOUS
        <4>1. gone = {holder}
          BY <3>1, <3>4
        <4>2. {t \in {seatKey[r] : r \in gone} : DayOf(t) = d} = {at[lead]}
          BY <3>1, <3>2, <4>1
        <4>. QED BY <4>2, FS_Singleton
      <3>8. b \in Nat /\ b <= a + (IF d = DayOf(s) THEN 1 ELSE 0)
        BY <2>8
      <3>9. z = x
        BY <3>5
      <3>. HIDE DEF a, b, o, x, z, n
      <3>10. b <= z
        BY <2>9, <3>6, <3>7, <3>8, <3>9
      <3>. QED BY <3>10 DEF DaysCounted, b, z
    <2>11. CASE ~keepDay
      <3>. DEFINE y == count[d]
      <3>1. count = DayTaken(DayOf(s)) /\ daily \in [Days -> Nat]
        BY <1>1, <2>11 DEF count, LedgerTypeOK
      <3>2. count \in [Days -> Nat]
        BY <3>1, DayTakenType
      <3>3. y = x + (IF d = DayOf(s) THEN 1 ELSE 0)
        <4>1. DayLimit[d] # 0
          BY LedgerAssumption
        <4>2. CASE d = DayOf(s)
          BY <3>1, <4>1, <4>2 DEF DayTaken
        <4>3. CASE d # DayOf(s)
          <5>1. count[d] = daily[d]
            BY <3>1, <4>3 DEF DayTaken
          <5>. QED BY <2>9, <4>3, <5>1
        <4>. QED BY <4>2, <4>3
      <3>4. DaysPaid(R, from, count, FALSE)
        <4>1. keepDay = FALSE
          BY <2>11 DEF keepDay
        <4>. QED BY <2>6, <4>1
      <3>5. daily[d] <= count[d]
        <4>. HIDE DEF x, y
        <4>1. x <= y
          BY <2>9, <3>3
        <4>. QED BY <4>1 DEF x, y
      <3>6. z \in Nat /\ a + (y - x) <= z
        BY <1>1, <2>3, <2>6, <3>2, <3>4, <3>5, PaidDay
      <3>7. a \in Nat /\ b \in Nat /\ b <= a + (IF d = DayOf(s) THEN 1 ELSE 0)
        BY <2>8
      <3>. HIDE DEF a, b, x, y, z
      <3>8. b <= z
        BY <2>9, <3>3, <3>6, <3>7
      <3>. QED BY <3>8 DEF DaysCounted, b, z
    <2>. QED BY <2>10, <2>11
  <1>. QED BY <1>4, <1>5

LEMMA CreateStepDay ==
  ASSUME LedgerShape, NEW v \in Visits, CreateStep(v) PROVE DayStep
  <1>1. /\ LedgerTypeOK /\ RowsOK /\ CarsOf(v) \in SUBSET Cars /\ CarsOf(v) # {}
        /\ Created(v) \in SUBSET Cars
    BY LedgerAssumption DEF LedgerShape, CarsOf, Created
  <1>2. ASSUME NEW s \in Slots, NEW h, CreateFirst(v, s, h) PROVE DayStep
    <2>1. First(CarsOf(v)) \in Cars /\ TakeSeat(First(CarsOf(v)), s, h)
      BY <1>1, <1>2, FirstIn DEF CreateFirst
    <2>. QED BY <2>1, TakeSeatDay
  <1>3. ASSUME RollBack(v) PROVE DayStep
    <2>. DEFINE c == Last(Created(v))
    <2>1. c \in Cars
      BY <1>1, <1>3, LastIn DEF RollBack, RowsOK
    <2>2. /\ holdsSeat' = [holdsSeat EXCEPT ![c] = FALSE] /\ seatKey' = seatKey
          /\ daily' = DayHanded(daily, IF holdsSeat[c] THEN {seatKey[c]} ELSE {})
      BY <1>3 DEF RollBack
    <2>. HIDE DEF c
    <2>. QED BY <2>1, <2>2, DropSeatDay
  <1>4. ASSUME UndoCar(v) PROVE DayStep
    <2>. DEFINE c == First(undoing[v])
    <2>1. c \in Cars
      <3>1. undoing[v] \in SUBSET Cars /\ undoing[v] # {}
        BY <1>1, <1>4 DEF LedgerTypeOK, RowsOK, UndoCar
      <3>. QED BY <3>1, FirstIn
    <2>2. SeatsUnchanged \/ Release({c})
      BY <1>4 DEF UndoCar
    <2>. HIDE DEF c
    <2>3. VisitOf[c] \in Visits /\ {c} \in SUBSET CarsOf(VisitOf[c])
      BY <2>1, LedgerAssumption DEF CarsOf
    <2>. QED BY <2>2, <2>3, StillDay, ReleaseDay
  <1>5. ASSUME CreateNext(v) \/ CreateDone(v) \/ CreateFails(v) \/ CallKilled(v) PROVE DayStep
    BY <1>5, StillDay DEF CreateNext, CreateDone, CreateFails, CallKilled
  <1>. QED BY <1>2, <1>3, <1>4, <1>5 DEF CreateStep

LEMMA CarStepDay ==
  ASSUME LedgerShape, NEW c \in Cars, CarStep(c) PROVE DayStep
  <1>1. VisitOf[c] \in Visits /\ {c} \in SUBSET CarsOf(VisitOf[c])
    BY LedgerAssumption DEF CarsOf
  <1>2. CASE CancelCar(c)
    BY <1>1, <1>2, ReleaseDay DEF CancelCar
  <1>3. CASE SetOff(c) \/ StandDown(c) \/ FinishJob(c) \/ MarkDone(c)
    BY <1>3, StillDay DEF SetOff, StandDown, FinishJob, MarkDone, Advance
  <1>4. ASSUME NEW late, DeleteVisit(c, late) PROVE DayStep
    <2>1. (OnVisit(VisitOf[c]) \ late) \cup {c} \in SUBSET CarsOf(VisitOf[c])
      BY <1>1 DEF OnVisit
    <2>2. Release((OnVisit(VisitOf[c]) \ late) \cup {c})
      BY <1>4 DEF DeleteVisit
    <2>. QED BY <1>1, <2>1, <2>2, ReleaseDay
  <1>. QED BY <1>2, <1>3, <1>4 DEF CarStep

LEMMA VisitStepDay ==
  ASSUME CalmInv, NEW v \in Visits, VisitStep(v), Undisturbed PROVE DayStep
  <1>1. CreatesAlone(v) /\ DecidesOnFreshKey(v) /\ LedgerShape /\ LedgerTypeOK
    BY DEF Undisturbed, CalmInv, LedgerInv, LedgerShape
  <1>2. ASSUME NEW T \in SUBSET CarsOf(v), CancelVisit(v, T) PROVE DayStep
    BY <1>1, <1>2, ReleaseDay DEF CancelVisit
  <1>3. ASSUME NEW s \in Slots, NEW late \in SUBSET Arriving(v), MoveVisit(v, s, late) PROVE DayStep
    <2>1. CASE Settled(v)
      BY <1>1, <1>3, <2>1, MoveVisitDay
    <2>2. CASE ~Settled(v) /\ SameRows(v)
      BY <1>1, <1>3, <2>2, MoveWhileCreating, StillDay
    <2>3. CASE ~Settled(v) /\ ~SameRows(v)
      <3>1. CreateStep(v)
        BY <1>1, <2>3 DEF CreatesAlone, Settled, SameRows
      <3>. QED BY <1>1, <3>1, CreateStepDay
    <2>. QED BY <2>1, <2>2, <2>3
  <1>4. ASSUME Restore(v) PROVE DayStep
    <2>. DEFINE open == {c \in {x \in CarsOf(v) : Exists(x) /\ bin[x]} : status[c] \in {"live", "headed"}}
                lead == First(open)
    <2>1. SeatsUnchanged \/ (open # {} /\ TakeSeat(lead, SeatKeyOf(lead), NoHolder))
      BY <1>4 DEF Restore
    <2>2. ASSUME open # {} PROVE lead \in Cars /\ SeatKeyOf(lead) \in Slots
      <3>1. lead \in open
        BY <2>2, FirstIn DEF CarsOf
      <3>. QED BY <1>1, <3>1 DEF SeatKeyOf, LedgerShape, RowsOK, LedgerTypeOK, CarsOf
    <2>. HIDE DEF open, lead
    <2>. QED BY <1>1, <2>1, <2>2, StillDay, TakeSeatDay
  <1>5. ASSUME RestoreDone(v) PROVE DayStep
    BY <1>5, StillDay DEF RestoreDone
  <1>. QED BY <1>1, <1>2, <1>3, <1>4, <1>5, ReturnToBinDay DEF VisitStep

LEMMA PurgeStepDay == ASSUME CalmInv, NEW v \in Visits, PurgeStep(v) PROVE DayStep
  <1>1. LedgerShape /\ LedgerTypeOK
    BY DEF CalmInv, LedgerInv, LedgerShape
  <1>2. CASE StartPurge(v)
    BY <1>2, StillDay DEF StartPurge
  <1>3. CASE PurgeCar(v)
    <2>. DEFINE c == First(purging[v])
    <2>1. c \in Cars
      <3>1. purging[v] \in SUBSET Cars /\ purging[v] # {}
        BY <1>1, <1>3 DEF LedgerTypeOK, PurgeCar
      <3>. QED BY <3>1, FirstIn
    <2>2. holdsSeat' = [holdsSeat EXCEPT ![c] = FALSE] /\ seatKey' = seatKey /\ daily' = daily
      BY <1>3 DEF PurgeCar
    <2>. HIDE DEF c
    <2>. QED BY <1>1, <2>1, <2>2, DropSeatDay
  <1>. QED BY <1>2, <1>3 DEF PurgeStep

LEMMA DayCountedStep ==
  ASSUME CalmInv, DayCounted, [UndisturbedNext]_vars PROVE DayCounted'
  <1>1. LedgerShape /\ LedgerTypeOK
    BY DEF CalmInv, LedgerInv, LedgerShape
  <1>2. ASSUME DayStep PROVE DayCounted'
    BY <1>2 DEF DayStep, DaysCounted, DayCounted
  <1>3. CASE UNCHANGED vars \/ (HoldsStep /\ UNCHANGED ledgerVars) \/ \E s \in Slots : RepairSlot(s)
    <2>1. UNCHANGED <<seatVars, daily>>
      BY <1>3 DEF vars, ledgerVars, RepairSlot
    <2>. QED BY <1>2, <2>1, StillDay
  <1>4. ASSUME NEW d \in Days, RepairDay(d) PROVE DayStep
    <2>1. daily' = [daily EXCEPT ![d] = Cardinality(OwnersOn(d))] /\ UNCHANGED seatVars
      BY <1>4 DEF RepairDay
    <2>2. \A e \in Days : OwnersOn(e)' = OwnersOn(e)
      BY <2>1 DEF seatVars, OwnersOn
    <2>3. \A e \in Days : daily'[e] = IF e = d THEN Cardinality(OwnersOn(e)) ELSE daily[e]
      BY <1>1, <2>1 DEF LedgerTypeOK
    <2>4. ASSUME NEW e \in Days, DaysCounted(e) PROVE DaysCounted(e)'
      <3>1. CASE e = d
        <4>. DEFINE o == Cardinality(OwnersOn(e))
        <4>1. o \in Nat /\ Cardinality(OwnersOn(e)') = o /\ daily'[e] = o
          BY <2>2, <2>3, <3>1, DayOwnersCountable
        <4>. HIDE DEF o
        <4>. QED BY <4>1 DEF DaysCounted
      <3>2. CASE e # d
        <4>1. Cardinality(OwnersOn(e)') = Cardinality(OwnersOn(e)) /\ daily'[e] = daily[e]
          BY <2>2, <2>3, <3>2
        <4>. QED BY <2>4, <4>1 DEF DaysCounted
      <3>. QED BY <3>1, <3>2
    <2>. QED BY <2>4 DEF DayStep
  <1>5. CASE UndisturbedNext
    <2>1. DayCounted' \/ DayStep
      BY <1>1, <1>3, <1>4, <1>5, CreateStepDay, VisitStepDay, PurgeStepDay, CarStepDay DEF UndisturbedNext
    <2>. QED BY <1>2, <2>1
  <1>. QED BY <1>3, <1>5

\* No hand-back, move, restore or repair lets a day be sold past the seats already owned
\* in it, as long as calls do not get in each other's way.
THEOREM DaysAreCounted == UndisturbedSpec => []DayCounted
  <1>1. LedgerInit => CalmInv
    BY CalmInit
  <1>2. LedgerInit => DayCounted
    <2>. SUFFICES ASSUME LedgerInit, NEW d \in Days PROVE Cardinality(OwnersOn(d)) <= daily[d]
      BY DEF DayCounted
    <2>1. OwnersOn(d) = {} /\ daily[d] = 0
      BY DEF LedgerInit, OwnersOn
    <2>. QED BY <2>1, FS_EmptySet
  <1>3. CalmInv /\ [UndisturbedNext]_vars => CalmInv'
    BY CalmStep
  <1>4. CalmInv /\ DayCounted /\ [UndisturbedNext]_vars => DayCounted'
    BY DayCountedStep
  <1>. QED BY <1>1, <1>2, <1>3, <1>4, PTL DEF UndisturbedSpec
=============================================================================
