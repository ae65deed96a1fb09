--------------------------- MODULE CouponUsesProofs ---------------------------
(***************************************************************************)
(* Proofs about CouponUses, for any bookings, customers, calls and limits. *)
(***************************************************************************)
EXTENDS CouponUses, FiniteSetTheorems, TLAPS

\* The steps of record_usage, with those around it, and of reverse_usage.
Spending == {"insert", "share", "total", "unshare", "unrow", "row", "commit"}
Giving == {"delete", "less", "release"}
Born == {"live", "cancelled", "gone"}

\* Of a bundle's code: the steps between its row and its use.
Claiming == {"share", "total", "unshare", "unrow"}

\* A call on a booking k is where its kind of call can be.
CallOK(c, k) ==
    /\ coupon.bundle => c.step # "row"
    /\ c.step \in {"insert", "unrow"} => coupon.bundle
    /\ \/ /\ c.why = "create"
          /\ \/ c.step \in Spending /\ k.status = "making"
             \/ c.step = "spend" /\ k.status \in {"live", "cancelled"}
             \/ c.step \in Giving /\ k.status = "gone"
       \/ c.why = "give" /\ c.step \in Giving /\ k.status \in Born
       \/ /\ c.why = "restore" /\ k.status \in Born
          /\ c.step \in (Spending \ {"commit"}) \cup Giving \cup {"settle", "bin"}

HasRow(s) == s \in {"commit", "settle", "delete", "unrow"} \/ (coupon.bundle /\ s \in Claiming)
One(b) == \E r : RowsOf(b) = {r}
RowsAt(b, s) == IF HasRow(s) THEN One(b) ELSE RowsOf(b) = {}

\* Nothing else happens to a booking while it is made, nor, where it is not crossed, while it is restored.
Lonely(b) ==
    /\ booking[b].status = "none" => CallsOn(b) = {}
    /\ booking[b].status = "making" => \E a \in Calls : CallsOn(b) = {a}
    /\ booking[b].status \notin Born =>
         b \notin crossed /\ b \notin lost /\ ~booking[b].bin /\ booking[b].discounted
    /\ b \notin crossed =>
         \A a \in CallsOn(b) : call[a].why = "restore" => Discounted(b) /\ CallsOn(b) = {a}
    /\ \A a, d \in CallsOn(b) : call[a].why = "create" /\ call[d].why = "create" => a = d

\* A bundle's code has one row of a booking, and its claim is made with the row in place.
Bundled(b) ==
    coupon.bundle =>
      /\ \A r \in RowsOf(b) : r = OnlyRow(b)
      /\ b \notin crossed => \A a \in CallsOn(b) : call[a].step \in Claiming => OnlyRow(b) \in rows

Restoring(b) == \E a \in CallsOn(b) : call[a].why = "restore"

\* Where nothing was crossed or lost: the row of a booking that stands, and of one that does not.
RowsFit(b) ==
    IF booking[b].status = "none" THEN RowsOf(b) = {}
    ELSE IF booking[b].status = "making" \/ Restoring(b)
      THEN \A a \in CallsOn(b) : RowsAt(b, call[a].step)
    ELSE IF Discounted(b) THEN One(b) /\ \A a \in CallsOn(b) : call[a].step = "spend"
    ELSE RowsOf(b) = {} \/ (One(b) /\ \E a \in CallsOn(b) : call[a].step = "delete")

BookingOK(b) ==
    /\ \A a \in CallsOn(b) : CallOK(call[a], booking[b])
    /\ Lonely(b) /\ Bundled(b)
    /\ b \notin crossed /\ b \notin lost => RowsFit(b)

Base == UsesTypeOK /\ IsFiniteSet(rows) /\ (\A a \in Calls : Under(a) <=> call[a].on \in Bookings)
BookInv == Base /\ \A b \in Bookings : BookingOK(b)

-----------------------------------------------------------------------------
(* How the calls move. *)

CallRec == [step : Steps, on : Bookings \cup {NoBooking}, why : {"create", "restore", "give", "none"}]

LEMMA IdleIsACall == Idle \in CallRec /\ Idle.step = "idle" /\ Idle.on = NoBooking
  BY DEF Idle, CallRec, Steps

\* What holds of the calls after call a has become r.
CallsMoved(a, r) ==
    /\ call' \in [Calls -> CallRec] /\ call'[a] = r
    /\ \A d \in Calls : d # a => call'[d] = call[d]
    /\ \A d \in Calls : Under(d)' <=> call'[d].on \in Bookings

LEMMA GoMoves ==
  ASSUME Base, NEW a \in Calls, Under(a), NEW s \in Steps, s # "idle", Go(a, s)
  PROVE  /\ CallsMoved(a, [call[a] EXCEPT !.step = s])
         /\ call'[a].step = s /\ call'[a].on = call[a].on /\ call'[a].why = call[a].why
         /\ \A b \in Bookings : CallsOn(b)' = CallsOn(b)
  <1>1. call \in [Calls -> CallRec] /\ call[a] \in CallRec /\ call[a].on \in Bookings
    BY DEF Base, UsesTypeOK, CallRec
  <1>2. call' = [call EXCEPT ![a].step = s]
    BY DEF Go
  <1>3. call'[a] = [call[a] EXCEPT !.step = s] /\ \A d \in Calls : d # a => call'[d] = call[d]
    BY <1>1, <1>2
  <1>4. call'[a].step = s /\ call'[a].on = call[a].on /\ call'[a].why = call[a].why
    BY <1>1, <1>3 DEF CallRec
  <1>5. call' \in [Calls -> CallRec]
    BY <1>1, <1>2 DEF CallRec
  <1>6. \A d \in Calls : (Under(d)' <=> Under(d)) /\ call'[d].on = call[d].on
    BY <1>3, <1>4 DEF Under
  <1>. QED BY <1>3, <1>4, <1>5, <1>6 DEF CallsMoved, CallsOn, Base

LEMMA ReturnMoves ==
  ASSUME Base, NEW a \in Calls, Return(a)
  PROVE  CallsMoved(a, Idle) /\ call'[a].step = "idle" /\ call'[a].on = NoBooking
         /\ \A b \in Bookings : CallsOn(b)' = CallsOn(b) \ {a}
  <1>1. PICK q : q = Idle
    OBVIOUS
  <1>2. q \in CallRec /\ q.step = "idle" /\ q.on = NoBooking /\ NoBooking \notin Bookings
    BY <1>1, IdleIsACall, UsesAssumption
  <1>3. call \in [Calls -> CallRec] /\ call' = [call EXCEPT ![a] = q]
    BY <1>1 DEF Base, UsesTypeOK, CallRec, Return
  <1>4. call'[a] = q /\ call' \in [Calls -> CallRec] /\ \A d \in Calls : d # a => call'[d] = call[d]
    BY <1>2, <1>3
  <1>5. \A d \in Calls : (Under(d)' <=> d # a /\ Under(d)) /\ (d # a => call'[d].on = call[d].on)
    BY <1>2, <1>4 DEF Under
  <1>. QED BY <1>1, <1>2, <1>4, <1>5 DEF CallsMoved, CallsOn, Base

LEMMA StartMoves ==
  ASSUME Base, NEW a \in Calls, NEW b \in Bookings, NEW why \in {"create", "restore", "give"},
         NEW s \in Steps, s # "idle", Start(a, b, why, s)
  PROVE  /\ CallsMoved(a, [step |-> s, on |-> b, why |-> why])
         /\ call'[a].step = s /\ call'[a].on = b /\ call'[a].why = why
         /\ CallsOn(b)' = CallsOn(b) \cup {a} /\ a \notin CallsOn(b)
         /\ \A o \in Bookings : o # b => CallsOn(o)' = CallsOn(o)
  <1>1. PICK q : q = [step |-> s, on |-> b, why |-> why]
    OBVIOUS
  <1>2. q \in CallRec /\ q.step = s /\ q.on = b /\ q.why = why
    BY <1>1 DEF CallRec
  <1>3. call \in [Calls -> CallRec] /\ call' = [call EXCEPT ![a] = q] /\ ~Under(a)
    BY <1>1 DEF Base, UsesTypeOK, CallRec, Start
  <1>4. call'[a] = q /\ call' \in [Calls -> CallRec] /\ \A d \in Calls : d # a => call'[d] = call[d]
    BY <1>2, <1>3
  <1>5. \A d \in Calls : (Under(d)' <=> d = a \/ Under(d)) /\ (d # a => call'[d].on = call[d].on)
    BY <1>2, <1>4 DEF Under
  <1>6. a \notin CallsOn(b)
    BY <1>3 DEF CallsOn
  <1>7. \A o \in Bookings : \A d \in Calls : d \in CallsOn(o)' <=> d \in CallsOn(o) \/ (d = a /\ o = b)
    BY <1>2, <1>3, <1>4, <1>5 DEF CallsOn
  <1>8. \A o \in Bookings : CallsOn(o) \subseteq Calls /\ CallsOn(o)' \subseteq Calls
    BY DEF CallsOn
  <1>. QED BY <1>1, <1>2, <1>4, <1>5, <1>6, <1>7, <1>8 DEF CallsMoved, Base

-----------------------------------------------------------------------------
\* What a step on booking b leaves of another booking.
Elsewhere(b) ==
    /\ \A o \in Bookings : o # b =>
         /\ booking'[o] = booking[o] /\ CallsOn(o)' = CallsOn(o) /\ RowsOf(o)' = RowsOf(o)
         /\ (o \in crossed' <=> o \in crossed) /\ (o \in lost' <=> o \in lost)
         /\ \A d \in CallsOn(o) : call'[d] = call[d]
    /\ coupon' = coupon

LEMMA OthersOK ==
  ASSUME NEW b, Elsewhere(b), NEW o \in Bookings, o # b, BookingOK(o)
  PROVE  BookingOK(o)'
  <1>1. /\ booking'[o] = booking[o] /\ CallsOn(o)' = CallsOn(o) /\ RowsOf(o)' = RowsOf(o)
        /\ (o \in crossed' <=> o \in crossed) /\ (o \in lost' <=> o \in lost)
        /\ \A d \in CallsOn(o) : call'[d] = call[d]
        /\ coupon' = coupon
    BY DEF Elsewhere
  <1>2. Discounted(o)' <=> Discounted(o)
    BY <1>1 DEF Discounted
  <1>3. OnlyRow(o) \in rows' <=> OnlyRow(o) \in rows
    BY <1>1 DEF RowsOf, OnlyRow
  <1>4. \A d \in CallsOn(o)' : CallOK(call[d], booking[o])'
    BY <1>1 DEF BookingOK, CallOK
  <1>5. Lonely(o)'
    BY <1>1, <1>2 DEF BookingOK, Lonely
  <1>6. Bundled(o)'
    BY <1>1, <1>3 DEF BookingOK, Bundled
  <1>7. RowsFit(o) => RowsFit(o)'
    BY <1>1, <1>2 DEF RowsFit, Restoring, RowsAt, HasRow, One
  <1>. QED BY <1>1, <1>4, <1>5, <1>6, <1>7 DEF BookingOK

LEMMA RowsMove ==
  ASSUME NEW b \in Bookings, NEW r, r.on = b
  PROVE  /\ rows' = rows \cup {r} => /\ RowsOf(b)' = RowsOf(b) \cup {r}
                                     /\ \A o \in Bookings : o # b => RowsOf(o)' = RowsOf(o)
         /\ rows' = rows \ {r} => /\ RowsOf(b)' = RowsOf(b) \ {r}
                                  /\ \A o \in Bookings : o # b => RowsOf(o)' = RowsOf(o)
         /\ rows' = rows => \A o \in Bookings : RowsOf(o)' = RowsOf(o)
  BY DEF RowsOf

\* A call goes on, and leaves its booking as it was.
LEMMA GoOK ==
  ASSUME BookInv, NEW a \in Calls, Under(a), NEW s \in Steps, s # "idle", Go(a, s),
         UNCHANGED <<coupon, booking, ghosts>>, NEW b, b = call[a].on,
         \A o \in Bookings : o # b => RowsOf(o)' = RowsOf(o),
         CallOK([call[a] EXCEPT !.step = s], booking[b]),
         Bundled(b)', b \notin crossed /\ b \notin lost => RowsFit(b)'
  PROVE  \A o \in Bookings : BookingOK(o)'
  <1>1. /\ b \in Bookings /\ UNCHANGED <<crossed, lost>> /\ coupon' = coupon /\ booking' = booking
        /\ a \in CallsOn(b)
    BY DEF BookInv, Base, ghosts, CallsOn
  <1>2. /\ call'[a] = [call[a] EXCEPT !.step = s] /\ \A d \in Calls : d # a => call'[d] = call[d]
        /\ call'[a].step = s /\ call'[a].on = call[a].on /\ call'[a].why = call[a].why
        /\ \A o \in Bookings : CallsOn(o)' = CallsOn(o)
    BY GoMoves DEF BookInv, CallsMoved
  <1>3. \A o \in Bookings : o # b => a \notin CallsOn(o)
    BY DEF CallsOn
  <1>4. Elsewhere(b)
    BY <1>1, <1>2, <1>3 DEF Elsewhere, CallsOn
  <1>5. BookingOK(b)'
    <2>1. BookingOK(b)
      BY <1>1 DEF BookInv
    <2>2. \A d \in CallsOn(b)' : CallOK(call[d], booking[b])'
      <3>1. CallOK(call[a], booking[b])'
        BY <1>1, <1>2 DEF CallOK
      <3>2. ASSUME NEW d \in CallsOn(b), d # a PROVE CallOK(call[d], booking[b])'
        <4>1. CallOK(call[d], booking[b]) /\ call'[d] = call[d]
          BY <1>2, <2>1, <3>2 DEF BookingOK, CallsOn
        <4>. QED BY <1>1, <4>1 DEF CallOK
      <3>. QED BY <1>1, <1>2, <3>1, <3>2
    <2>3. Lonely(b)'
      <3>1. Discounted(b)' <=> Discounted(b)
        BY <1>1 DEF Discounted
      <3>2. \A d \in CallsOn(b) : call'[d].why = call[d].why
        BY <1>2 DEF CallsOn
      <3>. QED BY <1>1, <1>2, <2>1, <3>1, <3>2 DEF BookingOK, Lonely
    <2>. QED BY <1>1, <2>2, <2>3 DEF BookingOK
  <1>. QED BY <1>1, <1>4, <1>5, OthersOK DEF BookInv

\* A call ends, and its booking is as it says.
LEMMA ReturnOK ==
  ASSUME BookInv, NEW a \in Calls, Under(a), Return(a), coupon' = coupon, NEW b, b = call[a].on,
         \A o \in Bookings : o # b => /\ RowsOf(o)' = RowsOf(o) /\ booking'[o] = booking[o]
                                      /\ (o \in crossed' <=> o \in crossed) /\ (o \in lost' <=> o \in lost),
         \A d \in CallsOn(b) : d # a => CallOK(call[d], booking'[b]),
         Lonely(b)', Bundled(b)', b \notin crossed' /\ b \notin lost' => RowsFit(b)'
  PROVE  \A o \in Bookings : BookingOK(o)'
  <1>1. b \in Bookings /\ a \in CallsOn(b)
    BY DEF BookInv, Base, CallsOn
  <1>2. /\ \A d \in Calls : d # a => call'[d] = call[d]
        /\ \A o \in Bookings : CallsOn(o)' = CallsOn(o) \ {a}
    BY ReturnMoves DEF BookInv, CallsMoved
  <1>3. \A o \in Bookings : o # b => a \notin CallsOn(o)
    BY DEF CallsOn
  <1>4. Elsewhere(b)
    BY <1>1, <1>2, <1>3 DEF Elsewhere, CallsOn
  <1>5. BookingOK(b)'
    <2>1. \A d \in CallsOn(b)' : CallOK(call[d], booking[b])'
      BY <1>1, <1>2 DEF CallOK, CallsOn
    <2>. QED BY <2>1 DEF BookingOK
  <1>. QED BY <1>1, <1>4, <1>5, OthersOK DEF BookInv

-----------------------------------------------------------------------------
(* Spending a use: record_usage. *)

\* A call of create_booking, or of restore_booking, on its way through record_usage.
LEMMA SpendsAlone ==
  ASSUME BookInv, NEW a \in Calls, Under(a), call[a].step \in (Spending \cup {"settle", "bin"}), NEW b, b = call[a].on
  PROVE  /\ b \in Bookings /\ a \in CallsOn(b) /\ BookingOK(b)
         /\ \/ call[a].why = "create" /\ booking[b].status = "making" /\ b \notin crossed /\ b \notin lost
            \/ call[a].why = "restore" /\ booking[b].status \in Born /\ (b \notin crossed => Discounted(b))
         /\ b \notin crossed => CallsOn(b) = {a}
         /\ b \notin crossed /\ b \notin lost => RowsAt(b, call[a].step)
  <1>1. b \in Bookings /\ a \in CallsOn(b)
    BY DEF BookInv, Base, CallsOn
  <1>2. BookingOK(b)
    BY <1>1 DEF BookInv
  <1>3. \/ call[a].why = "create" /\ booking[b].status = "making"
        \/ call[a].why = "restore" /\ booking[b].status \in Born
    BY <1>1, <1>2 DEF BookingOK, CallOK, Spending, Giving
  <1>4. /\ booking[b].status = "making" => b \notin crossed /\ b \notin lost /\ CallsOn(b) = {a}
        /\ b \notin crossed /\ call[a].why = "restore" => Discounted(b) /\ CallsOn(b) = {a}
    BY <1>1, <1>2 DEF BookingOK, Lonely, Born
  <1>5. b \notin crossed /\ b \notin lost => RowsAt(b, call[a].step)
    BY <1>1, <1>2, <1>3, <1>4 DEF BookingOK, RowsFit, Restoring, Born
  <1>. QED BY <1>1, <1>2, <1>3, <1>4, <1>5

\* It goes on: the row is where the next step expects it.
LEMMA SpendGoes ==
  ASSUME BookInv, NEW a \in Calls, Under(a), call[a].step \in (Spending \cup {"settle", "bin"}), NEW b, b = call[a].on,
         NEW s \in (Spending \cup {"settle", "bin", "delete"}), Go(a, s), UNCHANGED <<coupon, booking, ghosts>>,
         \A o \in Bookings : o # b => RowsOf(o)' = RowsOf(o),
         coupon.bundle => s # "row", s \in {"insert", "unrow"} => coupon.bundle,
         call[a].why = "create" => s \in Spending, call[a].why = "restore" => s # "commit",
         coupon.bundle => \A r \in RowsOf(b)' : r = OnlyRow(b),
         coupon.bundle /\ s \in Claiming /\ b \notin crossed => OnlyRow(b) \in rows',
         RowsAt(b, call[a].step) => IF HasRow(s) THEN One(b)' ELSE RowsOf(b)' = {}
  PROVE  \A o \in Bookings : BookingOK(o)'
  <1>1. /\ b \in Bookings /\ a \in CallsOn(b) /\ BookingOK(b)
        /\ \/ call[a].why = "create" /\ booking[b].status = "making" /\ b \notin crossed /\ b \notin lost
           \/ call[a].why = "restore" /\ booking[b].status \in Born /\ (b \notin crossed => Discounted(b))
        /\ b \notin crossed => CallsOn(b) = {a}
        /\ b \notin crossed /\ b \notin lost => RowsAt(b, call[a].step)
    BY SpendsAlone
  <1>2. s \in Steps /\ s # "idle" /\ call[a] \in CallRec /\ UNCHANGED <<crossed, lost, booking>> /\ coupon' = coupon
    BY DEF Steps, Spending, ghosts, BookInv, Base, UsesTypeOK, CallRec
  <1>3. CallOK([call[a] EXCEPT !.step = s], booking[b])
    <2>1. \A c \in CallRec : c.step = s /\ c.why = call[a].why => CallOK(c, booking[b])
      BY <1>1 DEF CallOK, Spending, Giving
    <2>. QED BY <1>2, <2>1 DEF CallRec
  <1>4. call'[a].step = s /\ call'[a].why = call[a].why /\ CallsOn(b)' = CallsOn(b)
    BY <1>1, <1>2, GoMoves DEF BookInv
  <1>5. Bundled(b)'
    BY <1>1, <1>2, <1>4 DEF Bundled, OnlyRow
  <1>6. b \notin crossed /\ b \notin lost => RowsFit(b)'
    BY <1>1, <1>2, <1>4 DEF RowsFit, Restoring, RowsAt, HasRow, Born
  <1>. QED BY <1>2, <1>3, <1>5, <1>6, GoOK

\* It is refused: a booking being made is not made, and holds no row.
LEMMA SpendEnds ==
  ASSUME BookInv, NEW a \in Calls, Under(a), call[a].step \in Spending, NEW b, b = call[a].on,
         call[a].why = "create", Return(a), Becomes(b, "gone"), UNCHANGED <<coupon, ghosts>>,
         \A o \in Bookings : o # b => RowsOf(o)' = RowsOf(o),
         coupon.bundle => \A r \in RowsOf(b)' : r = OnlyRow(b),
         RowsAt(b, call[a].step) => RowsOf(b)' = {}
  PROVE  \A o \in Bookings : BookingOK(o)'
  <1>1. /\ b \in Bookings /\ booking[b].status = "making" /\ b \notin crossed /\ b \notin lost
        /\ CallsOn(b) = {a} /\ RowsAt(b, call[a].step)
    BY SpendsAlone
  <1>2. /\ \A o \in Bookings : o # b => booking'[o] = booking[o]
        /\ booking'[b].status = "gone" /\ UNCHANGED <<crossed, lost>> /\ coupon' = coupon
    BY <1>1 DEF Becomes, ghosts, BookInv, Base, UsesTypeOK
  <1>3. CallsOn(b)' = {}
    BY <1>1, ReturnMoves DEF BookInv
  <1>4. Lonely(b)' /\ Bundled(b)'
    BY <1>1, <1>2, <1>3 DEF Lonely, Bundled, Born, OnlyRow
  <1>5. RowsFit(b)'
    BY <1>1, <1>2, <1>3 DEF RowsFit, Restoring, Discounted
  <1>. QED BY <1>1, <1>2, <1>4, <1>5, ReturnOK

LEMMA CallKinds ==
  ASSUME BookInv, NEW a \in Calls, Under(a)
  PROVE  /\ call[a].on \in Bookings /\ BookingOK(call[a].on) /\ CallOK(call[a], booking[call[a].on])
         /\ call[a].step \in {"insert", "unrow"} => coupon.bundle
         /\ coupon.bundle => call[a].step # "row"
  BY DEF BookInv, Base, BookingOK, CallsOn, CallOK

LEMMA FreshRow ==
  ASSUME IsFiniteSet(rows), NEW b PROVE NewRow(b) \notin rows /\ NewRow(b).on = b /\ NewRow(b).id \in Nat
  <1>. DEFINE Row(i) == [on |-> b, id |-> i]
              n == Cardinality(rows)
              f == [r \in rows |-> r.id]
  <1>1. n \in Nat
    BY FS_CardinalityType
  <1>2. \E i \in 0..n : Row(i) \notin rows
    <2>. SUFFICES ASSUME \A i \in 0..n : Row(i) \in rows PROVE FALSE
      OBVIOUS
    <2>. DEFINE g == [i \in 0..n |-> Row(i)]
    <2>1. g \in [0..n -> rows]
      OBVIOUS
    <2>2. IsFiniteSet(0..n) /\ Cardinality(0..n) = n + 1
      BY <1>1, FS_Interval
    <2>. HIDE DEF g
    <2>3. PICK i \in 0..n, j \in 0..n : i # j /\ g[i] = g[j]
      BY <1>1, <2>1, <2>2, FS_PigeonHole
    <2>4. g[i].id = i /\ g[j].id = j
      BY DEF g
    <2>. QED BY <2>3, <2>4
  <1>. DEFINE k == CHOOSE i \in 0..n : Row(i) \notin rows
  <1>3. k \in 0..n /\ Row(k) \notin rows
    BY <1>2
  <1>4. NewRow(b) = Row(k)
    BY DEF NewRow
  <1>. HIDE DEF k, n
  <1>. QED BY <1>1, <1>3, <1>4

\* Where record_usage refuses, the call ends or takes its booking back to the bin.
LEMMA RefusedOK ==
  ASSUME BookInv, NEW a \in Calls, Under(a), call[a].step \in Spending, NEW b, b = call[a].on,
         Refused(a), UNCHANGED <<coupon, ghosts>>,
         \A o \in Bookings : o # b => RowsOf(o)' = RowsOf(o),
         coupon.bundle => \A r \in RowsOf(b)' : r = OnlyRow(b),
         RowsAt(b, call[a].step) => RowsOf(b)' = {}
  PROVE  \A o \in Bookings : BookingOK(o)'
  <1>1. CASE call[a].why = "create"
    BY <1>1, SpendEnds DEF Refused
  <1>2. CASE call[a].why # "create"
    BY <1>2, SpendGoes DEF Refused, HasRow, Claiming, Spending
  <1>. QED BY <1>1, <1>2

LEMMA RecordedOK ==
  ASSUME BookInv, NEW a \in Calls, Under(a), call[a].step \in Spending \ {"commit"}, NEW b, b = call[a].on,
         Recorded(a), UNCHANGED <<coupon, ghosts>>,
         \A o \in Bookings : o # b => RowsOf(o)' = RowsOf(o),
         coupon.bundle => \A r \in RowsOf(b)' : r = OnlyRow(b),
         RowsAt(b, call[a].step) => One(b)'
  PROVE  \A o \in Bookings : BookingOK(o)'
  <1>1. call[a].why \in {"create", "restore"}
    BY SpendsAlone
  <1>2. CASE call[a].why = "create"
    BY <1>2, SpendGoes DEF Recorded, HasRow, Claiming, Spending
  <1>3. CASE call[a].why = "restore"
    BY <1>3, SpendGoes DEF Recorded, HasRow, Claiming, Spending
  <1>. QED BY <1>1, <1>2, <1>3

LEMMA InsertRowOK == ASSUME BookInv, NEW a \in Calls, InsertRow(a) PROVE \A o \in Bookings : BookingOK(o)'
  <1>1. PICK b : b = call[a].on
    OBVIOUS
  <1>2. /\ Under(a) /\ call[a].step = "insert" /\ UNCHANGED <<coupon, ghosts>>
        /\ IF OnlyRow(b) \in rows THEN Recorded(a) /\ UNCHANGED rows
           ELSE rows' = rows \cup {OnlyRow(b)} /\ Go(a, "share") /\ UNCHANGED booking
    BY <1>1 DEF InsertRow, At, Under
  <1>3. b \in Bookings /\ BookingOK(b) /\ coupon.bundle /\ OnlyRow(b).on = b
    BY <1>1, <1>2, CallKinds DEF OnlyRow
  <1>4. \A r \in RowsOf(b) : r = OnlyRow(b)
    BY <1>3 DEF BookingOK, Bundled
  <1>5. call[a].why \in {"create", "restore"}
    BY <1>1, <1>2, SpendsAlone DEF Spending
  <1>6. CASE OnlyRow(b) \in rows
    <2>1. RowsAt(b, "insert") => One(b)'
      BY <1>3, <1>6 DEF RowsAt, HasRow, RowsOf, Claiming
    <2>. QED BY <1>1, <1>2, <1>4, <1>6, <2>1, RecordedOK DEF Spending, RowsOf
  <1>7. CASE OnlyRow(b) \notin rows
    <2>1. RowsOf(b)' = RowsOf(b) \cup {OnlyRow(b)} /\ \A o \in Bookings : o # b => RowsOf(o)' = RowsOf(o)
      BY <1>2, <1>3, <1>7, RowsMove
    <2>2. RowsOf(b) = {} /\ OnlyRow(b) \in rows'
      BY <1>2, <1>4, <1>7 DEF RowsOf
    <2>3. One(b)'
      BY <2>1, <2>2 DEF One
    <2>. QED BY <1>1, <1>2, <1>3, <1>4, <1>5, <1>7, <2>1, <2>2, <2>3, SpendGoes DEF Spending, HasRow, Claiming
  <1>. QED BY <1>6, <1>7

\* What a call in record_usage that leaves the rows alone may go on.
LEMMA SpendKnows ==
  ASSUME BookInv, NEW a \in Calls, Under(a), call[a].step \in Spending, NEW b, b = call[a].on
  PROVE  /\ b \in Bookings /\ call[a].why \in {"create", "restore"} /\ CallOK(call[a], booking[b])
         /\ coupon.bundle => \A r \in RowsOf(b) : r = OnlyRow(b)
         /\ coupon.bundle /\ b \notin crossed /\ call[a].step \in Claiming => OnlyRow(b) \in rows
  <1>1. b \in Bookings /\ a \in CallsOn(b) /\ BookingOK(b) /\ call[a].why \in {"create", "restore"}
    BY SpendsAlone
  <1>. QED BY <1>1 DEF BookingOK, Bundled

LEMMA ClaimShareOK == ASSUME BookInv, NEW a \in Calls, ClaimShare(a) PROVE \A o \in Bookings : BookingOK(o)'
  <1>1. PICK b : b = call[a].on
    OBVIOUS
  <1>2. /\ Under(a) /\ call[a].step = "share" /\ UNCHANGED <<coupon, rows, ghosts>> /\ rows' = rows
        /\ \/ Go(a, "total") /\ UNCHANGED booking
           \/ coupon.bundle /\ Go(a, "unrow") /\ UNCHANGED booking
           \/ ~coupon.bundle /\ Refused(a)
    BY DEF ClaimShare, At, Under
  <1>3. /\ b \in Bookings /\ call[a].why \in {"create", "restore"}
        /\ coupon.bundle => \A r \in RowsOf(b) : r = OnlyRow(b)
        /\ coupon.bundle /\ b \notin crossed => OnlyRow(b) \in rows
    BY <1>1, <1>2, SpendKnows DEF Spending, Claiming
  <1>4. \A o \in Bookings : RowsOf(o)' = RowsOf(o)
    BY <1>2 DEF RowsOf
  <1>5. CASE Go(a, "total") /\ UNCHANGED booking
    <2>1. RowsAt(b, "share") => IF HasRow("total") THEN One(b)' ELSE RowsOf(b)' = {}
      BY <1>3, <1>4 DEF RowsAt, HasRow, One, Claiming
    <2>. QED BY <1>1, <1>2, <1>3, <1>4, <1>5, <2>1, SpendGoes DEF Spending
  <1>6. CASE coupon.bundle /\ Go(a, "unrow") /\ UNCHANGED booking
    <2>1. RowsAt(b, "share") => IF HasRow("unrow") THEN One(b)' ELSE RowsOf(b)' = {}
      BY <1>3, <1>4, <1>6 DEF RowsAt, HasRow, One, Claiming
    <2>. QED BY <1>1, <1>2, <1>3, <1>4, <1>6, <2>1, SpendGoes DEF Spending
  <1>7. CASE ~coupon.bundle /\ Refused(a)
    <2>1. RowsAt(b, "share") => RowsOf(b)' = {}
      BY <1>3, <1>4, <1>7 DEF RowsAt, HasRow, Claiming
    <2>. QED BY <1>1, <1>2, <1>3, <1>4, <1>7, <2>1, RefusedOK DEF Spending
  <1>. QED BY <1>2, <1>5, <1>6, <1>7

LEMMA CountUseOK == ASSUME BookInv, NEW a \in Calls, CountUse(a) PROVE \A o \in Bookings : BookingOK(o)'
  <1>1. PICK b : b = call[a].on
    OBVIOUS
  <1>2. /\ Under(a) /\ call[a].step = "total" /\ UNCHANGED <<coupon, rows, ghosts>> /\ rows' = rows
        /\ \/ coupon.bundle /\ Recorded(a)
           \/ ~coupon.bundle /\ Go(a, "row") /\ UNCHANGED booking
           \/ Go(a, "unshare") /\ UNCHANGED booking
    BY DEF CountUse, At, Under
  <1>3. /\ b \in Bookings /\ call[a].why \in {"create", "restore"}
        /\ coupon.bundle => \A r \in RowsOf(b) : r = OnlyRow(b)
        /\ coupon.bundle /\ b \notin crossed => OnlyRow(b) \in rows
    BY <1>1, <1>2, SpendKnows DEF Spending, Claiming
  <1>4. \A o \in Bookings : RowsOf(o)' = RowsOf(o)
    BY <1>2 DEF RowsOf
  <1>5. CASE coupon.bundle /\ Recorded(a)
    <2>1. RowsAt(b, "total") => One(b)'
      BY <1>3, <1>4, <1>5 DEF RowsAt, HasRow, One, Claiming
    <2>. QED BY <1>1, <1>2, <1>3, <1>4, <1>5, <2>1, RecordedOK DEF Spending
  <1>6. CASE ~coupon.bundle /\ Go(a, "row") /\ UNCHANGED booking
    <2>1. RowsAt(b, "total") => IF HasRow("row") THEN One(b)' ELSE RowsOf(b)' = {}
      BY <1>3, <1>4, <1>6 DEF RowsAt, HasRow, One, Claiming
    <2>2. "row" \notin Claiming
      BY DEF Claiming
    <2>. QED BY <1>1, <1>2, <1>3, <1>4, <1>6, <2>1, <2>2, SpendGoes DEF Spending
  <1>7. CASE Go(a, "unshare") /\ UNCHANGED booking
    <2>1. RowsAt(b, "total") => IF HasRow("unshare") THEN One(b)' ELSE RowsOf(b)' = {}
      BY <1>3, <1>4, <1>7 DEF RowsAt, HasRow, One, Claiming
    <2>. QED BY <1>1, <1>2, <1>3, <1>4, <1>7, <2>1, SpendGoes DEF Spending
  <1>. QED BY <1>2, <1>5, <1>6, <1>7

LEMMA GiveShareBackOK == ASSUME BookInv, NEW a \in Calls, GiveShareBack(a) PROVE \A o \in Bookings : BookingOK(o)'
  <1>1. PICK b : b = call[a].on
    OBVIOUS
  <1>2. /\ Under(a) /\ call[a].step = "unshare" /\ UNCHANGED <<coupon, rows, ghosts>> /\ rows' = rows
        /\ \/ coupon.bundle /\ Go(a, "unrow") /\ UNCHANGED booking
           \/ ~coupon.bundle /\ Refused(a)
    BY DEF GiveShareBack, At, Under
  <1>3. /\ b \in Bookings /\ call[a].why \in {"create", "restore"}
        /\ coupon.bundle => \A r \in RowsOf(b) : r = OnlyRow(b)
        /\ coupon.bundle /\ b \notin crossed => OnlyRow(b) \in rows
    BY <1>1, <1>2, SpendKnows DEF Spending, Claiming
  <1>4. \A o \in Bookings : RowsOf(o)' = RowsOf(o)
    BY <1>2 DEF RowsOf
  <1>5. CASE coupon.bundle /\ Go(a, "unrow") /\ UNCHANGED booking
    <2>1. RowsAt(b, "unshare") => IF HasRow("unrow") THEN One(b)' ELSE RowsOf(b)' = {}
      BY <1>3, <1>4, <1>5 DEF RowsAt, HasRow, One, Claiming
    <2>. QED BY <1>1, <1>2, <1>3, <1>4, <1>5, <2>1, SpendGoes DEF Spending
  <1>6. CASE ~coupon.bundle /\ Refused(a)
    <2>1. RowsAt(b, "unshare") => RowsOf(b)' = {}
      BY <1>3, <1>4, <1>6 DEF RowsAt, HasRow, Claiming
    <2>. QED BY <1>1, <1>2, <1>3, <1>4, <1>6, <2>1, RefusedOK DEF Spending
  <1>. QED BY <1>2, <1>5, <1>6

LEMMA RemoveOwnRowOK == ASSUME BookInv, NEW a \in Calls, RemoveOwnRow(a) PROVE \A o \in Bookings : BookingOK(o)'
  <1>1. PICK b : b = call[a].on
    OBVIOUS
  <1>2. Under(a) /\ call[a].step = "unrow" /\ UNCHANGED <<coupon, ghosts>> /\ rows' = rows \ {OnlyRow(b)} /\ Refused(a)
    BY <1>1 DEF RemoveOwnRow, At, Under
  <1>3. /\ b \in Bookings /\ coupon.bundle /\ OnlyRow(b).on = b
        /\ \A r \in RowsOf(b) : r = OnlyRow(b)
    BY <1>1, <1>2, SpendKnows DEF Spending, OnlyRow, CallOK
  <1>4. RowsOf(b)' = RowsOf(b) \ {OnlyRow(b)} /\ \A o \in Bookings : o # b => RowsOf(o)' = RowsOf(o)
    BY <1>2, <1>3, RowsMove
  <1>. QED BY <1>1, <1>2, <1>3, <1>4, RefusedOK DEF Spending

LEMMA WriteRowOK == ASSUME BookInv, NEW a \in Calls, WriteRow(a) PROVE \A o \in Bookings : BookingOK(o)'
  <1>1. PICK b : b = call[a].on
    OBVIOUS
  <1>2. PICK r : r = NewRow(b)
    OBVIOUS
  <1>3. Under(a) /\ call[a].step = "row" /\ UNCHANGED <<coupon, ghosts>> /\ rows' = rows \cup {r} /\ Recorded(a)
    BY <1>1, <1>2 DEF WriteRow, At, Under
  <1>4. b \in Bookings /\ ~coupon.bundle
    BY <1>1, <1>3, SpendKnows DEF Spending, CallOK
  <1>5. r.on = b
    BY <1>2, FreshRow DEF BookInv, Base
  <1>6. RowsOf(b)' = RowsOf(b) \cup {r} /\ \A o \in Bookings : o # b => RowsOf(o)' = RowsOf(o)
    BY <1>3, <1>4, <1>5, RowsMove
  <1>7. RowsAt(b, "row") => One(b)'
    BY <1>4, <1>6 DEF RowsAt, HasRow, One, Claiming
  <1>. QED BY <1>1, <1>3, <1>4, <1>6, <1>7, RecordedOK DEF Spending

-----------------------------------------------------------------------------
(* Giving a use back, and the calls around the two. *)

\* A call that ends and does not undo the making of its booking.
LEMMA LonelyReturns ==
  ASSUME BookInv, NEW a \in Calls, Under(a), NEW b, b = call[a].on, Return(a),
         booking'[b].status \in Born, b \notin crossed' => b \notin crossed
  PROVE  /\ b \in Bookings /\ Lonely(b)' /\ CallsOn(b)' = CallsOn(b) \ {a}
         /\ \A d \in CallsOn(b)' : call'[d] = call[d]
         /\ b \notin crossed => \A d \in CallsOn(b) : call[d].why = "restore" => d = a
  <1>1. b \in Bookings /\ a \in CallsOn(b) /\ BookingOK(b)
    BY DEF BookInv, Base, CallsOn
  <1>2. CallsOn(b)' = CallsOn(b) \ {a} /\ \A d \in Calls : d # a => call'[d] = call[d]
    BY <1>1, ReturnMoves DEF BookInv, CallsMoved
  <1>3. \A d \in CallsOn(b)' : d # a /\ d \in CallsOn(b) /\ call'[d] = call[d]
    BY <1>2 DEF CallsOn
  <1>4. b \notin crossed => \A d \in CallsOn(b) : call[d].why = "restore" => d = a
    BY <1>1 DEF BookingOK, Lonely
  <1>5. \A d, e \in CallsOn(b)' : call'[d].why = "create" /\ call'[e].why = "create" => d = e
    BY <1>1, <1>3 DEF BookingOK, Lonely
  <1>6. booking'[b].status # "none" /\ booking'[b].status # "making"
    BY DEF Born
  <1>7. b \notin crossed' => \A d \in CallsOn(b)' : call'[d].why # "restore"
    BY <1>3, <1>4
  <1>8. Lonely(b)'
    BY <1>5, <1>6, <1>7 DEF Lonely
  <1>. QED BY <1>1, <1>2, <1>3, <1>4, <1>8

\* A call of reverse_usage: its booking is made, and what its row says of it.
LEMMA Gives ==
  ASSUME BookInv, NEW a \in Calls, Under(a), call[a].step \in Giving, NEW b, b = call[a].on
  PROVE  /\ b \in Bookings /\ a \in CallsOn(b) /\ BookingOK(b) /\ booking[b].status \in Born
         /\ b \notin crossed /\ b \notin lost =>
              \/ call[a].why = "restore" /\ Restoring(b) /\ CallsOn(b) = {a} /\ RowsAt(b, call[a].step)
              \/ /\ call[a].why # "restore" /\ ~Restoring(b) /\ ~Discounted(b)
                 /\ RowsOf(b) = {} \/ (One(b) /\ \E d \in CallsOn(b) : call[d].step = "delete")
  <1>1. b \in Bookings /\ a \in CallsOn(b) /\ BookingOK(b)
    BY DEF BookInv, Base, CallsOn
  <1>2. booking[b].status \in Born
    BY <1>1 DEF BookingOK, CallOK, Spending, Giving, Born
  <1>3. ASSUME b \notin crossed, b \notin lost
        PROVE  \/ call[a].why = "restore" /\ Restoring(b) /\ CallsOn(b) = {a} /\ RowsAt(b, call[a].step)
               \/ /\ call[a].why # "restore" /\ ~Restoring(b) /\ ~Discounted(b)
                  /\ RowsOf(b) = {} \/ (One(b) /\ \E d \in CallsOn(b) : call[d].step = "delete")
    <2>1. RowsFit(b) /\ \A d \in CallsOn(b) : call[d].why = "restore" => CallsOn(b) = {d}
      BY <1>1, <1>3 DEF BookingOK, Lonely
    <2>2. CASE Restoring(b)
      <3>1. call[a].why = "restore" /\ CallsOn(b) = {a}
        BY <1>1, <2>1, <2>2 DEF Restoring
      <3>. QED BY <1>1, <1>2, <2>1, <2>2, <3>1 DEF RowsFit, Born
    <2>3. CASE ~Restoring(b)
      <3>1. call[a].why # "restore" /\ call[a].step # "spend"
        BY <1>1, <2>3 DEF Restoring, Giving
      <3>. QED BY <1>1, <1>2, <2>1, <2>3, <3>1 DEF RowsFit, Born
    <2>. QED BY <2>2, <2>3
  <1>. QED BY <1>1, <1>2, <1>3

\* It goes on to a step s: the rest of the booking's calls stay, and its rows are as s expects them.
LEMMA GiveGoes ==
  ASSUME BookInv, NEW a \in Calls, Under(a), call[a].step \in Giving, NEW b, b = call[a].on,
         NEW s \in Giving \cup {"bin"}, Go(a, s), UNCHANGED <<coupon, booking, ghosts>>, s # "delete",
         s = "bin" => call[a].why = "restore",
         \A o \in Bookings : o # b => RowsOf(o)' = RowsOf(o),
         RowsOf(b)' \subseteq RowsOf(b),
         b \notin crossed /\ b \notin lost => RowsOf(b)' = {} \/ (RowsOf(b)' = RowsOf(b) /\ call[a].step # "delete")
  PROVE  \A o \in Bookings : BookingOK(o)'
  <1>1. /\ b \in Bookings /\ a \in CallsOn(b) /\ BookingOK(b) /\ booking[b].status \in Born
        /\ b \notin crossed /\ b \notin lost =>
              \/ call[a].why = "restore" /\ Restoring(b) /\ CallsOn(b) = {a} /\ RowsAt(b, call[a].step)
              \/ /\ call[a].why # "restore" /\ ~Restoring(b) /\ ~Discounted(b)
                 /\ RowsOf(b) = {} \/ (One(b) /\ \E d \in CallsOn(b) : call[d].step = "delete")
    BY Gives
  <1>2. s \in Steps /\ s # "idle" /\ call[a] \in CallRec /\ UNCHANGED <<crossed, lost, booking>> /\ coupon' = coupon
    BY DEF Steps, Giving, ghosts, BookInv, Base, UsesTypeOK, CallRec
  <1>3. CallOK([call[a] EXCEPT !.step = s], booking[b])
    <2>1. \A c \in CallRec : c.step = s /\ c.why = call[a].why => CallOK(c, booking[b])
      BY <1>1 DEF BookingOK, CallOK, Spending, Giving
    <2>. QED BY <1>2, <2>1 DEF CallRec
  <1>4. /\ call'[a].step = s /\ call'[a].why = call[a].why /\ CallsOn(b)' = CallsOn(b)
        /\ \A d \in Calls : d # a => call'[d] = call[d]
    BY <1>1, <1>2, GoMoves DEF BookInv, CallsMoved
  <1>5. Bundled(b)'
    <2>1. ASSUME coupon.bundle, b \notin crossed, NEW d \in CallsOn(b)', call'[d].step \in Claiming
          PROVE  FALSE
      <3>1. d # a /\ d \in CallsOn(b) /\ Under(d) /\ call[d].on = b /\ call[d].step \in Claiming
        BY <1>4, <2>1 DEF Claiming, Giving, CallsOn, Under
      <3>2. call[d].step \in Spending /\ d \in Calls
        BY <3>1 DEF Claiming, Spending, CallsOn
      <3>3. CallsOn(b) = {d}
        BY <2>1, <3>1, <3>2, SpendsAlone
      <3>. QED BY <1>1, <3>1, <3>3
    <2>. QED BY <1>1, <1>2, <2>1 DEF BookingOK, Bundled, OnlyRow
  <1>6. b \notin crossed /\ b \notin lost => RowsFit(b)'
    <2>. SUFFICES ASSUME b \notin crossed, b \notin lost PROVE RowsFit(b)'
      OBVIOUS
    <2>1. (Discounted(b)' <=> Discounted(b)) /\ (Restoring(b)' <=> Restoring(b))
      BY <1>2, <1>4 DEF Discounted, Restoring, CallsOn
    <2>2. CASE Restoring(b)
      <3>1. CallsOn(b)' = {a} /\ RowsOf(b)' = {}
        BY <1>1, <1>4, <2>2 DEF RowsAt, HasRow, Claiming, Giving
      <3>. QED BY <1>1, <1>2, <1>4, <2>1, <2>2, <3>1 DEF RowsFit, RowsAt, HasRow, Claiming, Giving, Born
    <2>3. CASE ~Restoring(b)
      <3>1. RowsOf(b)' = {} \/ (One(b)' /\ \E d \in CallsOn(b)' : call'[d].step = "delete")
        BY <1>1, <1>4, <2>3 DEF One, CallsOn
      <3>. QED BY <1>1, <1>2, <2>1, <2>3, <3>1 DEF RowsFit, Born
    <2>. QED BY <2>2, <2>3
  <1>. QED BY <1>1, <1>2, <1>3, <1>5, <1>6, GoOK

\* It ends, for a booking that has no row or one that another call is to delete.
LEMMA GiveEnds ==
  ASSUME BookInv, NEW a \in Calls, Under(a), call[a].step \in Giving, NEW b, b = call[a].on,
         Return(a), UNCHANGED <<coupon, booking, rows, ghosts>>, call[a].why # "restore",
         call[a].step = "delete" => RowsOf(b) = {}
  PROVE  \A o \in Bookings : BookingOK(o)'
  <1>1. /\ b \in Bookings /\ a \in CallsOn(b) /\ BookingOK(b) /\ booking[b].status \in Born
        /\ b \notin crossed /\ b \notin lost =>
              /\ ~Restoring(b) /\ ~Discounted(b)
              /\ RowsOf(b) = {} \/ (One(b) /\ \E d \in CallsOn(b) : call[d].step = "delete")
    BY Gives
  <1>2. /\ UNCHANGED <<crossed, lost, booking, rows>> /\ coupon' = coupon
        /\ \A o \in Bookings : RowsOf(o)' = RowsOf(o)
    BY DEF ghosts, RowsOf
  <1>3. Lonely(b)' /\ CallsOn(b)' = CallsOn(b) \ {a} /\ \A d \in CallsOn(b)' : call'[d] = call[d]
    BY <1>1, <1>2, LonelyReturns
  <1>4. Bundled(b)'
    BY <1>1, <1>2, <1>3 DEF BookingOK, Bundled, OnlyRow
  <1>5. b \notin crossed /\ b \notin lost => RowsFit(b)'
    <2>. SUFFICES ASSUME b \notin crossed, b \notin lost PROVE RowsFit(b)'
      OBVIOUS
    <2>1. ~Restoring(b)' /\ ~Discounted(b)'
      BY <1>1, <1>2, <1>3 DEF Restoring, Discounted
    <2>2. RowsOf(b)' = {} \/ (One(b)' /\ \E d \in CallsOn(b)' : call'[d].step = "delete")
      BY <1>1, <1>2, <1>3 DEF One
    <2>. QED BY <1>1, <1>2, <2>1, <2>2 DEF RowsFit, Born
  <1>. QED BY <1>1, <1>2, <1>3, <1>4, <1>5, ReturnOK DEF BookingOK

LEMMA DeleteRowOK == ASSUME BookInv, NEW a \in Calls, DeleteRow(a) PROVE \A o \in Bookings : BookingOK(o)'
  <1>1. PICK b : b = call[a].on
    OBVIOUS
  <1>2. /\ Under(a) /\ call[a].step = "delete" /\ call[a].step \in Giving /\ UNCHANGED <<coupon, booking, ghosts>>
        /\ \/ RowsOf(b) = {} /\ Reversed(a) /\ UNCHANGED rows
           \/ Go(a, "less") /\ \E r \in RowsOf(b) : rows' = rows \ {r}
    BY <1>1 DEF DeleteRow, At, Under, Giving
  <1>3. /\ b \in Bookings /\ a \in CallsOn(b) /\ BookingOK(b)
        /\ b \notin crossed /\ b \notin lost =>
              \/ call[a].why = "restore" /\ Restoring(b) /\ CallsOn(b) = {a} /\ RowsAt(b, call[a].step)
              \/ /\ call[a].why # "restore" /\ ~Restoring(b) /\ ~Discounted(b)
                 /\ RowsOf(b) = {} \/ (One(b) /\ \E d \in CallsOn(b) : call[d].step = "delete")
    BY <1>1, <1>2, Gives
  <1>4. CASE RowsOf(b) = {} /\ Reversed(a) /\ UNCHANGED rows
    <2>1. \A o \in Bookings : RowsOf(o)' = RowsOf(o)
      BY <1>4 DEF RowsOf
    <2>2. CASE call[a].why = "restore"
      BY <1>1, <1>2, <1>3, <1>4, <2>1, <2>2, GiveGoes DEF Reversed
    <2>3. CASE call[a].why # "restore"
      BY <1>1, <1>2, <1>4, <2>3, GiveEnds DEF Reversed
    <2>. QED BY <2>2, <2>3
  <1>5. CASE Go(a, "less") /\ \E r \in RowsOf(b) : rows' = rows \ {r}
    <2>1. PICK r \in RowsOf(b) : rows' = rows \ {r}
      BY <1>5
    <2>2. RowsOf(b)' = RowsOf(b) \ {r} /\ \A o \in Bookings : o # b => RowsOf(o)' = RowsOf(o)
      BY <1>3, <2>1, RowsMove DEF RowsOf
    <2>3. b \notin crossed /\ b \notin lost => RowsOf(b)' = {}
      BY <1>2, <1>3, <2>1, <2>2 DEF RowsAt, HasRow, One
    <2>. QED BY <1>1, <1>2, <1>5, <2>2, <2>3, GiveGoes DEF Giving
  <1>. QED BY <1>2, <1>4, <1>5

LEMMA UncountUseOK == ASSUME BookInv, NEW a \in Calls, UncountUse(a) PROVE \A o \in Bookings : BookingOK(o)'
  <1>1. /\ Under(a) /\ call[a].step = "less" /\ Go(a, "release") /\ UNCHANGED <<coupon, booking, ghosts>>
        /\ \A o : RowsOf(o)' = RowsOf(o)
    BY DEF UncountUse, At, Under, RowsOf
  <1>. QED BY <1>1, GiveGoes DEF Giving

LEMMA ReleaseShareOK == ASSUME BookInv, NEW a \in Calls, ReleaseShare(a) PROVE \A o \in Bookings : BookingOK(o)'
  <1>1. /\ Under(a) /\ call[a].step = "release" /\ Reversed(a) /\ UNCHANGED <<coupon, booking, rows, ghosts>>
        /\ \A o : RowsOf(o)' = RowsOf(o)
    BY DEF ReleaseShare, At, Under, RowsOf
  <1>2. CASE call[a].why = "restore"
    BY <1>1, <1>2, GiveGoes DEF Giving, Reversed
  <1>3. CASE call[a].why # "restore"
    BY <1>1, <1>3, GiveEnds DEF Giving, Reversed
  <1>. QED BY <1>2, <1>3

\* A call of create_booking goes on with its booking's new status.
LEMMA CreateGoes ==
  ASSUME BookInv, NEW a \in Calls, Under(a), call[a].why = "create", NEW b, b = call[a].on,
         call[a].step \in {"commit", "spend"}, NEW s \in {"spend", "delete"}, Go(a, s),
         NEW k \in {"live", "gone"}, Becomes(b, k), UNCHANGED <<coupon, rows, ghosts>>,
         s = "spend" <=> k = "live", call[a].step = "spend" => k = "gone"
  PROVE  \A o \in Bookings : BookingOK(o)'
  <1>1. b \in Bookings /\ a \in CallsOn(b) /\ BookingOK(b) /\ CallOK(call[a], booking[b])
    BY CallKinds DEF CallsOn
  <1>2. /\ \A o \in Bookings : o # b => booking'[o] = booking[o]
        /\ booking'[b].status = k /\ booking'[b].bin = booking[b].bin /\ booking'[b].discounted = booking[b].discounted
        /\ UNCHANGED <<crossed, lost, rows>> /\ coupon' = coupon
        /\ \A o \in Bookings : RowsOf(o)' = RowsOf(o)
    BY <1>1 DEF Becomes, ghosts, BookInv, Base, UsesTypeOK, RowsOf
  <1>3. /\ call'[a].step = s /\ call'[a].on = b /\ call'[a].why = "create" /\ \A o \in Bookings : CallsOn(o)' = CallsOn(o)
        /\ \A d \in Calls : d # a => call'[d] = call[d]
    BY <1>1, GoMoves DEF BookInv, CallsMoved, Steps
  <1>4. Elsewhere(b)
    BY <1>1, <1>2, <1>3 DEF Elsewhere, CallsOn
  <1>5. /\ booking[b].status \in {"making", "live", "cancelled"}
        /\ call[a].step = "commit" => booking[b].status = "making"
        /\ call[a].step = "spend" => booking[b].status \in {"live", "cancelled"}
    BY <1>1 DEF CallOK, Spending, Giving
  <1>6. booking[b].status = "making" => CallsOn(b) = {a}
    BY <1>1 DEF BookingOK, Lonely
  <1>7. \A d \in CallsOn(b)' : CallOK(call[d], booking[b])'
    <2>1. CallOK(call[a], booking[b])'
      BY <1>1, <1>2, <1>3 DEF CallOK, Spending, Giving
    <2>2. ASSUME NEW d \in CallsOn(b), d # a PROVE CallOK(call[d], booking[b])'
      <3>1. call[d].why # "create" /\ call'[d] = call[d] /\ CallOK(call[d], booking[b])
        BY <1>1, <1>3, <2>2 DEF BookingOK, Lonely, CallsOn
      <3>. QED BY <1>2, <3>1 DEF CallOK, Born
    <2>. QED BY <1>1, <1>3, <2>1, <2>2
  <1>8. \A d \in CallsOn(b) : call'[d].why = call[d].why
    BY <1>3 DEF CallsOn
  <1>9. b \notin crossed => ~Restoring(b)
    BY <1>1 DEF BookingOK, Lonely, Restoring
  <1>10. Lonely(b)'
    <2>1. \A d, e \in CallsOn(b)' : call'[d].why = "create" /\ call'[e].why = "create" => d = e
      BY <1>1, <1>3, <1>8 DEF BookingOK, Lonely
    <2>2. k \in Born /\ \A d \in CallsOn(b)' : b \notin crossed => call'[d].why # "restore"
      BY <1>1, <1>3, <1>8, <1>9 DEF Born, Restoring
    <2>. QED BY <1>1, <1>2, <2>1, <2>2 DEF Lonely, Born
  <1>11. Bundled(b)'
    <2>1. \A d \in CallsOn(b) : call'[d].step \in Claiming => call[d].step \in Claiming
      BY <1>3 DEF Claiming, CallsOn
    <2>. QED BY <1>1, <1>2, <1>3, <2>1 DEF BookingOK, Bundled, OnlyRow
  <1>12. b \notin crossed /\ b \notin lost => RowsFit(b)'
    <2>. SUFFICES ASSUME b \notin crossed, b \notin lost PROVE RowsFit(b)'
      OBVIOUS
    <2>1. RowsFit(b) /\ ~Restoring(b)'
      BY <1>1, <1>3, <1>8, <1>9 DEF BookingOK, Restoring
    <2>2. CASE s = "spend"
      <3>1. call[a].step = "commit" /\ booking[b].status = "making" /\ CallsOn(b)' = {a}
        BY <1>1, <1>3, <1>5, <1>6, <2>2
      <3>2. One(b)' /\ Discounted(b)'
        BY <1>1, <1>2, <2>1, <2>2, <3>1 DEF RowsFit, RowsAt, HasRow, One, Discounted, BookingOK, Lonely, Born
      <3>. QED BY <1>2, <1>3, <2>1, <2>2, <3>1, <3>2 DEF RowsFit
    <2>3. CASE s = "delete"
      <3>1. ~Discounted(b)' /\ a \in CallsOn(b)' /\ k = "gone"
        BY <1>1, <1>2, <1>3, <2>3 DEF Discounted
      <3>2. RowsOf(b) = {} \/ One(b)
        BY <1>1, <1>5, <1>6, <1>9, <2>1 DEF RowsFit, RowsAt, HasRow
      <3>3. RowsOf(b)' = {} \/ (One(b)' /\ \E d \in CallsOn(b)' : call'[d].step = "delete")
        BY <1>1, <1>2, <1>3, <2>3, <3>1, <3>2 DEF One
      <3>. QED BY <1>2, <2>1, <3>1, <3>3 DEF RowsFit
    <2>. QED BY <2>2, <2>3
  <1>13. BookingOK(b)'
    BY <1>2, <1>7, <1>10, <1>11, <1>12 DEF BookingOK
  <1>. QED BY <1>1, <1>4, <1>13, OthersOK DEF BookInv

LEMMA CommitOK == ASSUME BookInv, NEW a \in Calls, Commit(a) PROVE \A o \in Bookings : BookingOK(o)'
  <1>1. /\ Under(a) /\ call[a].step = "commit" /\ UNCHANGED <<coupon, rows, ghosts>>
        /\ \/ Becomes(call[a].on, "live") /\ Go(a, "spend")
           \/ Becomes(call[a].on, "gone") /\ Go(a, "delete")
    BY DEF Commit, At, Under, codeVars
  <1>2. call[a].why = "create"
    BY <1>1, CallKinds DEF CallOK, Giving, Spending
  <1>. QED BY <1>1, <1>2, CreateGoes

LEMMA SpendPassOK == ASSUME BookInv, NEW a \in Calls, SpendPass(a) PROVE \A o \in Bookings : BookingOK(o)'
  <1>1. PICK b : b = call[a].on
    OBVIOUS
  <1>2. /\ Under(a) /\ call[a].step = "spend" /\ UNCHANGED <<coupon, rows, ghosts>>
        /\ \/ Return(a) /\ UNCHANGED booking
           \/ Becomes(b, "gone") /\ Go(a, "delete")
    BY <1>1 DEF SpendPass, At, Under, codeVars
  <1>3. /\ call[a].why = "create" /\ b \in Bookings /\ a \in CallsOn(b) /\ BookingOK(b)
        /\ booking[b].status \in {"live", "cancelled"}
    BY <1>1, <1>2, CallKinds DEF CallOK, Giving, Spending, CallsOn
  <1>4. CASE Return(a) /\ UNCHANGED booking
    <2>1. UNCHANGED <<crossed, lost, booking, rows>> /\ coupon' = coupon /\ \A o \in Bookings : RowsOf(o)' = RowsOf(o)
      BY <1>2, <1>4 DEF ghosts, RowsOf
    <2>2. /\ Lonely(b)' /\ CallsOn(b)' = CallsOn(b) \ {a} /\ \A d \in CallsOn(b)' : call'[d] = call[d]
          /\ b \notin crossed => \A d \in CallsOn(b) : call[d].why = "restore" => d = a
      BY <1>1, <1>2, <1>3, <1>4, <2>1, LonelyReturns DEF Born
    <2>3. Bundled(b)'
      BY <1>3, <2>1, <2>2 DEF BookingOK, Bundled, OnlyRow
    <2>4. ASSUME b \notin crossed, b \notin lost PROVE RowsFit(b)'
      <3>1. ~Restoring(b) /\ ~Restoring(b)' /\ RowsFit(b) /\ (Discounted(b)' <=> Discounted(b)) /\ (One(b)' <=> One(b))
        BY <1>3, <2>1, <2>2, <2>4 DEF Restoring, BookingOK, Discounted, One
      <3>2. CASE Discounted(b)
        BY <1>3, <2>1, <2>2, <3>1, <3>2 DEF RowsFit
      <3>3. CASE ~Discounted(b)
        BY <1>2, <1>3, <2>1, <2>2, <3>1, <3>3 DEF RowsFit
      <3>. QED BY <3>2, <3>3
    <2>. QED BY <1>1, <1>2, <1>3, <1>4, <2>1, <2>2, <2>3, <2>4, ReturnOK DEF BookingOK
  <1>5. CASE Becomes(b, "gone") /\ Go(a, "delete")
    BY <1>1, <1>2, <1>3, <1>5, CreateGoes
  <1>. QED BY <1>2, <1>4, <1>5

LEMMA SettleRestoreOK == ASSUME BookInv, NEW a \in Calls, SettleRestore(a) PROVE \A o \in Bookings : BookingOK(o)'
  <1>1. PICK b : b = call[a].on
    OBVIOUS
  <1>2. /\ Under(a) /\ call[a].step = "settle" /\ UNCHANGED <<coupon, booking, rows, ghosts>>
        /\ Return(a) \/ Go(a, "delete")
    BY DEF SettleRestore, At, Under, codeVars
  <1>3. /\ b \in Bookings /\ BookingOK(b) /\ call[a].why = "restore" /\ booking[b].status \in Born
    BY <1>1, <1>2, CallKinds DEF CallOK, Giving, Spending
  <1>4. /\ b \notin crossed => CallsOn(b) = {a} /\ Discounted(b)
        /\ b \notin crossed /\ b \notin lost => One(b)
    BY <1>1, <1>2, <1>3, SpendsAlone DEF RowsAt, HasRow
  <1>5. UNCHANGED <<crossed, lost, booking, rows>> /\ coupon' = coupon /\ \A o \in Bookings : RowsOf(o)' = RowsOf(o)
    BY <1>2 DEF ghosts, RowsOf
  <1>6. CASE Return(a)
    <2>1. Lonely(b)' /\ CallsOn(b)' = CallsOn(b) \ {a} /\ \A d \in CallsOn(b)' : call'[d] = call[d]
      BY <1>1, <1>2, <1>3, <1>5, <1>6, LonelyReturns
    <2>2. Bundled(b)'
      BY <1>3, <1>5, <2>1 DEF BookingOK, Bundled, OnlyRow
    <2>3. ASSUME b \notin crossed, b \notin lost PROVE RowsFit(b)'
      <3>1. CallsOn(b)' = {} /\ One(b)'
        BY <1>3, <1>4, <1>5, <2>1, <2>3 DEF One
      <3>2. Discounted(b)'
        BY <1>4, <1>5, <2>3 DEF Discounted
      <3>. QED BY <1>3, <1>5, <3>1, <3>2 DEF RowsFit, Restoring, Born
    <2>. QED BY <1>1, <1>2, <1>3, <1>5, <1>6, <2>1, <2>2, <2>3, ReturnOK DEF BookingOK
  <1>7. CASE Go(a, "delete")
    <2>1. RowsAt(b, "settle") => IF HasRow("delete") THEN One(b)' ELSE RowsOf(b)' = {}
      BY <1>3, <1>5 DEF RowsAt, HasRow, One
    <2>2. "delete" \notin Claiming
      BY DEF Claiming
    <2>. QED BY <1>1, <1>2, <1>3, <1>5, <1>7, <2>1, <2>2, SpendGoes DEF BookingOK, Bundled
  <1>. QED BY <1>2, <1>6, <1>7

LEMMA ReturnToBinOK == ASSUME BookInv, NEW a \in Calls, ReturnToBin(a) PROVE \A o \in Bookings : BookingOK(o)'
  <1>1. PICK b : b = call[a].on
    OBVIOUS
  <1>2. /\ Under(a) /\ call[a].step = "bin" /\ UNCHANGED <<coupon, rows, ghosts>> /\ Return(a)
        /\ booking' = [booking EXCEPT ![b].bin = @ \/ Listed(b)]
    BY <1>1 DEF ReturnToBin, At, Under, codeVars
  <1>3. /\ b \in Bookings /\ BookingOK(b) /\ call[a].why = "restore" /\ booking[b].status \in Born
    BY <1>1, <1>2, CallKinds DEF CallOK, Giving, Spending
  <1>4. /\ b \notin crossed => CallsOn(b) = {a} /\ Discounted(b)
        /\ b \notin crossed /\ b \notin lost => RowsOf(b) = {}
    BY <1>1, <1>2, <1>3, SpendsAlone DEF RowsAt, HasRow, Claiming
  <1>5. /\ UNCHANGED <<crossed, lost, rows>> /\ coupon' = coupon /\ \A o \in Bookings : RowsOf(o)' = RowsOf(o)
        /\ \A o \in Bookings : o # b => booking'[o] = booking[o]
        /\ booking'[b].status = booking[b].status /\ booking'[b].bin = (booking[b].bin \/ Listed(b))
    BY <1>2, <1>3 DEF ghosts, RowsOf, BookInv, Base, UsesTypeOK
  <1>6. Lonely(b)' /\ CallsOn(b)' = CallsOn(b) \ {a} /\ \A d \in CallsOn(b)' : call'[d] = call[d]
    BY <1>1, <1>2, <1>3, <1>5, LonelyReturns
  <1>7. Bundled(b)'
    BY <1>3, <1>5, <1>6 DEF BookingOK, Bundled, OnlyRow
  <1>8. ASSUME b \notin crossed, b \notin lost PROVE RowsFit(b)'
    <2>1. Listed(b)
      BY <1>4, <1>8 DEF Discounted, Listed
    <2>2. CallsOn(b)' = {} /\ RowsOf(b)' = {}
      BY <1>3, <1>4, <1>5, <1>6, <1>8
    <2>3. ~Discounted(b)'
      BY <1>5, <2>1 DEF Discounted
    <2>. QED BY <1>3, <1>5, <2>2, <2>3 DEF RowsFit, Restoring, Born
  <1>9. \A d \in CallsOn(b) : CallOK(call[d], booking'[b])
    BY <1>3, <1>5 DEF BookingOK, CallOK
  <1>. QED BY <1>1, <1>2, <1>3, <1>5, <1>6, <1>7, <1>8, <1>9, ReturnOK

LEMMA KillOK == ASSUME BookInv, NEW a \in Calls, Kill(a) PROVE \A o \in Bookings : BookingOK(o)'
  <1>1. PICK b : b = call[a].on
    OBVIOUS
  <1>2. /\ Under(a) /\ UNCHANGED <<coupon, rows>> /\ Return(a) /\ lost' = lost \cup {b}
        /\ crossed' = IF call[a].why = "restore" THEN crossed \cup {b} ELSE crossed
        /\ IF booking[b].status = "making" THEN Becomes(b, "gone") ELSE UNCHANGED booking
    BY <1>1 DEF Kill, codeVars
  <1>3. b \in Bookings /\ BookingOK(b) /\ a \in CallsOn(b)
    BY <1>1, <1>2, CallKinds DEF CallsOn
  <1>4. /\ \A o \in Bookings : RowsOf(o)' = RowsOf(o)
        /\ \A o \in Bookings : o # b => booking'[o] = booking[o]
        /\ booking'[b].status = IF booking[b].status = "making" THEN "gone" ELSE booking[b].status
    BY <1>2, <1>3 DEF RowsOf, BookInv, Base, UsesTypeOK, Becomes
  <1>5. booking'[b].status \in Born
    <2>1. booking[b].status # "none" /\ booking[b].status \in Born \cup {"none", "making"}
      BY <1>3 DEF BookingOK, Lonely, BookInv, Base, UsesTypeOK, Born
    <2>. QED BY <1>4, <2>1 DEF Born
  <1>6. Lonely(b)' /\ CallsOn(b)' = CallsOn(b) \ {a} /\ \A d \in CallsOn(b)' : call'[d] = call[d]
    BY <1>1, <1>2, <1>5, LonelyReturns
  <1>7. Bundled(b)'
    BY <1>2, <1>3, <1>4, <1>6 DEF BookingOK, Bundled, OnlyRow
  <1>8. \A d \in CallsOn(b) : d # a => CallOK(call[d], booking'[b])
    <2>1. booking[b].status = "making" => CallsOn(b) = {a}
      BY <1>3 DEF BookingOK, Lonely
    <2>. QED BY <1>2, <1>3, <2>1 DEF BookingOK
  <1>9. coupon' = coupon /\ b \in lost' /\ \A o \in Bookings : o # b => (o \in crossed' <=> o \in crossed) /\ (o \in lost' <=> o \in lost)
    BY <1>2
  <1>. QED BY <1>1, <1>2, <1>4, <1>6, <1>7, <1>8, <1>9, ReturnOK

-----------------------------------------------------------------------------
(* A call starts. *)
LEMMA StartOK ==
  ASSUME BookInv, NEW a \in Calls, NEW b \in Bookings, NEW why \in {"create", "restore", "give"},
         NEW s \in Steps, s # "idle", Start(a, b, why, s), UNCHANGED rows,
         \A o \in Bookings : o # b => booking'[o] = booking[o], b \notin lost => b \notin lost',
         \A d \in CallsOn(b) : CallOK(call[d], booking'[b]),
         CallOK([step |-> s, on |-> b, why |-> why], booking'[b]),
         s \notin Claiming \/ ~coupon.bundle, why = "create" => CallsOn(b) = {},
         IF booking'[b].status = "making" THEN CallsOn(b) = {} /\ booking'[b].discounted /\ ~booking'[b].bin
                                                /\ b \notin crossed /\ b \notin lost
                                          ELSE booking'[b].status \in Born,
         why = "restore" => Discounted(b)',
         b \notin crossed' /\ b \notin lost => RowsFit(b)'
  PROVE  \A o \in Bookings : BookingOK(o)'
  <1>1. /\ call'[a].step = s /\ call'[a].on = b /\ call'[a].why = why
        /\ call'[a] = [step |-> s, on |-> b, why |-> why]
        /\ CallsOn(b)' = CallsOn(b) \cup {a} /\ a \notin CallsOn(b)
        /\ \A o \in Bookings : o # b => CallsOn(o)' = CallsOn(o)
        /\ \A d \in Calls : d # a => call'[d] = call[d]
    BY StartMoves DEF BookInv, CallsMoved
  <1>2. /\ coupon' = coupon /\ lost' = lost
        /\ crossed' = IF \E o \in CallsOn(b) : why = "restore" \/ call[o].why = "restore"
                        THEN crossed \cup {b} ELSE crossed
        /\ ~Under(a) /\ \A o \in Bookings : RowsOf(o)' = RowsOf(o)
    BY DEF Start, RowsOf
  <1>3. \A o \in Bookings : o # b => (o \in crossed' <=> o \in crossed)
    BY <1>2
  <1>4. \A d \in CallsOn(b) : d # a /\ d \in Calls /\ call'[d] = call[d]
    BY <1>1 DEF CallsOn
  <1>5. Elsewhere(b)
    <2>1. \A o \in Bookings : \A d \in CallsOn(o) : d # a /\ d \in Calls
      BY <1>2 DEF CallsOn
    <2>. QED BY <1>1, <1>2, <1>3, <2>1 DEF Elsewhere
  <1>6. BookingOK(b) /\ b \in Bookings
    BY DEF BookInv
  <1>7. \A d \in CallsOn(b)' : CallOK(call[d], booking[b])'
    BY <1>1, <1>2, <1>4 DEF CallOK
  <1>8. Lonely(b)'
    <2>1. \A d, e \in CallsOn(b)' : call'[d].why = "create" /\ call'[e].why = "create" => d = e
      BY <1>1, <1>4, <1>6 DEF BookingOK, Lonely
    <2>2. booking'[b].status # "none" /\ (booking'[b].status \notin Born => booking'[b].status = "making")
      BY DEF Born
    <2>3. booking'[b].status = "making" => CallsOn(b)' = {a} /\ b \notin crossed'
      BY <1>1, <1>2
    <2>4. ASSUME b \notin crossed', NEW d \in CallsOn(b)', call'[d].why = "restore"
          PROVE  Discounted(b)' /\ CallsOn(b)' = {d}
      <3>1. \A o \in CallsOn(b) : why # "restore" /\ call[o].why # "restore"
        BY <1>2, <2>4
      <3>2. d = a /\ why = "restore"
        BY <1>1, <1>4, <2>4, <3>1
      <3>. QED BY <1>1, <3>1, <3>2
    <2>5. a \in Calls /\ b \in Bookings
      OBVIOUS
    <2>. QED BY <1>2, <2>1, <2>2, <2>3, <2>4, <2>5 DEF Lonely, Born
  <1>9. Bundled(b)'
    <2>1. b \notin crossed' => b \notin crossed
      BY <1>2
    <2>. QED BY <1>1, <1>2, <1>4, <1>6, <2>1 DEF BookingOK, Bundled, OnlyRow
  <1>10. b \notin crossed' /\ b \notin lost' => RowsFit(b)'
    BY <1>2
  <1>11. BookingOK(b)'
    BY <1>7, <1>8, <1>9, <1>10 DEF BookingOK
  <1>. QED BY <1>5, <1>6, <1>11, OthersOK DEF BookInv

\* What the calls that overlap the start of another tell: a restore among them crosses it.
LEMMA StartKnows ==
  ASSUME BookInv, NEW a \in Calls, NEW b \in Bookings, NEW why \in {"create", "restore", "give"},
         NEW s \in Steps, s # "idle", Start(a, b, why, s), UNCHANGED rows
  PROVE  /\ b \notin crossed' => b \notin crossed /\ ~Restoring(b) /\ (why = "restore" => CallsOn(b) = {})
         /\ why # "restore" /\ b \notin crossed' => ~Restoring(b)'
         /\ a \in CallsOn(b)' /\ call'[a].step = s /\ call'[a].why = why /\ CallsOn(b)' = CallsOn(b) \cup {a}
         /\ RowsOf(b)' = RowsOf(b) /\ lost' = lost /\ coupon' = coupon
         /\ BookingOK(b)
  <1>1. /\ call'[a].step = s /\ call'[a].on = b /\ call'[a].why = why
        /\ CallsOn(b)' = CallsOn(b) \cup {a} /\ a \notin CallsOn(b)
        /\ \A d \in Calls : d # a => call'[d] = call[d]
    <2>1. Base
      BY DEF BookInv
    <2>2. /\ CallsMoved(a, [step |-> s, on |-> b, why |-> why])
          /\ call'[a].step = s /\ call'[a].on = b /\ call'[a].why = why
          /\ CallsOn(b)' = CallsOn(b) \cup {a} /\ a \notin CallsOn(b)
      BY <2>1, StartMoves
    <2>. QED BY <2>2 DEF CallsMoved
  <1>2. /\ coupon' = coupon /\ lost' = lost
        /\ crossed' = IF \E o \in CallsOn(b) : why = "restore" \/ call[o].why = "restore"
                        THEN crossed \cup {b} ELSE crossed
        /\ RowsOf(b)' = RowsOf(b)
    BY DEF Start, RowsOf
  <1>3. ASSUME b \notin crossed' PROVE b \notin crossed /\ ~Restoring(b) /\ (why = "restore" => CallsOn(b) = {})
    BY <1>2, <1>3 DEF Restoring
  <1>4. ASSUME why # "restore", b \notin crossed' PROVE ~Restoring(b)'
    <2>1. \A d \in CallsOn(b)' : d = a \/ (d \in CallsOn(b) /\ d \in Calls /\ d # a)
      BY <1>1 DEF CallsOn
    <2>. QED BY <1>1, <1>3, <1>4, <2>1 DEF Restoring
  <1>. QED BY <1>1, <1>2, <1>3, <1>4 DEF BookInv

LEMMA CreateOK == ASSUME BookInv, NEW a \in Calls, NEW b \in Bookings, Create(a, b) PROVE \A o \in Bookings : BookingOK(o)'
  <1>1. PICK s : s = FirstWrite
    OBVIOUS
  <1>2. /\ booking[b].status = "none" /\ Start(a, b, "create", s) /\ Becomes(b, "making") /\ UNCHANGED rows
        /\ s = IF coupon.bundle THEN "insert" ELSE "share"
    BY <1>1 DEF Create, codeVars, FirstWrite
  <1>3. s \in Steps /\ s # "idle"
    BY <1>2 DEF Steps
  <1>4. /\ BookingOK(b) /\ CallsOn(b)' = CallsOn(b) \cup {a} /\ RowsOf(b)' = RowsOf(b) /\ coupon' = coupon
        /\ call'[a].step = s /\ lost' = lost
    BY <1>2, <1>3, StartKnows
  <1>5. /\ CallsOn(b) = {} /\ b \notin crossed /\ b \notin lost /\ ~booking[b].bin /\ booking[b].discounted
        /\ RowsOf(b) = {}
    BY <1>2, <1>4 DEF BookingOK, Lonely, Born, RowsFit
  <1>6. /\ \A o \in Bookings : o # b => booking'[o] = booking[o]
        /\ booking'[b].status = "making" /\ booking'[b].bin = booking[b].bin /\ booking'[b].discounted = booking[b].discounted
    BY <1>2 DEF Becomes, BookInv, Base, UsesTypeOK
  <1>7. CallOK([step |-> s, on |-> b, why |-> "create"], booking'[b])
    BY <1>2, <1>6 DEF CallOK, Spending
  <1>8. RowsFit(b)'
    BY <1>2, <1>4, <1>5, <1>6 DEF RowsFit, RowsAt, HasRow, Claiming
  <1>9. s \notin Claiming \/ ~coupon.bundle
    BY <1>2 DEF Claiming
  <1>. QED BY <1>2, <1>3, <1>4, <1>5, <1>6, <1>7, <1>8, <1>9, StartOK DEF Born

\* A call that gives back the use of a booking that no longer stands.
LEMMA GiveBackOK ==
  ASSUME BookInv, NEW a \in Calls, NEW b \in Bookings, GiveBack(a, b), Listed(b), booking[b].discounted,
         \A o \in Bookings : o # b => booking'[o] = booking[o],
         booking'[b].status = booking[b].status \/ booking'[b].status = "cancelled", ~Discounted(b)'
  PROVE  \A o \in Bookings : BookingOK(o)'
  <1>1. Start(a, b, "give", "delete") /\ UNCHANGED rows
    BY DEF GiveBack, codeVars
  <1>2. /\ BookingOK(b) /\ CallsOn(b)' = CallsOn(b) \cup {a} /\ RowsOf(b)' = RowsOf(b) /\ coupon' = coupon
        /\ call'[a].step = "delete" /\ lost' = lost
        /\ b \notin crossed' => b \notin crossed /\ ~Restoring(b) /\ ~Restoring(b)'
    BY <1>1, StartKnows DEF Steps
  <1>3. booking[b].status \in {"live", "cancelled"} /\ booking'[b].status \in {"live", "cancelled"}
    BY DEF Listed
  <1>4. \A d \in CallsOn(b) : CallOK(call[d], booking'[b])
    BY <1>2, <1>3 DEF BookingOK, CallOK, Born
  <1>5. CallOK([step |-> "delete", on |-> b, why |-> "give"], booking'[b])
    BY <1>3 DEF CallOK, Giving, Born
  <1>6. ASSUME b \notin crossed', b \notin lost PROVE RowsFit(b)'
    <2>1. RowsOf(b) = {} \/ One(b)
      BY <1>2, <1>3, <1>6 DEF BookingOK, RowsFit
    <2>2. RowsOf(b)' = {} \/ (One(b)' /\ \E d \in CallsOn(b)' : call'[d].step = "delete")
      BY <1>2, <2>1 DEF One
    <2>. QED BY <1>2, <1>3, <1>6, <2>2 DEF RowsFit
  <1>. QED BY <1>1, <1>2, <1>3, <1>4, <1>5, <1>6, StartOK DEF Steps, Claiming, Born

LEMMA CancelOK == ASSUME BookInv, NEW a \in Calls, NEW b \in Bookings, Cancel(a, b) PROVE \A o \in Bookings : BookingOK(o)'
  <1>1. Discounted(b) /\ Becomes(b, "cancelled") /\ GiveBack(a, b)
    BY DEF Cancel
  <1>2. /\ \A o \in Bookings : o # b => booking'[o] = booking[o]
        /\ booking'[b].status = "cancelled"
    BY <1>1 DEF Becomes, BookInv, Base, UsesTypeOK
  <1>. QED BY <1>1, <1>2, GiveBackOK DEF Discounted, Listed

LEMMA DropCouponOK == ASSUME BookInv, NEW a \in Calls, NEW b \in Bookings, DropCoupon(a, b) PROVE \A o \in Bookings : BookingOK(o)'
  <1>1. Discounted(b) /\ booking' = [booking EXCEPT ![b].discounted = FALSE] /\ GiveBack(a, b)
    BY DEF DropCoupon
  <1>2. /\ \A o \in Bookings : o # b => booking'[o] = booking[o]
        /\ booking'[b].status = booking[b].status /\ ~booking'[b].discounted
    BY <1>1 DEF BookInv, Base, UsesTypeOK
  <1>. QED BY <1>1, <1>2, GiveBackOK DEF Discounted, Listed

LEMMA DeleteOK == ASSUME BookInv, NEW a \in Calls, NEW b \in Bookings, Delete(a, b) PROVE \A o \in Bookings : BookingOK(o)'
  <1>1. Listed(b) /\ booking[b].discounted /\ booking' = [booking EXCEPT ![b].bin = TRUE] /\ GiveBack(a, b)
    BY DEF Delete
  <1>2. /\ \A o \in Bookings : o # b => booking'[o] = booking[o]
        /\ booking'[b].status = booking[b].status /\ booking'[b].bin
    BY <1>1 DEF BookInv, Base, UsesTypeOK
  <1>. QED BY <1>1, <1>2, GiveBackOK DEF Discounted

LEMMA RestoreOK == ASSUME BookInv, NEW a \in Calls, NEW b \in Bookings, Restore(a, b) PROVE \A o \in Bookings : BookingOK(o)'
  <1>1. PICK s \in {FirstWrite, "bin"} : Start(a, b, "restore", s)
    BY DEF Restore
  <1>2. /\ booking[b].bin /\ booking[b].status = "live" /\ booking[b].discounted /\ UNCHANGED rows
        /\ booking' = [booking EXCEPT ![b].bin = FALSE]
        /\ s = "bin" \/ s = IF coupon.bundle THEN "insert" ELSE "share"
    BY <1>1 DEF Restore, codeVars, FirstWrite
  <1>3. s \in Steps /\ s # "idle" /\ (coupon.bundle => s \in {"insert", "bin"}) /\ (~coupon.bundle => s \in {"share", "bin"})
    BY <1>2 DEF Steps
  <1>4. /\ BookingOK(b) /\ CallsOn(b)' = CallsOn(b) \cup {a} /\ RowsOf(b)' = RowsOf(b) /\ coupon' = coupon
        /\ call'[a].step = s /\ call'[a].why = "restore" /\ lost' = lost
        /\ b \notin crossed' => b \notin crossed /\ ~Restoring(b) /\ CallsOn(b) = {}
    BY <1>1, <1>2, <1>3, StartKnows
  <1>5. /\ \A o \in Bookings : o # b => booking'[o] = booking[o]
        /\ booking'[b].status = "live" /\ ~booking'[b].bin /\ booking'[b].discounted
    BY <1>2 DEF BookInv, Base, UsesTypeOK
  <1>6. Discounted(b)' /\ ~Discounted(b)
    BY <1>2, <1>5 DEF Discounted
  <1>7. CallOK([step |-> s, on |-> b, why |-> "restore"], booking'[b])
    BY <1>3, <1>5 DEF CallOK, Spending, Born
  <1>8. \A d \in CallsOn(b) : CallOK(call[d], booking'[b])
    BY <1>2, <1>4, <1>5 DEF BookingOK, CallOK
  <1>9. ASSUME b \notin crossed', b \notin lost PROVE RowsFit(b)'
    <2>1. RowsOf(b) = {}
      BY <1>2, <1>4, <1>6, <1>9 DEF BookingOK, RowsFit
    <2>2. Restoring(b)' /\ ~HasRow(s)'
      BY <1>3, <1>4 DEF Restoring, HasRow, Claiming
    <2>3. \A d \in CallsOn(b)' : RowsAt(b, call[d].step)'
      BY <1>4, <1>9, <2>1, <2>2 DEF RowsAt, HasRow, Claiming
    <2>. QED BY <1>5, <2>2, <2>3 DEF RowsFit
  <1>10. s \notin Claiming \/ ~coupon.bundle
    BY <1>3 DEF Claiming
  <1>. QED BY <1>1, <1>2, <1>3, <1>4, <1>5, <1>6, <1>7, <1>8, <1>9, <1>10, StartOK DEF Born

LEMMA RestoreCancelledOK == ASSUME BookInv, NEW b \in Bookings, RestoreCancelled(b) PROVE \A o \in Bookings : BookingOK(o)'
  <1>1. /\ booking[b].bin /\ booking[b].status = "cancelled" /\ booking' = [booking EXCEPT ![b].bin = FALSE]
        /\ UNCHANGED <<crossed, lost, rows, call>> /\ coupon' = coupon
    BY DEF RestoreCancelled, codeVars, ghosts
  <1>2. /\ \A o \in Bookings : o # b => booking'[o] = booking[o]
        /\ booking'[b].status = "cancelled"
    BY <1>1 DEF BookInv, Base, UsesTypeOK
  <1>3. \A o \in Bookings : CallsOn(o)' = CallsOn(o) /\ RowsOf(o)' = RowsOf(o)
    BY <1>1 DEF CallsOn, RowsOf, Under
  <1>4. BookingOK(b) /\ b \in Bookings
    BY DEF BookInv
  <1>5. ~Discounted(b) /\ ~Discounted(b)' /\ (Restoring(b)' <=> Restoring(b)) /\ (One(b)' <=> One(b))
    BY <1>1, <1>2, <1>3, <1>4 DEF Discounted, Restoring, One
  <1>6. \A d \in CallsOn(b)' : CallOK(call[d], booking[b])'
    BY <1>1, <1>2, <1>3, <1>4 DEF BookingOK, CallOK
  <1>7. Lonely(b)'
    BY <1>1, <1>2, <1>3, <1>4, <1>5 DEF BookingOK, Lonely, Born
  <1>8. Bundled(b)'
    BY <1>1, <1>3, <1>4 DEF BookingOK, Bundled, OnlyRow
  <1>9. b \notin crossed' /\ b \notin lost' => RowsFit(b)'
    BY <1>1, <1>2, <1>3, <1>4, <1>5 DEF BookingOK, RowsFit, RowsAt, One, HasRow, Claiming
  <1>10. \A o \in Bookings : o # b => BookingOK(o)'
    BY <1>1, <1>2, <1>3, OthersOK DEF Elsewhere, BookInv
  <1>11. BookingOK(b)'
    BY <1>6, <1>7, <1>8, <1>9 DEF BookingOK
  <1>. QED BY <1>10, <1>11

-----------------------------------------------------------------------------
(* What the steps are made of. *)
BookingRec == [status : {"none", "making", "live", "cancelled", "gone"}, bin : BOOLEAN, discounted : BOOLEAN]

\* Call a moves from step s to step t on booking b, and the others stay.
Moves(a, b, s, t) ==
    /\ b \in Bookings /\ s \in Steps /\ t \in Steps
    /\ call[a].step = s /\ (s # "idle" => a \in CallsOn(b))
    /\ call'[a].step = t /\ (t # "idle" => call'[a].on = b)
    /\ \A d \in Calls : d # a => call'[d] = call[d]
    /\ \A o \in Bookings : o # b => CallsOn(o)' = CallsOn(o)
    /\ call' \in [Calls -> CallRec] /\ \A d \in Calls : Under(d)' <=> call'[d].on \in Bookings

\* One booking may change.
Books(b) == booking' \in [Bookings -> BookingRec] /\ \A o \in Bookings : o # b => booking'[o] = booking[o]

\* A row of the booking is written (w = 1), removed (w = -1), or none is touched.
Writes(b, w) ==
    \/ w = 0 /\ rows' = rows
    \/ w = 1 /\ \E r \in [on : {b}, id : Nat] : r \notin rows /\ rows' = rows \cup {r}
    \/ w = -1 /\ \E r \in RowsOf(b) : rows' = rows \ {r}

LEMMA GoTo ==
  ASSUME Base, NEW a \in Calls, Under(a), NEW t \in Steps, t # "idle", Go(a, t), NEW b, b = call[a].on
  PROVE  Moves(a, b, call[a].step, t)
  <1>1. b \in Bookings /\ call[a].step \in Steps /\ a \in CallsOn(b)
    BY DEF Base, UsesTypeOK, CallsOn
  <1>2. /\ CallsMoved(a, [call[a] EXCEPT !.step = t]) /\ call'[a].step = t /\ call'[a].on = b
        /\ \A o \in Bookings : CallsOn(o)' = CallsOn(o)
    BY GoMoves
  <1>. QED BY <1>1, <1>2 DEF Moves, CallsMoved

LEMMA ReturnTo ==
  ASSUME Base, NEW a \in Calls, Under(a), Return(a), NEW b, b = call[a].on
  PROVE  Moves(a, b, call[a].step, "idle")
  <1>1. b \in Bookings /\ call[a].step \in Steps /\ a \in CallsOn(b) /\ \A o \in Bookings : o # b => a \notin CallsOn(o)
    BY DEF Base, UsesTypeOK, CallsOn
  <1>2. /\ CallsMoved(a, Idle) /\ call'[a].step = "idle"
        /\ \A o \in Bookings : CallsOn(o)' = CallsOn(o) \ {a}
    BY ReturnMoves
  <1>3. \A o \in Bookings : o # b => CallsOn(o)' = CallsOn(o)
    BY <1>1, <1>2
  <1>. QED BY <1>1, <1>2, <1>3 DEF Moves, CallsMoved, Steps

LEMMA StartTo ==
  ASSUME Base, NEW a \in Calls, NEW b \in Bookings, NEW why \in {"create", "restore", "give"},
         NEW t \in Steps, t # "idle", Start(a, b, why, t)
  PROVE  Moves(a, b, "idle", t)
  <1>1. /\ CallsMoved(a, [step |-> t, on |-> b, why |-> why]) /\ call'[a].step = t /\ call'[a].on = b
        /\ \A o \in Bookings : o # b => CallsOn(o)' = CallsOn(o)
    BY StartMoves
  <1>2. call[a].step = "idle"
    BY DEF Start, Under
  <1>. QED BY <1>1, <1>2 DEF Moves, CallsMoved, Steps

LEMMA BecomesBooks ==
  ASSUME Base, NEW b \in Bookings
  PROVE  /\ UNCHANGED booking => Books(b)
         /\ \A k \in {"none", "making", "live", "cancelled", "gone"} : Becomes(b, k) => Books(b)
         /\ \A x \in BOOLEAN : booking' = [booking EXCEPT ![b].bin = x] => Books(b)
         /\ \A x \in BOOLEAN : booking' = [booking EXCEPT ![b].discounted = x] => Books(b)
  <1>1. booking \in [Bookings -> BookingRec]
    BY DEF Base, UsesTypeOK, BookingRec
  <1>2. UNCHANGED booking => Books(b)
    BY <1>1 DEF Books
  <1>3. ASSUME NEW k \in {"none", "making", "live", "cancelled", "gone"}, Becomes(b, k) PROVE Books(b)
    BY <1>1, <1>3 DEF Books, Becomes, BookingRec
  <1>4. ASSUME NEW x \in BOOLEAN, booking' = [booking EXCEPT ![b].bin = x] PROVE Books(b)
    BY <1>1, <1>4 DEF Books, BookingRec
  <1>5. ASSUME NEW x \in BOOLEAN, booking' = [booking EXCEPT ![b].discounted = x] PROVE Books(b)
    BY <1>1, <1>5 DEF Books, BookingRec
  <1>. QED BY <1>2, <1>3, <1>4, <1>5

LEMMA RecordedTo ==
  ASSUME Base, NEW a \in Calls, Under(a), Recorded(a), NEW b, b = call[a].on
  PROVE  Books(b) /\ \E t \in {"commit", "settle"} : Moves(a, b, call[a].step, t)
  <1>1. b \in Bookings
    BY DEF Base
  <1>2. Books(b)
    BY <1>1, BecomesBooks DEF Recorded
  <1>3. \E t \in {"commit", "settle"} : Go(a, t)
    BY DEF Recorded
  <1>4. \A t \in {"commit", "settle"} : t \in Steps /\ t # "idle"
    BY DEF Steps
  <1>. QED BY <1>2, <1>3, <1>4, GoTo

LEMMA RefusedTo ==
  ASSUME Base, NEW a \in Calls, Under(a), Refused(a), NEW b, b = call[a].on
  PROVE  Books(b) /\ \E t \in {"idle", "bin"} : Moves(a, b, call[a].step, t)
  <1>1. b \in Bookings
    BY DEF Base
  <1>2. CASE call[a].why = "create"
    BY <1>1, <1>2, BecomesBooks, ReturnTo DEF Refused
  <1>3. CASE call[a].why # "create"
    BY <1>1, <1>3, BecomesBooks, GoTo DEF Refused, Steps
  <1>. QED BY <1>2, <1>3

LEMMA ReversedTo ==
  ASSUME Base, NEW a \in Calls, Under(a), Reversed(a), NEW b, b = call[a].on
  PROVE  \E t \in {"idle", "bin"} : Moves(a, b, call[a].step, t)
  BY ReturnTo, GoTo DEF Reversed, Steps

-----------------------------------------------------------------------------
(* The writes to come, as the counters see them. *)
Ind(p) == IF p THEN 1 ELSE 0

LEMMA PendingMoves ==
  ASSUME NEW a \in Calls, NEW b, NEW s, NEW t, Moves(a, b, s, t),
         NEW S, "idle" \notin S, NEW B
  PROVE  /\ Pending(S, B) \in Nat /\ Pending(S, B)' \in Nat
         /\ Pending(S, B)' = Pending(S, B) + Ind(t \in S /\ b \in B) - Ind(s \in S /\ b \in B)
  <1>. DEFINE X == {d \in Calls : call[d].step \in S /\ call[d].on \in B}
              Y == {d \in Calls : call'[d].step \in S /\ call'[d].on \in B}
              Z == X \ {a}
  <1>1. /\ (a \in X <=> s \in S /\ b \in B) /\ (a \in Y <=> t \in S /\ b \in B)
        /\ Z = Y \ {a} /\ X \subseteq Calls /\ Y \subseteq Calls
    BY DEF Moves, CallsOn
  <1>2. IsFiniteSet(X) /\ IsFiniteSet(Y)
    BY <1>1, UsesAssumption, FS_Subset
  <1>3. Pending(S, B) = Cardinality(X) /\ Pending(S, B)' = Cardinality(Y)
    BY DEF Pending
  <1>4. Cardinality(X) \in Nat /\ Cardinality(Y) \in Nat
    BY <1>2, FS_CardinalityType
  <1>5. \A V : IsFiniteSet(V) => Cardinality(V) = Cardinality(V \ {a}) + Ind(a \in V)
    <2>. SUFFICES ASSUME NEW V, IsFiniteSet(V) PROVE Cardinality(V) = Cardinality(V \ {a}) + Ind(a \in V)
      OBVIOUS
    <2>1. Cardinality(V) \in Nat
      BY FS_CardinalityType
    <2>2. CASE a \in V
      <3>1. Cardinality(V \ {a}) = Cardinality(V) - 1
        BY <2>2, FS_RemoveElement
      <3>2. Ind(a \in V) = 1
        BY <2>2 DEF Ind
      <3>. QED BY <2>1, <3>1, <3>2
    <2>3. CASE a \notin V
      <3>1. V \ {a} = V
        BY <2>3
      <3>. QED BY <2>1, <2>3, <3>1 DEF Ind
    <2>. QED BY <2>2, <2>3
  <1>6. /\ Cardinality(X) = Cardinality(Z) + Ind(a \in X)
        /\ Cardinality(Y) = Cardinality(Z) + Ind(a \in Y)
    BY <1>1, <1>2, <1>5
  <1>7. Cardinality(Z) \in Nat
    BY <1>2, FS_RemoveElement, FS_CardinalityType
  <1>8. Ind(a \in X) = Ind(s \in S /\ b \in B) /\ Ind(a \in Y) = Ind(t \in S /\ b \in B)
    BY <1>1
  <1>. HIDE DEF X, Y, Z
  <1>. QED BY <1>3, <1>4, <1>6, <1>7, <1>8 DEF Ind

LEMMA WrittenMoves ==
  ASSUME IsFiniteSet(rows), NEW b, NEW w, Writes(b, w), NEW B
  PROVE  /\ w \in Int /\ Written(B) \in Nat /\ Written(B)' \in Nat
         /\ Written(B)' = Written(B) + IF b \in B THEN w ELSE 0
  <1>. DEFINE X == {r \in rows : r.on \in B}
              Y == {r \in rows' : r.on \in B}
  <1>1. IsFiniteSet(X) /\ X \subseteq rows
    BY FS_Subset
  <1>2. Cardinality(X) \in Nat
    BY <1>1, FS_CardinalityType
  <1>3. Written(B) = Cardinality(X) /\ Written(B)' = Cardinality(Y)
    BY DEF Written
  <1>4. CASE b \notin B \/ w = 0
    <2>1. Y = X
      BY <1>4 DEF Writes, RowsOf
    <2>2. Written(B)' = Written(B) /\ Written(B) \in Nat
      BY <1>2, <1>3, <2>1
    <2>3. w \in Int
      BY DEF Writes
    <2>4. (IF b \in B THEN w ELSE 0) = 0
      BY <1>4
    <2>. QED BY <2>2, <2>3, <2>4
  <1>5. CASE b \in B /\ w = 1
    <2>1. PICK r \in [on : {b}, id : Nat] : r \notin rows /\ rows' = rows \cup {r}
      BY <1>5 DEF Writes
    <2>2. Y = X \cup {r} /\ r \notin X
      BY <1>5, <2>1
    <2>3. Cardinality(Y) = Cardinality(X) + 1
      BY <1>1, <2>2, FS_AddElement
    <2>. QED BY <1>2, <1>3, <1>5, <2>3
  <1>6. CASE b \in B /\ w = -1
    <2>1. PICK r \in RowsOf(b) : rows' = rows \ {r}
      BY <1>6 DEF Writes
    <2>2. Y = X \ {r} /\ r \in X
      BY <1>6, <2>1 DEF RowsOf
    <2>3. Cardinality(Y) = Cardinality(X) - 1 /\ IsFiniteSet(Y)
      BY <1>1, <2>2, FS_RemoveElement
    <2>4. Cardinality(Y) \in Nat
      BY <2>3, FS_CardinalityType
    <2>. QED BY <1>2, <1>3, <1>6, <2>3, <2>4
  <1>. QED BY <1>4, <1>5, <1>6 DEF Writes

\* What a call at step s has still to write to the count of uses, and to its customer's counter.
UseDue(s) ==
    IF coupon.bundle THEN (IF s = "less" THEN 1 ELSE IF s \in Claiming THEN -1 ELSE 0)
                     ELSE IF s \in {"less", "row"} THEN 1 ELSE 0
ShareDue(s) ==
    IF coupon.bundle THEN (IF s \in {"less", "release"} THEN 1 ELSE IF s \in {"share", "unrow"} THEN -1 ELSE 0)
                     ELSE IF s \in {"less", "release", "total", "unshare", "row"} THEN 1 ELSE 0

LEMMA DueMoves ==
  ASSUME IsFiniteSet(rows), NEW a \in Calls, NEW b, NEW s, NEW t, NEW w, Moves(a, b, s, t), Writes(b, w),
         coupon' = coupon, NEW B
  PROVE  /\ UsesOf(B) \in Int /\ SharesOf(B) \in Int /\ w \in Int
         /\ UsesOf(B)' = UsesOf(B) + IF b \in B THEN w + UseDue(t) - UseDue(s) ELSE 0
         /\ SharesOf(B)' = SharesOf(B) + IF b \in B THEN w + ShareDue(t) - ShareDue(s) ELSE 0
  <1>1. /\ w \in Int /\ Written(B) \in Nat /\ Written(B)' \in Nat
        /\ Written(B)' = Written(B) + IF b \in B THEN w ELSE 0
    BY WrittenMoves
  <1>. DEFINE Moved(S) == /\ Pending(S, B) \in Nat /\ Pending(S, B)' \in Nat
                          /\ Pending(S, B)' = Pending(S, B) + Ind(t \in S /\ b \in B) - Ind(s \in S /\ b \in B)
  <1>2. \A S : "idle" \notin S => Moved(S)
    BY PendingMoves
  <1>3. /\ Moved({"less"}) /\ Moved({"share", "total", "unshare", "unrow"}) /\ Moved({"less", "row"})
        /\ Moved({"less", "release"}) /\ Moved({"share", "unrow"})
        /\ Moved({"less", "release", "total", "unshare", "row"})
    BY <1>2
  <1>4. (\A c \in {s, t} : UseDue(c) \in Int /\ ShareDue(c) \in Int)
    BY DEF UseDue, ShareDue
  <1>5. CASE coupon.bundle
    <2>1. /\ UsesOf(B) = Written(B) + Pending({"less"}, B) - Pending({"share", "total", "unshare", "unrow"}, B)
          /\ UsesOf(B)' = Written(B)' + Pending({"less"}, B)' - Pending({"share", "total", "unshare", "unrow"}, B)'
          /\ SharesOf(B) = Written(B) + Pending({"less", "release"}, B) - Pending({"share", "unrow"}, B)
          /\ SharesOf(B)' = Written(B)' + Pending({"less", "release"}, B)' - Pending({"share", "unrow"}, B)'
      BY <1>5 DEF UsesOf, SharesOf
    <2>2. \A c \in {s, t} :
            /\ UseDue(c) = Ind(c \in {"less"}) - Ind(c \in {"share", "total", "unshare", "unrow"})
            /\ ShareDue(c) = Ind(c \in {"less", "release"}) - Ind(c \in {"share", "unrow"})
      BY <1>5 DEF UseDue, ShareDue, Ind, Claiming
    <2>3. CASE b \in B
      BY <1>1, <1>3, <2>1, <2>2, <2>3 DEF Ind
    <2>4. CASE b \notin B
      BY <1>1, <1>3, <2>1, <2>4 DEF Ind
    <2>. QED BY <2>3, <2>4
  <1>6. CASE ~coupon.bundle
    <2>1. /\ UsesOf(B) = Written(B) + Pending({"less", "row"}, B)
          /\ UsesOf(B)' = Written(B)' + Pending({"less", "row"}, B)'
          /\ SharesOf(B) = Written(B) + Pending({"less", "release", "total", "unshare", "row"}, B)
          /\ SharesOf(B)' = Written(B)' + Pending({"less", "release", "total", "unshare", "row"}, B)'
      BY <1>6 DEF UsesOf, SharesOf
    <2>2. \A c \in {s, t} :
            /\ UseDue(c) = Ind(c \in {"less", "row"})
            /\ ShareDue(c) = Ind(c \in {"less", "release", "total", "unshare", "row"})
      BY <1>6 DEF UseDue, ShareDue, Ind
    <2>3. CASE b \in B
      BY <1>1, <1>3, <2>1, <2>2, <2>3 DEF Ind
    <2>4. CASE b \notin B
      BY <1>1, <1>3, <2>1, <2>4 DEF Ind
    <2>. QED BY <2>3, <2>4
  <1>. QED BY <1>5, <1>6

-----------------------------------------------------------------------------
(* One step: what it moves, and that the counters move by what was due. *)

\* The counters rise only below their limits.
Rises ==
    /\ used' \in Int /\ (used' <= used \/ (used' = used + 1 /\ UnderLimit))
    /\ spent' \in [Customers -> Nat]
    /\ \A c \in Customers : spent'[c] <= spent[c] \/ (spent'[c] = spent[c] + 1 /\ spent[c] < coupon.share)

Effect(a, b, s, t, w) ==
    /\ Moves(a, b, s, t) /\ Books(b) /\ Writes(b, w) /\ Rises
    /\ coupon' = coupon
    /\ crossed \subseteq crossed' /\ crossed' \subseteq crossed \cup {b}
    /\ lost \subseteq lost' /\ lost' \subseteq lost \cup {b}
    /\ s = "idle" => booking[b].status # "gone"

\* Each counter moves by what the step does to the rows and to the writes to come;
\* one that is at zero is not lowered.
Settles(b, s, t, w) ==
    LET u == w + UseDue(t) - UseDue(s)
        v == w + ShareDue(t) - ShareDue(s)
    IN  /\ used' >= used + u
        /\ \A c \in Customers : c # Owner[b] => spent'[c] = spent[c]
        /\ spent'[Owner[b]] >= spent[Owner[b]] + v
        /\ (s = "less" /\ coupon.bundle => used > 0)
             => used' = used + u
        /\ (s \in {"release", "unshare"} => spent[Owner[b]] > 0)
             => spent'[Owner[b]] = spent[Owner[b]] + v

LEMMA EffectBase ==
  ASSUME Base, NEW a, NEW b, NEW s, NEW t, NEW w, Effect(a, b, s, t, w)
  PROVE  Base'
  <1>1. /\ coupon' \in Coupons /\ crossed' \subseteq Bookings /\ lost' \subseteq Bookings
        /\ used' \in Int /\ spent' \in [Customers -> Nat]
        /\ booking' \in [Bookings -> BookingRec] /\ call' \in [Calls -> CallRec]
        /\ \A d \in Calls : Under(d)' <=> call'[d].on \in Bookings
    BY DEF Effect, Base, UsesTypeOK, Moves, Books, Rises
  <1>2. rows' \subseteq [on : Bookings, id : Nat] /\ IsFiniteSet(rows')
    <2>1. rows \subseteq [on : Bookings, id : Nat] /\ IsFiniteSet(rows) /\ b \in Bookings
      BY DEF Base, UsesTypeOK, Effect, Moves
    <2>2. CASE \E r \in [on : {b}, id : Nat] : rows' = rows \cup {r}
      BY <2>1, <2>2, FS_AddElement
    <2>3. CASE \E r : rows' = rows \ {r}
      BY <2>1, <2>3, FS_RemoveElement, FS_Subset
    <2>. QED BY <2>1, <2>2, <2>3 DEF Effect, Writes
  <1>. QED BY <1>1, <1>2 DEF Base, UsesTypeOK, BookingRec, CallRec

LEMMA ReleasedIs ==
  ASSUME Base, NEW b \in Bookings
  PROVE  /\ Released(b) \in [Customers -> Nat] /\ \A c \in Customers : Released(b)[c] <= spent[c]
         /\ \A c \in Customers : c # Owner[b] => Released(b)[c] = spent[c]
         /\ Released(b)[Owner[b]] >= spent[Owner[b]] - 1
         /\ spent[Owner[b]] > 0 => Released(b)[Owner[b]] = spent[Owner[b]] - 1
  <1>1. spent \in [Customers -> Nat] /\ Owner[b] \in Customers
    BY UsesAssumption DEF Base, UsesTypeOK
  <1>. QED BY <1>1 DEF Released

\* A step of a call under way, killed or not, on booking b.
Counted(a, b) ==
    \E s, t \in Steps, w \in {-1, 0, 1} :
       /\ s # "idle" /\ Effect(a, b, s, t, w)
       /\ (coupon.bundle => crossed = {}) => Settles(b, s, t, w)

LEMMA QuietStep ==
  ASSUME Base, NEW a \in Calls, NEW b, NEW s, NEW t, NEW w, Moves(a, b, s, t), Books(b), Writes(b, w),
         UNCHANGED <<coupon, used, spent, ghosts>>, s = "idle" => booking[b].status # "gone"
  PROVE  /\ Effect(a, b, s, t, w)
         /\ w + UseDue(t) - UseDue(s) = 0 /\ w + ShareDue(t) - ShareDue(s) = 0 => Settles(b, s, t, w)
  <1>1. used \in Int /\ spent \in [Customers -> Nat] /\ UNCHANGED <<coupon, used, spent, crossed, lost>> /\ b \in Bookings
    BY DEF Base, UsesTypeOK, ghosts, Moves
  <1>2. Owner[b] \in Customers
    BY <1>1, UsesAssumption
  <1>3. Rises
    BY <1>1 DEF Rises
  <1>4. Effect(a, b, s, t, w)
    BY <1>1, <1>3 DEF Effect
  <1>5. ASSUME w + UseDue(t) - UseDue(s) = 0, w + ShareDue(t) - ShareDue(s) = 0 PROVE Settles(b, s, t, w)
    BY <1>1, <1>2, <1>5 DEF Settles
  <1>. QED BY <1>4, <1>5

LEMMA InsertRowCounted == ASSUME BookInv, NEW a \in Calls, InsertRow(a) PROVE Counted(a, call[a].on)
  <1>1. PICK b : b = call[a].on
    OBVIOUS
  <1>2. /\ Under(a) /\ call[a].step = "insert" /\ UNCHANGED <<coupon, used, spent, ghosts>> /\ Base
        /\ IF OnlyRow(b) \in rows THEN Recorded(a) /\ UNCHANGED rows
           ELSE rows' = rows \cup {OnlyRow(b)} /\ Go(a, "share") /\ UNCHANGED booking
    BY <1>1 DEF InsertRow, At, Under, BookInv
  <1>3. b \in Bookings /\ coupon.bundle
    BY <1>1, <1>2, CallKinds
  <1>4. CASE OnlyRow(b) \in rows
    <2>1. PICK t \in {"commit", "settle"} : Moves(a, b, "insert", t) /\ Books(b)
      BY <1>1, <1>2, <1>4, RecordedTo
    <2>2. Writes(b, 0) /\ UseDue(t) = UseDue("insert") /\ ShareDue(t) = ShareDue("insert") /\ UseDue(t) \in Int /\ ShareDue(t) \in Int
      BY <1>2, <1>4 DEF Writes, UseDue, ShareDue, Claiming
    <2>3. Effect(a, b, "insert", t, 0) /\ Settles(b, "insert", t, 0)
      BY <1>2, <2>1, <2>2, QuietStep
    <2>. QED BY <1>1, <2>3 DEF Counted, Steps
  <1>5. CASE OnlyRow(b) \notin rows
    <2>1. Moves(a, b, "insert", "share") /\ Books(b)
      BY <1>1, <1>2, <1>3, <1>5, GoTo, BecomesBooks DEF Steps
    <2>2. Writes(b, 1) /\ UseDue("insert") = 0 /\ ShareDue("insert") = 0 /\ UseDue("share") = -1 /\ ShareDue("share") = -1
      BY <1>2, <1>3, <1>5 DEF Writes, UseDue, ShareDue, Claiming, OnlyRow
    <2>3. Effect(a, b, "insert", "share", 1) /\ Settles(b, "insert", "share", 1)
      BY <1>2, <2>1, <2>2, QuietStep
    <2>. QED BY <1>1, <2>3 DEF Counted, Steps
  <1>. QED BY <1>4, <1>5

LEMMA ClaimShareCounted == ASSUME BookInv, NEW a \in Calls, ClaimShare(a) PROVE Counted(a, call[a].on)
  <1>1. PICK b : b = call[a].on
    OBVIOUS
  <1>. DEFINE c == Owner[b]
  <1>2. /\ Under(a) /\ call[a].step = "share" /\ UNCHANGED <<coupon, used, ghosts, rows>> /\ Base
        /\ IF spent[c] < coupon.share
             THEN spent' = [spent EXCEPT ![c] = @ + 1] /\ Go(a, "total") /\ UNCHANGED booking
             ELSE /\ UNCHANGED spent
                  /\ IF coupon.bundle THEN Go(a, "unrow") /\ UNCHANGED booking ELSE Refused(a)
    BY <1>1 DEF ClaimShare, At, Under, BookInv
  <1>3. b \in Bookings /\ c \in Customers /\ spent \in [Customers -> Nat] /\ used \in Int /\ Writes(b, 0)
    BY <1>1, <1>2, CallKinds, UsesAssumption DEF Base, UsesTypeOK, Writes
  <1>4. CASE spent[c] < coupon.share
    <2>1. Moves(a, b, "share", "total") /\ Books(b)
      BY <1>1, <1>2, <1>3, <1>4, GoTo, BecomesBooks DEF Steps
    <2>2. /\ UseDue("total") = UseDue("share") /\ ShareDue("total") = ShareDue("share") + 1
          /\ UseDue("share") \in Int /\ ShareDue("share") \in Int
      BY DEF UseDue, ShareDue, Claiming
    <2>3. Rises
      BY <1>2, <1>3, <1>4 DEF Rises
    <2>4. Effect(a, b, "share", "total", 0)
      BY <1>2, <1>3, <2>1, <2>3 DEF Effect, ghosts
    <2>5. Settles(b, "share", "total", 0)
      BY <1>2, <1>3, <1>4, <2>2 DEF Settles
    <2>. QED BY <1>1, <2>4, <2>5 DEF Counted, Steps
  <1>5. CASE ~(spent[c] < coupon.share) /\ coupon.bundle
    <2>1. Moves(a, b, "share", "unrow") /\ Books(b)
      BY <1>1, <1>2, <1>3, <1>5, GoTo, BecomesBooks DEF Steps
    <2>2. /\ UseDue("share") = -1 /\ ShareDue("share") = -1 /\ UseDue("unrow") = -1 /\ ShareDue("unrow") = -1
      BY <1>5 DEF UseDue, ShareDue, Claiming
    <2>3. Effect(a, b, "share", "unrow", 0) /\ Settles(b, "share", "unrow", 0)
      BY <1>2, <1>3, <1>5, <2>1, <2>2, QuietStep
    <2>. QED BY <1>1, <2>3 DEF Counted, Steps
  <1>6. CASE ~(spent[c] < coupon.share) /\ ~coupon.bundle
    <2>1. PICK t \in {"idle", "bin"} : Moves(a, b, "share", t) /\ Books(b)
      BY <1>1, <1>2, <1>6, RefusedTo
    <2>2. /\ UseDue("share") = 0 /\ ShareDue("share") = 0 /\ UseDue(t) = 0 /\ ShareDue(t) = 0
      BY <1>6 DEF UseDue, ShareDue
    <2>3. Effect(a, b, "share", t, 0) /\ Settles(b, "share", t, 0)
      BY <1>2, <1>3, <1>6, <2>1, <2>2, QuietStep
    <2>. QED BY <1>1, <2>3 DEF Counted, Steps
  <1>. QED BY <1>4, <1>5, <1>6

LEMMA CountUseCounted == ASSUME BookInv, NEW a \in Calls, CountUse(a) PROVE Counted(a, call[a].on)
  <1>1. PICK b : b = call[a].on
    OBVIOUS
  <1>2. /\ Under(a) /\ call[a].step = "total" /\ UNCHANGED <<coupon, spent, ghosts, rows>> /\ Base
        /\ IF UnderLimit
             THEN /\ used' = used + 1
                  /\ IF coupon.bundle THEN Recorded(a) ELSE Go(a, "row") /\ UNCHANGED booking
             ELSE Go(a, "unshare") /\ UNCHANGED <<used, booking>>
    BY <1>1 DEF CountUse, At, Under, BookInv
  <1>3. /\ b \in Bookings /\ Owner[b] \in Customers /\ spent \in [Customers -> Nat] /\ used \in Int /\ Writes(b, 0)
    BY <1>1, <1>2, CallKinds, UsesAssumption DEF Base, UsesTypeOK, Writes
  <1>4. CASE UnderLimit
    <2>1. PICK t \in {"commit", "settle", "row"} : Moves(a, b, "total", t) /\ Books(b) /\ (t = "row" <=> ~coupon.bundle)
      <3>1. CASE coupon.bundle
        BY <1>1, <1>2, <1>4, <3>1, RecordedTo
      <3>2. CASE ~coupon.bundle
        BY <1>1, <1>2, <1>3, <1>4, <3>2, GoTo, BecomesBooks DEF Steps
      <3>. QED BY <3>1, <3>2
    <2>2. /\ UseDue(t) = UseDue("total") + 1 /\ ShareDue(t) = ShareDue("total")
          /\ UseDue("total") \in Int /\ ShareDue("total") \in Int
      BY <2>1 DEF UseDue, ShareDue, Claiming
    <2>3. Rises
      BY <1>2, <1>3, <1>4 DEF Rises
    <2>4. Effect(a, b, "total", t, 0)
      BY <1>2, <1>3, <2>1, <2>3 DEF Effect, ghosts
    <2>5. Settles(b, "total", t, 0)
      BY <1>2, <1>3, <1>4, <2>2 DEF Settles
    <2>. QED BY <1>1, <2>4, <2>5 DEF Counted, Steps
  <1>5. CASE ~UnderLimit
    <2>1. Moves(a, b, "total", "unshare") /\ Books(b)
      BY <1>1, <1>2, <1>3, <1>5, GoTo, BecomesBooks DEF Steps
    <2>2. /\ UseDue("unshare") = UseDue("total") /\ ShareDue("unshare") = ShareDue("total")
          /\ UseDue("total") \in Int /\ ShareDue("total") \in Int
      BY DEF UseDue, ShareDue, Claiming
    <2>3. Effect(a, b, "total", "unshare", 0) /\ Settles(b, "total", "unshare", 0)
      BY <1>2, <1>3, <1>5, <2>1, <2>2, QuietStep
    <2>. QED BY <1>1, <2>3 DEF Counted, Steps
  <1>. QED BY <1>4, <1>5

\* A share is given back, on the way to step t.
LEMMA GivesShareBack ==
  ASSUME Base, NEW a \in Calls, NEW b, NEW s \in {"unshare", "release"}, NEW t \in Steps, Moves(a, b, s, t), Books(b),
         spent' = Released(b), UNCHANGED <<coupon, rows, used, ghosts>>,
         UseDue(t) = UseDue(s), ShareDue(t) = ShareDue(s) - 1
  PROVE  Counted(a, b)
  <1>1. /\ b \in Bookings /\ Owner[b] \in Customers /\ spent \in [Customers -> Nat] /\ used \in Int /\ Writes(b, 0)
        /\ used' = used
    BY UsesAssumption DEF Base, UsesTypeOK, Writes, Moves
  <1>2. UseDue(s) \in Int /\ ShareDue(s) \in Int
    BY DEF UseDue, ShareDue
  <1>3. PICK x : x = Released(b)
    OBVIOUS
  <1>4. /\ x \in [Customers -> Nat] /\ \A c \in Customers : x[c] <= spent[c]
        /\ \A c \in Customers : c # Owner[b] => x[c] = spent[c]
        /\ x[Owner[b]] >= spent[Owner[b]] - 1
        /\ spent[Owner[b]] > 0 => x[Owner[b]] = spent[Owner[b]] - 1
        /\ spent' = x
    BY <1>1, <1>3, ReleasedIs
  <1>5. Rises
    BY <1>1, <1>4 DEF Rises
  <1>6. Effect(a, b, s, t, 0)
    BY <1>1, <1>5 DEF Effect, ghosts
  <1>7. Settles(b, s, t, 0)
    <2>1. 0 + UseDue(t) - UseDue(s) = 0 /\ 0 + ShareDue(t) - ShareDue(s) = -1
      BY <1>2
    <2>. QED BY <1>1, <1>4, <2>1 DEF Settles
  <1>. QED BY <1>6, <1>7 DEF Counted, Steps

LEMMA GiveShareBackCounted == ASSUME BookInv, NEW a \in Calls, GiveShareBack(a) PROVE Counted(a, call[a].on)
  <1>1. PICK b : b = call[a].on
    OBVIOUS
  <1>2. /\ Under(a) /\ call[a].step = "unshare" /\ spent' = Released(b) /\ UNCHANGED <<coupon, rows, used, ghosts>> /\ Base
        /\ IF coupon.bundle THEN Go(a, "unrow") /\ UNCHANGED booking ELSE Refused(a)
    BY <1>1 DEF GiveShareBack, At, Under, BookInv
  <1>3. CASE coupon.bundle
    <2>1. Moves(a, b, "unshare", "unrow") /\ Books(b)
      BY <1>1, <1>2, <1>3, GoTo, BecomesBooks, CallKinds DEF Steps
    <2>2. UseDue("unrow") = UseDue("unshare") /\ ShareDue("unrow") = ShareDue("unshare") - 1
      BY <1>3 DEF UseDue, ShareDue, Claiming
    <2>. QED BY <1>1, <1>2, <2>1, <2>2, GivesShareBack DEF Steps
  <1>4. CASE ~coupon.bundle
    <2>1. PICK t \in {"idle", "bin"} : Moves(a, b, "unshare", t) /\ Books(b)
      BY <1>1, <1>2, <1>4, RefusedTo
    <2>2. UseDue(t) = UseDue("unshare") /\ ShareDue(t) = ShareDue("unshare") - 1
      BY <1>4 DEF UseDue, ShareDue
    <2>. QED BY <1>1, <1>2, <2>1, <2>2, GivesShareBack DEF Steps
  <1>. QED BY <1>3, <1>4

LEMMA ReleaseShareCounted == ASSUME BookInv, NEW a \in Calls, ReleaseShare(a) PROVE Counted(a, call[a].on)
  <1>1. PICK b : b = call[a].on
    OBVIOUS
  <1>2. /\ Under(a) /\ call[a].step = "release" /\ spent' = Released(b) /\ UNCHANGED <<coupon, rows, used, ghosts>> /\ Base
        /\ Reversed(a) /\ UNCHANGED booking /\ b \in Bookings
    BY <1>1, CallKinds DEF ReleaseShare, At, Under, BookInv
  <1>3. PICK t \in {"idle", "bin"} : Moves(a, b, "release", t)
    BY <1>1, <1>2, ReversedTo
  <1>4. UseDue(t) = UseDue("release") /\ ShareDue(t) = ShareDue("release") - 1
    BY DEF UseDue, ShareDue, Claiming
  <1>. QED BY <1>1, <1>2, <1>3, <1>4, GivesShareBack, BecomesBooks DEF Steps

LEMMA RemoveOwnRowCounted == ASSUME BookInv, NEW a \in Calls, RemoveOwnRow(a) PROVE Counted(a, call[a].on)
  <1>1. PICK b : b = call[a].on
    OBVIOUS
  <1>2. /\ Under(a) /\ call[a].step = "unrow" /\ UNCHANGED <<coupon, used, spent, ghosts>> /\ Base
        /\ rows' = rows \ {OnlyRow(b)} /\ Refused(a)
    BY <1>1 DEF RemoveOwnRow, At, Under, BookInv
  <1>3. coupon.bundle /\ b \in Bookings
    BY <1>1, <1>2, CallKinds
  <1>4. PICK t \in {"idle", "bin"} : Moves(a, b, "unrow", t) /\ Books(b)
    BY <1>1, <1>2, RefusedTo
  <1>5. UseDue("unrow") = -1 /\ ShareDue("unrow") = -1 /\ UseDue(t) = 0 /\ ShareDue(t) = 0
    BY <1>3 DEF UseDue, ShareDue, Claiming
  <1>6. CASE OnlyRow(b) \in rows
    <2>1. Writes(b, -1)
      BY <1>2, <1>6 DEF Writes, RowsOf, OnlyRow
    <2>2. Effect(a, b, "unrow", t, -1) /\ Settles(b, "unrow", t, -1)
      BY <1>2, <1>4, <1>5, <2>1, QuietStep
    <2>. QED BY <1>1, <2>2 DEF Counted, Steps
  <1>7. CASE OnlyRow(b) \notin rows
    <2>1. Writes(b, 0)
      BY <1>2, <1>7 DEF Writes
    <2>2. Effect(a, b, "unrow", t, 0)
      BY <1>2, <1>4, <2>1, QuietStep
    <2>3. b \in crossed
      BY <1>1, <1>2, <1>3, <1>7, SpendKnows DEF Spending, Claiming
    <2>. QED BY <1>1, <1>3, <2>2, <2>3 DEF Counted, Steps
  <1>. QED BY <1>6, <1>7

LEMMA WriteRowCounted == ASSUME BookInv, NEW a \in Calls, WriteRow(a) PROVE Counted(a, call[a].on)
  <1>1. PICK b : b = call[a].on
    OBVIOUS
  <1>2. PICK r : r = NewRow(b)
    OBVIOUS
  <1>3. /\ Under(a) /\ call[a].step = "row" /\ UNCHANGED <<coupon, used, spent, ghosts>> /\ Base
        /\ rows' = rows \cup {r} /\ Recorded(a)
    BY <1>1, <1>2 DEF WriteRow, At, Under, BookInv
  <1>4. ~coupon.bundle /\ b \in Bookings
    BY <1>1, <1>3, CallKinds
  <1>5. PICK t \in {"commit", "settle"} : Moves(a, b, "row", t) /\ Books(b)
    BY <1>1, <1>3, RecordedTo
  <1>6. UseDue("row") = 1 /\ ShareDue("row") = 1 /\ UseDue(t) = 0 /\ ShareDue(t) = 0
    BY <1>4 DEF UseDue, ShareDue
  <1>7. Writes(b, 1)
    <2>1. r \notin rows /\ r.on = b /\ r.id \in Nat
      BY <1>2, <1>3, FreshRow DEF Base
    <2>2. r \in [on : {b}, id : Nat]
      BY <1>2, <2>1 DEF NewRow
    <2>. QED BY <1>3, <2>1, <2>2 DEF Writes
  <1>8. Effect(a, b, "row", t, 1) /\ Settles(b, "row", t, 1)
    BY <1>3, <1>5, <1>6, <1>7, QuietStep
  <1>. QED BY <1>1, <1>8 DEF Counted, Steps

LEMMA DeleteRowCounted == ASSUME BookInv, NEW a \in Calls, DeleteRow(a) PROVE Counted(a, call[a].on)
  <1>1. PICK b : b = call[a].on
    OBVIOUS
  <1>2. /\ Under(a) /\ call[a].step = "delete" /\ UNCHANGED <<coupon, used, spent, ghosts>> /\ UNCHANGED booking
        /\ \/ RowsOf(b) = {} /\ Reversed(a) /\ UNCHANGED rows
           \/ Go(a, "less") /\ \E r \in RowsOf(b) : rows' = rows \ {r}
    BY <1>1 DEF DeleteRow, At, Under
  <1>3. Base /\ b \in Bookings
    BY <1>1, <1>2, CallKinds DEF BookInv
  <1>4. Books(b)
    BY <1>2, <1>3, BecomesBooks
  <1>5. UseDue("delete") = 0 /\ ShareDue("delete") = 0
    BY DEF UseDue, ShareDue, Claiming
  <1>6. CASE Reversed(a) /\ UNCHANGED rows
    <2>1. PICK t \in {"idle", "bin"} : Moves(a, b, "delete", t)
      BY <1>1, <1>2, <1>3, <1>6, ReversedTo
    <2>2. UseDue(t) = 0 /\ ShareDue(t) = 0 /\ Writes(b, 0)
      BY <1>6 DEF UseDue, ShareDue, Claiming, Writes
    <2>3. Effect(a, b, "delete", t, 0) /\ Settles(b, "delete", t, 0)
      BY <1>2, <1>3, <1>4, <1>5, <2>1, <2>2, QuietStep
    <2>. QED BY <1>1, <2>3 DEF Counted, Steps
  <1>7. CASE Go(a, "less") /\ \E r \in RowsOf(b) : rows' = rows \ {r}
    <2>1. Moves(a, b, "delete", "less")
      BY <1>1, <1>2, <1>3, <1>7, GoTo DEF Steps
    <2>2. UseDue("less") = 1 /\ ShareDue("less") = 1 /\ Writes(b, -1)
      BY <1>7 DEF UseDue, ShareDue, Claiming, Writes
    <2>3. Effect(a, b, "delete", "less", -1) /\ Settles(b, "delete", "less", -1)
      BY <1>2, <1>3, <1>4, <1>5, <2>1, <2>2, QuietStep
    <2>. QED BY <1>1, <2>3 DEF Counted, Steps
  <1>. QED BY <1>2, <1>6, <1>7

LEMMA UncountUseCounted == ASSUME BookInv, NEW a \in Calls, UncountUse(a) PROVE Counted(a, call[a].on)
  <1>1. PICK b : b = call[a].on
    OBVIOUS
  <1>2. /\ Under(a) /\ call[a].step = "less" /\ UNCHANGED <<coupon, rows, spent, ghosts>> /\ UNCHANGED booking
        /\ Go(a, "release") /\ used' = IF coupon.bundle /\ used = 0 THEN used ELSE used - 1
    BY DEF UncountUse, At, Under
  <1>3. Base /\ b \in Bookings
    BY <1>1, <1>2, CallKinds DEF BookInv
  <1>4. Moves(a, b, "less", "release") /\ Books(b) /\ Writes(b, 0)
    BY <1>1, <1>2, <1>3, GoTo, BecomesBooks DEF Steps, Writes
  <1>5. UseDue("release") = 0 /\ UseDue("less") = 1 /\ ShareDue("release") = 1 /\ ShareDue("less") = 1
    BY DEF UseDue, ShareDue, Claiming
  <1>6. used \in Int /\ spent \in [Customers -> Nat] /\ Owner[b] \in Customers
    BY <1>3, UsesAssumption DEF Base, UsesTypeOK
  <1>7. Rises
    BY <1>2, <1>6 DEF Rises
  <1>8. Effect(a, b, "less", "release", 0)
    BY <1>2, <1>4, <1>7 DEF Effect, ghosts
  <1>9. Settles(b, "less", "release", 0)
    BY <1>2, <1>5, <1>6 DEF Settles
  <1>. QED BY <1>1, <1>8, <1>9 DEF Counted, Steps

\* The steps that touch no count of the coupon.
Idling == {"idle", "insert", "commit", "spend", "settle", "delete", "bin"}
LEMMA IdlingOwesNothing == \A s \in Idling : UseDue(s) = 0 /\ ShareDue(s) = 0 /\ s \in Steps
  BY DEF Idling, UseDue, ShareDue, Claiming, Steps

LEMMA CallerCounted ==
  ASSUME BookInv, NEW a \in Calls, Commit(a) \/ SpendPass(a) \/ SettleRestore(a) \/ ReturnToBin(a)
  PROVE  Counted(a, call[a].on)
  <1>1. PICK b : b = call[a].on
    OBVIOUS
  <1>2. PICK s : s = call[a].step
    OBVIOUS
  <1>3. /\ Under(a) /\ UNCHANGED <<coupon, used, spent, ghosts>> /\ UNCHANGED rows /\ s \in {"commit", "spend", "settle", "bin"}
    BY <1>2 DEF Commit, SpendPass, SettleRestore, ReturnToBin, At, Under, codeVars
  <1>4. Base /\ b \in Bookings
    BY <1>1, <1>3, CallKinds DEF BookInv
  <1>5. Books(b)
    <2>1. \/ UNCHANGED booking \/ Becomes(b, "live") \/ Becomes(b, "gone")
          \/ booking' = [booking EXCEPT ![b].bin = @ \/ Listed(b)]
      BY <1>1 DEF Commit, SpendPass, SettleRestore, ReturnToBin
    <2>2. CASE booking' = [booking EXCEPT ![b].bin = @ \/ Listed(b)]
      <3>1. PICK x \in BOOLEAN : x = (booking[b].bin \/ Listed(b))
        BY <1>4 DEF Listed
      <3>2. booking' = [booking EXCEPT ![b].bin = x]
        BY <2>2, <3>1
      <3>. QED BY <1>4, <3>2, BecomesBooks
    <2>. QED BY <1>4, <2>1, <2>2, BecomesBooks
  <1>6. \E t \in {"idle", "spend", "delete"} : Moves(a, b, s, t)
    <2>1. Return(a) \/ \E t \in {"spend", "delete"} : Go(a, t)
      BY DEF Commit, SpendPass, SettleRestore, ReturnToBin
    <2>. QED BY <1>1, <1>2, <1>3, <1>4, <2>1, GoTo, ReturnTo DEF Steps
  <1>7. PICK t \in {"idle", "spend", "delete"} : Moves(a, b, s, t)
    BY <1>6
  <1>8. s \in Idling /\ t \in Idling /\ s # "idle"
    BY <1>3 DEF Idling
  <1>9. Writes(b, 0) /\ 0 + UseDue(t) - UseDue(s) = 0 /\ 0 + ShareDue(t) - ShareDue(s) = 0 /\ s \in Steps /\ t \in Steps
    BY <1>3, <1>8, IdlingOwesNothing DEF Writes
  <1>10. Effect(a, b, s, t, 0) /\ Settles(b, s, t, 0)
    BY <1>3, <1>4, <1>5, <1>7, <1>8, <1>9, QuietStep
  <1>. QED BY <1>1, <1>8, <1>9, <1>10 DEF Counted

\* A call that starts owes nothing yet.
LEMMA StartCounted ==
  ASSUME BookInv, NEW a \in Calls, NEW b \in Bookings, StartCall(a, b)
  PROVE  \E t \in Steps : Effect(a, b, "idle", t, 0) /\ Settles(b, "idle", t, 0) /\ lost' = lost
  <1>1. Base
    BY DEF BookInv
  <1>2. PICK why \in {"create", "restore", "give"}, t \in {FirstWrite, "delete", "bin"} : Start(a, b, why, t)
    BY DEF StartCall, Create, Cancel, DropCoupon, Delete, Restore, GiveBack
  <1>3. /\ UNCHANGED <<used, spent>> /\ UNCHANGED rows
        /\ booking[b].status \in {"none", "live", "cancelled"}
    BY DEF StartCall, Create, Cancel, DropCoupon, Delete, Restore, GiveBack, codeVars, Discounted, Listed
  <1>4. Books(b)
    BY <1>1, BecomesBooks DEF StartCall, Create, Cancel, DropCoupon, Delete, Restore
  <1>5. UseDue(t) = 0 /\ ShareDue(t) = 0 /\ UseDue("idle") = 0 /\ ShareDue("idle") = 0 /\ t \in Steps /\ t # "idle"
    BY DEF UseDue, ShareDue, Claiming, FirstWrite, Steps
  <1>6. Moves(a, b, "idle", t)
    BY <1>1, <1>2, <1>5, StartTo
  <1>7. /\ UNCHANGED <<coupon, lost>>
        /\ crossed' = crossed \/ crossed' = crossed \cup {b}
    BY <1>2 DEF Start
  <1>8. used \in Int /\ spent \in [Customers -> Nat] /\ Owner[b] \in Customers
    BY <1>1, UsesAssumption DEF Base, UsesTypeOK
  <1>9. Rises
    BY <1>3, <1>8 DEF Rises
  <1>10. Writes(b, 0)
    BY <1>3 DEF Writes
  <1>11. Effect(a, b, "idle", t, 0)
    BY <1>3, <1>4, <1>6, <1>7, <1>9, <1>10 DEF Effect
  <1>12. Settles(b, "idle", t, 0)
    BY <1>3, <1>5, <1>8 DEF Settles
  <1>. QED BY <1>5, <1>7, <1>11, <1>12

\* A call is killed.
LEMMA KillMoves ==
  ASSUME BookInv, NEW a \in Calls, Kill(a), NEW b, b = call[a].on
  PROVE  Effect(a, b, call[a].step, "idle", 0) /\ UNCHANGED <<used, spent>> /\ lost' # {} /\ Under(a)
  <1>1. /\ Under(a) /\ Return(a) /\ UNCHANGED <<coupon, used, spent>> /\ UNCHANGED rows
        /\ lost' = lost \cup {b}
        /\ crossed' = crossed \/ crossed' = crossed \cup {b}
        /\ UNCHANGED booking \/ Becomes(b, "gone")
    BY DEF Kill, codeVars
  <1>2. Base /\ b \in Bookings
    BY <1>1, CallKinds DEF BookInv
  <1>3. Moves(a, b, call[a].step, "idle") /\ Books(b) /\ Writes(b, 0)
    BY <1>1, <1>2, ReturnTo, BecomesBooks DEF Writes
  <1>4. Rises
    BY <1>1, <1>2 DEF Rises, Base, UsesTypeOK
  <1>5. call[a].step # "idle"
    BY <1>1 DEF Under
  <1>. QED BY <1>1, <1>3, <1>4, <1>5 DEF Effect

-----------------------------------------------------------------------------
(* What the rows leave for the counters to say. *)

Of(c) == {b \in Bookings : Owner[b] = c}

\* The bookings that a kill, or a failed creation, left behind: nothing gives their use back.
Dead(B) == {b \in B : booking[b].status = "gone" /\ CallsOn(b) = {}}

Uncrossed == coupon.bundle => crossed = {}
Covered ==
    Uncrossed =>
      /\ used >= UsesOf(Bookings) - Written(Dead(Bookings))
      /\ \A c \in Customers : spent[c] >= SharesOf(Of(c)) - Written(Dead(Of(c)))
Exact ==
    lost = {} /\ Uncrossed =>
      /\ used = UsesOf(Bookings)
      /\ \A c \in Customers : spent[c] = SharesOf(Of(c))
Capped ==
    /\ coupon.limit > 0 => used <= coupon.limit
    /\ \A c \in Customers : spent[c] <= coupon.share

LEMMA CountsTyped ==
  ASSUME IsFiniteSet(rows), NEW B, NEW S
  PROVE  Written(B) \in Nat /\ Pending(S, B) \in Nat
  <1>1. IsFiniteSet({r \in rows : r.on \in B}) /\ IsFiniteSet({a \in Calls : call[a].step \in S /\ call[a].on \in B})
    BY UsesAssumption, FS_Subset
  <1>. QED BY <1>1, FS_CardinalityType DEF Written, Pending

\* Bookings that hold a row, and calls whose claim has its row in place, are no more than
\* the rows that are not left behind.
LEMMA RowsSuffice ==
  ASSUME BookInv, NEW B \in SUBSET Bookings, NEW N \in SUBSET Claiming, NEW E \in SUBSET B,
         N = {} \/ (coupon.bundle /\ crossed = {}),
         \A e \in E : RowsOf(e) # {} /\ e \notin Dead(B) /\ \A a \in CallsOn(e) : call[a].step \notin N
  PROVE  /\ Cardinality(E) \in Nat /\ Pending(N, B) \in Nat /\ Written(B) \in Nat /\ Written(Dead(B)) \in Nat
         /\ Cardinality(E) + Pending(N, B) <= Written(B) - Written(Dead(B))
  <1>. DEFINE A == {r \in rows : r.on \in B}
              D == {r \in rows : r.on \in Dead(B)}
              C == {d \in Calls : call[d].step \in N /\ call[d].on \in B}
              M == {call[d].on : d \in C}
  <1>1. IsFiniteSet(rows) /\ IsFiniteSet(Bookings) /\ IsFiniteSet(Calls)
    BY UsesAssumption DEF BookInv, Base
  <1>2. /\ IsFiniteSet(A) /\ IsFiniteSet(D) /\ D \subseteq A /\ IsFiniteSet(C)
        /\ M \subseteq B /\ IsFiniteSet(B) /\ IsFiniteSet(M) /\ IsFiniteSet(E)
    <2>1. D \subseteq A /\ A \subseteq rows /\ C \subseteq Calls /\ M \subseteq B
      BY DEF Dead
    <2>2. IsFiniteSet(A) /\ IsFiniteSet(C) /\ IsFiniteSet(B)
      BY <1>1, <2>1, FS_Subset
    <2>3. IsFiniteSet(D) /\ IsFiniteSet(M) /\ IsFiniteSet(E)
      BY <2>1, <2>2, FS_Subset
    <2>. QED BY <2>1, <2>2, <2>3
  <1>3. Written(B) = Cardinality(A) /\ Written(Dead(B)) = Cardinality(D) /\ Pending(N, B) = Cardinality(C)
    BY DEF Written, Pending
  <1>4. ASSUME NEW d \in C
        PROVE  /\ call[d].on \in B /\ d \in CallsOn(call[d].on) /\ CallsOn(call[d].on) = {d}
               /\ OnlyRow(call[d].on) \in rows /\ OnlyRow(call[d].on).on = call[d].on
    <2>1. d \in Calls /\ call[d].step \in N /\ call[d].on \in B /\ call[d].step \in Claiming
      BY <1>4
    <2>2. Under(d) /\ call[d].step \in Spending /\ coupon.bundle /\ crossed = {}
      BY <2>1 DEF Claiming, Spending, Under
    <2>3. CallsOn(call[d].on) = {d} /\ d \in CallsOn(call[d].on)
      BY <2>1, <2>2, SpendsAlone
    <2>4. OnlyRow(call[d].on) \in rows
      BY <2>1, <2>2, SpendKnows
    <2>. QED BY <2>1, <2>3, <2>4 DEF OnlyRow
  <1>5. Cardinality(C) <= Cardinality(M)
    <2>. DEFINE f == [d \in C |-> call[d].on]
    <2>1. f \in [C -> M]
      OBVIOUS
    <2>2. \A d, e \in C : f[d] = f[e] => d = e
      BY <1>4
    <2>3. f \in Injection(C, M)
      BY <2>1, <2>2 DEF Injection, IsInjective
    <2>. QED BY <1>2, <2>3, FS_Injection
  <1>6. \A b \in E \cup M : b \in B /\ b \notin Dead(B) /\ \E r \in rows : r.on = b
    <2>1. \A b \in E : b \in B /\ b \notin Dead(B) /\ \E r \in rows : r.on = b
      BY DEF RowsOf
    <2>2. \A d \in C : call[d].on \in B /\ call[d].on \notin Dead(B) /\ \E r \in rows : r.on = call[d].on
      BY <1>4 DEF Dead
    <2>. QED BY <2>1, <2>2
  <1>7. E \cap M = {}
    BY <1>4
  <1>8. Cardinality(E \cup M) = Cardinality(E) + Cardinality(M) /\ IsFiniteSet(E \cup M)
    <2>. HIDE DEF M
    <2>1. Cardinality(E) \in Nat /\ Cardinality(M) \in Nat
      BY <1>2, FS_CardinalityType
    <2>2. Cardinality(E \cap M) = 0
      BY <1>7, FS_EmptySet
    <2>. QED BY <1>2, <2>1, <2>2, FS_Union
  <1>9. Cardinality(A \ D) = Cardinality(A) - Cardinality(D) /\ IsFiniteSet(A \ D)
    <2>. HIDE DEF A, D
    <2>1. A \cap D = D
      BY <1>2
    <2>. QED BY <1>2, <2>1, FS_Difference
  <1>10. Cardinality(E \cup M) <= Cardinality(A \ D)
    <2>. DEFINE f == [b \in E \cup M |-> CHOOSE r \in rows : r.on = b]
    <2>1. \A b \in E \cup M : f[b] \in rows /\ f[b].on = b
      BY <1>6
    <2>2. \A b \in E \cup M : f[b] \in A \ D
      BY <1>6, <2>1
    <2>. DEFINE V == E \cup M
                W == A \ D
    <2>3. f \in [V -> W] /\ \A b, o \in V : f[b] = f[o] => b = o
      BY <2>1, <2>2
    <2>4. IsFiniteSet(W)
      BY <1>9
    <2>. HIDE DEF f, V, W
    <2>5. f \in Injection(V, W)
      BY <2>3 DEF Injection, IsInjective
    <2>6. Cardinality(V) <= Cardinality(W)
      BY <2>4, <2>5, FS_Injection
    <2>. QED BY <2>6 DEF V, W
  <1>11. /\ Cardinality(A) \in Nat /\ Cardinality(D) \in Nat /\ Cardinality(C) \in Nat
         /\ Cardinality(M) \in Nat /\ Cardinality(E) \in Nat
    BY <1>2, FS_CardinalityType
  <1>. HIDE DEF A, D, C, M
  <1>. QED BY <1>3, <1>5, <1>8, <1>9, <1>10, <1>11

\* So the counters are at least the bookings that hold a row and have no call under way.
LEMMA DueCovers ==
  ASSUME BookInv, Uncrossed, NEW B \in SUBSET Bookings, NEW E \in SUBSET B,
         \A e \in E : RowsOf(e) # {} /\ e \notin Dead(B) /\ CallsOn(e) = {}
  PROVE  /\ Cardinality(E) \in Nat /\ UsesOf(B) - Written(Dead(B)) \in Int /\ SharesOf(B) - Written(Dead(B)) \in Int
         /\ Cardinality(E) + Pending({"less"}, B) <= UsesOf(B) - Written(Dead(B))
         /\ Cardinality(E) <= SharesOf(B) - Written(Dead(B))
  <1>1. \A S : Pending(S, B) \in Nat /\ Written(B) \in Nat /\ Written(Dead(B)) \in Nat
    BY CountsTyped DEF BookInv, Base
  <1>2. \A N \in SUBSET Claiming : N = {} \/ coupon.bundle
          => /\ Cardinality(E) \in Nat
             /\ Cardinality(E) + Pending(N, B) <= Written(B) - Written(Dead(B))
    BY RowsSuffice DEF Uncrossed
  <1>3. CASE coupon.bundle
    <2>1. /\ Cardinality(E) \in Nat
          /\ Cardinality(E) + Pending({"share", "total", "unshare", "unrow"}, B) <= Written(B) - Written(Dead(B))
          /\ Cardinality(E) + Pending({"share", "unrow"}, B) <= Written(B) - Written(Dead(B))
      BY <1>2, <1>3 DEF Claiming
    <2>. QED BY <1>1, <1>3, <2>1 DEF UsesOf, SharesOf
  <1>4. CASE ~coupon.bundle
    <2>1. /\ Cardinality(E) \in Nat
          /\ Cardinality(E) + Pending({}, B) <= Written(B) - Written(Dead(B))
      BY <1>2
    <2>2. Pending({"less"}, B) <= Pending({"less", "row"}, B)
      <3>1. /\ {a \in Calls : call[a].step \in {"less"} /\ call[a].on \in B}
                 \subseteq {a \in Calls : call[a].step \in {"less", "row"} /\ call[a].on \in B}
            /\ IsFiniteSet({a \in Calls : call[a].step \in {"less", "row"} /\ call[a].on \in B})
        BY UsesAssumption, FS_Subset
      <3>. QED BY <3>1, FS_Subset DEF Pending
    <2>. QED BY <1>1, <1>4, <2>1, <2>2 DEF UsesOf, SharesOf
  <1>. QED BY <1>3, <1>4

\* No counter is at zero when it is lowered.
LEMMA NotLow ==
  ASSUME BookInv, Uncrossed, Covered, NEW a \in Calls, Under(a), NEW b, b = call[a].on
  PROVE  /\ call[a].step = "less" /\ coupon.bundle => used > 0
         /\ call[a].step \in {"release", "unshare"} => spent[Owner[b]] > 0
  <1>1. /\ IsFiniteSet(rows) /\ b \in Bookings /\ used \in Int /\ spent \in [Customers -> Nat] /\ Owner[b] \in Customers
        /\ a \in CallsOn(b)
    BY UsesAssumption DEF BookInv, Base, UsesTypeOK, CallsOn
  <1>2. PICK B : B = Of(Owner[b])
    OBVIOUS
  <1>3. B \in SUBSET Bookings /\ b \in B
    BY <1>1, <1>2 DEF Of
  <1>4. /\ used >= UsesOf(Bookings) - Written(Dead(Bookings))
        /\ spent[Owner[b]] >= SharesOf(B) - Written(Dead(B))
    BY <1>1, <1>2 DEF Covered
  <1>5. \A S, X : Pending(S, X) \in Nat /\ Written(X) \in Nat
    BY <1>1, CountsTyped
  <1>6. \A S, X : call[a].step \in S /\ b \in X => Pending(S, X) >= 1
    <2>. SUFFICES ASSUME NEW S, NEW X, call[a].step \in S, b \in X PROVE Pending(S, X) >= 1
      OBVIOUS
    <2>. DEFINE Y == {d \in Calls : call[d].step \in S /\ call[d].on \in X}
    <2>1. IsFiniteSet(Y) /\ a \in Y
      BY UsesAssumption, FS_Subset
    <2>. HIDE DEF Y
    <2>2. Cardinality(Y) # 0 /\ Cardinality(Y) \in Nat
      BY <2>1, FS_EmptySet, FS_CardinalityType
    <2>3. Pending(S, X) = Cardinality(Y)
      BY DEF Pending, Y
    <2>. QED BY <2>2, <2>3
  <1>7. ASSUME call[a].step = "less", coupon.bundle PROVE used > 0
    <2>1. Cardinality({}) + Pending({"less"}, Bookings) <= UsesOf(Bookings) - Written(Dead(Bookings))
          /\ UsesOf(Bookings) - Written(Dead(Bookings)) \in Int
      BY DueCovers
    <2>. QED BY <1>1, <1>4, <1>5, <1>6, <1>7, <2>1, FS_EmptySet
  <1>8. ASSUME call[a].step \in {"release", "unshare"} PROVE spent[Owner[b]] > 0
    <2>1. CASE coupon.bundle
      <3>1. \A E \in SUBSET B : (\A e \in E : RowsOf(e) # {} /\ e \notin Dead(B)
                                   /\ \A d \in CallsOn(e) : call[d].step \notin {"share", "unrow"})
              => /\ Cardinality(E) \in Nat
                 /\ Cardinality(E) + Pending({"share", "unrow"}, B) <= Written(B) - Written(Dead(B))
        BY <1>3, <2>1, RowsSuffice DEF Uncrossed, Claiming
      <3>4. /\ Pending({"less", "release"}, B) \in Nat /\ Pending({"share", "unrow"}, B) \in Nat
            /\ Written(B) \in Nat /\ Written(Dead(B)) \in Nat /\ spent[Owner[b]] \in Nat
        BY <1>1, <1>5
      <3>2. CASE call[a].step = "release"
        <4>1. Pending({"share", "unrow"}, B) <= Written(B) - Written(Dead(B))
          BY <1>5, <3>1, FS_EmptySet
        <4>2. SharesOf(B) = Written(B) + Pending({"less", "release"}, B) - Pending({"share", "unrow"}, B)
          BY <2>1 DEF SharesOf
        <4>3. Pending({"less", "release"}, B) >= 1
          BY <1>3, <1>6, <3>2
        <4>. QED BY <1>4, <3>4, <4>1, <4>2, <4>3
      <3>3. CASE call[a].step = "unshare"
        <4>1. CallsOn(b) = {a} /\ OnlyRow(b) \in RowsOf(b)
          BY <1>1, <2>1, <3>3, SpendsAlone, SpendKnows DEF Spending, Claiming, RowsOf, OnlyRow, Uncrossed
        <4>2. Cardinality({b}) + Pending({"share", "unrow"}, B) <= Written(B) - Written(Dead(B))
          BY <1>3, <3>1, <3>3, <4>1 DEF Dead
        <4>3. Cardinality({b}) = 1
          BY FS_Singleton
        <4>4. SharesOf(B) = Written(B) + Pending({"less", "release"}, B) - Pending({"share", "unrow"}, B)
          BY <2>1 DEF SharesOf
        <4>. QED BY <1>4, <3>4, <4>2, <4>3, <4>4
      <3>. QED BY <1>8, <3>2, <3>3
    <2>2. CASE ~coupon.bundle
      <3>1. Written(Dead(B)) <= Written(B)
        <4>1. /\ {r \in rows : r.on \in Dead(B)} \subseteq {r \in rows : r.on \in B}
              /\ IsFiniteSet({r \in rows : r.on \in B})
          BY <1>1, FS_Subset DEF Dead
        <4>. QED BY <4>1, FS_Subset DEF Written
      <3>2. SharesOf(B) = Written(B) + Pending({"less", "release", "total", "unshare", "row"}, B)
        BY <2>2 DEF SharesOf
      <3>3. Pending({"less", "release", "total", "unshare", "row"}, B) >= 1
        BY <1>3, <1>6, <1>8
      <3>. QED BY <1>1, <1>4, <1>5, <3>1, <3>2, <3>3
    <2>. QED BY <2>1, <2>2
  <1>. QED BY <1>7, <1>8

\* What was left behind stays so.
LEMMA DeadGrows ==
  ASSUME Base, NEW a \in Calls, NEW b, NEW s, NEW t, NEW w, Effect(a, b, s, t, w), NEW B \in SUBSET Bookings
  PROVE  /\ Written(Dead(B)) \in Nat /\ Written(Dead(B))' \in Nat
         /\ Written(Dead(B))' >= Written(Dead(B))
         /\ b \in Dead(B)' /\ RowsOf(b)' # {} => Written(Dead(B))' >= Written(Dead(B)) + 1
  <1>. DEFINE D == {r \in rows : r.on \in Dead(B)}
              F == {r \in rows' : r.on \in Dead(B)'}
  <1>1. b \notin Dead(B)
    BY DEF Dead, Effect, Moves
  <1>2. \A o \in Dead(B) : o \in Bookings /\ o # b /\ o \in Dead(B)'
    BY <1>1 DEF Dead, Effect, Moves, Books
  <1>3. \A r \in rows : r.on # b => r \in rows'
    BY DEF Effect, Writes, RowsOf
  <1>4. D \subseteq F
    BY <1>2, <1>3
  <1>5. IsFiniteSet(rows) /\ IsFiniteSet(rows')
    <2>1. Base'
      BY EffectBase
    <2>. QED BY <2>1 DEF Base
  <1>6. IsFiniteSet(D) /\ IsFiniteSet(F) /\ Cardinality(D) \in Nat /\ Cardinality(F) \in Nat
    <2>1. D \subseteq rows /\ F \subseteq rows'
      OBVIOUS
    <2>. HIDE DEF D, F
    <2>. QED BY <1>5, <2>1, FS_Subset, FS_CardinalityType
  <1>7. Written(Dead(B)) = Cardinality(D) /\ Written(Dead(B))' = Cardinality(F)
    BY DEF Written
  <1>8. Cardinality(D) <= Cardinality(F) /\ (Cardinality(D) = Cardinality(F) => D = F)
    BY <1>4, <1>6, FS_Subset
  <1>9. ASSUME b \in Dead(B)', RowsOf(b)' # {} PROVE D # F
    <2>1. PICK r \in RowsOf(b)' : TRUE
      BY <1>9
    <2>2. r \in F /\ r \notin D
      BY <1>1, <1>9, <2>1 DEF RowsOf
    <2>. QED BY <2>2
  <1>. HIDE DEF D, F
  <1>. QED BY <1>6, <1>7, <1>8, <1>9

-----------------------------------------------------------------------------
(* The invariant, and its steps. *)
UsesInv == BookInv /\ Covered /\ Exact /\ Capped

LEMMA CappedSteps ==
  ASSUME Base, Capped, Rises, coupon' = coupon
  PROVE  Capped'
  <1>1. used \in Int /\ spent \in [Customers -> Nat] /\ coupon.limit \in Nat /\ coupon.share \in Nat
    <2>1. used \in Int /\ spent \in [Customers -> Nat] /\ coupon \in Coupons
      BY DEF Base, UsesTypeOK
    <2>2. coupon \in [bundle : BOOLEAN, limit : Nat, share : Nat]
      <3>1. \A k \in Coupons : k \in [bundle : BOOLEAN, limit : Nat, share : Nat]
        BY UsesAssumption, Zenon
      <3>. QED BY <2>1, <3>1
    <2>. QED BY <2>1, <2>2
  <1>2. coupon.limit > 0 => used' <= coupon.limit
    BY <1>1 DEF Capped, Rises, UnderLimit
  <1>3. \A c \in Customers : spent'[c] <= coupon.share
    BY <1>1 DEF Capped, Rises
  <1>. QED BY <1>2, <1>3 DEF Capped

\* The counters follow what a step does to the rows and the writes to come.
LEMMA SettledCounts ==
  ASSUME BookInv, Covered, Exact, NEW a \in Calls, NEW b, NEW s, NEW t, NEW w, Effect(a, b, s, t, w),
         Uncrossed => Settles(b, s, t, w)
  PROVE  Covered' /\ Exact'
  <1>. SUFFICES ASSUME Uncrossed'
                PROVE  /\ used' >= UsesOf(Bookings)' - Written(Dead(Bookings))'
                       /\ \A c \in Customers : spent'[c] >= SharesOf(Of(c))' - Written(Dead(Of(c)))'
                       /\ lost' = {} => /\ used' = UsesOf(Bookings)'
                                        /\ \A c \in Customers : spent'[c] = SharesOf(Of(c))'
    BY DEF Covered, Exact, Of
  <1>1. /\ Base /\ Moves(a, b, s, t) /\ Writes(b, w) /\ coupon' = coupon /\ b \in Bookings /\ Owner[b] \in Customers
        /\ crossed \subseteq crossed' /\ lost \subseteq lost' /\ Rises
    BY UsesAssumption DEF BookInv, Effect, Moves
  <1>2. Uncrossed
    BY <1>1 DEF Uncrossed
  <1>3. Settles(b, s, t, w)
    BY <1>2
  <1>4. s = "idle" \/ (Under(a) /\ call[a].on = b /\ call[a].step = s)
    BY <1>1 DEF Moves, CallsOn
  <1>5. /\ s = "less" /\ coupon.bundle => used > 0
        /\ s \in {"release", "unshare"} => spent[Owner[b]] > 0
    BY <1>2, <1>4, NotLow
  <1>6. \A B \in SUBSET Bookings :
          /\ UsesOf(B) \in Int /\ SharesOf(B) \in Int /\ w \in Int
          /\ UsesOf(B)' = UsesOf(B) + IF b \in B THEN w + UseDue(t) - UseDue(s) ELSE 0
          /\ SharesOf(B)' = SharesOf(B) + IF b \in B THEN w + ShareDue(t) - ShareDue(s) ELSE 0
          /\ Written(Dead(B)) \in Nat /\ Written(Dead(B))' \in Nat /\ Written(Dead(B))' >= Written(Dead(B))
    <2>. TAKE B \in SUBSET Bookings
    <2>1. IsFiniteSet(rows)
      BY <1>1 DEF Base
    <2>2. /\ UsesOf(B) \in Int /\ SharesOf(B) \in Int /\ w \in Int
          /\ UsesOf(B)' = UsesOf(B) + IF b \in B THEN w + UseDue(t) - UseDue(s) ELSE 0
          /\ SharesOf(B)' = SharesOf(B) + IF b \in B THEN w + ShareDue(t) - ShareDue(s) ELSE 0
      BY <1>1, <2>1, DueMoves
    <2>3. Written(Dead(B)) \in Nat /\ Written(Dead(B))' \in Nat /\ Written(Dead(B))' >= Written(Dead(B))
      BY <1>1, DeadGrows
    <2>. QED BY <2>2, <2>3
  <1>7. UseDue(t) \in Int /\ UseDue(s) \in Int /\ ShareDue(t) \in Int /\ ShareDue(s) \in Int
    BY DEF UseDue, ShareDue
  <1>8. used \in Int /\ used' \in Int /\ spent \in [Customers -> Nat] /\ spent' \in [Customers -> Nat]
    BY <1>1 DEF Base, UsesTypeOK, Rises
  <1>9. /\ used >= UsesOf(Bookings) - Written(Dead(Bookings))
        /\ \A c \in Customers : spent[c] >= SharesOf(Of(c)) - Written(Dead(Of(c)))
        /\ lost' = {} => /\ used = UsesOf(Bookings)
                         /\ \A c \in Customers : spent[c] = SharesOf(Of(c))
    BY <1>1, <1>2 DEF Covered, Exact
  <1>10. PICK u \in Int : u = w + UseDue(t) - UseDue(s)
    BY <1>6, <1>7
  <1>11. PICK v \in Int : v = w + ShareDue(t) - ShareDue(s)
    BY <1>6, <1>7
  <1>12. /\ used' = used + u /\ spent'[Owner[b]] = spent[Owner[b]] + v
         /\ \A c \in Customers : c # Owner[b] => spent'[c] = spent[c]
    BY <1>3, <1>5, <1>10, <1>11 DEF Settles
  <1>13. /\ used' >= UsesOf(Bookings)' - Written(Dead(Bookings))'
         /\ lost' = {} => used' = UsesOf(Bookings)'
    <2>1. UsesOf(Bookings) \in Int /\ UsesOf(Bookings)' = UsesOf(Bookings) + u
          /\ Written(Dead(Bookings)) \in Nat /\ Written(Dead(Bookings))' \in Nat
          /\ Written(Dead(Bookings))' >= Written(Dead(Bookings))
      BY <1>1, <1>6, <1>10
    <2>. QED BY <1>8, <1>9, <1>12, <2>1
  <1>14. ASSUME NEW c \in Customers
         PROVE  /\ spent'[c] >= SharesOf(Of(c))' - Written(Dead(Of(c)))'
                /\ lost' = {} => spent'[c] = SharesOf(Of(c))'
    <2>1. Of(c) \in SUBSET Bookings /\ (b \in Of(c) <=> c = Owner[b])
      BY <1>1 DEF Of
    <2>2. /\ SharesOf(Of(c)) \in Int
          /\ SharesOf(Of(c))' = SharesOf(Of(c)) + IF c = Owner[b] THEN v ELSE 0
          /\ Written(Dead(Of(c))) \in Nat /\ Written(Dead(Of(c)))' \in Nat
          /\ Written(Dead(Of(c)))' >= Written(Dead(Of(c)))
      <3>1. Of(c)' = Of(c)
        BY DEF Of
      <3>2. PICK B \in SUBSET Bookings : B = Of(c)
        BY <2>1
      <3>3. /\ SharesOf(B) \in Int
            /\ SharesOf(B)' = SharesOf(B) + IF b \in B THEN w + ShareDue(t) - ShareDue(s) ELSE 0
            /\ Written(Dead(B)) \in Nat /\ Written(Dead(B))' \in Nat /\ Written(Dead(B))' >= Written(Dead(B))
        BY <1>6
      <3>4. SharesOf(Of(c))' = SharesOf(B)' /\ Written(Dead(Of(c)))' = Written(Dead(B))'
        BY <3>1, <3>2 DEF SharesOf, Written, Dead, Pending
      <3>. QED BY <1>11, <2>1, <3>2, <3>3, <3>4
    <2>3. spent[c] \in Nat /\ spent'[c] \in Nat
      BY <1>8
    <2>4. CASE c = Owner[b]
      BY <1>9, <1>12, <2>2, <2>3, <2>4
    <2>5. CASE c # Owner[b]
      BY <1>9, <1>12, <2>2, <2>3, <2>5
    <2>. QED BY <2>4, <2>5
  <1>. QED BY <1>13, <1>14

\* A killed call leaves what was due undone; a claim leaves its row, of a booking that died with it.
LEMMA KillCounts == ASSUME BookInv, Covered, NEW a \in Calls, Kill(a) PROVE Covered' /\ Exact'
  <1>1. PICK b : b = call[a].on
    OBVIOUS
  <1>2. PICK s : s = call[a].step
    OBVIOUS
  <1>3. Effect(a, b, s, "idle", 0) /\ UNCHANGED <<used, spent>> /\ lost' # {} /\ Under(a)
    BY <1>1, <1>2, KillMoves
  <1>4. Exact'
    BY <1>3 DEF Exact
  <1>. SUFFICES ASSUME Uncrossed'
                PROVE  /\ used' >= UsesOf(Bookings)' - Written(Dead(Bookings))'
                       /\ \A c \in Customers : spent'[c] >= SharesOf(Of(c))' - Written(Dead(Of(c)))'
    BY <1>4 DEF Covered, Of
  <1>5. /\ Base /\ Moves(a, b, s, "idle") /\ Writes(b, 0) /\ coupon' = coupon /\ b \in Bookings /\ rows' = rows
        /\ crossed \subseteq crossed'
    BY <1>3 DEF BookInv, Effect, Moves, Writes
  <1>6. Uncrossed
    BY <1>5 DEF Uncrossed
  <1>7. \A c \in {s, "idle"} : UseDue(c) \in Int /\ ShareDue(c) \in Int
    BY DEF UseDue, ShareDue
  <1>8. UseDue("idle") = 0 /\ ShareDue("idle") = 0
    BY DEF UseDue, ShareDue, Claiming
  <1>9. \A B \in SUBSET Bookings :
          /\ UsesOf(B) \in Int /\ SharesOf(B) \in Int
          /\ UsesOf(B)' = UsesOf(B) - IF b \in B THEN UseDue(s) ELSE 0
          /\ SharesOf(B)' = SharesOf(B) - IF b \in B THEN ShareDue(s) ELSE 0
    <2>. TAKE B \in SUBSET Bookings
    <2>2. IsFiniteSet(rows)
      BY <1>5 DEF Base
    <2>3. PICK w, t : w = 0 /\ t = "idle" /\ Writes(b, w) /\ Moves(a, b, s, t)
      BY <1>5
    <2>5. coupon' = coupon
      BY <1>5
    <2>4. /\ UsesOf(B) \in Int /\ SharesOf(B) \in Int /\ w \in Int
          /\ UsesOf(B)' = UsesOf(B) + IF b \in B THEN w + UseDue(t) - UseDue(s) ELSE 0
          /\ SharesOf(B)' = SharesOf(B) + IF b \in B THEN w + ShareDue(t) - ShareDue(s) ELSE 0
      <3>1. Writes(b, w) /\ Moves(a, b, s, t)
        BY <2>3
      <3>. QED BY <2>2, <2>5, <3>1, DueMoves
    <2>1. /\ UsesOf(B) \in Int /\ SharesOf(B) \in Int
          /\ UsesOf(B)' = UsesOf(B) + IF b \in B THEN 0 + UseDue("idle") - UseDue(s) ELSE 0
          /\ SharesOf(B)' = SharesOf(B) + IF b \in B THEN 0 + ShareDue("idle") - ShareDue(s) ELSE 0
      BY <2>3, <2>4
    <2>. QED BY <1>7, <1>8, <2>1
  <1>10. \A B \in SUBSET Bookings :
          /\ Written(Dead(B)) \in Nat /\ Written(Dead(B))' \in Nat /\ Written(Dead(B))' >= Written(Dead(B))
          /\ b \in Dead(B)' /\ RowsOf(b)' # {} => Written(Dead(B))' >= Written(Dead(B)) + 1
    BY <1>3, <1>5, DeadGrows
  <1>11. UseDue(s) >= -1 /\ ShareDue(s) >= -1 /\ (UseDue(s) < 0 \/ ShareDue(s) < 0 => coupon.bundle /\ s \in Claiming)
    BY DEF UseDue, ShareDue, Claiming
  <1>12. ASSUME coupon.bundle, s \in Claiming
         PROVE  RowsOf(b)' # {} /\ \A B \in SUBSET Bookings : b \in B => b \in Dead(B)'
    <2>1. crossed = {} /\ crossed' = {}
      BY <1>5, <1>12 DEF Uncrossed
    <2>2. call[a].why # "restore"
      BY <1>1, <2>1 DEF Kill
    <2>3. booking[b].status = "making" /\ CallsOn(b) = {a}
      BY <1>1, <1>2, <1>3, <1>12, <2>1, <2>2, SpendsAlone DEF Spending, Claiming
    <2>4. OnlyRow(b) \in rows
      BY <1>1, <1>2, <1>3, <1>12, <2>1, SpendKnows DEF Spending, Claiming
    <2>5. booking'[b].status = "gone"
      BY <1>1, <1>5, <2>3 DEF Kill, Becomes, Base, UsesTypeOK
    <2>6. CallsOn(b)' = {}
      <3>1. Return(a)
        BY DEF Kill
      <3>. QED BY <1>5, <2>3, <3>1, ReturnMoves
    <2>. QED BY <1>5, <2>4, <2>5, <2>6 DEF Dead, RowsOf, OnlyRow
  <1>13. \A B \in SUBSET Bookings :
           /\ UsesOf(B)' - Written(Dead(B))' <= UsesOf(B) - Written(Dead(B))
           /\ SharesOf(B)' - Written(Dead(B))' <= SharesOf(B) - Written(Dead(B))
    <2>. TAKE B \in SUBSET Bookings
    <2>1. /\ UsesOf(B) \in Int /\ SharesOf(B) \in Int
          /\ UsesOf(B)' = UsesOf(B) - IF b \in B THEN UseDue(s) ELSE 0
          /\ SharesOf(B)' = SharesOf(B) - IF b \in B THEN ShareDue(s) ELSE 0
          /\ Written(Dead(B)) \in Nat /\ Written(Dead(B))' \in Nat /\ Written(Dead(B))' >= Written(Dead(B))
          /\ b \in Dead(B)' /\ RowsOf(b)' # {} => Written(Dead(B))' >= Written(Dead(B)) + 1
      BY <1>9, <1>10
    <2>2. b \in B /\ (UseDue(s) < 0 \/ ShareDue(s) < 0) => Written(Dead(B))' >= Written(Dead(B)) + 1
      BY <1>11, <1>12, <2>1
    <2>3. UseDue(s) \in Int /\ ShareDue(s) \in Int
      BY <1>7
    <2>4. CASE b \in B
      BY <1>11, <2>1, <2>2, <2>3, <2>4
    <2>5. CASE b \notin B
      BY <2>1, <2>5
    <2>. QED BY <2>4, <2>5
  <1>14. /\ used \in Int /\ spent \in [Customers -> Nat] /\ used' = used /\ spent' = spent
         /\ used >= UsesOf(Bookings) - Written(Dead(Bookings))
         /\ \A c \in Customers : spent[c] >= SharesOf(Of(c)) - Written(Dead(Of(c)))
    BY <1>3, <1>5, <1>6 DEF Covered, Base, UsesTypeOK
  <1>15. used' >= UsesOf(Bookings)' - Written(Dead(Bookings))'
    <2>1. /\ UsesOf(Bookings) \in Int /\ UsesOf(Bookings)' = UsesOf(Bookings) - UseDue(s) /\ UseDue(s) \in Int
          /\ Written(Dead(Bookings)) \in Nat /\ Written(Dead(Bookings))' \in Nat
          /\ UsesOf(Bookings)' - Written(Dead(Bookings))' <= UsesOf(Bookings) - Written(Dead(Bookings))
      BY <1>5, <1>7, <1>9, <1>10, <1>13
    <2>. QED BY <1>14, <2>1
  <1>16. ASSUME NEW c \in Customers PROVE spent'[c] >= SharesOf(Of(c))' - Written(Dead(Of(c)))'
    <2>1. Of(c)' = Of(c)
      BY DEF Of
    <2>2. PICK B \in SUBSET Bookings : B = Of(c)
      BY DEF Of
    <2>3. SharesOf(B)' - Written(Dead(B))' <= SharesOf(B) - Written(Dead(B)) /\ SharesOf(B) \in Int /\ ShareDue(s) \in Int
          /\ Written(Dead(B)) \in Nat /\ Written(Dead(B))' \in Nat
          /\ SharesOf(B)' = SharesOf(B) - IF b \in B THEN ShareDue(s) ELSE 0
      BY <1>7, <1>9, <1>10, <1>13
    <2>4. SharesOf(Of(c))' = SharesOf(B)' /\ Written(Dead(Of(c)))' = Written(Dead(B))'
      BY <2>1, <2>2 DEF SharesOf, Written, Dead, Pending
    <2>5. SharesOf(B)' \in Int
      BY <2>3
    <2>6. spent[c] >= SharesOf(B) - Written(Dead(B)) /\ spent'[c] = spent[c] /\ spent[c] \in Nat
      BY <1>14, <2>2
    <2>. QED BY <2>3, <2>4, <2>5, <2>6
  <1>. QED BY <1>15, <1>16

LEMMA CountsUnmoved ==
  ASSUME Covered, Exact, Capped, UNCHANGED <<coupon, rows, used, spent, call, crossed, lost>>,
         \A b \in Bookings : booking'[b].status = booking[b].status
  PROVE  Covered' /\ Exact' /\ Capped'
  <1>1. /\ coupon' = coupon /\ rows' = rows /\ used' = used /\ spent' = spent /\ call' = call
        /\ crossed' = crossed /\ lost' = lost
    OBVIOUS
  <1>2. \A S, B : Pending(S, B)' = Pending(S, B) /\ Written(B)' = Written(B)
    BY <1>1 DEF Pending, Written
  <1>3. \A B \in SUBSET Bookings : Dead(B)' = Dead(B)
    BY <1>1 DEF Dead, CallsOn, Under
  <1>4. \A B \in SUBSET Bookings : Written(Dead(B))' = Written(Dead(B))
    BY <1>1, <1>3 DEF Written
  <1>5. \A B : UsesOf(B)' = UsesOf(B) /\ SharesOf(B)' = SharesOf(B)
    BY <1>1, <1>2 DEF UsesOf, SharesOf
  <1>6. \A c \in Customers : /\ SharesOf(Of(c))' = SharesOf(Of(c))
                             /\ Written(Dead(Of(c)))' = Written(Dead(Of(c)))
    <2>. TAKE c \in Customers
    <2>1. PICK B \in SUBSET Bookings : B = Of(c) /\ B = Of(c)'
      BY DEF Of
    <2>2. SharesOf(B)' = SharesOf(B) /\ Written(Dead(B))' = Written(Dead(B))
      BY <1>4, <1>5
    <2>3. SharesOf(Of(c))' = SharesOf(B)' /\ Written(Dead(Of(c)))' = Written(Dead(B))'
      BY <2>1 DEF SharesOf, Written, Dead, Pending
    <2>. QED BY <2>1, <2>2, <2>3
  <1>7. UsesOf(Bookings)' = UsesOf(Bookings) /\ Written(Dead(Bookings))' = Written(Dead(Bookings))
    BY <1>4, <1>5
  <1>. QED BY <1>1, <1>6, <1>7 DEF Covered, Exact, Capped, Uncrossed

LEMMA InvariantInit == ASSUME UsesInit PROVE UsesInv
  <1>1. PICK q : q = Idle
    OBVIOUS
  <1>2. q \in CallRec /\ q.step = "idle" /\ q.on = NoBooking /\ NoBooking \notin Bookings
    BY <1>1, IdleIsACall, UsesAssumption
  <1>3. /\ coupon \in Coupons /\ rows = {} /\ used = 0 /\ spent = [c \in Customers |-> 0]
        /\ call = [a \in Calls |-> q] /\ crossed = {} /\ lost = {}
        /\ booking = [b \in Bookings |-> [status |-> "none", bin |-> FALSE, discounted |-> TRUE]]
    BY <1>1 DEF UsesInit
  <1>4. \A a \in Calls : ~Under(a) /\ call[a].step = "idle" /\ call[a].on \notin Bookings
    BY <1>2, <1>3 DEF Under
  <1>5. Base
    <2>1. call \in [Calls -> CallRec] /\ booking \in [Bookings -> BookingRec]
      BY <1>2, <1>3 DEF BookingRec
    <2>. QED BY <1>3, <1>4, <2>1, FS_EmptySet DEF Base, UsesTypeOK, BookingRec, CallRec
  <1>6. ASSUME NEW b \in Bookings PROVE BookingOK(b)
    <2>1. /\ CallsOn(b) = {} /\ RowsOf(b) = {} /\ booking[b].status = "none" /\ ~booking[b].bin /\ booking[b].discounted
      BY <1>3, <1>4 DEF CallsOn, RowsOf
    <2>. QED BY <1>3, <2>1 DEF BookingOK, Lonely, Bundled, RowsFit, Born
  <1>7. \A B : Written(B) = 0 /\ \A S : "idle" \notin S => Pending(S, B) = 0
    <2>1. \A B : {r \in rows : r.on \in B} = {}
      BY <1>3
    <2>2. \A B, S : "idle" \notin S => {a \in Calls : call[a].step \in S /\ call[a].on \in B} = {}
      BY <1>4
    <2>. QED BY <2>1, <2>2, FS_EmptySet DEF Written, Pending
  <1>8. \A B : UsesOf(B) = 0 /\ SharesOf(B) = 0
    <2>. TAKE B
    <2>1. /\ Written(B) = 0 /\ Pending({"less"}, B) = 0 /\ Pending({"share", "total", "unshare", "unrow"}, B) = 0
          /\ Pending({"less", "row"}, B) = 0 /\ Pending({"less", "release"}, B) = 0 /\ Pending({"share", "unrow"}, B) = 0
          /\ Pending({"less", "release", "total", "unshare", "row"}, B) = 0
      BY <1>7
    <2>. QED BY <2>1 DEF UsesOf, SharesOf
  <1>9. Covered /\ Exact
    BY <1>3, <1>7, <1>8 DEF Covered, Exact
  <1>10. Capped
    <2>1. \A k \in Coupons : k \in [bundle : BOOLEAN, limit : Nat, share : Nat]
      BY UsesAssumption, Zenon
    <2>2. coupon.limit \in Nat /\ coupon.share \in Nat
      BY <1>3, <2>1
    <2>. QED BY <1>3, <2>2 DEF Capped
  <1>. QED BY <1>5, <1>6, <1>9, <1>10 DEF UsesInv, BookInv

LEMMA CountedKeeps ==
  ASSUME UsesInv, NEW a \in Calls, NEW b, Counted(a, b)
  PROVE  Base' /\ Covered' /\ Exact' /\ Capped'
  <1>1. PICK s, t \in Steps, w \in {-1, 0, 1} : Effect(a, b, s, t, w) /\ (Uncrossed => Settles(b, s, t, w))
    BY DEF Counted, Uncrossed
  <1>2. BookInv /\ Base /\ Covered /\ Exact /\ Capped /\ Rises /\ coupon' = coupon
    BY <1>1 DEF UsesInv, BookInv, Effect
  <1>. QED BY <1>1, <1>2, EffectBase, SettledCounts, CappedSteps

LEMMA InvariantNext == ASSUME UsesInv, [Next]_vars PROVE UsesInv'
  <1>1. BookInv /\ Base /\ Covered /\ Exact /\ Capped
    BY DEF UsesInv, BookInv
  <1>2. ASSUME NEW a \in Calls, CallStep(a) PROVE UsesInv'
    <2>. SUFFICES ASSUME ~Kill(a) PROVE UsesInv'
      <3>1. CASE Kill(a)
        <4>1. PICK b : b = call[a].on
          OBVIOUS
        <4>2. Effect(a, b, call[a].step, "idle", 0)
          BY <1>1, <3>1, <4>1, KillMoves
        <4>3. Base' /\ Capped'
          BY <1>1, <4>2, EffectBase, CappedSteps DEF Effect
        <4>4. Covered' /\ Exact' /\ \A o \in Bookings : BookingOK(o)'
          BY <1>1, <3>1, KillCounts, KillOK
        <4>. QED BY <4>3, <4>4 DEF UsesInv, BookInv
      <3>. QED BY <3>1
    <2>1. Counted(a, call[a].on) /\ \A o \in Bookings : BookingOK(o)'
      <3>1. CASE InsertRow(a)
        BY <1>1, <3>1, InsertRowOK, InsertRowCounted
      <3>2. CASE ClaimShare(a)
        BY <1>1, <3>2, ClaimShareOK, ClaimShareCounted
      <3>3. CASE CountUse(a)
        BY <1>1, <3>3, CountUseOK, CountUseCounted
      <3>4. CASE GiveShareBack(a)
        BY <1>1, <3>4, GiveShareBackOK, GiveShareBackCounted
      <3>5. CASE RemoveOwnRow(a)
        BY <1>1, <3>5, RemoveOwnRowOK, RemoveOwnRowCounted
      <3>6. CASE WriteRow(a)
        BY <1>1, <3>6, WriteRowOK, WriteRowCounted
      <3>7. CASE DeleteRow(a)
        BY <1>1, <3>7, DeleteRowOK, DeleteRowCounted
      <3>8. CASE UncountUse(a)
        BY <1>1, <3>8, UncountUseOK, UncountUseCounted
      <3>9. CASE ReleaseShare(a)
        BY <1>1, <3>9, ReleaseShareOK, ReleaseShareCounted
      <3>10. CASE Commit(a)
        BY <1>1, <3>10, CommitOK, CallerCounted
      <3>11. CASE SpendPass(a)
        BY <1>1, <3>11, SpendPassOK, CallerCounted
      <3>12. CASE SettleRestore(a)
        BY <1>1, <3>12, SettleRestoreOK, CallerCounted
      <3>13. CASE ReturnToBin(a)
        BY <1>1, <3>13, ReturnToBinOK, CallerCounted
      <3>. QED BY <1>2, <3>1, <3>2, <3>3, <3>4, <3>5, <3>6, <3>7, <3>8, <3>9, <3>10, <3>11, <3>12, <3>13 DEF CallStep
    <2>. QED BY <2>1, CountedKeeps DEF UsesInv, BookInv
  <1>3. ASSUME NEW a \in Calls, NEW b \in Bookings, StartCall(a, b) PROVE UsesInv'
    <2>1. PICK t \in Steps : Effect(a, b, "idle", t, 0) /\ Settles(b, "idle", t, 0)
      BY <1>1, <1>3, StartCounted
    <2>2. Base' /\ Covered' /\ Exact' /\ Capped'
      BY <1>1, <2>1, EffectBase, SettledCounts, CappedSteps DEF Effect
    <2>3. \A o \in Bookings : BookingOK(o)'
      BY <1>1, <1>3, CreateOK, CancelOK, DropCouponOK, DeleteOK, RestoreOK DEF StartCall
    <2>. QED BY <2>2, <2>3 DEF UsesInv, BookInv
  <1>4. ASSUME NEW b \in Bookings, RestoreCancelled(b) PROVE UsesInv'
    <2>1. /\ booking' = [booking EXCEPT ![b].bin = FALSE]
          /\ UNCHANGED <<coupon, rows, used, spent, call, crossed, lost>>
      BY <1>4 DEF RestoreCancelled, codeVars, ghosts
    <2>2. booking \in [Bookings -> BookingRec] /\ booking' \in [Bookings -> BookingRec]
      BY <1>1, <2>1, BecomesBooks DEF Base, UsesTypeOK, BookingRec, Books
    <2>3. \A o \in Bookings : booking'[o].status = booking[o].status
      BY <2>1, <2>2 DEF BookingRec
    <2>4. Base'
      BY <1>1, <2>1, <2>2 DEF Base, UsesTypeOK, BookingRec, Under
    <2>5. Covered' /\ Exact' /\ Capped'
      BY <1>1, <2>1, <2>3, CountsUnmoved
    <2>6. \A o \in Bookings : BookingOK(o)'
      BY <1>1, <1>4, RestoreCancelledOK
    <2>. QED BY <2>4, <2>5, <2>6 DEF UsesInv, BookInv
  <1>5. CASE UNCHANGED vars
    <2>1. /\ UNCHANGED <<coupon, rows, used, spent, call, crossed, lost>> /\ booking' = booking
          /\ coupon' = coupon /\ rows' = rows /\ used' = used /\ spent' = spent /\ call' = call
          /\ crossed' = crossed /\ lost' = lost
      BY <1>5 DEF vars, codeVars, ghosts
    <2>2. Base'
      BY <1>1, <2>1 DEF Base, UsesTypeOK, Under
    <2>3. Covered' /\ Exact' /\ Capped'
      BY <1>1, <2>1, CountsUnmoved
    <2>4. ASSUME NEW o \in Bookings PROVE BookingOK(o)'
      <3>1. Elsewhere(NoBooking)
        BY <2>1 DEF Elsewhere, RowsOf, CallsOn, Under
      <3>2. o # NoBooking /\ BookingOK(o)
        BY <1>1, UsesAssumption DEF BookInv
      <3>. QED BY <3>1, <3>2, OthersOK
    <2>. QED BY <2>2, <2>3, <2>4 DEF UsesInv, BookInv
  <1>. QED BY <1>2, <1>3, <1>4, <1>5 DEF Next

LEMMA UsesInvariant == Spec => []UsesInv
  BY InvariantInit, InvariantNext, PTL DEF Spec

-----------------------------------------------------------------------------
(* The theorems. *)

\* Types: the values the requests and sweeps can leave in coupon, booking, rows and counters.
THEOREM UsesAreTyped == Spec => []UsesTypeOK
  <1>1. UsesInv => UsesTypeOK
    BY DEF UsesInv, BookInv, Base
  <1>. QED BY <1>1, UsesInvariant, PTL

\* The rows are those of the bookings that stand, and the counters are the rows with what
\* record_usage and reverse_usage have still to write of them.
THEOREM UsesAreRight == Spec => []UsesFollowBookings
  <1>1. UsesInv => UsesFollowBookings
    <2>. SUFFICES ASSUME UsesInv PROVE UsesFollowBookings
      OBVIOUS
    <2>1. ASSUME NEW b \in Bookings \ (crossed \cup lost), Settled(b)
          PROVE  Cardinality(RowsOf(b)) = IF Discounted(b) THEN 1 ELSE 0
      <3>1. BookingOK(b) /\ CallsOn(b) = {} /\ RowsFit(b)
        BY <2>1 DEF UsesInv, BookInv, BookingOK, Settled
      <3>2. IF Discounted(b) THEN One(b) ELSE RowsOf(b) = {}
        BY <3>1 DEF BookingOK, Lonely, RowsFit, Restoring, Discounted
      <3>. QED BY <3>2, FS_EmptySet, FS_Singleton DEF One
    <2>2. lost = {} /\ (coupon.bundle => crossed = {}) =>
            /\ used = UsesOf(Bookings)
            /\ \A c \in Customers : spent[c] = SharesOf({b \in Bookings : Owner[b] = c})
      BY DEF UsesInv, Exact, Uncrossed, Of
    <2>. QED BY <2>1, <2>2 DEF UsesFollowBookings
  <1>. QED BY <1>1, UsesInvariant, PTL

\* The discounted bookings never outnumber the limits, whatever overlaps or is killed.
THEOREM LimitsHold == Spec => []LimitsKept
  <1>1. UsesInv => LimitsKept
    <2>. SUFFICES ASSUME UsesInv, ~(coupon.bundle /\ crossed # {})
                  PROVE  /\ coupon.limit > 0 => Cardinality(Entitled) <= coupon.limit
                         /\ \A c \in Customers : Cardinality({b \in Entitled : Owner[b] = c}) <= coupon.share
      BY DEF LimitsKept
    <2>1. BookInv /\ Uncrossed /\ used \in Int /\ spent \in [Customers -> Nat]
      BY DEF UsesInv, Uncrossed, BookInv, Base, UsesTypeOK
    <2>2. /\ used >= UsesOf(Bookings) - Written(Dead(Bookings))
          /\ \A c \in Customers : spent[c] >= SharesOf(Of(c)) - Written(Dead(Of(c)))
          /\ coupon.limit > 0 => used <= coupon.limit
          /\ \A c \in Customers : spent[c] <= coupon.share
      BY <2>1 DEF UsesInv, Covered, Capped
    <2>3. coupon.limit \in Nat /\ coupon.share \in Nat
      <3>1. \A k \in Coupons : k \in [bundle : BOOLEAN, limit : Nat, share : Nat]
        BY UsesAssumption, Zenon
      <3>2. coupon \in Coupons
        BY <2>1 DEF BookInv, Base, UsesTypeOK
      <3>. QED BY <3>1, <3>2
    <2>4. ASSUME NEW B, NEW e \in Entitled PROVE e \in Bookings /\ RowsOf(e) # {} /\ e \notin Dead(B) /\ CallsOn(e) = {}
      <3>1. e \in Bookings /\ Discounted(e) /\ CallsOn(e) = {} /\ e \notin crossed /\ e \notin lost
        BY DEF Entitled, Settled
      <3>2. BookingOK(e) /\ RowsFit(e)
        BY <2>1, <3>1 DEF BookInv, BookingOK
      <3>. QED BY <3>1, <3>2 DEF RowsFit, Restoring, Discounted, One, Dead
    <2>5. \A B \in SUBSET Bookings : \A E \in SUBSET B : E \subseteq Entitled
            => /\ Cardinality(E) \in Nat /\ UsesOf(B) - Written(Dead(B)) \in Int /\ SharesOf(B) - Written(Dead(B)) \in Int
               /\ Cardinality(E) + Pending({"less"}, B) <= UsesOf(B) - Written(Dead(B))
               /\ Cardinality(E) <= SharesOf(B) - Written(Dead(B))
      BY <2>1, <2>4, DueCovers
    <2>6. ASSUME coupon.limit > 0 PROVE Cardinality(Entitled) <= coupon.limit
      <3>1. /\ Cardinality(Entitled) \in Nat /\ UsesOf(Bookings) - Written(Dead(Bookings)) \in Int
            /\ Cardinality(Entitled) + Pending({"less"}, Bookings) <= UsesOf(Bookings) - Written(Dead(Bookings))
        BY <2>4, <2>5
      <3>2. Pending({"less"}, Bookings) \in Nat
        BY <2>1, CountsTyped DEF BookInv, Base
      <3>. QED BY <2>1, <2>2, <2>3, <2>6, <3>1, <3>2
    <2>7. ASSUME NEW c \in Customers PROVE Cardinality({b \in Entitled : Owner[b] = c}) <= coupon.share
      <3>1. PICK E : E = {b \in Entitled : Owner[b] = c}
        OBVIOUS
      <3>2. PICK B : B = Of(c)
        OBVIOUS
      <3>3. B \in SUBSET Bookings /\ E \in SUBSET B /\ E \subseteq Entitled
        BY <2>4, <3>1, <3>2 DEF Of
      <3>4. Cardinality(E) \in Nat /\ SharesOf(B) - Written(Dead(B)) \in Int /\ Cardinality(E) <= SharesOf(B) - Written(Dead(B))
        BY <2>5, <3>3
      <3>5. spent[c] >= SharesOf(B) - Written(Dead(B)) /\ spent[c] <= coupon.share /\ spent[c] \in Nat
        BY <2>1, <2>2, <3>2
      <3>6. Cardinality(E) <= coupon.share
        BY <2>3, <3>4, <3>5
      <3>. QED BY <3>1, <3>6
    <2>. QED BY <2>6, <2>7
  <1>. QED BY <1>1, UsesInvariant, PTL
=============================================================================
