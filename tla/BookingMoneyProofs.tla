-------------------------- MODULE BookingMoneyProofs --------------------------
(***************************************************************************)
(* Proofs about BookingMoney, for any number of bookings and any prices,   *)
(* opening balances, charges and payments: the wallet, the bookings and    *)
(* the charges add up to what the customer gave.                           *)
(***************************************************************************)
EXTENDS BookingMoney, WellFoundedInduction, TLAPS

-----------------------------------------------------------------------------
(* Sums over the bookings.                                                   *)

\* Induction on the number of bookings, for a set of numbers.
LEMMA NatUpTo ==
    ASSUME NEW n \in Nat, NEW S, 0 \in S, \A k \in 0..n : k < n /\ k \in S => k + 1 \in S
    PROVE  0..n \subseteq S
<1> DEFINE R == {ss \in Nat \X Nat : ss[1] < ss[2]}
           Out == (0..n) \ S
<1>1. IsWellFoundedOn(R, Nat)
  BY NatLessThanWellFounded DEF OpToRel
<1>2. SUFFICES ASSUME Out # {} PROVE FALSE
  OBVIOUS
<1>3. Out \in SUBSET Nat
  OBVIOUS
<1>4. PICK x \in Out : \A y \in Out : <<y, x>> \notin R
  <2> HIDE DEF R, Out
  <2> QED BY <1>1, <1>2, <1>3, WFMin
<1>5. x \in 1..n /\ x - 1 \in 0..n /\ x - 1 \in Nat
  BY <1>4
<1>6. x - 1 \in S
  <2>1. <<x - 1, x>> \in R
    BY <1>5
  <2> QED BY <1>4, <1>5, <2>1
<1>7. x - 1 < n /\ (x - 1) + 1 = x
  BY <1>5
<1>8. x \in S
  BY <1>5, <1>6, <1>7
<1> QED BY <1>4, <1>8

\* g adds up f, car by car.
Adds(f, g) ==
    /\ g \in [0..N -> Int]
    /\ g[0] = 0
    /\ \A n \in 1..N : g[n] = g[n - 1] + f[n]
Amounted == [Cars -> Int]

LEMMA AddsExists == ASSUME MoneyAssumption, NEW f \in Amounted PROVE \E g : Adds(f, g)
<1> DEFINE UpTo(k, g) == g \in [0..k -> Int] /\ g[0] = 0 /\ \A n \in 1..k : g[n] = g[n - 1] + f[n]
           S == {k \in 0..N : \E g : UpTo(k, g)}
<1>0. N \in Nat
  BY DEF MoneyAssumption
<1>1. 0 \in S
  <2>1. UpTo(0, [n \in 0..0 |-> 0])
    OBVIOUS
  <2> HIDE DEF UpTo
  <2> QED BY <2>1, <1>0
<1>2. ASSUME NEW k \in 0..N, k < N, k \in S PROVE k + 1 \in S
  <2>1. PICK g : UpTo(k, g)
    BY <1>2
  <2> DEFINE h == [n \in 0..(k + 1) |-> IF n = k + 1 THEN g[k] + f[k + 1] ELSE g[n]]
  <2>2. k + 1 \in Cars /\ f[k + 1] \in Int /\ k \in Nat
    BY <1>0, <1>2 DEF Cars, Amounted
  <2>3. h \in [0..(k + 1) -> Int]
    BY <2>1, <2>2
  <2>4. h[0] = 0
    BY <2>1, <2>2
  <2>5. ASSUME NEW n \in 1..(k + 1) PROVE h[n] = h[n - 1] + f[n]
    <3>1. n \in 0..(k + 1) /\ n - 1 \in 0..(k + 1) /\ n - 1 # k + 1
      BY <2>2
    <3>2. CASE n = k + 1
      BY <3>1, <3>2, <2>2
    <3>3. CASE n # k + 1
      <4>1. n \in 1..k
        BY <3>1, <3>3, <2>2
      <4>2. g[n] = g[n - 1] + f[n]
        BY <2>1, <4>1
      <4> QED BY <4>2, <3>1, <3>3
    <3> QED BY <3>2, <3>3
  <2>6. UpTo(k + 1, h)
    <3> HIDE DEF h
    <3> QED BY <2>3, <2>4, <2>5
  <2>7. k + 1 \in 0..N
    BY <1>0, <1>2
  <2> HIDE DEF UpTo, h
  <2> QED BY <2>6, <2>7
<1>3. N \in S
  <2>1. N \in 0..N
    BY <1>0
  <2> HIDE DEF S
  <2>2. 0..N \subseteq S
    BY <1>0, <1>1, <1>2, NatUpTo
  <2> QED BY <2>1, <2>2
<1>4. PICK g : UpTo(N, g)
  <2> HIDE DEF UpTo
  <2> QED BY <1>3
<1> QED BY <1>4 DEF Adds

LEMMA AddsUnique ==
    ASSUME MoneyAssumption, NEW f, NEW g, NEW h, Adds(f, g), Adds(f, h)
    PROVE  g = h
<1> DEFINE S == {k \in 0..N : g[k] = h[k]}
<1>0. N \in Nat
  BY DEF MoneyAssumption
<1>1. 0 \in S
  BY <1>0 DEF Adds
<1>2. ASSUME NEW k \in 0..N, k < N, k \in S PROVE k + 1 \in S
  <2>1. k + 1 \in 1..N /\ (k + 1) - 1 = k
    BY <1>0, <1>2
  <2>2. g[k + 1] = g[k] + f[k + 1] /\ h[k + 1] = h[k] + f[k + 1]
    BY <2>1 DEF Adds
  <2> QED BY <1>2, <2>1, <2>2
<1>3. 0..N \subseteq S
  BY <1>0, <1>1, <1>2, NatUpTo
<1> QED BY <1>3 DEF Adds

\* The recursive function of Total is the one that adds up f.
LEMMA TotalIs == ASSUME MoneyAssumption, NEW f \in Amounted PROVE \E g : Adds(f, g) /\ Total(f) = g[N]
<1> DEFINE D(g) == [n \in 0..N |-> IF n = 0 THEN 0 ELSE g[n - 1] + f[n]]
           u == CHOOSE g : g = D(g)
<1>0. N \in Nat
  BY DEF MoneyAssumption
<1>1. \E g : g = D(g)
  <2>1. PICK g : Adds(f, g)
    BY AddsExists
  <2>2. g = D(g)
    BY <2>1, <1>0 DEF Adds
  <2> QED BY <2>2
<1>2. u = D(u)
  BY <1>1
<1>3. Total(f) = u[N]
  BY DEF Total
<1> HIDE DEF u
<1>4. \A n \in 0..N : u[n] = IF n = 0 THEN 0 ELSE u[n - 1] + f[n]
  BY <1>2
<1> DEFINE S == {k \in 0..N : u[k] \in Int}
<1>5. 0 \in S
  BY <1>0, <1>4
<1>6. ASSUME NEW k \in 0..N, k < N, k \in S PROVE k + 1 \in S
  <2>1. k + 1 \in 0..N /\ k + 1 # 0 /\ (k + 1) - 1 = k /\ k + 1 \in Cars
    BY <1>0, <1>6 DEF Cars
  <2>2. u[k + 1] = u[k] + f[k + 1] /\ f[k + 1] \in Int
    BY <1>4, <2>1 DEF Amounted
  <2> QED BY <1>6, <2>1, <2>2
<1>7. 0..N \subseteq S
  BY <1>0, <1>5, <1>6, NatUpTo
<1>8. u \in [0..N -> Int]
  BY <1>2, <1>7
<1>9. u[0] = 0 /\ \A n \in 1..N : u[n] = u[n - 1] + f[n]
  BY <1>0, <1>4
<1> QED BY <1>3, <1>8, <1>9 DEF Adds

LEMMA TotalInt == ASSUME MoneyAssumption, NEW f \in Amounted PROVE Total(f) \in Int
<1>1. PICK g : Adds(f, g) /\ Total(f) = g[N]
  BY TotalIs
<1> QED BY <1>1 DEF Adds, MoneyAssumption

\* Sums add up pointwise.
LEMMA TotalPlus ==
    ASSUME MoneyAssumption, NEW f \in Amounted, NEW g \in Amounted, NEW h \in Amounted,
           \A c \in Cars : h[c] = f[c] + g[c]
    PROVE  Total(h) = Total(f) + Total(g)
<1>0. N \in Nat
  BY DEF MoneyAssumption
<1>1. PICK F : Adds(f, F) /\ Total(f) = F[N]
  BY TotalIs
<1>2. PICK G : Adds(g, G) /\ Total(g) = G[N]
  BY TotalIs
<1> DEFINE H == [n \in 0..N |-> F[n] + G[n]]
<1>3. Adds(h, H)
  BY <1>0, <1>1, <1>2 DEF Adds, Amounted, Cars
<1>4. PICK K : Adds(h, K) /\ Total(h) = K[N]
  BY TotalIs
<1>5. H = K
  BY <1>3, <1>4, AddsUnique
<1> QED BY <1>0, <1>1, <1>2, <1>4, <1>5

LEMMA TotalOne ==
    ASSUME MoneyAssumption, NEW f \in Amounted, NEW d \in Cars, \A c \in Cars : c # d => f[c] = 0
    PROVE  Total(f) = f[d]
<1>0. N \in Nat
  BY DEF MoneyAssumption
<1> DEFINE H == [n \in 0..N |-> IF n < d THEN 0 ELSE f[d]]
<1>1. Adds(f, H)
  BY <1>0 DEF Adds, Amounted, Cars
<1>2. PICK K : Adds(f, K) /\ Total(f) = K[N]
  BY TotalIs
<1>3. H = K
  BY <1>1, <1>2, AddsUnique
<1> QED BY <1>0, <1>2, <1>3 DEF Cars

LEMMA TotalZero ==
    ASSUME MoneyAssumption, NEW f \in Amounted, \A c \in Cars : f[c] = 0 PROVE Total(f) = 0
<1>0. N \in Nat
  BY DEF MoneyAssumption
<1> DEFINE H == [n \in 0..N |-> 0]
<1>1. Adds(f, H)
  BY <1>0 DEF Adds, Amounted, Cars
<1>2. PICK K : Adds(f, K) /\ Total(f) = K[N]
  BY TotalIs
<1>3. H = K
  BY <1>1, <1>2, AddsUnique
<1> QED BY <1>0, <1>2, <1>3

LEMMA TotalNat ==
    ASSUME MoneyAssumption, NEW f \in Amounted, \A c \in Cars : f[c] >= 0 PROVE Total(f) >= 0
<1>0. N \in Nat
  BY DEF MoneyAssumption
<1>1. PICK g : Adds(f, g) /\ Total(f) = g[N]
  BY TotalIs
<1> DEFINE S == {k \in 0..N : g[k] >= 0}
<1>2. 0 \in S
  BY <1>0, <1>1 DEF Adds
<1>3. ASSUME NEW k \in 0..N, k < N, k \in S PROVE k + 1 \in S
  <2>1. k + 1 \in 1..N /\ (k + 1) - 1 = k /\ k + 1 \in Cars
    BY <1>0, <1>3 DEF Cars
  <2>2. g[k + 1] = g[k] + f[k + 1] /\ g[k] \in Int /\ f[k + 1] \in Int /\ f[k + 1] >= 0
    BY <1>1, <2>1 DEF Adds, Amounted
  <2> QED BY <1>3, <2>1, <2>2
<1>4. 0..N \subseteq S
  BY <1>0, <1>2, <1>3, NatUpTo
<1> QED BY <1>0, <1>1, <1>4

\* The sum grows by what one car's amount, or some cars' amounts, grow by.
LEMMA TotalMoves ==
    ASSUME MoneyAssumption, NEW f \in Amounted, NEW h \in Amounted, NEW d \in Cars,
           \A c \in Cars : c # d => h[c] = f[c]
    PROVE  Total(h) = Total(f) + (h[d] - f[d])
<1> DEFINE g == [c \in Cars |-> h[c] - f[c]]
<1>1. g \in Amounted
  BY DEF Amounted
<1>2. Total(h) = Total(f) + Total(g)
  <2>1. \A c \in Cars : h[c] = f[c] + g[c]
    BY DEF Amounted
  <2> HIDE DEF g
  <2> QED BY <1>1, <2>1, TotalPlus
<1>3. Total(g) = g[d]
  <2>1. \A c \in Cars : c # d => g[c] = 0
    BY DEF Amounted
  <2> HIDE DEF g
  <2> QED BY <1>1, <2>1, TotalOne
<1> QED BY <1>2, <1>3

LEMMA SumOverInt ==
    ASSUME MoneyAssumption, NEW f \in Amounted, NEW S
    PROVE  /\ SumOver(S, f) \in Int
           /\ (\A c \in Cars : f[c] >= 0) => SumOver(S, f) >= 0
<1> DEFINE g == [c \in Cars |-> IF c \in S THEN f[c] ELSE 0]
<1>1. g \in Amounted /\ SumOver(S, f) = Total(g)
  BY DEF Amounted, SumOver
<1>2. (\A c \in Cars : f[c] >= 0) => \A c \in Cars : g[c] >= 0
  OBVIOUS
<1> HIDE DEF g
<1> QED BY <1>1, <1>2, TotalInt, TotalNat

LEMMA TotalShifts ==
    ASSUME MoneyAssumption, NEW f \in Amounted, NEW h \in Amounted, NEW v \in Amounted, NEW S,
           \A c \in Cars : h[c] = IF c \in S THEN f[c] - v[c] ELSE f[c]
    PROVE  Total(f) = Total(h) + SumOver(S, v)
<1> DEFINE g == [c \in Cars |-> IF c \in S THEN v[c] ELSE 0]
<1>1. g \in Amounted /\ SumOver(S, v) = Total(g)
  BY DEF Amounted, SumOver
<1>2. \A c \in Cars : f[c] = h[c] + g[c]
  BY DEF Amounted
<1> HIDE DEF g
<1> QED BY <1>1, <1>2, TotalPlus

-----------------------------------------------------------------------------
(* One booking.                                                              *)

\* What the fields of a booking have in common.
BookOK(b) ==
    /\ b.status = "none" => b = Unmade
    /\ b.status # "none" =>
         /\ b.total > b.carried
         /\ b.applied = 0 \/ b.carried = 0
         /\ b.cleared => b.paid + b.applied >= b.carried
         /\ ~b.cleared /\ b.carried > 0 => b.paid < b.carried
         /\ b.pay \in {"paid", "refund_due"} => b.paid >= b.total - b.applied
         /\ b.pay \in {"pending", "partially_paid"} => b.paid < b.total - b.applied
         /\ b.pay = "refunded" => b.settled
    /\ b.settled /\ b.status # "cancelled" => b.deleteSettled /\ b.paid = 0
    /\ b.deleteSettled => b.settled /\ b.deleted /\ b.status # "cancelled"

LEMMA UnmadeOK == ASSUME MoneyAssumption PROVE Unmade \in Booking /\ BookOK(Unmade)
BY DEF MoneyAssumption, Unmade, Booking, BookOK, Statuses, PayStatuses, Methods

LEMMA AmountPaidNat ==
    ASSUME NEW b \in Booking
    PROVE  AmountPaid(b) \in Nat /\ AmountPaid(b) >= b.paid /\ AmountDue(b) \in Nat
BY DEF AmountPaid, AmountDue, Booking, Positive

\* Money is what its row says, but where the price was part paid and went back.
LEMMA AmountPaidIs ==
    ASSUME NEW b \in Booking, BookOK(b), ~HalfReturned(b)
    PROVE  AmountPaid(b) = b.paid
BY DEF AmountPaid, Booking, BookOK, HalfReturned, Unmade, PayStatuses

LEMMA HeldNat ==
    ASSUME NEW b \in Booking, BookOK(b)
    PROVE  HeldBy(b) \in Nat /\ OpenCarry(b) \in Nat
BY AmountPaidNat DEF HeldBy, OpenCarry, Booking, BookOK

LEMMA StatusForOK ==
    ASSUME NEW t \in Nat, NEW a \in Nat, NEW p \in Nat
    PROVE  /\ StatusFor(t, a, p) \in {"pending", "partially_paid", "paid"}
           /\ StatusFor(t, a, p) = "paid" <=> t <= a + p
BY DEF StatusFor

\* A booking keeps its balances when only what they do not read changes.
SameMoney(b, q) ==
    /\ q.total = b.total /\ q.applied = b.applied /\ q.paid = b.paid /\ q.carried = b.carried
    /\ q.cleared = b.cleared /\ q.settled = b.settled
    /\ (q.status = "none") = (b.status = "none")
    /\ q.pay = b.pay \/ {q.pay, b.pay} = {"paid", "refund_due"}

LEMMA SameHeld ==
    ASSUME NEW b \in Booking, NEW q \in Booking, SameMoney(b, q)
    PROVE  HeldBy(q) = HeldBy(b) /\ OpenCarry(q) = OpenCarry(b)
<1>1. AmountPaid(q) = AmountPaid(b)
  BY DEF AmountPaid, SameMoney
<1> QED BY <1>1 DEF HeldBy, OpenCarry, SameMoney

LEMMA SettledOwesNothing ==
    ASSUME NEW b \in Booking, BookOK(b), b.settled PROVE AmountDue(b) = 0
BY DEF BookOK, AmountDue, Unmade

\* What _write_payment does to a booking.
Paid(b, q, take, m) ==
    \/ q = Paying(b, take, m)
    \/ \E n \in Nat : q = [Paying(b, take, m) EXCEPT !.order = n]

LEMMA PayingFields ==
    ASSUME NEW b \in Booking, NEW take \in Nat, NEW m \in Methods, NEW q, Paid(b, q, take, m)
    PROVE  /\ q \in Booking
           /\ q.paid = AmountPaid(b) + take
           /\ q.pay = IF b.pay \in {"refund_due", "refunded"} \/ b.status = "cancelled"
                        THEN b.pay ELSE StatusFor(b.total, b.applied, AmountPaid(b) + take)
           /\ q.cleared = (b.cleared \/ ClearsCarry(b, take))
           /\ q.total = b.total /\ q.applied = b.applied /\ q.carried = b.carried /\ q.visit = b.visit
           /\ q.settled = b.settled /\ q.deleteSettled = b.deleteSettled
           /\ q.status = b.status /\ q.deleted = b.deleted
<1>1. AmountPaid(b) + take \in Nat
  BY AmountPaidNat
<1>2. StatusFor(b.total, b.applied, AmountPaid(b) + take) \in PayStatuses
  BY <1>1, StatusForOK DEF Booking, PayStatuses
<1>3. ClearsCarry(b, take) \in BOOLEAN
  BY DEF ClearsCarry
<1> DEFINE p == Paying(b, take, m)
<1>4. /\ p \in Booking
      /\ p.paid = AmountPaid(b) + take
      /\ p.pay = IF b.pay \in {"refund_due", "refunded"} \/ b.status = "cancelled"
                   THEN b.pay ELSE StatusFor(b.total, b.applied, AmountPaid(b) + take)
      /\ p.cleared = (b.cleared \/ ClearsCarry(b, take))
      /\ p.total = b.total /\ p.applied = b.applied /\ p.carried = b.carried /\ p.visit = b.visit
      /\ p.settled = b.settled /\ p.deleteSettled = b.deleteSettled
      /\ p.status = b.status /\ p.deleted = b.deleted
  BY <1>1, <1>2, <1>3 DEF Paying, Booking
<1>5. q = p \/ \E n \in Nat : q = [p EXCEPT !.order = n]
  BY DEF Paid
<1> HIDE DEF p
<1> QED BY <1>4, <1>5 DEF Booking

LEMMA PayingOK ==
    ASSUME NEW b \in Booking, BookOK(b), b.status # "none", ~HalfReturned(b),
           NEW take \in Nat, take <= AmountDue(b), NEW m \in Methods, NEW q, Paid(b, q, take, m)
    PROVE  /\ q \in Booking /\ BookOK(q)
           /\ HeldBy(q) = HeldBy(b) + take - (IF ClearsCarry(b, take) THEN b.carried ELSE 0)
           /\ OpenCarry(q) = IF ClearsCarry(b, take) THEN 0 ELSE OpenCarry(b)
           /\ ClearsCarry(b, take) => OpenCarry(b) = b.carried
           /\ q.status = b.status /\ q.deleted = b.deleted /\ q.visit = b.visit
           /\ q.pay = "refund_due" <=> b.pay = "refund_due"
           /\ q.pay = "paid" => b.pay = "paid" \/ take > 0
<1> DEFINE stays == b.pay \in {"refund_due", "refunded"} \/ b.status = "cancelled"
           state == StatusFor(b.total, b.applied, AmountPaid(b) + take)
<1>1. AmountPaid(b) = b.paid /\ b.paid \in Nat /\ b.total \in Nat /\ b.applied \in Nat /\ b.carried \in Nat
  BY AmountPaidIs DEF Booking
<1>2. /\ q \in Booking
      /\ q.paid = b.paid + take
      /\ q.pay = IF stays THEN b.pay ELSE state
      /\ q.cleared = (b.cleared \/ ClearsCarry(b, take))
      /\ q.total = b.total /\ q.applied = b.applied /\ q.carried = b.carried /\ q.visit = b.visit
      /\ q.settled = b.settled /\ q.deleteSettled = b.deleteSettled
      /\ q.status = b.status /\ q.deleted = b.deleted
  BY <1>1, PayingFields
<1>3. /\ state \in {"pending", "partially_paid", "paid"}
      /\ state = "paid" <=> b.total <= b.applied + (b.paid + take)
  BY <1>1, StatusForOK
<1>4. stays \/ b.settled => take = 0
  BY SettledOwesNothing DEF AmountDue
<1>5. ClearsCarry(b, take) <=> b.carried > 0 /\ ~b.cleared /\ b.paid + take >= b.carried
  BY <1>1 DEF ClearsCarry
<1>6. ClearsCarry(b, take) => ~b.settled
  BY <1>1, <1>4, <1>5 DEF BookOK, Booking
<1> HIDE DEF state
<1>7. BookOK(q)
  <2>1. q.status # "none" /\ q.total > q.carried /\ (q.applied = 0 \/ q.carried = 0)
    BY <1>2 DEF BookOK
  <2> HIDE DEF stays
  <2>9. q.cleared <=> b.cleared \/ ClearsCarry(b, take)
    BY <1>2
  <2>10. q.paid = b.paid + take /\ q.applied = b.applied /\ q.carried = b.carried
    BY <1>2
  <2>2. q.cleared => q.paid + q.applied >= q.carried
    BY <1>1, <1>5, <2>9, <2>10 DEF BookOK
  <2>3. ~q.cleared /\ q.carried > 0 => q.paid < q.carried
    BY <1>1, <1>5, <2>9, <2>10
  <2> USE DEF stays
  <2>4. q.pay \in {"paid", "refund_due"} => q.paid >= q.total - q.applied
    BY <1>1, <1>2, <1>3, <1>4 DEF BookOK
  <2>5. q.pay \in {"pending", "partially_paid"} => q.paid < q.total - q.applied
    BY <1>1, <1>2, <1>3, <1>4 DEF BookOK
  <2>6. q.pay = "refunded" => q.settled
    BY <1>2, <1>3 DEF BookOK
  <2>7. q.settled /\ q.status # "cancelled" => q.deleteSettled /\ q.paid = 0
    BY <1>1, <1>2, <1>4 DEF BookOK
  <2>8. q.deleteSettled => q.settled /\ q.deleted /\ q.status # "cancelled"
    BY <1>2 DEF BookOK
  <2> QED BY <2>1, <2>2, <2>3, <2>4, <2>5, <2>6, <2>7, <2>8 DEF BookOK
<1>8. AmountPaid(q) = q.paid \/ q.settled
  <2>1. ~HalfReturned(q) \/ q.settled
    BY <1>7, <1>2 DEF HalfReturned, BookOK
  <2> QED BY <1>2, <1>7, <2>1, AmountPaidIs
<1>9. HeldBy(q) = HeldBy(b) + take - (IF ClearsCarry(b, take) THEN b.carried ELSE 0)
  BY <1>1, <1>2, <1>4, <1>5, <1>6, <1>8 DEF HeldBy, Booking
<1>10. /\ OpenCarry(q) = IF ClearsCarry(b, take) THEN 0 ELSE OpenCarry(b)
       /\ ClearsCarry(b, take) => OpenCarry(b) = b.carried
  BY <1>2, <1>5, <1>6 DEF OpenCarry, Booking
<1>11. /\ q.pay = "refund_due" <=> b.pay = "refund_due"
       /\ q.pay = "paid" => b.pay = "paid" \/ take > 0
  <2>1. CASE stays
    BY <1>2, <1>3, <2>1
  <2>2. CASE ~stays
    <3>1. q.pay = state /\ b.pay \in {"pending", "partially_paid", "paid"}
      BY <1>2, <2>2 DEF Booking, PayStatuses
    <3>2. state = "paid" /\ b.pay # "paid" => take > 0
      BY <1>1, <1>3, <3>1 DEF BookOK
    <3> QED BY <1>3, <2>2, <3>1, <3>2
  <2> QED BY <2>1, <2>2
<1> QED BY <1>2, <1>7, <1>9, <1>10, <1>11

LEMMA MadeOK ==
    ASSUME MoneyAssumption, NEW c \in Cars, NEW v \in 1..c, NEW p \in Prices, NEW m \in Methods,
           NEW carry \in Nat, NEW use \in Nat, carry = 0 \/ use = 0,
           NEW q, q = Made(v, p, m, carry, use)
    PROVE  /\ q \in Booking /\ BookOK(q)
           /\ HeldBy(q) = use /\ OpenCarry(q) = carry
           /\ q.status # "none" /\ ~q.deleted /\ q.pay # "refund_due"
           /\ q.status = "awaiting" => q.pay # "paid"
<1>1. p \in Nat /\ p > 0 /\ p + carry \in Nat /\ v \in 0..N
  BY DEF MoneyAssumption, Cars
<1> DEFINE state == IF carry > 0 \/ use > 0 THEN StatusFor(p + carry, use, 0) ELSE "pending"
<1>2. /\ state \in {"pending", "partially_paid", "paid"}
      /\ state = "paid" <=> p + carry <= use
  BY <1>1, StatusForOK
<1>3. /\ q \in Booking
      /\ q.status = IF m = "online" /\ p + carry > use THEN "awaiting" ELSE "pending"
      /\ q.total = p + carry /\ q.carried = carry /\ q.applied = use /\ q.pay = state /\ q.paid = 0
      /\ ~q.cleared /\ ~q.settled /\ ~q.deleted /\ ~q.deleteSettled
  <2> HIDE DEF state
  <2>1. q = [visit |-> v, status |-> IF m = "online" /\ p + carry > use THEN "awaiting" ELSE "pending",
             deleted |-> FALSE, total |-> p + carry, applied |-> use, paid |-> 0, carried |-> carry,
             cleared |-> FALSE, pay |-> state, method |-> m, settled |-> FALSE, deleteSettled |-> FALSE,
             order |-> 0]
    BY DEF Made, Unmade, state
  <2>2. state \in PayStatuses
    BY <1>2 DEF PayStatuses
  <2> QED BY <1>1, <2>1, <2>2 DEF Booking, Statuses, Methods
<1> HIDE DEF state
<1>4. BookOK(q)
  BY <1>1, <1>2, <1>3 DEF BookOK
<1>5. AmountPaid(q) = 0
  BY <1>1, <1>2, <1>3 DEF AmountPaid
<1> QED BY <1>1, <1>2, <1>3, <1>4, <1>5 DEF HeldBy, OpenCarry

LEMMA SettledFields ==
    ASSUME NEW b \in Booking
    PROVE  /\ Settled(b) \in Booking /\ Settled(b).settled
           /\ Settled(b).pay \in {b.pay, "refunded"}
           /\ \A f \in {"visit", "status", "deleted", "total", "applied", "paid", "carried", "cleared",
                         "method", "deleteSettled", "order"} : Settled(b)[f] = b[f]
BY DEF Settled, Booking, PayStatuses

\* A booking that stands returns what it holds.
LEMMA RefundableIs ==
    ASSUME NEW b \in Booking, BookOK(b), b.status # "none", ~b.settled, b.pay # "refund_due"
    PROVE  Refundable(b) = HeldBy(b)
<1>1. b.pay # "refunded" /\ HeldBy(b) \in Nat
  BY HeldNat DEF BookOK
<1> QED BY <1>1 DEF Refundable, HeldBy, Positive

LEMMA RefundableNat ==
    ASSUME NEW b \in Booking PROVE Refundable(b) \in Nat
BY AmountPaidNat DEF Refundable, Positive, Booking

LEMMA CancelledOK ==
    ASSUME NEW b \in Booking, BookOK(b), b.status # "none", ~b.settled,
           NEW q, q = [Settled(b) EXCEPT !.status = "cancelled"]
    PROVE  /\ q \in Booking /\ BookOK(q) /\ HeldBy(q) = 0 /\ OpenCarry(q) = 0
           /\ q.status = "cancelled" /\ q.deleted = b.deleted /\ q.pay \in {b.pay, "refunded"}
<1> DEFINE s == Settled(b)
<1>1. /\ s \in Booking /\ s.settled /\ s.pay \in {b.pay, "refunded"}
      /\ s.total = b.total /\ s.applied = b.applied /\ s.paid = b.paid /\ s.carried = b.carried
      /\ s.deleted = b.deleted /\ s.cleared = b.cleared /\ s.deleteSettled = b.deleteSettled
  BY SettledFields
<1> HIDE DEF s
<1>2. /\ q \in Booking /\ q.settled /\ q.pay \in {b.pay, "refunded"} /\ q.status = "cancelled"
      /\ q.total = b.total /\ q.applied = b.applied /\ q.paid = b.paid /\ q.carried = b.carried
      /\ q.deleted = b.deleted /\ q.cleared = b.cleared /\ q.deleteSettled = b.deleteSettled
  BY <1>1 DEF Booking, Statuses, s
<1> QED BY <1>2 DEF BookOK, HeldBy, OpenCarry, Booking

LEMMA DroppedOK ==
    ASSUME NEW b \in Booking, BookOK(b), b.status \notin {"none", "cancelled"}, AmountPaid(b) = 0,
           NEW q, q = [Settled(b) EXCEPT !.deleted = TRUE, !.deleteSettled = TRUE]
    PROVE  /\ q \in Booking /\ BookOK(q) /\ HeldBy(q) = 0 /\ OpenCarry(q) = 0
           /\ q.status = b.status /\ q.deleted /\ q.pay \in {b.pay, "refunded"}
<1> DEFINE s == Settled(b)
<1>1. /\ s \in Booking /\ s.settled /\ s.pay \in {b.pay, "refunded"} /\ s.status = b.status
      /\ s.total = b.total /\ s.applied = b.applied /\ s.paid = b.paid /\ s.carried = b.carried
      /\ s.cleared = b.cleared
  BY SettledFields
<1> HIDE DEF s
<1>2. /\ q \in Booking /\ q.settled /\ q.pay \in {b.pay, "refunded"} /\ q.status = b.status
      /\ q.total = b.total /\ q.applied = b.applied /\ q.paid = b.paid /\ q.carried = b.carried
      /\ q.cleared = b.cleared /\ q.deleteSettled /\ q.deleted
  BY <1>1 DEF Booking, s
<1>3. b.paid = 0
  BY AmountPaidNat DEF Booking
<1> QED BY <1>2, <1>3 DEF BookOK, HeldBy, OpenCarry, Booking

LEMMA BinnedOK ==
    ASSUME NEW b \in Booking, BookOK(b), b.status # "none", NEW q, q = [b EXCEPT !.deleted = TRUE]
    PROVE  /\ q \in Booking /\ BookOK(q) /\ SameMoney(b, q)
           /\ q.status = b.status /\ q.deleted /\ q.pay = b.pay /\ q.visit = b.visit
<1>1. /\ q \in Booking /\ q.deleted /\ q.pay = b.pay /\ q.status = b.status /\ q.visit = b.visit
      /\ q.total = b.total /\ q.applied = b.applied /\ q.paid = b.paid /\ q.carried = b.carried
      /\ q.cleared = b.cleared /\ q.deleteSettled = b.deleteSettled /\ q.settled = b.settled
  BY DEF Booking
<1> QED BY <1>1 DEF BookOK, SameMoney

LEMMA RestoredOK ==
    ASSUME NEW b \in Booking, BookOK(b), b.status # "none", NEW q, q = Restored(b)
    PROVE  /\ q \in Booking /\ BookOK(q) /\ HeldBy(q) = HeldBy(b) /\ OpenCarry(q) = OpenCarry(b)
           /\ q.status = b.status /\ ~q.deleted
           /\ q.pay \in {"paid", "refund_due"} => b.pay = q.pay
<1>1. CASE b.deleteSettled
  <2>1. b.settled /\ b.status # "cancelled" /\ b.paid = 0 /\ b.total > b.carried
    BY <1>1 DEF BookOK
  <2> DEFINE t == Positive(b.total - b.carried)
             state == StatusFor(t, 0, b.paid)
  <2>2. t \in Nat /\ t > 0 /\ b.paid \in Nat
    BY <2>1 DEF Positive, Booking
  <2>3. state = "pending"
    BY <2>1, <2>2 DEF StatusFor
  <2> HIDE DEF t, state
  <2>4. /\ q \in Booking /\ q.total = t /\ q.applied = 0 /\ q.paid = 0 /\ q.carried = 0
        /\ q.pay = "pending" /\ ~q.settled /\ ~q.deleteSettled /\ ~q.deleted
        /\ q.status = b.status /\ q.cleared = b.cleared
    <3>1. q = [[b EXCEPT !.total = t, !.carried = 0, !.applied = 0, !.settled = FALSE,
                         !.deleteSettled = FALSE, !.pay = state] EXCEPT !.deleted = FALSE]
      BY <1>1, <2>1 DEF Restored, Redue, t, state
    <3> QED BY <2>1, <2>2, <2>3, <3>1 DEF Booking, PayStatuses
  <2>5. BookOK(q)
    BY <2>2, <2>4 DEF BookOK
  <2>6. AmountPaid(q) = 0
    BY <2>4 DEF AmountPaid
  <2> QED BY <2>1, <2>4, <2>5, <2>6 DEF HeldBy, OpenCarry
<1>2. CASE ~b.deleteSettled
  <2>1. /\ q \in Booking /\ ~q.deleted /\ q.pay = b.pay /\ q.status = b.status
        /\ q.total = b.total /\ q.applied = b.applied /\ q.paid = b.paid /\ q.carried = b.carried
        /\ q.cleared = b.cleared /\ q.deleteSettled = b.deleteSettled /\ q.settled = b.settled
    BY <1>2 DEF Restored, Booking
  <2>2. BookOK(q) /\ SameMoney(b, q)
    BY <1>2, <2>1 DEF BookOK, SameMoney
  <2> QED BY <2>1, <2>2, SameHeld
<1> QED BY <1>1, <1>2

LEMMA RepricedOK ==
    ASSUME NEW b \in Booking, BookOK(b), b.status # "none", ~b.settled, b.pay # "refund_due",
           NEW p \in Nat, p > 0, NEW q, q = Repriced(b, p + b.carried)
    PROVE  /\ q \in Booking /\ BookOK(q)
           /\ HeldBy(q) = HeldBy(b) - Positive(b.applied + AmountPaid(b) - (p + b.carried))
           /\ OpenCarry(q) = OpenCarry(b)
           /\ q.status = b.status /\ q.deleted = b.deleted /\ q.pay # "refund_due"
           /\ q.pay = "paid" => b.applied + AmountPaid(b) >= p + b.carried
<1> DEFINE total == p + b.carried
           excess == Positive(b.applied + AmountPaid(b) - total)
           credit == Least(b.applied, excess)
           state == StatusFor(total, b.applied - credit, AmountPaid(b) - (excess - credit))
<1>1. /\ AmountPaid(b) = b.paid /\ b.paid \in Nat /\ b.applied \in Nat /\ b.carried \in Nat
      /\ b.pay # "refunded"
  <2>1. b.pay # "refunded"
    BY DEF BookOK
  <2> QED BY <2>1, AmountPaidIs DEF Booking, HalfReturned
<1>2. total \in Nat /\ total > b.carried /\ excess \in Nat
  BY <1>1 DEF Positive
<1>3. /\ excess = 0 \/ excess = b.applied + b.paid - total
      /\ b.applied + b.paid > total <=> excess > 0
  BY <1>1, <1>2 DEF Positive
<1>4. credit \in Nat /\ credit <= b.applied /\ credit <= excess /\ (credit = b.applied \/ credit = excess)
  BY <1>1, <1>2 DEF Least
<1> HIDE DEF total, excess, credit
<1>5. b.applied - credit \in Nat /\ b.paid - (excess - credit) \in Nat
  BY <1>1, <1>2, <1>3, <1>4
<1>6. /\ state \in {"pending", "partially_paid", "paid"}
      /\ state = "paid" <=> total <= (b.applied - credit) + (b.paid - (excess - credit))
  BY <1>1, <1>2, <1>5, StatusForOK
<1> HIDE DEF state
<1>7. /\ q \in Booking /\ q.total = total /\ q.applied = b.applied - credit
      /\ q.paid = b.paid - (excess - credit) /\ q.pay = state
      /\ q.status = b.status /\ q.deleted = b.deleted /\ q.settled = b.settled
      /\ q.deleteSettled = b.deleteSettled /\ q.carried = b.carried /\ q.cleared = b.cleared
  <2>1. q = [b EXCEPT !.total = total, !.applied = b.applied - credit,
                      !.paid = AmountPaid(b) - (excess - credit), !.pay = state]
    BY DEF Repriced, total, excess, credit, state
  <2>2. state \in PayStatuses
    BY <1>6 DEF PayStatuses
  <2> DEFINE a == b.applied - credit
             r == b.paid - (excess - credit)
  <2>3. q = [b EXCEPT !.total = total, !.applied = a, !.paid = r, !.pay = state]
    BY <1>1, <2>1
  <2>4. a \in Nat /\ r \in Nat
    BY <1>5
  <2> HIDE DEF a, r
  <2>5. /\ q \in Booking /\ q.total = total /\ q.applied = a /\ q.paid = r /\ q.pay = state
        /\ q.status = b.status /\ q.deleted = b.deleted /\ q.settled = b.settled
        /\ q.deleteSettled = b.deleteSettled /\ q.carried = b.carried /\ q.cleared = b.cleared
    BY <1>2, <2>2, <2>3, <2>4 DEF Booking
  <2> QED BY <2>5 DEF a, r
<1>8. BookOK(q)
  <2>1. q.applied = 0 \/ q.carried = 0
    BY <1>1, <1>4, <1>7 DEF BookOK
  <2>2. q.cleared => q.paid + q.applied >= q.carried
    BY <1>1, <1>2, <1>3, <1>4, <1>7 DEF BookOK
  <2>3. ~q.cleared /\ q.carried > 0 => q.paid < q.carried
    BY <1>1, <1>2, <1>3, <1>4, <1>7 DEF BookOK
  <2>4. q.pay \in {"paid", "refund_due"} => q.paid >= q.total - q.applied
    BY <1>1, <1>2, <1>4, <1>6, <1>7
  <2>5. q.pay \in {"pending", "partially_paid"} => q.paid < q.total - q.applied
    BY <1>1, <1>2, <1>4, <1>6, <1>7
  <2> QED BY <1>2, <1>6, <1>7, <2>1, <2>2, <2>3, <2>4, <2>5 DEF BookOK
<1>9. AmountPaid(q) = q.paid
  BY <1>6, <1>7, <1>8, AmountPaidIs DEF HalfReturned
<1>10. HeldBy(q) = HeldBy(b) - excess
  BY <1>1, <1>2, <1>4, <1>7, <1>9 DEF HeldBy
<1>11. q.pay = "paid" => b.applied + AmountPaid(b) >= total
  BY <1>1, <1>2, <1>3, <1>4, <1>6, <1>7
<1> QED BY <1>6, <1>7, <1>8, <1>10, <1>11 DEF OpenCarry, total, excess

\* A booking that stands goes on to another status.
MovesOn(b, q, s) == q = [b EXCEPT !.status = s] \/ q = [b EXCEPT !.status = s, !.method = "cash"]
LEMMA MovedOnOK ==
    ASSUME NEW b \in Booking, BookOK(b), b.status # "none", ~b.settled,
           NEW s \in Statuses \ {"none", "cancelled"}, NEW q, MovesOn(b, q, s)
    PROVE  /\ q \in Booking /\ BookOK(q) /\ SameMoney(b, q)
           /\ q.status = s /\ q.deleted = b.deleted /\ q.pay = b.pay /\ q.visit = b.visit
<1>1. /\ q \in Booking /\ q.deleted = b.deleted /\ q.pay = b.pay /\ q.status = s /\ q.visit = b.visit
      /\ q.total = b.total /\ q.applied = b.applied /\ q.paid = b.paid /\ q.carried = b.carried
      /\ q.cleared = b.cleared /\ q.deleteSettled = b.deleteSettled /\ q.settled = b.settled
  BY DEF Booking, Methods, MovesOn
<1> QED BY <1>1 DEF BookOK, SameMoney

LEMMA MarkedOK ==
    ASSUME NEW b \in Booking, BookOK(b), NEW p, p \in {"paid", "refund_due"}, b.pay \in {"paid", "refund_due"},
           NEW q, q = [b EXCEPT !.pay = p]
    PROVE  /\ q \in Booking /\ BookOK(q) /\ SameMoney(b, q)
           /\ q.status = b.status /\ q.deleted = b.deleted /\ q.pay = p /\ q.visit = b.visit
<1>1. /\ q \in Booking /\ q.deleted = b.deleted /\ q.pay = p /\ q.status = b.status /\ q.visit = b.visit
      /\ q.total = b.total /\ q.applied = b.applied /\ q.paid = b.paid /\ q.carried = b.carried
      /\ q.cleared = b.cleared /\ q.deleteSettled = b.deleteSettled /\ q.settled = b.settled
  BY DEF Booking, PayStatuses
<1>2. b.status # "none"
  BY DEF BookOK, Unmade
<1> QED BY <1>1, <1>2 DEF BookOK, SameMoney

-----------------------------------------------------------------------------
(* Types.                                                                    *)

LEMMA RestoredTyped == ASSUME NEW b \in Booking PROVE Restored(b) \in Booking
<1> DEFINE t == Positive(b.total - b.carried)
           state == StatusFor(t, 0, b.paid)
<1>1. t \in Nat
  BY DEF Positive, Booking
<1>2. state \in PayStatuses
  BY <1>1, StatusForOK DEF Booking, PayStatuses
<1>3. Redue(b) = [b EXCEPT !.total = t, !.carried = 0, !.applied = 0, !.settled = FALSE,
                           !.deleteSettled = FALSE, !.pay = state]
  BY DEF Redue
<1> HIDE DEF t, state
<1>4. Redue(b) \in Booking
  <2> DEFINE q == [b EXCEPT !.total = t, !.carried = 0, !.applied = 0, !.settled = FALSE, !.deleteSettled = FALSE]
  <2>1. q \in Booking
    BY <1>1 DEF Booking
  <2>2. [q EXCEPT !.pay = state] \in Booking
    <3> HIDE DEF q
    <3> QED BY <1>2, <2>1 DEF Booking
  <2>3. Redue(b) = [q EXCEPT !.pay = state]
    BY <1>3 DEF Booking
  <2> QED BY <2>2, <2>3
<1> QED BY <1>4 DEF Restored, Booking

LEMMA RepricedTyped ==
    ASSUME NEW b \in Booking, NEW total \in Nat PROVE Repriced(b, total) \in Booking
<1> DEFINE excess == Positive(b.applied + AmountPaid(b) - total)
           credit == Least(b.applied, excess)
           a == b.applied - credit
           r == AmountPaid(b) - (excess - credit)
           state == StatusFor(total, a, r)
<1>1. AmountPaid(b) \in Nat /\ b.applied \in Nat
  BY AmountPaidNat DEF Booking
<1>2. excess \in Nat /\ (excess = 0 \/ excess = b.applied + AmountPaid(b) - total)
  BY <1>1 DEF Positive
<1>3. credit \in Nat /\ credit <= b.applied /\ credit <= excess /\ (credit = b.applied \/ credit = excess)
  BY <1>1, <1>2 DEF Least
<1>4. a \in Nat /\ r \in Nat
  <2> HIDE DEF excess, credit
  <2> QED BY <1>1, <1>2, <1>3
<1>5. state \in PayStatuses
  <2> HIDE DEF a, r
  <2> QED BY <1>4, StatusForOK DEF PayStatuses
<1>6. Repriced(b, total) = [b EXCEPT !.total = total, !.applied = a, !.paid = r, !.pay = state]
  BY DEF Repriced
<1> HIDE DEF a, r, state
<1> QED BY <1>4, <1>5, <1>6 DEF Booking

LEMMA PositiveNat == ASSUME NEW n \in Int PROVE Positive(n) \in Nat
BY DEF Positive

LEMMA GiveBackTyped ==
    ASSUME MoneyAssumption, MoneyTypeOK, NEW T \in SUBSET Cars, NEW charge \in Nat, GiveBack(T, charge)
    PROVE  balance' \in Int /\ carriedDue' \in Nat /\ posted' \subseteq SUBSET Cars
<1> DEFINE back == [c \in Cars |-> Refundable(booking[c])]
           carry == [c \in Cars |-> booking[c].carried]
           open == {c \in T : ~booking[c].cleared}
<1>1. back \in Amounted /\ carry \in Amounted
  BY RefundableNat DEF Amounted, MoneyTypeOK, Booking
<1>2. SumOver(T, back) \in Int /\ SumOver(open, carry) \in Int
  <2> HIDE DEF back, carry, open
  <2> QED BY <1>1, SumOverInt
<1>3. /\ balance' \in {balance, balance + (SumOver(T, back) - charge)}
      /\ carriedDue' = Positive(carriedDue - SumOver(open, carry))
      /\ posted' \in {posted, posted \cup {T}}
  BY DEF GiveBack
<1> HIDE DEF back, carry, open
<1> QED BY <1>2, <1>3, PositiveNat DEF MoneyTypeOK

LEMMA CancelCarsTyped ==
    ASSUME MoneyAssumption, MoneyTypeOK, NEW T \in SUBSET Cars, NEW charge \in Charges, CancelCars(T, charge)
    PROVE  MoneyTypeOK'
<1>1. charge \in Nat
  BY DEF MoneyAssumption
<1>2. balance' \in Int /\ carriedDue' \in Nat /\ posted' \subseteq SUBSET Cars
  BY <1>1, GiveBackTyped DEF CancelCars
<1>3. booking' \in [Cars -> Booking]
  <2>1. \A c \in Cars : [Settled(booking[c]) EXCEPT !.status = "cancelled"] \in Booking
    <3> TAKE c \in Cars
    <3>1. Settled(booking[c]) \in Booking
      BY SettledFields DEF MoneyTypeOK
    <3> QED BY <3>1 DEF Booking, Statuses
  <2> QED BY <2>1 DEF CancelCars, MoneyTypeOK
<1> QED BY <1>1, <1>2, <1>3 DEF CancelCars, MoneyTypeOK

\* A payment gives each car its share of what is left after the cars before it.
Shares(left) == [c \in Cars |-> left[c - 1] - left[c]]
LEMMA SplitShares ==
    ASSUME MoneyAssumption, NEW amount \in Nat, NEW left \in [0..N -> 0..amount],
           NEW need \in [Cars -> Nat], Split(need, amount, left)
    PROVE  /\ Shares(left) \in Amounted
           /\ \A c \in Cars : Shares(left)[c] \in Nat /\ Shares(left)[c] <= need[c]
           /\ Total(Shares(left)) = amount - left[N]
<1>0. N \in Nat
  BY DEF MoneyAssumption
<1>1. \A c \in Cars : c \in 0..N /\ c - 1 \in 0..N
  BY <1>0 DEF Cars
<1>2. \A n \in 0..N : left[n] \in Nat
  OBVIOUS
<1>3. \A c \in Cars : Shares(left)[c] = Least(need[c], left[c - 1])
  <2> TAKE c \in Cars
  <2>1. left[c] = left[c - 1] - Least(need[c], left[c - 1])
    BY DEF Split
  <2>2. left[c - 1] \in Nat /\ need[c] \in Nat
    BY <1>1, <1>2
  <2> QED BY <2>1, <2>2 DEF Shares, Least
<1>4. \A c \in Cars : Shares(left)[c] \in Nat /\ Shares(left)[c] <= need[c]
  BY <1>1, <1>2, <1>3 DEF Least
<1>5. Shares(left) \in Amounted
  BY <1>4 DEF Amounted, Shares
<1> DEFINE H == [n \in 0..N |-> amount - left[n]]
<1>6. Adds(Shares(left), H)
  <2>1. H \in [0..N -> Int] /\ H[0] = 0
    BY <1>0, <1>2 DEF Split
  <2>2. ASSUME NEW n \in 1..N PROVE H[n] = H[n - 1] + Shares(left)[n]
    <3>1. n \in Cars /\ n \in 0..N /\ n - 1 \in 0..N
      BY <1>0 DEF Cars
    <3> QED BY <3>1, <1>2 DEF Shares
  <2> HIDE DEF H
  <2> QED BY <2>1, <2>2 DEF Adds
<1>7. PICK g : Adds(Shares(left), g) /\ Total(Shares(left)) = g[N]
  BY <1>5, TotalIs
<1>8. H = g
  BY <1>6, <1>7, AddsUnique
<1>9. H[N] = amount - left[N]
  BY <1>0
<1> QED BY <1>4, <1>5, <1>7, <1>8, <1>9

LEMMA PayTyped ==
    ASSUME MoneyAssumption, MoneyTypeOK, NEW S \in SUBSET Cars, NEW amount \in Amounts, NEW m \in Methods,
           Pay(S, amount, m)
    PROVE  MoneyTypeOK'
<1>0. amount \in Nat /\ N \in Nat /\ N \in 0..N
  BY DEF MoneyAssumption
<1> DEFINE due == [c \in Cars |-> IF c \in S THEN AmountDue(booking[c]) ELSE 0]
           carry == [c \in Cars |-> booking[c].carried]
<1>1. PICK left \in [0..N -> 0..amount] :
        LET take == Shares(left)
            clears == {c \in S : ClearsCarry(booking[c], take[c])}
            after == [c \in Cars |-> IF c \in S THEN Paying(booking[c], take[c], m) ELSE booking[c]]
            newlyPaid == {c \in S : take[c] > 0 /\ after[c].pay = "paid"}
        IN /\ Split(due, amount, left)
           /\ booking' = [c \in Cars |-> IF c \in S /\ m = "online"
                                    THEN [after[c] EXCEPT !.order = payments + 1] ELSE after[c]]
           /\ balance' = balance + left[N] + SumOver(clears, carry)
           /\ carriedDue' = Positive(carriedDue - SumOver(clears, carry))
           /\ todo' = IF m = "online" THEN todo \cup {<<"confirm", c>> : c \in newlyPaid} ELSE todo
  BY DEF Pay, ApplyPayment, Shares
<1> DEFINE take == Shares(left)
           clears == {c \in S : ClearsCarry(booking[c], take[c])}
<1>2. due \in [Cars -> Nat]
  BY AmountPaidNat DEF MoneyTypeOK
<1>3. \A c \in Cars : take[c] \in Nat
  <2> HIDE DEF due
  <2> QED BY <1>0, <1>1, <1>2, SplitShares
<1>4. carry \in Amounted
  BY DEF Amounted, MoneyTypeOK, Booking
<1>5. SumOver(clears, carry) \in Int
  <2> HIDE DEF clears, carry
  <2> QED BY <1>4, SumOverInt
<1>6. left[N] \in Nat
  BY <1>0
<1>7. booking' \in [Cars -> Booking]
  <2>1. ASSUME NEW c \in Cars PROVE booking'[c] \in Booking
    <3>1. booking[c] \in Booking /\ payments + 1 \in Nat
      BY DEF MoneyTypeOK
    <3>2. CASE c \in S
      <4>1. Paid(booking[c], booking'[c], take[c], m)
        BY <1>1, <3>1, <3>2 DEF Paid
      <4> QED BY <1>3, <3>1, <4>1, PayingFields
    <3>3. CASE c \notin S
      BY <1>1, <3>1, <3>3
    <3> QED BY <3>2, <3>3
  <2>2. DOMAIN booking' = Cars /\ booking' = [c \in Cars |-> booking'[c]]
    BY <1>1
  <2> QED BY <2>1, <2>2
<1>8. todo' \subseteq Steps \X Cars
  <2>1. PICK newlyPaid \in SUBSET S :
          todo' = IF m = "online" THEN todo \cup {<<"confirm", c>> : c \in newlyPaid} ELSE todo
    <3> HIDE DEF due, take, clears
    <3> QED BY <1>1
  <2> QED BY <2>1 DEF MoneyTypeOK, Steps
<1>9. balance' \in Int /\ carriedDue' \in Nat
  <2> HIDE DEF clears, carry
  <2> QED BY <1>1, <1>5, <1>6, PositiveNat DEF MoneyTypeOK, clears, carry
<1>10. /\ payments' = payments + 1 /\ payments < MaxPayments /\ received' = received + amount
       /\ UNCHANGED <<posted, rows, lost, edits, charged>>
  BY DEF Pay, ApplyPayment
<1> HIDE DEF due, carry
<1>11. payments' \in 0..MaxPayments /\ received' \in Int
  BY <1>0, <1>10 DEF MoneyTypeOK, MoneyAssumption
<1> QED BY <1>7, <1>8, <1>9, <1>10, <1>11 DEF MoneyTypeOK

LEMMA DeleteTyped ==
    ASSUME MoneyAssumption, MoneyTypeOK, NEW c \in Cars, Delete(c) PROVE MoneyTypeOK'
<1>1. PICK W \in SUBSET Cars, T \in SUBSET Cars, listed \in SUBSET Cars :
        /\ booking' = [d \in Cars |->
             IF d \in W THEN [Settled(booking[d]) EXCEPT !.deleted = TRUE, !.deleteSettled = TRUE]
             ELSE IF d \in T THEN [booking[d] EXCEPT !.deleted = TRUE] ELSE booking[d]]
        /\ IF W = {} THEN UNCHANGED <<balance, posted, carriedDue>> ELSE GiveBack(W, 0)
        /\ todo' = todo \cup {<<"flag", d>> : d \in listed}
        /\ UNCHANGED <<rows, lost, payments, edits, received, charged>>
  <2> DEFINE T == {d \in CarsOf(booking[c].visit) : Live(d)} \cup {c}
             W == {d \in T : /\ booking[d].status \notin {"completed", "cancelled"}
                             /\ AmountPaid(booking[d]) = 0
                             /\ booking[d].applied + booking[d].carried > 0}
             listed == {d \in T : /\ booking[d].status # "completed"
                                  /\ booking[d].pay = "paid" /\ booking[d].method = "online"}
  <2>1. T \in SUBSET Cars /\ W \in SUBSET Cars /\ listed \in SUBSET Cars
    BY DEF CarsOf
  <2> QED BY <2>1 DEF Delete
<1>2. booking' \in [Cars -> Booking]
  <2>1. ASSUME NEW d \in Cars
        PROVE  /\ [Settled(booking[d]) EXCEPT !.deleted = TRUE, !.deleteSettled = TRUE] \in Booking
               /\ [booking[d] EXCEPT !.deleted = TRUE] \in Booking
    <3>1. booking[d] \in Booking /\ Settled(booking[d]) \in Booking
      BY SettledFields DEF MoneyTypeOK
    <3> QED BY <3>1 DEF Booking
  <2> QED BY <1>1, <2>1 DEF MoneyTypeOK
<1>3. balance' \in Int /\ carriedDue' \in Nat /\ posted' \subseteq SUBSET Cars
  BY <1>1, GiveBackTyped DEF MoneyTypeOK
<1>4. todo' \subseteq Steps \X Cars
  <2>1. todo' = todo \cup {<<"flag", d>> : d \in listed}
    BY <1>1
  <2> QED BY <2>1 DEF MoneyTypeOK, Steps
<1>5. UNCHANGED <<rows, lost, payments, edits, received, charged>>
  BY <1>1
<1> QED BY <1>2, <1>3, <1>4, <1>5 DEF MoneyTypeOK

LEMMA CreateTyped ==
    ASSUME MoneyAssumption, MoneyTypeOK, NEW c \in Cars, NEW v \in 1..c, NEW p \in Prices, NEW m \in Methods,
           NEW useWallet \in BOOLEAN, Create(c, v, p, m, useWallet)
    PROVE  /\ MoneyTypeOK'
           /\ \E carry \in Nat, use \in Nat :
                /\ carry = 0 \/ use = 0
                /\ booking' = [booking EXCEPT ![c] = Made(v, p, m, carry, use)]
                /\ balance' = balance - use /\ carriedDue' = carriedDue + carry
<1> DEFINE carry == IF useWallet /\ v = c THEN DebtToCarry ELSE 0
           use == IF useWallet /\ DebtToCarry = 0 THEN Least(Positive(balance), p) ELSE 0
<1>1. p \in Nat
  BY DEF MoneyAssumption
<1>2. carry \in Nat /\ use \in Nat /\ (carry = 0 \/ use = 0)
  BY <1>1 DEF MoneyTypeOK, DebtToCarry, Positive, Least
<1>3. /\ booking' = [booking EXCEPT ![c] = Made(v, p, m, carry, use)]
      /\ balance' = balance - use /\ carriedDue' = carriedDue + carry
      /\ UNCHANGED <<posted, rows, todo, lost, payments, edits, received, charged>>
  BY DEF Create
<1> HIDE DEF carry, use
<1>4. Made(v, p, m, carry, use) \in Booking
  BY <1>2, MadeOK
<1>5. booking' \in [Cars -> Booking]
  BY <1>3, <1>4 DEF MoneyTypeOK
<1>6. balance' \in Int /\ carriedDue' \in Nat
  BY <1>2, <1>3 DEF MoneyTypeOK
<1>7. MoneyTypeOK'
  BY <1>3, <1>5, <1>6 DEF MoneyTypeOK
<1> QED BY <1>2, <1>3, <1>7

LEMMA ManagerDoneIs ==
    ASSUME MoneyAssumption, MoneyTypeOK, NEW c \in Cars, ManagerDone(c)
    PROVE  \E b \in Booking, due \in Nat :
             /\ b = [booking[c] EXCEPT !.status = "completed"]
             /\ due = AmountDue(b)
             /\ booking' = [booking EXCEPT ![c] = IF due > 0 THEN Paying(b, due, "cash") ELSE b]
             /\ booking'[c] \in Booking
             /\ balance' = balance + (IF due > 0 /\ ClearsCarry(b, due) THEN b.carried ELSE 0)
             /\ carriedDue' = Positive(carriedDue - (IF due > 0 /\ ClearsCarry(b, due) THEN b.carried ELSE 0))
             /\ received' = received + due
             /\ UNCHANGED <<posted, rows, todo, lost, payments, edits, charged>>
<1> DEFINE b == [booking[c] EXCEPT !.status = "completed"]
           due == AmountDue(b)
<1>1. b \in Booking
  BY DEF MoneyTypeOK, Booking, Statuses
<1>2. due \in Nat
  BY <1>1, AmountPaidNat
<1>3. /\ booking' = [booking EXCEPT ![c] = IF due > 0 THEN Paying(b, due, "cash") ELSE b]
      /\ balance' = balance + (IF due > 0 /\ ClearsCarry(b, due) THEN b.carried ELSE 0)
      /\ carriedDue' = Positive(carriedDue - (IF due > 0 /\ ClearsCarry(b, due) THEN b.carried ELSE 0))
      /\ received' = received + due
      /\ UNCHANGED <<posted, rows, todo, lost, payments, edits, charged>>
  BY DEF ManagerDone
<1> HIDE DEF b, due
<1>4. Paying(b, due, "cash") \in Booking
  BY <1>1, <1>2, PayingFields DEF Paid, Methods
<1>5. booking'[c] \in Booking
  BY <1>1, <1>3, <1>4 DEF MoneyTypeOK
<1> QED BY <1>1, <1>2, <1>3, <1>5 DEF b, due

LEMMA ManagerDoneTyped ==
    ASSUME MoneyAssumption, MoneyTypeOK, NEW c \in Cars, ManagerDone(c) PROVE MoneyTypeOK'
<1>1. PICK b \in Booking, due \in Nat :
             /\ booking' = [booking EXCEPT ![c] = IF due > 0 THEN Paying(b, due, "cash") ELSE b]
             /\ booking'[c] \in Booking
             /\ balance' = balance + (IF due > 0 /\ ClearsCarry(b, due) THEN b.carried ELSE 0)
             /\ carriedDue' = Positive(carriedDue - (IF due > 0 /\ ClearsCarry(b, due) THEN b.carried ELSE 0))
             /\ received' = received + due
             /\ UNCHANGED <<posted, rows, todo, lost, payments, edits, charged>>
  BY ManagerDoneIs
<1>2. b.carried \in Nat
  BY DEF Booking
<1>3. booking' \in [Cars -> Booking]
  BY <1>1 DEF MoneyTypeOK
<1>4. balance' \in Int /\ carriedDue' \in Nat
  BY <1>1, <1>2, PositiveNat DEF MoneyTypeOK
<1> QED BY <1>1, <1>3, <1>4 DEF MoneyTypeOK

LEMMA ChangePriceTyped ==
    ASSUME MoneyAssumption, MoneyTypeOK, NEW c \in Cars, NEW p \in NewPrices, ChangePrice(c, p)
    PROVE  MoneyTypeOK'
<1> DEFINE b == booking[c]
           total == p + b.carried
<1>1. b \in Booking /\ total \in Nat /\ b.applied \in Nat
  BY DEF MoneyTypeOK, MoneyAssumption, Booking
<1>2. AmountPaid(b) \in Nat /\ Repriced(b, total) \in Booking
  <2> HIDE DEF total
  <2> QED BY <1>1, AmountPaidNat, RepricedTyped
<1>3. /\ edits < MaxEdits /\ edits' = edits + 1
      /\ booking' = [booking EXCEPT ![c] = Repriced(b, total)]
      /\ balance' = balance + Positive(b.applied + AmountPaid(b) - total)
      /\ todo' \in {todo, todo \cup {<<"confirm", c>>}}
      /\ UNCHANGED <<carriedDue, posted, rows, lost, payments, received, charged>>
  BY DEF ChangePrice
<1> HIDE DEF total, b
<1>4. balance' \in Int
  BY <1>1, <1>2, <1>3, PositiveNat DEF MoneyTypeOK
<1>5. todo' \subseteq Steps \X Cars
  BY <1>3 DEF MoneyTypeOK, Steps
<1>6. edits' \in 0..MaxEdits
  BY <1>3 DEF MoneyTypeOK, MoneyAssumption
<1> QED BY <1>2, <1>3, <1>4, <1>5, <1>6 DEF MoneyTypeOK

LEMMA RestoreTyped ==
    ASSUME MoneyAssumption, MoneyTypeOK, NEW v \in Cars, Restore(v) PROVE MoneyTypeOK'
<1>1. booking' \in [Cars -> Booking]
  <2>1. \A c \in Cars : Restored(booking[c]) \in Booking
    BY RestoredTyped DEF MoneyTypeOK
  <2> QED BY <2>1 DEF Restore, MoneyTypeOK
<1>2. todo' \subseteq Steps \X Cars
  BY DEF Restore, MoneyTypeOK, Steps, CarsOf
<1> QED BY <1>1, <1>2 DEF Restore, MoneyTypeOK

LEMMA DoneTyped ==
    ASSUME todo \subseteq Steps \X Cars, NEW step, NEW c, NEW next, next \subseteq Steps \X Cars, Done(step, c, next)
    PROVE  todo' \subseteq Steps \X Cars
BY DEF Done

LEMMA AfterTyped ==
    ASSUME MoneyAssumption, MoneyTypeOK, NEW c \in Cars, AfterStep(c) \/ Killed(c) PROVE MoneyTypeOK'
<1>1. \A s \in Statuses, p \in PayStatuses :
        /\ [booking[c] EXCEPT !.status = s] \in Booking
        /\ [booking[c] EXCEPT !.pay = p] \in Booking
  BY DEF MoneyTypeOK, Booking
<1>2. "pending" \in Statuses /\ {"paid", "refund_due"} \subseteq PayStatuses
  BY DEF Statuses, PayStatuses
<1>3. CASE Confirm(c)
  <2>1. booking' \in [Cars -> Booking]
    BY <1>1, <1>2, <1>3 DEF Confirm, MoneyTypeOK
  <2> QED BY <1>3, <2>1 DEF Confirm, MoneyTypeOK, Done
<1>4. CASE Flag(c)
  <2>1. booking[c].order \in Nat
    BY DEF MoneyTypeOK, Booking
  <2>2. PICK next \in SUBSET {<<"mark", c>>} : Done("flag", c, next)
    BY <1>4 DEF Flag
  <2>3. todo' \subseteq Steps \X Cars
    <3>1. next \subseteq Steps \X Cars
      BY DEF Steps
    <3> QED BY <2>2, <3>1, DoneTyped DEF MoneyTypeOK
  <2>4. rows' \subseteq (Nat \X Cars) \X BOOLEAN
    <3>1. rows' \in {rows, rows \cup {<<<<booking[c].order, c>>, FALSE>>}}
      BY <1>4 DEF Flag
    <3>2. <<<<booking[c].order, c>>, FALSE>> \in (Nat \X Cars) \X BOOLEAN
      BY <2>1
    <3> QED BY <3>1, <3>2 DEF MoneyTypeOK
  <2> QED BY <1>4, <2>3, <2>4 DEF Flag, MoneyTypeOK
<1>5. CASE Mark(c)
  <2>1. booking' \in [Cars -> Booking]
    BY <1>1, <1>2, <1>5 DEF Mark, MoneyTypeOK
  <2> QED BY <1>5, <2>1 DEF Mark, MoneyTypeOK, Done
<1>6. CASE Clear(c)
  <2>1. ASSUME NEW r \in rows PROVE (IF r[1][2] = c THEN <<r[1], TRUE>> ELSE r) \in (Nat \X Cars) \X BOOLEAN
    <3>1. r \in (Nat \X Cars) \X BOOLEAN
      BY DEF MoneyTypeOK
    <3> QED BY <3>1
  <2>2. rows' \subseteq (Nat \X Cars) \X BOOLEAN
    BY <1>6, <2>1 DEF Clear
  <2>3. todo' \subseteq Steps \X Cars
    <3>1. {<<"unmark", c>>} \subseteq Steps \X Cars
      BY DEF Steps
    <3> QED BY <1>6, <3>1, DoneTyped DEF MoneyTypeOK, Clear
  <2> QED BY <1>6, <2>2, <2>3 DEF Clear, MoneyTypeOK
<1>7. CASE Unmark(c)
  <2>1. booking' \in [Cars -> Booking]
    BY <1>1, <1>2, <1>7 DEF Unmark, MoneyTypeOK
  <2> QED BY <1>7, <2>1 DEF Unmark, MoneyTypeOK, Done
<1>8. CASE Killed(c)
  BY <1>8 DEF Killed, MoneyTypeOK
<1> QED BY <1>3, <1>4, <1>5, <1>6, <1>7, <1>8 DEF AfterStep

LEMMA MoneyTypedStep == ASSUME MoneyAssumption, MoneyTypeOK, [MoneyNext]_vars PROVE MoneyTypeOK'
<1>1. CASE UNCHANGED vars
  BY <1>1 DEF vars, MoneyTypeOK
<1>2. ASSUME NEW c \in Cars, CarStep(c) PROVE MoneyTypeOK'
  <2>1. CASE \E v \in 1..c, p \in Prices, m \in Methods, useWallet \in BOOLEAN : Create(c, v, p, m, useWallet)
    BY <2>1, CreateTyped
  <2>2. CASE \E p \in NewPrices : ChangePrice(c, p)
    BY <2>2, ChangePriceTyped
  <2>3. CASE SwitchToCash(c) \/ Finish(c)
    <3>1. /\ [booking[c] EXCEPT !.status = "pending", !.method = "cash"] \in Booking
          /\ [booking[c] EXCEPT !.status = "completed"] \in Booking
      <4>1. booking[c] \in Booking /\ {"pending", "completed"} \subseteq Statuses /\ "cash" \in Methods
        BY DEF MoneyTypeOK, Statuses, Methods
      <4> QED BY <4>1 DEF Booking
    <3>2. booking' \in {[booking EXCEPT ![c] = [booking[c] EXCEPT !.status = "pending", !.method = "cash"]],
                        [booking EXCEPT ![c] = [booking[c] EXCEPT !.status = "completed"]]}
      <4>1. booking[c] \in Booking /\ c \in DOMAIN booking
        BY DEF MoneyTypeOK
      <4> QED BY <2>3, <4>1 DEF SwitchToCash, Finish
    <3>3. booking' \in [Cars -> Booking]
      BY <3>1, <3>2 DEF MoneyTypeOK
    <3> QED BY <2>3, <3>3 DEF SwitchToCash, Finish, MoneyTypeOK
  <2> QED BY <1>2, <2>1, <2>2, <2>3, ManagerDoneTyped, DeleteTyped, AfterTyped DEF CarStep
<1>3. ASSUME NEW v \in Cars, VisitStep(v) PROVE MoneyTypeOK'
  <2>1. CASE \E T \in SUBSET CarsOf(v), charge \in Charges : Cancel(v, T, charge)
    BY <2>1, CancelCarsTyped DEF Cancel, CarsOf
  <2>2. CASE Expire(v)
    BY <2>2, CancelCarsTyped DEF Expire, CarsOf, MoneyAssumption
  <2>3. CASE ReturnToBin(v)
    <3>1. ASSUME NEW c \in Cars PROVE [booking[c] EXCEPT !.deleted = TRUE] \in Booking
      <4>1. booking[c] \in Booking
        BY DEF MoneyTypeOK
      <4> QED BY <4>1 DEF Booking
    <3>2. booking' \in [Cars -> Booking]
      BY <2>3, <3>1 DEF ReturnToBin, MoneyTypeOK
    <3> QED BY <2>3, <3>2 DEF ReturnToBin, MoneyTypeOK
  <2> QED BY <1>3, <2>1, <2>2, <2>3, RestoreTyped DEF VisitStep
<1>4. CASE \E S \in SUBSET Cars, amount \in Amounts, m \in Methods : Pay(S, amount, m)
  BY <1>4, PayTyped
<1> QED BY <1>1, <1>2, <1>3, <1>4 DEF MoneyNext

\* The rows of bookings and refunds, the wallet and what calls have still to do keep
\* their types: no amount on a booking becomes negative, whatever is paid, edited and given back.
THEOREM MoneyTyped == MoneySpec => []MoneyTypeOK
<1>1. MoneyInit => MoneyTypeOK
  <2> SUFFICES ASSUME MoneyInit PROVE MoneyTypeOK
    OBVIOUS
  <2>1. Unmade \in Booking
    BY MoneyAssumption, UnmadeOK
  <2>2. balance \in Int
    BY MoneyAssumption DEF MoneyAssumption, MoneyInit
  <2> QED BY <2>1, <2>2, MoneyAssumption DEF MoneyInit, MoneyTypeOK, MoneyAssumption
<1>2. MoneyTypeOK /\ [MoneyNext]_vars => MoneyTypeOK'
  BY MoneyAssumption, MoneyTypedStep
<1> QED BY <1>1, <1>2, PTL DEF MoneySpec

-----------------------------------------------------------------------------
(* What a booking, the steps still to do for it and its refund rows have in   *)
(* common.                                                                   *)

Due(s, c) == <<s, c>> \in todo
OneStep(c) == \A s \in Steps, t \in Steps : Due(s, c) /\ Due(t, c) => s = t
Queued(c) == \A r \in rows : r[1][2] = c /\ ~r[2] => booking[c].deleted \/ Due("clear", c)
CarOK(c) ==
    /\ BookOK(booking[c])
    /\ OneStep(c)
    /\ Due("flag", c) \/ Due("mark", c) => booking[c].deleted
    /\ Due("clear", c) \/ Due("unmark", c) \/ Due("confirm", c) => ~booking[c].deleted
    /\ booking[c].pay = "refund_due" => booking[c].deleted \/ Due("clear", c) \/ Due("unmark", c)
    /\ booking[c].status = "awaiting" /\ booking[c].pay \in {"paid", "refund_due"} => Due("confirm", c) \/ c \in lost
    /\ Queued(c)
CarsOK == \A c \in Cars : CarOK(c)
MoneyInv == MoneyTypeOK /\ CarsOK

\* What the theorems below suppose: no payment for a booking whose part payment went
\* back, and no call that meets a delete or restore half done.
Orderly == ~LatePayments /\ ~Overlaps

\* A car that a step leaves alone, with no new row in the refund queue.
LEMMA Untouched ==
    ASSUME NEW c \in Cars, CarOK(c), booking'[c] = booking[c], lost \subseteq lost',
           \A r \in rows' : r[1][2] = c /\ ~r[2] => r \in rows,
           \A s \in Steps : Due(s, c)' <=> Due(s, c)
    PROVE  CarOK(c)'
<1>1. OneStep(c)'
  BY DEF OneStep, CarOK
<1>2. Queued(c)'
  BY DEF Queued, CarOK, Steps
<1>3. \A s \in {"flag", "mark", "clear", "unmark", "confirm"} : Due(s, c)' <=> Due(s, c)
  BY DEF Steps
<1> QED BY <1>1, <1>2, <1>3 DEF CarOK

HeldOf(bk) == [c \in Cars |-> HeldBy(bk[c])]
CarryOf(bk) == [c \in Cars |-> OpenCarry(bk[c])]
BooksOK(bk) == \A c \in Cars : bk[c] \in Booking /\ BookOK(bk[c])

LEMMA OfAmounts == ASSUME NEW bk, BooksOK(bk) PROVE HeldOf(bk) \in Amounted /\ CarryOf(bk) \in Amounted
<1>1. ASSUME NEW c \in Cars PROVE HeldBy(bk[c]) \in Int /\ OpenCarry(bk[c]) \in Int
  BY HeldNat DEF BooksOK
<1> QED BY <1>1 DEF HeldOf, CarryOf, Amounted

LEMMA InvBooks == ASSUME MoneyInv PROVE BooksOK(booking)
BY DEF MoneyInv, MoneyTypeOK, CarsOK, CarOK, BooksOK

\* What a step does to the books: it keeps what is carried and what is held in line.
Books == /\ CarriedMatches => CarriedMatches'
         /\ ~KeysReused /\ MoneyConserved => MoneyConserved'

LEMMA BooksAre ==
    /\ CarriedMatches <=> carriedDue = Total(CarryOf(booking))
    /\ CarriedMatches' <=> carriedDue' = Total(CarryOf(booking'))
    /\ MoneyConserved <=> received = balance + charged + Total(HeldOf(booking))
    /\ MoneyConserved' <=> received' = balance' + charged' + Total(HeldOf(booking'))
BY DEF CarriedMatches, MoneyConserved, HeldOf, CarryOf

LEMMA Unmoved ==
    ASSUME UNCHANGED <<balance, carriedDue, received, charged>>,
           \A c \in Cars : HeldBy(booking'[c]) = HeldBy(booking[c]) /\ OpenCarry(booking'[c]) = OpenCarry(booking[c])
    PROVE  Books
<1>1. HeldOf(booking') = HeldOf(booking) /\ CarryOf(booking') = CarryOf(booking)
  BY DEF HeldOf, CarryOf
<1> QED BY <1>1, BooksAre DEF Books

LEMMA OneMoves ==
    ASSUME MoneyAssumption, BooksOK(booking), BooksOK(booking'), NEW c \in Cars,
           \A d \in Cars : d # c => booking'[d] = booking[d]
    PROVE  /\ Total(HeldOf(booking')) = Total(HeldOf(booking)) + (HeldBy(booking'[c]) - HeldBy(booking[c]))
           /\ Total(CarryOf(booking')) = Total(CarryOf(booking)) + (OpenCarry(booking'[c]) - OpenCarry(booking[c]))
           /\ Total(HeldOf(booking)) \in Int /\ Total(CarryOf(booking)) \in Int
<1>1. /\ HeldOf(booking) \in Amounted /\ HeldOf(booking') \in Amounted
      /\ CarryOf(booking) \in Amounted /\ CarryOf(booking') \in Amounted
  BY OfAmounts
<1>2. \A d \in Cars : d # c => /\ HeldOf(booking')[d] = HeldOf(booking)[d]
                              /\ CarryOf(booking')[d] = CarryOf(booking)[d]
  BY DEF HeldOf, CarryOf
<1>3. /\ HeldOf(booking')[c] = HeldBy(booking'[c]) /\ HeldOf(booking)[c] = HeldBy(booking[c])
      /\ CarryOf(booking')[c] = OpenCarry(booking'[c]) /\ CarryOf(booking)[c] = OpenCarry(booking[c])
  BY DEF HeldOf, CarryOf
<1>4. Total(HeldOf(booking')) = Total(HeldOf(booking)) + (HeldBy(booking'[c]) - HeldBy(booking[c]))
  BY <1>1, <1>2, <1>3, TotalMoves
<1>5. Total(CarryOf(booking')) = Total(CarryOf(booking)) + (OpenCarry(booking'[c]) - OpenCarry(booking[c]))
  BY <1>1, <1>2, <1>3, TotalMoves
<1> QED BY <1>1, <1>4, <1>5, TotalInt

\* A car whose row is written, with nothing new to do for it.
LEMMA Rewritten ==
    ASSUME NEW c \in Cars, CarOK(c), BookOK(booking'[c]), booking'[c].deleted <=> booking[c].deleted,
           UNCHANGED <<todo, rows, lost>>,
           booking'[c].pay = "refund_due" => booking[c].pay = "refund_due",
           booking'[c].status = "awaiting" /\ booking'[c].pay \in {"paid", "refund_due"} =>
             booking[c].status = "awaiting" /\ booking[c].pay \in {"paid", "refund_due"}
    PROVE  CarOK(c)'
<1>1. OneStep(c)' /\ Queued(c)'
  BY DEF OneStep, Queued, CarOK, Due
<1>2. \A s \in {"flag", "mark", "clear", "unmark", "confirm"} : Due(s, c)' <=> Due(s, c)
  BY DEF Due
<1> QED BY <1>1, <1>2 DEF CarOK

\* What holds of a car on which a call may act.
LEMMA LiveFacts ==
    ASSUME MoneyInv, NEW c \in Cars
    PROVE  /\ booking[c] \in Booking /\ BookOK(booking[c]) /\ CarOK(c)
           /\ Live(c) => ~booking[c].settled /\ ~booking[c].deleted /\ booking[c].status # "none"
           /\ ~Overlaps /\ Live(c) /\ NotHalfDone({c}) =>
                booking[c].pay # "refund_due" /\ \A s \in Steps : Due(s, c) => s = "confirm"
<1>1. booking[c] \in Booking /\ BookOK(booking[c]) /\ CarOK(c)
  BY DEF MoneyInv, MoneyTypeOK, CarsOK, CarOK
<1>2. Live(c) => ~booking[c].settled /\ ~booking[c].deleted /\ booking[c].status # "none"
  BY <1>1 DEF Live, Exists, BookOK
<1>3. ASSUME ~Overlaps, NotHalfDone({c}), NEW s \in Steps, Due(s, c) PROVE s = "confirm"
  BY <1>3 DEF NotHalfDone, TodoFor, Due
<1>4. ~Overlaps /\ Live(c) /\ NotHalfDone({c}) => booking[c].pay # "refund_due"
  BY <1>1, <1>2, <1>3 DEF CarOK, Steps
<1> QED BY <1>1, <1>2, <1>3, <1>4

-----------------------------------------------------------------------------
(* The steps on one booking.                                                 *)

LEMMA OthersOK ==
    ASSUME MoneyInv, NEW c \in Cars, CarOK(c)', lost \subseteq lost',
           \A r \in rows' : r[1][2] # c /\ ~r[2] => r \in rows,
           \A d \in Cars : d # c => booking'[d] = booking[d],
           \A d \in Cars, s \in Steps : d # c => (Due(s, d)' <=> Due(s, d))
    PROVE  CarsOK'
<1>1. ASSUME NEW d \in Cars, d # c PROVE CarOK(d)'
  BY <1>1, Untouched DEF MoneyInv, CarsOK
<1> QED BY <1>1 DEF CarsOK

LEMMA CreateStep ==
    ASSUME MoneyAssumption, MoneyInv, NEW c \in Cars, NEW v \in 1..c, NEW p \in Prices, NEW m \in Methods,
           NEW useWallet \in BOOLEAN, Create(c, v, p, m, useWallet)
    PROVE  MoneyInv' /\ Books
<1>1. PICK carry \in Nat, use \in Nat :
        /\ carry = 0 \/ use = 0
        /\ booking' = [booking EXCEPT ![c] = Made(v, p, m, carry, use)]
        /\ balance' = balance - use /\ carriedDue' = carriedDue + carry
  BY CreateTyped DEF MoneyInv
<1>2. UNCHANGED <<posted, rows, todo, lost, payments, edits, received, charged>> /\ ~Exists(c)
  BY DEF Create
<1>3. MoneyTypeOK'
  BY CreateTyped DEF MoneyInv
<1>4. booking'[c] = Made(v, p, m, carry, use) /\ \A d \in Cars : d # c => booking'[d] = booking[d]
  BY <1>1 DEF MoneyInv, MoneyTypeOK
<1>5. /\ BookOK(booking'[c]) /\ HeldBy(booking'[c]) = use /\ OpenCarry(booking'[c]) = carry
      /\ booking'[c].status # "none" /\ ~booking'[c].deleted /\ booking'[c].pay # "refund_due"
      /\ booking'[c].status = "awaiting" => booking'[c].pay # "paid"
  BY <1>1, <1>4, MadeOK
<1>6. booking[c] = Unmade /\ CarOK(c)
  BY <1>2, LiveFacts DEF Exists, BookOK
<1>7. CarOK(c)'
  <2>1. booking'[c].deleted <=> booking[c].deleted
    BY <1>5, <1>6 DEF Unmade
  <2>2. booking'[c].pay # "refund_due" /\ ~(booking'[c].status = "awaiting" /\ booking'[c].pay \in {"paid", "refund_due"})
    BY <1>5
  <2> QED BY <1>2, <1>5, <1>6, <2>1, <2>2, Rewritten
<1>8. CarsOK'
  BY <1>2, <1>4, <1>7, OthersOK DEF Due
<1>9. HeldBy(booking[c]) = 0 /\ OpenCarry(booking[c]) = 0
  BY <1>6 DEF Unmade, HeldBy, OpenCarry
<1>10. BooksOK(booking) /\ BooksOK(booking')
  BY <1>3, <1>8, InvBooks DEF MoneyInv, MoneyTypeOK, CarsOK, CarOK, BooksOK
<1>11. Books
  <2>1. /\ Total(HeldOf(booking')) = Total(HeldOf(booking)) + use
        /\ Total(CarryOf(booking')) = Total(CarryOf(booking)) + carry
        /\ Total(HeldOf(booking)) \in Int /\ Total(CarryOf(booking)) \in Int
    BY <1>4, <1>5, <1>9, <1>10, OneMoves
  <2>2. balance \in Int /\ received \in Int /\ charged \in Int /\ carriedDue \in Int
    BY DEF MoneyInv, MoneyTypeOK
  <2> QED BY <1>1, <1>2, <2>1, <2>2, BooksAre DEF Books
<1> QED BY <1>3, <1>8, <1>11 DEF MoneyInv

LEMMA StatusStep ==
    ASSUME MoneyAssumption, MoneyInv, NEW c \in Cars, SwitchToCash(c) \/ Finish(c)
    PROVE  CarsOK' /\ Books
<1>1. Live(c) /\ UNCHANGED <<balance, carriedDue, posted, rows, todo, lost, payments, edits, received, charged>>
  BY DEF SwitchToCash, Finish
<1>2. booking[c] \in Booking /\ BookOK(booking[c]) /\ CarOK(c) /\ ~booking[c].settled /\ booking[c].status # "none"
  BY <1>1, LiveFacts
<1>3. PICK s \in {"pending", "completed"} :
        /\ \/ booking'[c] = [booking[c] EXCEPT !.status = s]
           \/ booking'[c] = [booking[c] EXCEPT !.status = s, !.method = "cash"]
        /\ \A d \in Cars : d # c => booking'[d] = booking[d]
  BY DEF SwitchToCash, Finish, MoneyInv, MoneyTypeOK
<1>4. /\ booking'[c] \in Booking /\ BookOK(booking'[c]) /\ SameMoney(booking[c], booking'[c])
      /\ booking'[c].status = s /\ booking'[c].deleted = booking[c].deleted /\ booking'[c].pay = booking[c].pay
  <2>1. s \in Statuses \ {"none", "cancelled"}
    BY DEF Statuses
  <2>2. MovesOn(booking[c], booking'[c], s)
    BY <1>3 DEF MovesOn
  <2> QED BY <1>2, <2>1, <2>2, MovedOnOK
<1>5. CarOK(c)'
  BY <1>1, <1>2, <1>4, Rewritten
<1>6. CarsOK'
  BY <1>1, <1>3, <1>5, OthersOK DEF Due
<1>7. \A d \in Cars : HeldBy(booking'[d]) = HeldBy(booking[d]) /\ OpenCarry(booking'[d]) = OpenCarry(booking[d])
  BY <1>2, <1>3, <1>4, SameHeld
<1> QED BY <1>1, <1>6, <1>7, Unmoved

\* A car with nothing but a confirmation to come, before a step and after it.
LEMMA OnlyConfirms ==
    ASSUME NEW c \in Cars, CarOK(c), \A s \in Steps : Due(s, c) => s = "confirm",
           BookOK(booking'[c]), booking'[c].deleted <=> booking[c].deleted,
           booking'[c].pay = "refund_due" => booking[c].pay = "refund_due",
           rows' = rows, \A s \in Steps : Due(s, c)' => s = "confirm",
           Due("confirm", c)' => ~booking'[c].deleted,
           booking'[c].status = "awaiting" /\ booking'[c].pay \in {"paid", "refund_due"} =>
             Due("confirm", c)' \/ c \in lost'
    PROVE  CarOK(c)'
<1>1. \A s \in {"flag", "mark", "clear", "unmark"} : ~Due(s, c) /\ ~Due(s, c)'
  BY DEF Steps
<1>2. OneStep(c)'
  BY DEF OneStep
<1>3. Queued(c)'
  BY <1>1 DEF Queued, CarOK
<1>4. booking'[c].pay = "refund_due" => booking'[c].deleted
  BY <1>1 DEF CarOK
<1> QED BY <1>1, <1>2, <1>3, <1>4 DEF CarOK

\* The books stay in line when the wallet moves by what the bookings do.
LEMMA BooksMove ==
    ASSUME MoneyAssumption, MoneyTypeOK, MoneyTypeOK', BooksOK(booking), BooksOK(booking'),
           carriedDue' = Positive(carriedDue + (Total(CarryOf(booking')) - Total(CarryOf(booking)))),
           ~KeysReused => received' - balance' - charged' =
             received - balance - charged + (Total(HeldOf(booking')) - Total(HeldOf(booking)))
    PROVE  Books
<1>1. /\ Total(CarryOf(booking)) \in Int /\ Total(CarryOf(booking')) \in Int
      /\ Total(HeldOf(booking)) \in Int /\ Total(HeldOf(booking')) \in Int
  BY OfAmounts, TotalInt
<1>2. Total(CarryOf(booking')) >= 0
  <2>1. CarryOf(booking') \in Amounted /\ \A c \in Cars : CarryOf(booking')[c] >= 0
    BY OfAmounts, HeldNat DEF CarryOf, BooksOK
  <2> QED BY <2>1, TotalNat
<1>3. /\ balance \in Int /\ received \in Int /\ charged \in Int /\ carriedDue \in Int
      /\ balance' \in Int /\ received' \in Int /\ charged' \in Int
  BY DEF MoneyTypeOK
<1>4. CarriedMatches => CarriedMatches'
  BY <1>1, <1>2, <1>3, BooksAre DEF Positive
<1>5. ~KeysReused /\ MoneyConserved => MoneyConserved'
  BY <1>1, <1>3, BooksAre
<1> QED BY <1>4, <1>5 DEF Books

LEMMA ChangePriceStep ==
    ASSUME MoneyAssumption, MoneyInv, MoneyTypeOK', ~Overlaps, NEW c \in Cars, NEW p \in NewPrices, ChangePrice(c, p)
    PROVE  CarsOK' /\ Books
<1> DEFINE b == booking[c]
           q == booking'[c]
           back == Positive(b.applied + AmountPaid(b) - (p + b.carried))
           settles == b.applied + AmountPaid(b) >= p + b.carried
<1>1. /\ Live(c) /\ NotHalfDone({c})
      /\ q = Repriced(b, p + b.carried) /\ \A d \in Cars : d # c => booking'[d] = booking[d]
      /\ balance' = balance + back
      /\ todo' = IF settles THEN todo \cup {<<"confirm", c>>} ELSE todo
      /\ UNCHANGED <<carriedDue, posted, rows, lost, payments, received, charged>>
  BY DEF ChangePrice, MoneyInv, MoneyTypeOK
<1>2. /\ b \in Booking /\ BookOK(b) /\ CarOK(c) /\ ~b.settled /\ ~b.deleted /\ b.status # "none"
      /\ b.pay # "refund_due" /\ \A s \in Steps : Due(s, c) => s = "confirm"
  BY <1>1, LiveFacts
<1>3. p \in Nat /\ p > 0
  BY DEF MoneyAssumption
<1> HIDE DEF b, q
<1>4. /\ q \in Booking /\ BookOK(q) /\ HeldBy(q) = HeldBy(b) - back /\ OpenCarry(q) = OpenCarry(b)
      /\ q.status = b.status /\ q.deleted = b.deleted /\ q.pay # "refund_due" /\ (q.pay = "paid" => settles)
  BY <1>1, <1>2, <1>3, RepricedOK
<1> HIDE DEF back, settles
<1>5. CarOK(c)'
  <2>1. \A s \in Steps : Due(s, c)' => s = "confirm"
    BY <1>1, <1>2 DEF Due
  <2>2. q.pay = "paid" => Due("confirm", c)'
    BY <1>1, <1>4 DEF Due
  <2> QED BY <1>1, <1>2, <1>4, <2>1, <2>2, OnlyConfirms DEF b, q
<1>6. CarsOK'
  BY <1>1, <1>5, OthersOK DEF Due
<1>7. BooksOK(booking) /\ BooksOK(booking')
  BY <1>6, InvBooks DEF MoneyTypeOK, CarsOK, CarOK, BooksOK
<1>8. Books
  <2>1. /\ Total(HeldOf(booking')) = Total(HeldOf(booking)) + (HeldBy(q) - HeldBy(b))
        /\ Total(CarryOf(booking')) = Total(CarryOf(booking)) + (OpenCarry(q) - OpenCarry(b))
        /\ Total(HeldOf(booking)) \in Int /\ Total(CarryOf(booking)) \in Int
    BY <1>1, <1>7, OneMoves DEF b, q
  <2>2. HeldBy(b) \in Int /\ OpenCarry(b) \in Int /\ back \in Int
    <3>1. b.applied \in Int /\ AmountPaid(b) \in Int /\ b.carried \in Int
      BY <1>2, AmountPaidNat DEF Booking
    <3> QED BY <1>2, <1>3, <3>1, HeldNat, PositiveNat DEF back
  <2>3. balance \in Int /\ received \in Int /\ charged \in Int /\ carriedDue \in Int /\ carriedDue >= 0
    BY DEF MoneyInv, MoneyTypeOK
  <2>4. carriedDue' = Positive(carriedDue + (Total(CarryOf(booking')) - Total(CarryOf(booking))))
    BY <1>1, <1>4, <2>1, <2>2, <2>3 DEF Positive
  <2>5. received' - balance' - charged' =
          received - balance - charged + (Total(HeldOf(booking')) - Total(HeldOf(booking)))
    BY <1>1, <1>4, <2>1, <2>2, <2>3
  <2> QED BY <1>7, <2>4, <2>5, BooksMove DEF MoneyInv
<1> QED BY <1>6, <1>8

LEMMA ManagerDoneStep ==
    ASSUME MoneyAssumption, MoneyInv, MoneyTypeOK', ~Overlaps, NEW c \in Cars, ManagerDone(c)
    PROVE  CarsOK' /\ Books
<1>1. PICK b \in Booking, due \in Nat :
             /\ b = [booking[c] EXCEPT !.status = "completed"]
             /\ due = AmountDue(b)
             /\ booking' = [booking EXCEPT ![c] = IF due > 0 THEN Paying(b, due, "cash") ELSE b]
             /\ booking'[c] \in Booking
             /\ balance' = balance + (IF due > 0 /\ ClearsCarry(b, due) THEN b.carried ELSE 0)
             /\ carriedDue' = Positive(carriedDue - (IF due > 0 /\ ClearsCarry(b, due) THEN b.carried ELSE 0))
             /\ received' = received + due
             /\ UNCHANGED <<posted, rows, todo, lost, payments, edits, charged>>
  BY ManagerDoneIs DEF MoneyInv
<1> DEFINE cleared == IF due > 0 /\ ClearsCarry(b, due) THEN b.carried ELSE 0
           a == booking[c]
           q == booking'[c]
<1>2. Live(c) /\ NotHalfDone({c})
  BY DEF ManagerDone
<1>3. /\ a \in Booking /\ BookOK(a) /\ CarOK(c) /\ ~a.settled /\ ~a.deleted /\ a.status # "none"
      /\ a.pay # "refund_due" /\ \A s \in Steps : Due(s, c) => s = "confirm"
  BY <1>2, LiveFacts
<1>4. q = (IF due > 0 THEN Paying(b, due, "cash") ELSE b) /\ \A d \in Cars : d # c => booking'[d] = booking[d]
  BY <1>1 DEF MoneyInv, MoneyTypeOK
<1>5. /\ BookOK(b) /\ SameMoney(a, b)
      /\ b.status = "completed" /\ b.deleted = a.deleted /\ b.pay = a.pay
  <2>1. MovesOn(a, b, "completed") /\ "completed" \in Statuses \ {"none", "cancelled"}
    BY <1>1 DEF MovesOn, Statuses
  <2> HIDE DEF a
  <2> QED BY <1>3, <2>1, MovedOnOK
<1>6. HeldBy(b) = HeldBy(a) /\ OpenCarry(b) = OpenCarry(a)
  BY <1>3, <1>5, SameHeld
<1> HIDE DEF a, q
<1>7. /\ q \in Booking /\ BookOK(q)
      /\ HeldBy(q) = HeldBy(a) + due - cleared
      /\ OpenCarry(q) = OpenCarry(a) - cleared
      /\ q.status = "completed" /\ (q.deleted <=> a.deleted) /\ q.pay # "refund_due"
  <2>1. CASE due = 0
    <3>1. q = b /\ cleared = 0
      BY <1>4, <2>1
    <3>2. HeldBy(a) \in Int /\ OpenCarry(a) \in Int
      BY <1>3, HeldNat
    <3> QED BY <1>3, <1>5, <1>6, <2>1, <3>1, <3>2
  <2>2. CASE due > 0
    <3>1. q = Paying(b, due, "cash") /\ cleared = IF ClearsCarry(b, due) THEN b.carried ELSE 0
      BY <1>4, <2>2
    <3>2. ~HalfReturned(b) /\ due <= AmountDue(b) /\ "cash" \in Methods /\ b.status # "none"
      BY <1>1, <1>3, <1>5 DEF HalfReturned, BookOK, Methods, SameMoney
    <3>3. /\ q \in Booking /\ BookOK(q)
          /\ HeldBy(q) = HeldBy(b) + due - (IF ClearsCarry(b, due) THEN b.carried ELSE 0)
          /\ OpenCarry(q) = IF ClearsCarry(b, due) THEN 0 ELSE OpenCarry(b)
          /\ ClearsCarry(b, due) => OpenCarry(b) = b.carried
          /\ q.status = b.status /\ q.deleted = b.deleted
          /\ q.pay = "refund_due" <=> b.pay = "refund_due"
      <4>1. Paid(b, q, due, "cash")
        BY <3>1 DEF Paid
      <4> HIDE DEF cleared
      <4> QED BY <1>5, <3>2, <4>1, PayingOK
    <3>4. OpenCarry(b) \in Int
      BY <1>5, HeldNat
    <3>5. OpenCarry(q) = OpenCarry(b) - cleared
      BY <3>1, <3>3, <3>4
    <3> QED BY <1>3, <1>5, <1>6, <3>1, <3>3, <3>5
  <2> QED BY <2>1, <2>2
<1>8. CarOK(c)'
  <2>1. \A s \in Steps : Due(s, c)' => s = "confirm"
    BY <1>1, <1>3 DEF Due
  <2> QED BY <1>1, <1>3, <1>7, <2>1, OnlyConfirms DEF a, q
<1>9. CarsOK'
  BY <1>1, <1>4, <1>8, OthersOK DEF Due
<1>10. BooksOK(booking) /\ BooksOK(booking')
  BY <1>9, InvBooks DEF MoneyTypeOK, CarsOK, CarOK, BooksOK
<1>11. Books
  <2>1. /\ Total(HeldOf(booking')) = Total(HeldOf(booking)) + (HeldBy(q) - HeldBy(a))
        /\ Total(CarryOf(booking')) = Total(CarryOf(booking)) + (OpenCarry(q) - OpenCarry(a))
        /\ Total(HeldOf(booking)) \in Int /\ Total(CarryOf(booking)) \in Int
    BY <1>4, <1>10, OneMoves DEF a, q
  <2>2. HeldBy(a) \in Int /\ OpenCarry(a) \in Int /\ cleared \in Int
    BY <1>3, HeldNat DEF Booking
  <2>3. balance \in Int /\ received \in Int /\ charged \in Int /\ carriedDue \in Int
    BY DEF MoneyInv, MoneyTypeOK
  <2>4. balance' = balance + cleared /\ carriedDue' = Positive(carriedDue - cleared) /\ received' = received + due
    BY <1>1
  <2> HIDE DEF cleared
  <2>5. carriedDue' = Positive(carriedDue + (Total(CarryOf(booking')) - Total(CarryOf(booking))))
    <3>1. Total(CarryOf(booking')) - Total(CarryOf(booking)) = -cleared
      BY <1>7, <2>1, <2>2
    <3>2. carriedDue + (-cleared) = carriedDue - cleared
      BY <2>2, <2>3
    <3> QED BY <2>4, <3>1, <3>2
  <2>6. received' - balance' - charged' =
          received - balance - charged + (Total(HeldOf(booking')) - Total(HeldOf(booking)))
    BY <1>1, <1>7, <2>1, <2>2, <2>3, <2>4
  <2> QED BY <1>10, <2>5, <2>6, BooksMove DEF MoneyInv
<1> QED BY <1>9, <1>11

-----------------------------------------------------------------------------
(* The steps after a transaction.                                            *)

LEMMA DoneIs ==
    ASSUME NEW c \in Cars, NEW s \in Steps, NEW t \in Steps, Done(s, c, {<<t, c>>}) \/ Done(s, c, {})
    PROVE  /\ \A d \in Cars, r \in Steps : d # c => (Due(r, d)' <=> Due(r, d))
           /\ Done(s, c, {}) => \A r \in Steps : Due(r, c)' <=> Due(r, c) /\ r # s
           /\ Done(s, c, {<<t, c>>}) => \A r \in Steps : Due(r, c)' <=> (Due(r, c) /\ r # s) \/ r = t
BY DEF Done, Due

\* A car whose balances stay, whatever is done about it after a transaction.
LEMMA SameBooks ==
    ASSUME MoneyAssumption, MoneyInv, NEW c \in Cars, booking'[c] \in Booking, SameMoney(booking[c], booking'[c]),
           \A d \in Cars : d # c => booking'[d] = booking[d],
           UNCHANGED <<balance, carriedDue, received, charged>>
    PROVE  Books
<1>1. booking[c] \in Booking
  BY DEF MoneyInv, MoneyTypeOK
<1>2. HeldBy(booking'[c]) = HeldBy(booking[c]) /\ OpenCarry(booking'[c]) = OpenCarry(booking[c])
  BY <1>1, SameHeld
<1> QED BY <1>2, Unmoved

LEMMA ConfirmStep ==
    ASSUME MoneyAssumption, MoneyInv, NEW c \in Cars, Confirm(c)
    PROVE  CarsOK' /\ Books
<1>1. /\ Due("confirm", c) /\ Done("confirm", c, {})
      /\ booking' = IF Live(c) /\ booking[c].status = "awaiting"
                      THEN [booking EXCEPT ![c].status = "pending"] ELSE booking
      /\ UNCHANGED <<balance, carriedDue, posted, rows, lost, payments, edits, received, charged>>
  BY DEF Confirm, Due
<1>2. booking[c] \in Booking /\ BookOK(booking[c]) /\ CarOK(c)
  BY LiveFacts
<1>3. \A s \in Steps : Due(s, c) => s = "confirm"
  BY <1>1, <1>2 DEF CarOK, OneStep, Steps
<1>4. ~booking[c].deleted
  BY <1>1, <1>2 DEF CarOK
<1>5. /\ booking'[c] \in Booking /\ BookOK(booking'[c]) /\ SameMoney(booking[c], booking'[c])
      /\ booking'[c].deleted = booking[c].deleted /\ booking'[c].pay = booking[c].pay
      /\ booking'[c].status # "awaiting"
      /\ \A d \in Cars : d # c => booking'[d] = booking[d]
  <2>1. CASE Live(c) /\ booking[c].status = "awaiting"
    <3>1. MovesOn(booking[c], booking'[c], "pending") /\ "pending" \in Statuses \ {"none", "cancelled"}
      BY <1>1, <2>1 DEF MovesOn, Statuses, MoneyInv, MoneyTypeOK
    <3>2. booking[c].status # "none" /\ ~booking[c].settled
      BY <2>1, LiveFacts
    <3>3. \A d \in Cars : d # c => booking'[d] = booking[d]
      BY <1>1, <2>1 DEF MoneyInv, MoneyTypeOK
    <3> QED BY <1>2, <3>1, <3>2, <3>3, MovedOnOK
  <2>2. CASE ~(Live(c) /\ booking[c].status = "awaiting")
    <3>1. booking' = booking
      BY <1>1, <2>2
    <3>2. booking[c].status # "awaiting"
      BY <1>4, <2>2 DEF Live, Exists
    <3> QED BY <1>2, <3>1, <3>2 DEF SameMoney
  <2> QED BY <2>1, <2>2
<1>6. \A s \in Steps : ~Due(s, c)'
  BY <1>1, <1>3, DoneIs DEF Steps
<1>7. CarOK(c)'
  BY <1>1, <1>2, <1>3, <1>5, <1>6, OnlyConfirms DEF Steps
<1>8. \A d \in Cars, s \in Steps : d # c => (Due(s, d)' <=> Due(s, d))
  BY <1>1, DoneIs DEF Steps
<1>9. CarsOK'
  BY <1>1, <1>5, <1>7, <1>8, OthersOK
<1> QED BY <1>1, <1>5, <1>9, SameBooks

LEMMA KilledStep ==
    ASSUME MoneyAssumption, MoneyInv, NEW c \in Cars, Killed(c)
    PROVE  CarsOK' /\ Books
<1>1. /\ Due("confirm", c) /\ Done("confirm", c, {}) /\ lost' = lost \cup {c}
      /\ UNCHANGED <<booking, balance, carriedDue, posted, rows, payments, edits, received, charged>>
  BY DEF Killed, Due, Done
<1>2. CarOK(c) /\ booking[c] \in Booking /\ BookOK(booking[c])
  BY LiveFacts
<1>3. \A s \in Steps : Due(s, c) => s = "confirm"
  BY <1>1, <1>2 DEF CarOK, OneStep, Steps
<1>4. /\ \A s \in Steps : ~Due(s, c)'
      /\ \A d \in Cars, s \in Steps : d # c => (Due(s, d)' <=> Due(s, d))
  BY <1>1, <1>3, DoneIs DEF Steps
<1>5. CarOK(c)'
  BY <1>1, <1>2, <1>3, <1>4, OnlyConfirms DEF Steps
<1>6. CarsOK'
  BY <1>1, <1>4, <1>5, OthersOK
<1> QED BY <1>1, <1>6, Unmoved

LEMMA FlagStep ==
    ASSUME MoneyAssumption, MoneyInv, NEW c \in Cars, Flag(c)
    PROVE  CarsOK' /\ Books
<1> DEFINE row == <<<<booking[c].order, c>>, FALSE>>
<1>1. /\ Due("flag", c) /\ rows' \in {rows, rows \cup {row}}
      /\ Done("flag", c, {}) \/ Done("flag", c, {<<"mark", c>>})
      /\ UNCHANGED <<booking, balance, carriedDue, posted, payments, edits, received, charged, lost>>
  BY DEF Flag, Due, Done
<1>2. CarOK(c) /\ booking[c].deleted
  BY <1>1, LiveFacts DEF CarOK
<1>3. \A s \in Steps : Due(s, c) => s = "flag"
  BY <1>1, <1>2 DEF CarOK, OneStep, Steps
<1>4. \A d \in Cars, s \in Steps : d # c => (Due(s, d)' <=> Due(s, d))
  BY <1>1, DoneIs DEF Steps
<1>5. \A s \in Steps : Due(s, c)' => s = "mark"
  BY <1>1, <1>3, DoneIs DEF Steps
<1>6. CarOK(c)'
  <2>1. BookOK(booking[c])'
    BY <1>1, <1>2 DEF CarOK
  <2>2. OneStep(c)' /\ Queued(c)'
    BY <1>1, <1>2, <1>5 DEF OneStep, Queued
  <2>3. \A s \in {"clear", "unmark", "confirm"} : ~Due(s, c)' /\ ~Due(s, c)
    BY <1>3, <1>5 DEF Steps
  <2> QED BY <1>1, <1>2, <2>1, <2>2, <2>3 DEF CarOK
<1>7. \A r \in rows' : r[1][2] # c /\ ~r[2] => r \in rows
  <2>1. row[1][2] = c
    OBVIOUS
  <2> HIDE DEF row
  <2> QED BY <1>1, <2>1
<1>8. CarsOK'
  BY <1>1, <1>4, <1>6, <1>7, OthersOK
<1> QED BY <1>1, <1>8, Unmoved

LEMMA MarkStep ==
    ASSUME MoneyAssumption, MoneyInv, NEW c \in Cars, Mark(c) \/ Unmark(c)
    PROVE  CarsOK' /\ Books
<1>1. PICK s \in {"mark", "unmark"}, p \in {"paid", "refund_due"} :
        /\ Due(s, c) /\ Done(s, c, {}) /\ p = (IF s = "mark" THEN "refund_due" ELSE "paid")
        /\ booking' = IF booking[c].pay \in {"paid", "refund_due"} \ {p}
                        THEN [booking EXCEPT ![c].pay = p] ELSE booking
        /\ UNCHANGED <<balance, carriedDue, posted, rows, lost, payments, edits, received, charged>>
  <2>1. CASE Mark(c)
    <3>1. /\ Due("mark", c) /\ Done("mark", c, {})
          /\ booking' = IF booking[c].pay \in {"paid", "refund_due"} \ {"refund_due"}
                          THEN [booking EXCEPT ![c].pay = "refund_due"] ELSE booking
          /\ UNCHANGED <<balance, carriedDue, posted, rows, lost, payments, edits, received, charged>>
      BY <2>1 DEF Mark, Due
    <3> QED BY <3>1
  <2>2. CASE Unmark(c)
    <3>1. /\ Due("unmark", c) /\ Done("unmark", c, {})
          /\ booking' = IF booking[c].pay \in {"paid", "refund_due"} \ {"paid"}
                          THEN [booking EXCEPT ![c].pay = "paid"] ELSE booking
          /\ UNCHANGED <<balance, carriedDue, posted, rows, lost, payments, edits, received, charged>>
      BY <2>2 DEF Unmark, Due
    <3> QED BY <3>1
  <2> QED BY <2>1, <2>2
<1>2. CarOK(c) /\ booking[c] \in Booking /\ BookOK(booking[c])
  BY LiveFacts
<1>3. \A t \in Steps : Due(t, c) => t = s
  BY <1>1, <1>2 DEF CarOK, OneStep, Steps
<1>4. /\ \A t \in Steps : ~Due(t, c)'
      /\ \A d \in Cars, t \in Steps : d # c => (Due(t, d)' <=> Due(t, d))
  <2>1. s \in Steps
    BY DEF Steps
  <2> QED BY <1>1, <1>3, <2>1, DoneIs
<1>5. /\ booking'[c] \in Booking /\ BookOK(booking'[c]) /\ SameMoney(booking[c], booking'[c])
      /\ booking'[c].deleted = booking[c].deleted /\ booking'[c].status = booking[c].status
      /\ booking'[c].pay \in {"paid", "refund_due"} => booking[c].pay \in {"paid", "refund_due"} /\ booking'[c].pay = p
      /\ \A d \in Cars : d # c => booking'[d] = booking[d]
  <2>1. CASE booking[c].pay \in {"paid", "refund_due"} \ {p}
    <3>1. booking'[c] = [booking[c] EXCEPT !.pay = p] /\ \A d \in Cars : d # c => booking'[d] = booking[d]
      BY <1>1, <2>1 DEF MoneyInv, MoneyTypeOK
    <3>2. booking[c].pay \in {"paid", "refund_due"}
      BY <2>1
    <3> QED BY <1>2, <3>1, <3>2, MarkedOK
  <2>2. CASE ~(booking[c].pay \in {"paid", "refund_due"} \ {p})
    BY <1>1, <1>2, <2>2 DEF SameMoney
  <2> QED BY <2>1, <2>2
<1>6. CarOK(c)'
  <2>1. OneStep(c)'
    BY <1>4 DEF OneStep
  <2>2. booking[c].deleted <=> s = "mark"
    BY <1>1, <1>2 DEF CarOK
  <2>3. Queued(c)'
    <3>1. ~Due("clear", c)
      BY <1>1, <1>3 DEF Steps
    <3> QED BY <1>1, <1>2, <1>5, <3>1 DEF CarOK, Queued
  <2>4. booking'[c].pay = "refund_due" => booking'[c].deleted
    BY <1>1, <1>5, <2>2
  <2>5. booking'[c].status = "awaiting" /\ booking'[c].pay \in {"paid", "refund_due"} => c \in lost'
    <3>1. ~Due("confirm", c)
      BY <1>1, <1>3 DEF Steps
    <3> QED BY <1>1, <1>2, <1>5, <3>1 DEF CarOK
  <2>6. \A t \in {"flag", "mark", "clear", "unmark", "confirm"} : ~Due(t, c)'
    BY <1>4 DEF Steps
  <2> QED BY <1>5, <2>1, <2>3, <2>4, <2>5, <2>6 DEF CarOK
<1>7. CarsOK'
  BY <1>1, <1>4, <1>5, <1>6, OthersOK
<1> QED BY <1>1, <1>5, <1>7, SameBooks

LEMMA ClearStep ==
    ASSUME MoneyAssumption, MoneyInv, NEW c \in Cars, Clear(c)
    PROVE  CarsOK' /\ Books
<1>1. /\ Due("clear", c) /\ Done("clear", c, {<<"unmark", c>>})
      /\ rows' = {IF r[1][2] = c THEN <<r[1], TRUE>> ELSE r : r \in rows}
      /\ UNCHANGED <<booking, balance, carriedDue, posted, payments, edits, received, charged, lost>>
  BY DEF Clear, Due
<1>2. CarOK(c) /\ BookOK(booking[c]) /\ ~booking[c].deleted
  BY <1>1, LiveFacts DEF CarOK
<1>3. \A s \in Steps : Due(s, c) => s = "clear"
  BY <1>1, <1>2 DEF CarOK, OneStep, Steps
<1>4. /\ \A s \in Steps : Due(s, c)' <=> s = "unmark"
      /\ \A d \in Cars, s \in Steps : d # c => (Due(s, d)' <=> Due(s, d))
  BY <1>1, <1>3, DoneIs DEF Steps
<1>5. \A r \in rows' : /\ r[1][2] # c => r \in rows
                       /\ r[1][2] = c => r[2]
  <2> TAKE r \in rows'
  <2>1. PICK q \in rows : r = IF q[1][2] = c THEN <<q[1], TRUE>> ELSE q
    BY <1>1
  <2> QED BY <2>1
<1>6. CarOK(c)'
  <2>1. OneStep(c)' /\ Queued(c)'
    BY <1>4, <1>5 DEF OneStep, Queued
  <2>2. Due("unmark", c)' /\ \A s \in {"flag", "mark", "clear", "confirm"} : ~Due(s, c)'
    BY <1>4 DEF Steps
  <2>3. ~Due("confirm", c)
    BY <1>3 DEF Steps
  <2> QED BY <1>1, <1>2, <2>1, <2>2, <2>3 DEF CarOK
<1>7. CarsOK'
  BY <1>1, <1>4, <1>5, <1>6, OthersOK
<1> QED BY <1>1, <1>7, Unmoved

-----------------------------------------------------------------------------
(* The steps on several bookings.                                            *)

\* The bookings T give back what they hold.
LEMMA GiveBackBooks ==
    ASSUME MoneyAssumption, MoneyInv, MoneyTypeOK', BooksOK(booking'), NEW T \in SUBSET Cars, NEW charge \in Nat,
           GiveBack(T, charge), charged' = charged + charge, received' = received,
           \A c \in T : /\ booking[c].status # "none" /\ ~booking[c].settled /\ booking[c].pay # "refund_due"
                        /\ HeldBy(booking'[c]) = 0 /\ OpenCarry(booking'[c]) = 0,
           \A c \in Cars \ T : HeldBy(booking'[c]) = HeldBy(booking[c]) /\ OpenCarry(booking'[c]) = OpenCarry(booking[c])
    PROVE  Books
<1> DEFINE back == [c \in Cars |-> Refundable(booking[c])]
           carry == [c \in Cars |-> booking[c].carried]
           open == {c \in T : ~booking[c].cleared}
           held == HeldOf(booking)
           held1 == HeldOf(booking')
           owed == CarryOf(booking)
           owed1 == CarryOf(booking')
<1>1. BooksOK(booking) /\ \A c \in Cars : booking[c] \in Booking /\ BookOK(booking[c])
  BY InvBooks DEF BooksOK
<1>2. back \in Amounted /\ carry \in Amounted
  BY <1>1, RefundableNat DEF Amounted, Booking
<1>3. held \in Amounted /\ held1 \in Amounted /\ owed \in Amounted /\ owed1 \in Amounted
  BY <1>1, OfAmounts
<1>4. \A c \in Cars : held1[c] = IF c \in T THEN held[c] - back[c] ELSE held[c]
  <2> TAKE c \in Cars
  <2>1. c \in T => back[c] = held[c] /\ held1[c] = 0
    BY <1>1, RefundableIs DEF HeldOf
  <2>2. c \notin T => held1[c] = held[c]
    BY DEF HeldOf
  <2>3. held[c] \in Int
    BY <1>3 DEF Amounted
  <2> QED BY <2>1, <2>2, <2>3
<1>5. \A c \in Cars : owed1[c] = IF c \in open THEN owed[c] - carry[c] ELSE owed[c]
  <2> TAKE c \in Cars
  <2>1. c \in open => carry[c] = owed[c] /\ owed1[c] = 0
    BY DEF CarryOf, OpenCarry
  <2>2. c \in T \ open => owed[c] = 0 /\ owed1[c] = 0
    BY DEF CarryOf, OpenCarry
  <2>3. c \notin T => owed1[c] = owed[c]
    BY DEF CarryOf
  <2>4. owed[c] \in Int
    BY <1>3 DEF Amounted
  <2>5. open \subseteq T
    OBVIOUS
  <2> HIDE DEF open, owed, owed1, carry
  <2> QED BY <2>1, <2>2, <2>3, <2>4, <2>5
<1>6. /\ IF SumOver(T, back) - charge = 0 \/ T \in posted
           THEN UNCHANGED <<balance, posted>>
           ELSE balance' = balance + (SumOver(T, back) - charge) /\ posted' = posted \cup {T}
      /\ KeysReused \/ SumOver(T, back) - charge = 0 \/ T \notin posted
      /\ carriedDue' = Positive(carriedDue - SumOver(open, carry))
  BY DEF GiveBack
<1> HIDE DEF back, carry, open, held, held1, owed, owed1
<1>7. Total(held) = Total(held1) + SumOver(T, back) /\ Total(owed) = Total(owed1) + SumOver(open, carry)
  BY <1>2, <1>3, <1>4, <1>5, TotalShifts
<1>8. /\ Total(held) \in Int /\ Total(held1) \in Int /\ Total(owed) \in Int /\ Total(owed1) \in Int
      /\ SumOver(T, back) \in Int /\ SumOver(open, carry) \in Int
  BY <1>2, <1>3, TotalInt, SumOverInt
<1>9. balance \in Int /\ received \in Int /\ charged \in Int /\ carriedDue \in Int
  BY DEF MoneyInv, MoneyTypeOK
<1>10. carriedDue' = Positive(carriedDue + (Total(owed1) - Total(owed)))
  <2>1. carriedDue - SumOver(open, carry) = carriedDue + (Total(owed1) - Total(owed))
    BY <1>7, <1>8, <1>9
  <2> QED BY <1>6, <2>1
<1>11. ~KeysReused => received' - balance' - charged' = received - balance - charged + (Total(held1) - Total(held))
  <2>1. ~KeysReused => balance' = balance + (SumOver(T, back) - charge)
    BY <1>6, <1>8, <1>9
  <2> QED BY <1>7, <1>8, <1>9, <2>1
<1> QED BY <1>1, <1>10, <1>11, BooksMove DEF MoneyInv, held, held1, owed, owed1

LEMMA CancelCarsStep ==
    ASSUME MoneyAssumption, MoneyInv, MoneyTypeOK', ~Overlaps, NEW T \in SUBSET Cars, NEW charge \in Charges,
           CancelCars(T, charge), \A c \in T : Live(c)
    PROVE  CarsOK' /\ Books
<1>1. /\ NotHalfDone(T)
      /\ \A c \in Cars : booking'[c] = IF c \in T THEN [Settled(booking[c]) EXCEPT !.status = "cancelled"] ELSE booking[c]
      /\ GiveBack(T, charge) /\ charged' = charged + charge
      /\ UNCHANGED <<rows, todo, lost, payments, edits, received>>
  BY DEF CancelCars
<1>2. ASSUME NEW c \in T
      PROVE  /\ booking[c] \in Booking /\ BookOK(booking[c]) /\ CarOK(c) /\ ~booking[c].settled
             /\ ~booking[c].deleted /\ booking[c].status # "none"
             /\ booking[c].pay # "refund_due" /\ \A s \in Steps : Due(s, c) => s = "confirm"
  <2>1. NotHalfDone({c})
    BY <1>1 DEF NotHalfDone, TodoFor
  <2> QED BY <2>1, LiveFacts
<1>3. ASSUME NEW c \in T
      PROVE  /\ booking'[c] \in Booking /\ BookOK(booking'[c])
             /\ HeldBy(booking'[c]) = 0 /\ OpenCarry(booking'[c]) = 0
             /\ booking'[c].status = "cancelled" /\ booking'[c].deleted = booking[c].deleted
             /\ booking'[c].pay \in {booking[c].pay, "refunded"}
  BY <1>1, <1>2, CancelledOK
<1>4. ASSUME NEW c \in Cars PROVE CarOK(c)'
  <2>1. CASE c \in T
    <3>1. \A s \in Steps : Due(s, c)' <=> Due(s, c)
      BY <1>1 DEF Due
    <3> QED BY <1>1, <1>2, <1>3, <2>1, <3>1, OnlyConfirms
  <2>2. CASE c \notin T
    BY <1>1, <2>2, Untouched DEF Due, MoneyInv, CarsOK
  <2> QED BY <2>1, <2>2
<1>5. BooksOK(booking')
  BY <1>4 DEF MoneyTypeOK, CarOK, BooksOK
<1>6. Books
  <2>1. charge \in Nat
    BY DEF MoneyAssumption
  <2>2. \A c \in Cars \ T : booking'[c] = booking[c]
    BY <1>1
  <2> QED BY <1>1, <1>2, <1>3, <1>5, <2>1, <2>2, GiveBackBooks
<1> QED BY <1>4, <1>6 DEF CarsOK

LEMMA DeleteStep ==
    ASSUME MoneyAssumption, MoneyInv, MoneyTypeOK', ~Overlaps, NEW c \in Cars, Delete(c)
    PROVE  CarsOK' /\ Books
<1> DEFINE T == {d \in CarsOf(booking[c].visit) : Live(d)} \cup {c}
           W == {d \in T : /\ booking[d].status \notin {"completed", "cancelled"}
                           /\ AmountPaid(booking[d]) = 0
                           /\ booking[d].applied + booking[d].carried > 0}
           listed == {d \in T : /\ booking[d].status # "completed"
                                /\ booking[d].pay = "paid" /\ booking[d].method = "online"}
<1>1. /\ Exists(c) /\ ~booking[c].deleted /\ TodoFor(T) = {}
      /\ booking' = [d \in Cars |->
             IF d \in W THEN [Settled(booking[d]) EXCEPT !.deleted = TRUE, !.deleteSettled = TRUE]
             ELSE IF d \in T THEN [booking[d] EXCEPT !.deleted = TRUE] ELSE booking[d]]
      /\ IF W = {} THEN UNCHANGED <<balance, posted, carriedDue>> ELSE GiveBack(W, 0)
      /\ todo' = todo \cup {<<"flag", d>> : d \in listed}
      /\ UNCHANGED <<rows, lost, payments, edits, received, charged>>
  BY DEF Delete, Undisturbed
<1>2. W \subseteq T /\ listed \subseteq T /\ T \subseteq Cars
  BY DEF CarsOf
<1>3. \A d \in T : booking[d].status # "none" /\ ~booking[d].deleted
  BY <1>1 DEF Live, Exists
<1>4. \A d \in W : booking[d].status # "cancelled" /\ AmountPaid(booking[d]) = 0
  OBVIOUS
<1> HIDE DEF T, W, listed
<1>5. ASSUME NEW d \in T
      PROVE  /\ d \in Cars /\ booking[d] \in Booking /\ BookOK(booking[d]) /\ CarOK(d)
             /\ \A s \in Steps : ~Due(s, d)
  <2>1. d \in Cars /\ booking[d] \in Booking /\ BookOK(booking[d]) /\ CarOK(d)
    BY <1>2, LiveFacts
  <2>2. \A s \in Steps : ~Due(s, d)
    <3>1. TodoFor(T) = {}
      BY <1>1
    <3> QED BY <3>1 DEF TodoFor, Due
  <2> QED BY <2>1, <2>2
<1>6. ASSUME NEW d \in T
      PROVE  /\ ~booking[d].settled \/ booking[d].status = "cancelled"
             /\ booking[d].pay # "refund_due"
             /\ booking[d].status = "awaiting" /\ booking[d].pay = "paid" => d \in lost
  <2>1. \A s \in {"clear", "unmark", "confirm"} : ~Due(s, d)
    BY <1>5 DEF Steps
  <2>2. ~booking[d].settled \/ booking[d].status = "cancelled"
    BY <1>3, <1>5 DEF BookOK
  <2> QED BY <1>3, <1>5, <2>1, <2>2 DEF CarOK
<1>7. ASSUME NEW d \in W
      PROVE  /\ booking'[d] \in Booking /\ BookOK(booking'[d]) /\ HeldBy(booking'[d]) = 0 /\ OpenCarry(booking'[d]) = 0
             /\ booking'[d].status = booking[d].status /\ booking'[d].deleted
             /\ booking'[d].pay \in {booking[d].pay, "refunded"}
  <2>1. booking'[d] = [Settled(booking[d]) EXCEPT !.deleted = TRUE, !.deleteSettled = TRUE]
    BY <1>1, <1>2
  <2> QED BY <1>2, <1>3, <1>4, <1>5, <2>1, DroppedOK
<1>8. ASSUME NEW d \in T, d \notin W
      PROVE  /\ booking'[d] \in Booking /\ BookOK(booking'[d]) /\ SameMoney(booking[d], booking'[d])
             /\ booking'[d].status = booking[d].status /\ booking'[d].deleted /\ booking'[d].pay = booking[d].pay
  <2>1. booking'[d] = [booking[d] EXCEPT !.deleted = TRUE]
    BY <1>1, <1>2, <1>8
  <2> QED BY <1>3, <1>5, <2>1, BinnedOK
<1>9. ASSUME NEW d \in Cars, d \notin T PROVE booking'[d] = booking[d]
  BY <1>1, <1>2, <1>9
<1>10. ASSUME NEW d \in Cars PROVE CarOK(d)'
  <2>1. CASE d \in T
    <3>1. \A s \in Steps : Due(s, d)' => s = "flag"
      BY <1>1, <1>5, <2>1 DEF Due
    <3>2. \A s \in {"mark", "clear", "unmark", "confirm"} : ~Due(s, d)'
      BY <3>1 DEF Steps
    <3>3. /\ BookOK(booking'[d]) /\ booking'[d].deleted
          /\ booking'[d].status = booking[d].status /\ booking'[d].pay \in {booking[d].pay, "refunded"}
      BY <1>7, <1>8, <2>1
    <3>4. OneStep(d)' /\ Queued(d)'
      BY <3>1, <3>3 DEF OneStep, Queued
    <3>5. booking'[d].status = "awaiting" /\ booking'[d].pay \in {"paid", "refund_due"} => d \in lost'
      BY <1>1, <1>6, <2>1, <3>3
    <3> QED BY <3>2, <3>3, <3>4, <3>5 DEF CarOK
  <2>2. CASE d \notin T
    <3>1. \A s \in Steps : Due(s, d)' <=> Due(s, d)
      BY <1>1, <1>2, <2>2 DEF Due
    <3>2. CarOK(d) /\ booking'[d] = booking[d]
      BY <1>9, <2>2, LiveFacts
    <3> QED BY <1>1, <3>1, <3>2, Untouched
  <2> QED BY <2>1, <2>2
<1>11. BooksOK(booking')
  BY <1>10 DEF MoneyTypeOK, CarOK, BooksOK
<1>12. \A d \in Cars \ W : HeldBy(booking'[d]) = HeldBy(booking[d]) /\ OpenCarry(booking'[d]) = OpenCarry(booking[d])
  <2> TAKE d \in Cars \ W
  <2>1. CASE d \in T
    BY <1>5, <1>8, <2>1, SameHeld
  <2>2. CASE d \notin T
    BY <1>9, <2>2
  <2> QED BY <2>1, <2>2
<1>13. Books
  <2>1. CASE W = {}
    BY <1>1, <1>12, <2>1, Unmoved
  <2>2. CASE W # {}
    <3>1. GiveBack(W, 0) /\ charged' = charged + 0 /\ received' = received /\ 0 \in Nat /\ W \in SUBSET Cars
      <4>1. charged \in Nat /\ charged' = charged /\ received' = received
        BY <1>1 DEF MoneyInv, MoneyTypeOK
      <4>2. GiveBack(W, 0)
        BY <1>1, <2>2
      <4> QED BY <1>2, <4>1, <4>2
    <3>2. \A d \in W : booking[d].status # "none" /\ ~booking[d].settled /\ booking[d].pay # "refund_due"
      BY <1>2, <1>3, <1>4, <1>6
    <3> QED BY <1>7, <1>11, <1>12, <3>1, <3>2, GiveBackBooks
  <2> QED BY <2>1, <2>2
<1> QED BY <1>10, <1>13 DEF CarsOK

LEMMA RestoreStep ==
    ASSUME MoneyAssumption, MoneyInv, ~Overlaps, NEW v \in Cars, Restore(v)
    PROVE  CarsOK' /\ Books
<1> DEFINE T == {c \in CarsOf(v) : booking[c].deleted}
<1>1. /\ TodoFor(T) = {}
      /\ booking' = [c \in Cars |-> IF c \in T THEN Restored(booking[c]) ELSE booking[c]]
      /\ todo' = todo \cup {<<"clear", c>> : c \in T}
      /\ UNCHANGED <<balance, carriedDue, posted, rows, lost, payments, edits, received, charged>>
  BY DEF Restore, Undisturbed
<1>2. T \subseteq Cars /\ \A c \in T : booking[c].deleted
  BY DEF CarsOf
<1> HIDE DEF T
<1>3. ASSUME NEW c \in T
      PROVE  /\ booking[c] \in Booking /\ BookOK(booking[c]) /\ CarOK(c) /\ booking[c].status # "none"
             /\ \A s \in Steps : ~Due(s, c)
  <2>1. booking[c] \in Booking /\ BookOK(booking[c]) /\ CarOK(c)
    BY <1>2, LiveFacts
  <2>2. booking[c].status # "none"
    BY <1>2, <2>1 DEF BookOK, Unmade
  <2>3. \A s \in Steps : ~Due(s, c)
    BY <1>1 DEF TodoFor, Due
  <2> QED BY <2>1, <2>2, <2>3
<1>4. ASSUME NEW c \in T
      PROVE  /\ BookOK(booking'[c]) /\ HeldBy(booking'[c]) = HeldBy(booking[c])
             /\ OpenCarry(booking'[c]) = OpenCarry(booking[c])
             /\ booking'[c].status = booking[c].status /\ ~booking'[c].deleted
             /\ booking'[c].pay \in {"paid", "refund_due"} => booking[c].pay = booking'[c].pay
  <2>1. booking'[c] = Restored(booking[c])
    BY <1>1, <1>2
  <2> QED BY <1>3, <2>1, RestoredOK
<1>5. ASSUME NEW c \in Cars, c \notin T PROVE booking'[c] = booking[c]
  BY <1>1, <1>5
<1>6. ASSUME NEW c \in Cars PROVE CarOK(c)'
  <2>1. CASE c \in T
    <3>1. \A s \in Steps : Due(s, c)' <=> s = "clear"
      BY <1>1, <1>3, <2>1 DEF Due, Steps
    <3>2. Due("clear", c)' /\ \A s \in {"flag", "mark", "unmark", "confirm"} : ~Due(s, c)'
      BY <3>1 DEF Steps
    <3>3. OneStep(c)' /\ Queued(c)'
      BY <3>1, <3>2 DEF OneStep, Queued
    <3>4. booking'[c].status = "awaiting" /\ booking'[c].pay \in {"paid", "refund_due"} => c \in lost'
      <4>1. ~Due("confirm", c)
        BY <1>3, <2>1 DEF Steps
      <4> QED BY <1>1, <1>3, <1>4, <2>1, <4>1 DEF CarOK
    <3> QED BY <1>4, <2>1, <3>2, <3>3, <3>4 DEF CarOK
  <2>2. CASE c \notin T
    <3>1. \A s \in Steps : Due(s, c)' <=> Due(s, c)
      BY <1>1, <1>2, <2>2 DEF Due
    <3>2. CarOK(c) /\ booking'[c] = booking[c]
      BY <1>5, <2>2, LiveFacts
    <3> QED BY <1>1, <3>1, <3>2, Untouched
  <2> QED BY <2>1, <2>2
<1>7. Books
  BY <1>1, <1>4, <1>5, Unmoved
<1> QED BY <1>6, <1>7 DEF CarsOK

LEMMA ReturnToBinStep ==
    ASSUME MoneyAssumption, MoneyInv, NEW v \in Cars, ReturnToBin(v)
    PROVE  CarsOK' /\ Books
<1> DEFINE T == {c \in CarsOf(v) : <<"clear", c>> \in todo}
<1>1. /\ booking' = [c \in Cars |-> IF c \in T THEN [booking[c] EXCEPT !.deleted = TRUE] ELSE booking[c]]
      /\ todo' = todo \ {<<"clear", c>> : c \in T}
      /\ UNCHANGED <<balance, carriedDue, posted, rows, lost, payments, edits, received, charged>>
  BY DEF ReturnToBin
<1>2. T \subseteq Cars /\ \A c \in T : Due("clear", c) /\ booking[c].visit = v
  BY DEF CarsOf, Due
<1> HIDE DEF T
<1>3. ASSUME NEW c \in T
      PROVE  /\ booking[c] \in Booking /\ BookOK(booking[c]) /\ CarOK(c) /\ booking[c].status # "none"
             /\ \A s \in Steps : Due(s, c) => s = "clear"
  <2>1. booking[c] \in Booking /\ BookOK(booking[c]) /\ CarOK(c)
    BY <1>2, LiveFacts
  <2>2. booking[c].status # "none"
    BY <1>2, <2>1 DEF BookOK, Unmade, Cars, MoneyAssumption
  <2>3. \A s \in Steps : Due(s, c) => s = "clear"
    BY <1>2, <2>1 DEF CarOK, OneStep, Steps
  <2> QED BY <2>1, <2>2, <2>3
<1>4. ASSUME NEW c \in T
      PROVE  /\ booking'[c] \in Booking /\ BookOK(booking'[c]) /\ SameMoney(booking[c], booking'[c])
             /\ booking'[c].status = booking[c].status /\ booking'[c].deleted /\ booking'[c].pay = booking[c].pay
  <2>1. booking'[c] = [booking[c] EXCEPT !.deleted = TRUE]
    BY <1>1, <1>2
  <2> QED BY <1>3, <2>1, BinnedOK
<1>5. ASSUME NEW c \in Cars, c \notin T PROVE booking'[c] = booking[c]
  BY <1>1, <1>5
<1>6. ASSUME NEW c \in Cars PROVE CarOK(c)'
  <2>1. CASE c \in T
    <3>1. \A s \in Steps : ~Due(s, c)'
      BY <1>1, <1>3, <2>1 DEF Due
    <3>2. \A s \in {"flag", "mark", "clear", "unmark", "confirm"} : ~Due(s, c)'
      BY <3>1 DEF Steps
    <3>3. OneStep(c)' /\ Queued(c)'
      BY <1>4, <2>1, <3>1 DEF OneStep, Queued
    <3>4. booking'[c].status = "awaiting" /\ booking'[c].pay \in {"paid", "refund_due"} => c \in lost'
      <4>1. ~Due("confirm", c)
        BY <1>3, <2>1 DEF Steps
      <4> QED BY <1>1, <1>3, <1>4, <2>1, <4>1 DEF CarOK
    <3> QED BY <1>4, <2>1, <3>2, <3>3, <3>4 DEF CarOK
  <2>2. CASE c \notin T
    <3>1. \A s \in Steps : Due(s, c)' <=> Due(s, c)
      BY <1>1, <1>2, <2>2 DEF Due
    <3>2. CarOK(c) /\ booking'[c] = booking[c]
      BY <1>5, <2>2, LiveFacts
    <3> QED BY <1>1, <3>1, <3>2, Untouched
  <2> QED BY <2>1, <2>2
<1>7. \A c \in Cars : HeldBy(booking'[c]) = HeldBy(booking[c]) /\ OpenCarry(booking'[c]) = OpenCarry(booking[c])
  <2> TAKE c \in Cars
  <2>1. CASE c \in T
    BY <1>3, <1>4, <2>1, SameHeld
  <2>2. CASE c \notin T
    BY <1>5, <2>2
  <2> QED BY <2>1, <2>2
<1>8. Books
  BY <1>1, <1>7, Unmoved
<1> QED BY <1>6, <1>8 DEF CarsOK

LEMMA PayStep ==
    ASSUME MoneyAssumption, MoneyInv, MoneyTypeOK', Orderly, NEW S \in SUBSET Cars, NEW amount \in Amounts,
           NEW m \in Methods, Pay(S, amount, m)
    PROVE  CarsOK' /\ Books
<1>0. amount \in Nat /\ N \in Nat /\ N \in 0..N
  BY DEF MoneyAssumption
<1> DEFINE due == [c \in Cars |-> IF c \in S THEN AmountDue(booking[c]) ELSE 0]
           carry == [c \in Cars |-> booking[c].carried]
<1>1. PICK left \in [0..N -> 0..amount] :
        LET take == Shares(left)
            clears == {c \in S : ClearsCarry(booking[c], take[c])}
            after == [c \in Cars |-> IF c \in S THEN Paying(booking[c], take[c], m) ELSE booking[c]]
            newlyPaid == {c \in S : take[c] > 0 /\ after[c].pay = "paid"}
        IN /\ Split(due, amount, left)
           /\ booking' = [c \in Cars |-> IF c \in S /\ m = "online"
                                    THEN [after[c] EXCEPT !.order = payments + 1] ELSE after[c]]
           /\ balance' = balance + left[N] + SumOver(clears, carry)
           /\ carriedDue' = Positive(carriedDue - SumOver(clears, carry))
           /\ todo' = IF m = "online" THEN todo \cup {<<"confirm", c>> : c \in newlyPaid} ELSE todo
  BY DEF Pay, ApplyPayment, Shares
<1> DEFINE take == Shares(left)
           clears == {c \in S : ClearsCarry(booking[c], take[c])}
           newlyPaid == {c \in S : take[c] > 0 /\ Paying(booking[c], take[c], m).pay = "paid"}
           held == HeldOf(booking)
           held1 == HeldOf(booking')
           owed == CarryOf(booking)
           owed1 == CarryOf(booking')
           mid == [c \in Cars |-> held[c] + take[c]]
           rest == left[N]
<1>2. PICK v \in Cars : S \subseteq CarsOf(v)
  BY DEF Pay
<1>3. /\ m = "cash" => \A c \in S : booking[c].status = "completed"
      /\ \A t \in TodoFor(S) : t[1] = "confirm"
      /\ \A c \in S : ~HalfReturned(booking[c])
      /\ received' = received + amount
      /\ UNCHANGED <<posted, rows, lost, edits, charged>>
  BY DEF Pay, ApplyPayment, Orderly, NotHalfDone
<1>4. /\ balance' = balance + rest + SumOver(clears, carry)
      /\ carriedDue' = Positive(carriedDue - SumOver(clears, carry))
      /\ Split(due, amount, left)
  BY <1>1
<1>5. \A c \in Cars \ S : booking'[c] = booking[c]
  BY <1>1
<1>6. todo' = IF m = "online" THEN todo \cup {<<"confirm", c>> : c \in newlyPaid} ELSE todo
  <2>1. newlyPaid = {c \in S : take[c] > 0 /\ [d \in Cars |-> IF d \in S THEN Paying(booking[d], take[d], m)
                                                            ELSE booking[d]][c].pay = "paid"}
    OBVIOUS
  <2> HIDE DEF due, carry, clears, newlyPaid
  <2> QED BY <1>1, <2>1
<1>7. due \in [Cars -> Nat]
  BY AmountPaidNat DEF MoneyInv, MoneyTypeOK
<1>8. /\ take \in Amounted /\ \A c \in Cars : take[c] \in Nat /\ take[c] <= due[c]
      /\ Total(take) = amount - rest
  <2> HIDE DEF due
  <2> QED BY <1>0, <1>4, <1>7, SplitShares
<1>9. ASSUME NEW c \in S
      PROVE  /\ booking[c] \in Booking /\ BookOK(booking[c]) /\ CarOK(c) /\ booking[c].status # "none"
             /\ \A s \in Steps : Due(s, c) => s = "confirm"
             /\ take[c] \in Nat /\ take[c] <= AmountDue(booking[c])
             /\ Paid(booking[c], booking'[c], take[c], m)
             /\ m = "online" \/ booking[c].status = "completed"
  <2>1. booking[c] \in Booking /\ BookOK(booking[c]) /\ CarOK(c)
    BY LiveFacts
  <2>2. booking[c].status # "none"
    <3>1. booking[c].visit = v /\ v # 0
      BY <1>2 DEF CarsOf, Cars, MoneyAssumption
    <3> QED BY <2>1, <3>1 DEF BookOK, Unmade
  <2>3. \A s \in Steps : Due(s, c) => s = "confirm"
    <3>1. \A t \in TodoFor(S) : t[1] = "confirm"
      BY <1>3
    <3> QED BY <3>1 DEF TodoFor, Due
  <2>4. Paid(booking[c], booking'[c], take[c], m)
    <3>1. payments + 1 \in Nat
      BY DEF MoneyInv, MoneyTypeOK
    <3>2. booking'[c] = IF m = "online" THEN [Paying(booking[c], take[c], m) EXCEPT !.order = payments + 1]
                        ELSE Paying(booking[c], take[c], m)
      <4> HIDE DEF due, carry
      <4> QED BY <1>1
    <3> HIDE DEF take
    <3> QED BY <3>1, <3>2 DEF Paid
  <2>5. due[c] = AmountDue(booking[c])
    OBVIOUS
  <2> QED BY <1>3, <1>8, <2>1, <2>2, <2>3, <2>4, <2>5 DEF Methods
<1>10. ASSUME NEW c \in S
       PROVE  /\ booking'[c] \in Booking /\ BookOK(booking'[c])
              /\ held1[c] = held[c] + take[c] - (IF c \in clears THEN carry[c] ELSE 0)
              /\ owed1[c] = IF c \in clears THEN owed[c] - carry[c] ELSE owed[c]
              /\ booking'[c].status = booking[c].status /\ booking'[c].deleted = booking[c].deleted
              /\ booking'[c].pay = "refund_due" <=> booking[c].pay = "refund_due"
              /\ booking'[c].pay = "paid" => booking[c].pay = "paid" \/ take[c] > 0
  <2> DEFINE b == booking[c]
             q == booking'[c]
             x == take[c]
  <2>1. /\ q \in Booking /\ BookOK(q)
        /\ HeldBy(q) = HeldBy(b) + x - (IF ClearsCarry(b, x) THEN b.carried ELSE 0)
        /\ OpenCarry(q) = IF ClearsCarry(b, x) THEN 0 ELSE OpenCarry(b)
        /\ ClearsCarry(b, x) => OpenCarry(b) = b.carried
        /\ q.status = b.status /\ q.deleted = b.deleted
        /\ q.pay = "refund_due" <=> b.pay = "refund_due"
        /\ q.pay = "paid" => b.pay = "paid" \/ x > 0
    <3>1. /\ b \in Booking /\ BookOK(b) /\ b.status # "none" /\ ~HalfReturned(b)
          /\ x \in Nat /\ x <= AmountDue(b) /\ Paid(b, q, x, m)
      BY <1>3, <1>9
    <3> HIDE DEF b, q, x
    <3> QED BY <3>1, PayingOK
  <2>2. held1[c] = HeldBy(q) /\ held[c] = HeldBy(b) /\ owed1[c] = OpenCarry(q) /\ owed[c] = OpenCarry(b) /\ carry[c] = b.carried
    BY DEF HeldOf, CarryOf
  <2>3. c \in clears <=> ClearsCarry(b, x)
    OBVIOUS
  <2>4. b.carried \in Nat
    BY <1>9 DEF Booking
  <2> HIDE DEF held, held1, owed, owed1, carry, clears, take
  <2> QED BY <2>1, <2>2, <2>3, <2>4
<1>11. ASSUME NEW c \in Cars PROVE CarOK(c)'
  <2>1. CASE c \in S
    <3>1. \A s \in Steps : Due(s, c)' => s = "confirm"
      BY <1>6, <1>9, <2>1 DEF Due
    <3>2. Due("confirm", c) => Due("confirm", c)'
      BY <1>6 DEF Due
    <3>3. Due("confirm", c)' => ~booking'[c].deleted
      <4>1. CASE Due("confirm", c)
        BY <1>9, <1>10, <2>1, <4>1 DEF CarOK
      <4>2. CASE ~Due("confirm", c) /\ Due("confirm", c)'
        <5>1. take[c] > 0
          BY <1>6, <4>2 DEF Due
        <5>2. AmountDue(booking[c]) # 0
          BY <1>9, <2>1, <5>1
        <5> QED BY <1>10, <2>1, <5>2 DEF AmountDue
      <4> QED BY <4>1, <4>2
    <3>4. booking'[c].status = "awaiting" /\ booking'[c].pay \in {"paid", "refund_due"} => Due("confirm", c)' \/ c \in lost'
      <4>1. CASE booking[c].pay \in {"paid", "refund_due"}
        BY <1>3, <1>9, <1>10, <2>1, <3>2, <4>1 DEF CarOK
      <4>2. CASE booking[c].pay \notin {"paid", "refund_due"}
        <5> SUFFICES ASSUME booking'[c].status = "awaiting", booking'[c].pay \in {"paid", "refund_due"}
                     PROVE  Due("confirm", c)'
          OBVIOUS
        <5>1. booking'[c].pay = "paid" /\ take[c] > 0 /\ m = "online"
          BY <1>9, <1>10, <2>1, <4>2
        <5>2. Paying(booking[c], take[c], m).pay = "paid"
          <6> DEFINE p == Paying(booking[c], take[c], m)
          <6>2. Paid(booking[c], p, take[c], m)
            BY DEF Paid
          <6>1. booking'[c].pay = p.pay
            <7> HIDE DEF p, take
            <7> QED BY <1>9, <2>1, <6>2, PayingFields
          <6> QED BY <5>1, <6>1
        <5>3. c \in newlyPaid
          BY <2>1, <5>1, <5>2
        <5> HIDE DEF newlyPaid
        <5> QED BY <1>6, <5>1, <5>3 DEF Due
      <4> QED BY <4>1, <4>2
    <3> QED BY <1>3, <1>9, <1>10, <2>1, <3>1, <3>3, <3>4, OnlyConfirms
  <2>2. CASE c \notin S
    <3>1. \A s \in Steps : Due(s, c)' <=> Due(s, c)
      BY <1>6, <2>2 DEF Due
    <3>2. CarOK(c) /\ booking'[c] = booking[c]
      BY <1>5, <2>2, LiveFacts
    <3> QED BY <1>3, <3>1, <3>2, Untouched
  <2> QED BY <2>1, <2>2
<1>12. BooksOK(booking) /\ BooksOK(booking')
  BY <1>11, InvBooks DEF MoneyTypeOK, CarOK, BooksOK
<1>13. held \in Amounted /\ held1 \in Amounted /\ owed \in Amounted /\ owed1 \in Amounted
  BY <1>12, OfAmounts
<1>14. carry \in Amounted
  BY DEF Amounted, MoneyInv, MoneyTypeOK, Booking
<1>15. ASSUME NEW c \in Cars \ S PROVE held1[c] = held[c] /\ owed1[c] = owed[c] /\ take[c] = 0 /\ c \notin clears
  <2>1. due[c] = 0
    OBVIOUS
  <2>2. take[c] = 0
    BY <1>8, <2>1
  <2> QED BY <1>5, <2>2 DEF HeldOf, CarryOf
<1>25. rest \in Int
  BY <1>0
<1> HIDE DEF take, clears, newlyPaid, held, held1, owed, owed1, carry, due, rest
<1>16. mid \in Amounted /\ \A c \in Cars : mid[c] = held[c] + take[c]
  BY <1>8, <1>13 DEF Amounted
<1>17. \A c \in Cars : held1[c] = IF c \in clears THEN mid[c] - carry[c] ELSE mid[c]
  <2> TAKE c \in Cars
  <2>1. mid[c] = held[c] + take[c] /\ held[c] \in Int /\ take[c] \in Int
    BY <1>8, <1>13, <1>16 DEF Amounted
  <2>2. c \in S => held1[c] = held[c] + take[c] - (IF c \in clears THEN carry[c] ELSE 0)
    BY <1>10
  <2>3. c \notin S => held1[c] = held[c] /\ take[c] = 0 /\ c \notin clears
    BY <1>15
  <2>4. carry[c] \in Int
    BY <1>14 DEF Amounted
  <2> HIDE DEF mid
  <2> QED BY <2>1, <2>2, <2>3, <2>4
<1>18. \A c \in Cars : owed1[c] = IF c \in clears THEN owed[c] - carry[c] ELSE owed[c]
  BY <1>10, <1>15
<1> HIDE DEF mid
<1>19. /\ Total(mid) = Total(held) + Total(take)
       /\ Total(mid) = Total(held1) + SumOver(clears, carry)
       /\ Total(owed) = Total(owed1) + SumOver(clears, carry)
  BY <1>8, <1>13, <1>14, <1>16, <1>17, <1>18, TotalPlus, TotalShifts
<1>20. /\ Total(held) \in Int /\ Total(held1) \in Int /\ Total(owed) \in Int /\ Total(owed1) \in Int
       /\ Total(mid) \in Int /\ Total(take) \in Int /\ SumOver(clears, carry) \in Int
  BY <1>8, <1>13, <1>14, <1>16, TotalInt, SumOverInt
<1>21. balance \in Int /\ received \in Int /\ charged \in Int /\ carriedDue \in Int
  BY <1>0 DEF MoneyInv, MoneyTypeOK
<1>22. carriedDue' = Positive(carriedDue + (Total(owed1) - Total(owed)))
  <2>1. carriedDue - SumOver(clears, carry) = carriedDue + (Total(owed1) - Total(owed))
    BY <1>19, <1>20, <1>21
  <2> QED BY <1>4, <2>1
<1>23. received' - balance' - charged' = received - balance - charged + (Total(held1) - Total(held))
  <2>1. received' = received + amount /\ charged' = charged
    BY <1>3
  <2>2. balance' = balance + rest + SumOver(clears, carry)
    BY <1>4
  <2>3. Total(held1) - Total(held) = amount - rest - SumOver(clears, carry)
    <3>1. Total(take) = amount - rest
      BY <1>8
    <3> QED BY <1>0, <1>19, <1>20, <1>25, <3>1
  <2>4. amount \in Int
    BY <1>0
  <2>5. \A r \in Int, b \in Int, g \in Int, x \in Int, y \in Int, z \in Int :
           (r + x) - (b + y + z) - g = r - b - g + (x - y - z)
    OBVIOUS
  <2>6. (received + amount) - (balance + rest + SumOver(clears, carry)) - charged =
          received - balance - charged + (amount - rest - SumOver(clears, carry))
    BY <1>20, <1>21, <1>25, <2>4, <2>5
  <2> QED BY <2>1, <2>2, <2>3, <2>6
<1>24. Books
  BY <1>12, <1>22, <1>23, BooksMove DEF MoneyInv, held, held1, owed, owed1
<1> QED BY <1>11, <1>24 DEF CarsOK

-----------------------------------------------------------------------------
(* The theorems.                                                             *)

LEMMA MoneyInvInit == ASSUME MoneyAssumption, MoneyInit PROVE MoneyInv /\ CarriedMatches /\ MoneyConserved
<1>1. /\ booking = [c \in Cars |-> Unmade] /\ balance \in Int /\ balance \in Openings
      /\ carriedDue = 0 /\ posted = {} /\ rows = {} /\ todo = {} /\ lost = {}
      /\ payments = 0 /\ edits = 0 /\ received = balance /\ charged = 0
  BY DEF MoneyInit, MoneyAssumption
<1>2. Unmade \in Booking /\ BookOK(Unmade)
  BY UnmadeOK
<1>3. MoneyTypeOK
  BY <1>1, <1>2 DEF MoneyTypeOK, MoneyAssumption
<1>4. ASSUME NEW c \in Cars PROVE CarOK(c)
  <2>1. booking[c] = Unmade
    BY <1>1
  <2>2. Unmade.status = "none" /\ Unmade.pay = "pending"
    BY DEF Unmade
  <2> QED BY <1>1, <1>2, <2>1, <2>2 DEF CarOK, OneStep, Queued, Due
<1>5. \A c \in Cars : HeldOf(booking)[c] = 0 /\ CarryOf(booking)[c] = 0
  BY <1>1 DEF HeldOf, CarryOf, HeldBy, OpenCarry, Unmade
<1>6. HeldOf(booking) \in Amounted /\ CarryOf(booking) \in Amounted
  BY <1>3, <1>4, OfAmounts DEF BooksOK, CarOK, MoneyTypeOK
<1>7. Total(HeldOf(booking)) = 0 /\ Total(CarryOf(booking)) = 0
  BY <1>5, <1>6, TotalZero
<1>8. CarriedMatches /\ MoneyConserved
  BY <1>1, <1>7, BooksAre
<1> QED BY <1>3, <1>4, <1>8 DEF MoneyInv, CarsOK

LEMMA MoneyInvStep ==
    ASSUME MoneyAssumption, MoneyInv, Orderly, [MoneyNext]_vars PROVE MoneyInv' /\ Books
<1>1. MoneyTypeOK'
  BY MoneyTypedStep DEF MoneyInv
<1>2. ~Overlaps
  BY DEF Orderly
<1>3. CASE UNCHANGED vars
  <2>1. CarsOK'
    <3>1. ASSUME NEW c \in Cars PROVE CarOK(c)'
      BY <1>3 DEF vars, MoneyInv, CarsOK, CarOK, OneStep, Queued, Due
    <3> QED BY <3>1 DEF CarsOK
  <2>2. Books
    BY <1>3, Unmoved DEF vars
  <2> QED BY <1>1, <2>1, <2>2 DEF MoneyInv
<1>4. ASSUME NEW c \in Cars, CarStep(c) PROVE CarsOK' /\ Books
  <2>1. CASE \E v \in 1..c, p \in Prices, m \in Methods, useWallet \in BOOLEAN : Create(c, v, p, m, useWallet)
    BY <2>1, CreateStep DEF MoneyInv
  <2>2. CASE \E p \in NewPrices : ChangePrice(c, p)
    BY <1>1, <1>2, <2>2, ChangePriceStep
  <2>3. CASE SwitchToCash(c) \/ Finish(c)
    BY <2>3, StatusStep
  <2>4. CASE ManagerDone(c)
    BY <1>1, <1>2, <2>4, ManagerDoneStep
  <2>5. CASE Delete(c)
    BY <1>1, <1>2, <2>5, DeleteStep
  <2>6. CASE AfterStep(c) \/ Killed(c)
    BY <2>6, ConfirmStep, FlagStep, MarkStep, ClearStep, KilledStep DEF AfterStep
  <2> QED BY <1>4, <2>1, <2>2, <2>3, <2>4, <2>5, <2>6 DEF CarStep
<1>5. ASSUME NEW v \in Cars, VisitStep(v) PROVE CarsOK' /\ Books
  <2>1. CASE \E T \in SUBSET CarsOf(v), charge \in Charges : Cancel(v, T, charge)
    <3>1. PICK T \in SUBSET CarsOf(v), charge \in Charges : Cancel(v, T, charge)
      BY <2>1
    <3>2. CancelCars(T, charge) /\ \A c \in T : Live(c)
      BY <3>1 DEF Cancel, Unstarted
    <3>3. T \in SUBSET Cars
      BY DEF CarsOf
    <3> QED BY <1>1, <1>2, <3>2, <3>3, CancelCarsStep
  <2>2. CASE Expire(v)
    <3> DEFINE T == {c \in CarsOf(v) : Unpaid(c)}
    <3>1. CancelCars(T, 0) /\ 0 \in Charges
      BY <2>2 DEF Expire, MoneyAssumption
    <3>2. T \in SUBSET Cars /\ \A c \in T : Live(c)
      BY DEF CarsOf, Unpaid
    <3> HIDE DEF T
    <3> QED BY <1>1, <1>2, <3>1, <3>2, CancelCarsStep
  <2>3. CASE Restore(v)
    BY <1>2, <2>3, RestoreStep
  <2>4. CASE ReturnToBin(v)
    BY <2>4, ReturnToBinStep
  <2> QED BY <1>5, <2>1, <2>2, <2>3, <2>4 DEF VisitStep
<1>6. CASE \E S \in SUBSET Cars, amount \in Amounts, m \in Methods : Pay(S, amount, m)
  <2>1. PICK S \in SUBSET Cars, amount \in Amounts, m \in Methods : Pay(S, amount, m)
    BY <1>6
  <2> QED BY <1>1, <2>1, PayStep DEF MoneyInv
<1> QED BY <1>1, <1>3, <1>4, <1>5, <1>6 DEF MoneyNext, MoneyInv

\* Orderly runs keep every booking's amounts, steps and refund rows in agreement.
THEOREM MoneyInvHolds == ASSUME Orderly PROVE MoneySpec => []MoneyInv
<1>1. MoneyInit => MoneyInv
  BY MoneyAssumption, MoneyInvInit
<1>2. MoneyInv /\ [MoneyNext]_vars => MoneyInv'
  BY MoneyAssumption, MoneyInvStep
<1> QED BY <1>1, <1>2, PTL DEF MoneySpec

\* The debt that rides on unpaid bookings is what the wallet counts as carried,
\* whatever order bookings are made, paid, repriced, cancelled, deleted and restored in.
THEOREM CarriedInLine == ASSUME Orderly PROVE MoneySpec => []CarriedMatches
<1>1. MoneyInit => MoneyInv /\ CarriedMatches
  BY MoneyAssumption, MoneyInvInit
<1>2. MoneyInv /\ CarriedMatches /\ [MoneyNext]_vars => MoneyInv' /\ CarriedMatches'
  BY MoneyAssumption, MoneyInvStep DEF Books
<1> QED BY <1>1, <1>2, PTL DEF MoneySpec

\* What the customer gave is in the wallet, in a booking or was charged: nothing is lost
\* and nothing made up, as long as no bookings are given back under a key already used.
THEOREM MoneyIsConserved == ASSUME Orderly, ~KeysReused PROVE MoneySpec => []MoneyConserved
<1>1. MoneyInit => MoneyInv /\ MoneyConserved
  BY MoneyAssumption, MoneyInvInit
<1>2. MoneyInv /\ MoneyConserved /\ [MoneyNext]_vars => MoneyInv' /\ MoneyConserved'
  BY MoneyAssumption, MoneyInvStep DEF Books
<1> QED BY <1>1, <1>2, PTL DEF MoneySpec

\* A booking that is paid for waits for a payment only while the call that settled it
\* has its confirmation to make, or after that call was killed.
THEOREM PaidAreConfirmed == ASSUME Orderly PROVE MoneySpec => []PaidIsConfirmed
<1>1. MoneyInv => PaidIsConfirmed
  BY DEF MoneyInv, CarsOK, CarOK, PaidIsConfirmed, Due
<1> QED BY <1>1, MoneyInvHolds, PTL

\* A booking that was restored is neither owed back nor on the refund list once its
\* restore is through, whatever flags an earlier delete still had to raise.
THEOREM LiveAreNotRefunded == ASSUME Orderly PROVE MoneySpec => []LiveNotRefunded
<1>1. ASSUME MoneyInv PROVE LiveNotRefunded
  <2> SUFFICES ASSUME NEW c \in Cars, Live(c), TodoFor({c}) = {}
               PROVE  booking[c].pay # "refund_due" /\ \A r \in rows : r[1][2] = c => r[2]
    BY DEF LiveNotRefunded
  <2>1. CarOK(c) /\ ~booking[c].deleted
    BY <1>1 DEF MoneyInv, CarsOK, Live
  <2>2. \A s \in Steps : ~Due(s, c)
    BY DEF TodoFor, Due
  <2>3. ~Due("clear", c) /\ ~Due("unmark", c)
    BY <2>2 DEF Steps
  <2> QED BY <2>1, <2>3 DEF CarOK, Queued
<1>2. MoneyInv => LiveNotRefunded
  BY <1>1
<1> QED BY <1>2, MoneyInvHolds, PTL

=============================================================================
