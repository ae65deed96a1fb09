------------------------- MODULE PaymentOrdersProofs -------------------------
(***************************************************************************)
(* Proofs about PaymentOrders, for any number of orders, payments and      *)
(* calls: an order is settled once, by captured money, and a payment       *)
(* counts once.                                                            *)
(***************************************************************************)
EXTENDS PaymentOrders, TLAPS

Done == {"paid", "attention"}

\* What a payment is for exists, and every payment a call has in hand is for
\* the order it has in hand.
TodoIsMoney ==
  /\ \A m \in Payments : gateway[m].status # "none" =>
        gateway[m].order \in Docs /\ orders[gateway[m].order].status # "none"
  /\ \A p \in Procs : \A m \in call[p].todo : Captured(m) /\ gateway[m].order = call[p].order
  /\ \A p \in Procs : call[p].step \in {"ask", "capture"} => call[p].todo = {}
  /\ \A p \in Procs : call[p].step \in {"capture", "outcome", "row", "credit"} =>
        /\ call[p].payment \in Payments /\ gateway[call[p].payment].status # "none"
        /\ gateway[call[p].payment].order = call[p].order
  /\ \A p \in Procs : call[p].step \in {"outcome", "row", "credit"} => Captured(call[p].payment)

\* A payment found late is for a checkout order that is done.
LateIsLate(m, o) ==
  /\ m \in Payments /\ Captured(m) /\ gateway[m].order = o
  /\ orders[o].kind = "checkout" /\ orders[o].status \in Done

\* A payment with a row is not the one that settled its order.
SecondIsSecond ==
  /\ \A o \in Docs : orders[o].status = "voided" => orders[o].kind = "link"
  /\ \A p \in Procs : call[p].step \in {"outcome", "row", "credit"} =>
        LateIsLate(call[p].payment, call[p].order)
  /\ \A p \in Procs : call[p].step = "row" => orders[call[p].order].payment # call[p].payment
  /\ \A m \in rows : /\ LateIsLate(m, gateway[m].order)
                     /\ orders[gateway[m].order].payment # m

\* Captured money paid every order that is done.
DoneIsPaid ==
  \A o \in Docs : orders[o].status \in Done =>
     /\ orders[o].payment \in Payments
     /\ Captured(orders[o].payment) /\ gateway[orders[o].payment].order = o

\* An order is marked as settling, and paid, while a call settles it; past
\* the apply its money is on the booking.
Marked ==
  /\ \A o \in Docs : orders[o].settling => orders[o].status = "paid"
  /\ \A p \in Procs : call[p].step \in Settling => orders[call[p].order].settling
  /\ \A p \in Procs : call[p].step \in {"confirm", "void", "finish"} => call[p].order \in applied

\* Only an open or voided order gets another status than paid or attention.
NoPaymentYet ==
  \A o \in Docs : orders[o].payment # NoPayment => orders[o].status \in Done

\* The minter holds the lock, and when it inserts there is nothing to reuse.
MinterAlone ==
  /\ \A p \in Procs : call[p].step \in {"look", "insert"} => mintLock = p
  /\ \A p \in Procs : call[p].step = "insert" => Reusable(call[p].amount) = {}

\* The order that paid the booking's last rupee is parked, or nobody has
\* settled it further than its confirmation.
Noticed ==
  booking = "awaiting" /\ due = 0 =>
     \E o \in Docs :
        \/ orders[o].status = "attention"
        \/ /\ orders[o].settling
           /\ \A p \in Procs : call[p].step \in Settling /\ call[p].order = o => call[p].step = "confirm"

---------------------------------------------------------------------------
(* What a call becomes.                                                    *)

LEMMA IdleIs == Idle \in Call /\ Idle.step = "idle" /\ Idle.todo = {}
  BY OrdersAssumption DEF Idle, Call, Steps, Vias

\* Where a call goes on, without what it forgets.
LEMMA OnwardIs ==
  ASSUME NEW c \in Call, c.todo # {} => c.order \in Docs
  PROVE  /\ Onward(c) \in Call
         /\ Onward(c).step \in {"settle", "ask", "quote", "check", "idle"}
         /\ Onward(c).step \in InHand => Onward(c).order \in Docs
         /\ Onward(c).todo \subseteq c.todo
         /\ Onward(c).todo # {} => Onward(c).order = c.order /\ Onward(c).step = "settle"
  <1>. USE DEF Onward, Call, Steps, Settling, InHand
  <1>1. CASE c.todo # {}
    BY <1>1
  <1>2. CASE c.todo = {} /\ c.docs # {}
    BY <1>2
  <1>3. CASE c.todo = {} /\ c.docs = {}
    BY <1>3, IdleIs
  <1>. QED BY <1>1, <1>2, <1>3

LEMMA HearingIs ==
  ASSUME NEW c \in Call, NEW a \in {"open", "pending", "paid"}
  PROVE  /\ Hearing(c, a) \in Call
         /\ Hearing(c, a).step = c.step /\ Hearing(c, a).order = c.order
         /\ Hearing(c, a).todo = c.todo /\ Hearing(c, a).payment = c.payment
         /\ Hearing(c, a).amount = c.amount
  BY DEF Hearing, Call

LEMMA GoingIs ==
  ASSUME NEW p \in Procs, NEW c, call \in [Procs -> Call], Goto(p, c)
  PROVE  /\ call'[p] = c
         /\ \A q \in Procs : q # p => call'[q] = call[q]
         /\ c \in Call => call' \in [Procs -> Call]
  BY DEF Goto

---------------------------------------------------------------------------
(* What no step takes back. *)

\* A payment keeps its order and stays captured; an order keeps its kind and
\* amount, stays done and keeps the payment that settled it.
Keeps ==
  /\ \A m \in Payments : gateway[m].status # "none" =>
        gateway'[m].status # "none" /\ gateway'[m].order = gateway[m].order
  /\ \A m \in Payments : Captured(m) => Captured(m)'
  /\ \A o \in Docs : orders[o].status # "none" =>
        /\ orders'[o].status # "none"
        /\ orders'[o].kind = orders[o].kind /\ orders'[o].amount = orders[o].amount
  /\ \A o \in Docs : orders[o].status \in Done =>
        /\ orders'[o].status \in Done /\ orders'[o].payment = orders[o].payment
        /\ orders[o].status = "attention" => orders'[o].status = "attention"
  /\ applied \subseteq applied'

LEMMA VoidingKeeps ==
  ASSUME OrdersTypeOK, NEW keep, VoidSome(keep)
  PROVE  /\ orders' \in [Docs -> Order] /\ dead' \subseteq Docs
         /\ \A o \in Docs : orders'[o] = orders[o] \/
              /\ orders[o].kind = "link" /\ orders[o].status = "created"
              /\ orders'[o].kind = "link" /\ orders'[o].status = "voided"
              /\ orders'[o].amount = orders[o].amount /\ orders'[o].payment = orders[o].payment
              /\ orders'[o].settling = orders[o].settling
  <1>. DEFINE gone == {o \in OpenLinks : AtGateway(o, "captured") = {}} \ keep
  <1>1. /\ orders' = [o \in Docs |-> IF o \in gone THEN [orders[o] EXCEPT !.status = "voided"]
                                                   ELSE orders[o]]
        /\ dead' = dead \cup gone
    BY DEF VoidSome
  <1>2. \A o \in gone : o \in Docs /\ orders[o].kind = "link" /\ orders[o].status = "created"
    BY DEF OpenLinks
  <1>. HIDE DEF gone
  <1>3. ASSUME NEW o \in Docs, o \in gone
        PROVE  /\ orders'[o] = [orders[o] EXCEPT !.status = "voided"] /\ orders[o] \in Order
               /\ orders'[o] \in Order /\ orders[o].kind = "link" /\ orders[o].status = "created"
    BY <1>1, <1>2, <1>3 DEF OrdersTypeOK, Order, Statuses
  <1>4. ASSUME NEW o \in Docs, o \notin gone PROVE orders'[o] = orders[o]
    BY <1>1, <1>4
  <1>5. orders' \in [Docs -> Order]
    BY <1>1, <1>3, <1>4 DEF OrdersTypeOK
  <1>6. dead' \subseteq Docs
    BY <1>1, <1>2 DEF OrdersTypeOK
  <1>. QED BY <1>3, <1>4, <1>5, <1>6 DEF Order

LEMMA StepKeeps ==
  ASSUME OrdersTypeOK, OrdersNext
  PROVE  Keeps
  <1>. USE DEF Keeps, OrdersTypeOK, Done, Captured, Order, GatewayPayment, orderVars, moneyVars, gatewayVars
  <1>1. CASE UNCHANGED <<orders, gateway, applied>>
    BY <1>1
  <1>2. ASSUME NEW keep, VoidSome(keep), UNCHANGED <<gateway, applied>> PROVE Keeps
    <2>1. \A o \in Docs : \/ orders'[o] = orders[o]
                          \/ /\ orders[o].status = "created" /\ orders'[o].status = "voided"
                             /\ orders'[o].kind = orders[o].kind /\ orders'[o].amount = orders[o].amount
      BY <1>2, VoidingKeeps
    <2>2. \A o \in Docs : orders[o].status # "none" =>
            /\ orders'[o].status # "none"
            /\ orders'[o].kind = orders[o].kind /\ orders'[o].amount = orders[o].amount
      BY <2>1
    <2>3. \A o \in Docs : orders[o].status \in Done =>
            /\ orders'[o].status \in Done /\ orders'[o].payment = orders[o].payment
            /\ orders[o].status = "attention" => orders'[o].status = "attention"
      BY <2>1
    <2>. QED BY <1>2, <2>2, <2>3
  <1>3. ASSUME NEW p \in Procs, StepOf(p) PROVE Keeps
    <2>1. ASSUME NEW o \in Docs, AskAbout(p, o) PROVE Keeps
      <3>1. UNCHANGED <<gateway, applied>>
        BY <2>1 DEF AskAbout
      <3>2. \/ UNCHANGED orders
            \/ orders[o].status = "created" /\ orders' = [orders EXCEPT ![o].status = "voided"]
        BY <2>1 DEF AskAbout
      <3>. QED BY <3>1, <3>2
    <2>2. CASE Capture(p)
      BY <1>1, <2>2 DEF Capture
    <2>3. CASE Settle(p)
      <3>1. PICK m \in call[p].todo : \/ /\ Claimable(call[p].order) /\ orders' = Claim(call[p].order, m)
                                        \/ UNCHANGED orders
        BY <2>3 DEF Settle
      <3>2. UNCHANGED <<gateway, applied>>
        BY <2>3 DEF Settle
      <3>. QED BY <3>1, <3>2 DEF Claim, Claimable, IsOpen, Payable
    <2>4. CASE Apply(p)
      BY <2>4 DEF Apply
    <2>5. CASE VoidLinks(p) \/ ExpiryCheck(p)
      BY <1>1, <1>2, <2>5 DEF VoidLinks, ExpiryCheck
    <2>6. CASE Finish(p)
      BY <2>6 DEF Finish
    <2>7. CASE Fails(p)
      BY <2>7 DEF Fails, Parked
    <2>8. CASE InsertOrder(p) \/ InsertLink(p)
      BY <2>8 DEF InsertOrder, InsertLink, Minted
    <2>9. CASE Unreachable(p) \/ Outcome(p) \/ RecordRow(p) \/ CreditWallet(p) \/ Confirm(p) \/ Quote(p)
               \/ TakeLock(p) \/ GiveUpLock(p) \/ LookForOpen(p) \/ MintFails(p) \/ Release(p)
      BY <1>1, <2>9 DEF Unreachable, Outcome, RecordRow, CreditWallet, Confirm, Quote,
               TakeLock, GiveUpLock, LookForOpen, MintFails, Release
    <2>. QED BY <1>3, <2>1, <2>2, <2>3, <2>4, <2>5, <2>6, <2>7, <2>8, <2>9 DEF StepOf
  <1>4. ASSUME NEW p \in Requests, Arrive(p) PROVE Keeps
    BY <1>1, <1>4 DEF Arrive, Verify, Webhook, Poll, CreateOrder, CreateLink
  <1>5. ASSUME NEW p \in Procs, Kill(p) PROVE Keeps
    BY <1>1, <1>5 DEF Kill
  <1>6. CASE SweepOrders
    BY <1>6 DEF SweepOrders, Parked
  <1>7. CASE SweepLinks \/ ExpireUnpaid
    BY <1>1, <1>7 DEF SweepLinks, ExpireUnpaid
  <1>8. CASE World
    <2>1. ASSUME NEW m \in Payments, NEW o \in Docs, CustomerPays(m, o) PROVE Keeps
      BY <2>1 DEF CustomerPays
    <2>2. ASSUME NEW m \in Payments, GatewayReturns(m) PROVE Keeps
      BY <2>2 DEF GatewayReturns
    <2>3. CASE PriceRises
      BY <1>1, <2>3 DEF PriceRises
    <2>4. CASE CaptainCash \/ SwitchToCash \/ CustomerCancels
      BY <1>2, <2>4 DEF CaptainCash, SwitchToCash, CustomerCancels
    <2>5. ASSUME NEW o \in Docs, BadSignature(o) PROVE Keeps
      BY <2>5 DEF BadSignature
    <2>. QED BY <1>8, <2>1, <2>2, <2>3, <2>4, <2>5 DEF World
  <1>. QED BY <1>3, <1>4, <1>5, <1>6, <1>7, <1>8 DEF OrdersNext

---------------------------------------------------------------------------
(* A call and the money it has in hand. *)

\* A call's record makes sense with the gateway as it is.
HandOK(c, g) ==
  /\ c \in Call
  /\ c.step \in InHand => c.order \in Docs
  /\ \A m \in c.todo : g[m].status = "captured" /\ g[m].order = c.order /\ c.order \in Docs
  /\ c.step \in {"ask", "capture"} => c.todo = {}
  /\ c.step \in {"capture", "outcome", "row", "credit"} =>
        c.payment \in Payments /\ g[c.payment].status # "none" /\ g[c.payment].order = c.order
  /\ c.step \in {"outcome", "row", "credit"} => g[c.payment].status = "captured"

\* The steps at which a call decides nothing of an order or the mint lock.
Aside == {"settle", "ask", "quote", "check", "idle", "capture", "lock", "release", "insertLink"}

\* The steps of a settlement after its claim, of a second payment, of a mint.
Along(s, t) ==
  \/ s = "apply" /\ t \in {"confirm", "finish"}
  \/ s = "confirm" /\ t = "void"
  \/ s = "void" /\ t = "finish"
  \/ s = "outcome" /\ t = "row"
  \/ s = "row" /\ t = "credit"
  \/ s = "lock" /\ t = "look"
  \/ s = "look" /\ t = "insert"

\* How a call goes from b to c: aside, by a claim, or along.
Leads(b, c) ==
  \/ c.step \in Aside
  \/ c.order = b.order /\ b.step = "settle" /\ c.step \in {"apply", "outcome"}
  \/ c.order = b.order /\ c.payment = b.payment /\ c.amount = b.amount /\ Along(b.step, c.step)

GoesTo(b, c, g) == HandOK(c, g) /\ Leads(b, c)

LEMMA OnwardHand ==
  ASSUME NEW c \in Call, NEW g,
         \A m \in c.todo : g[m].status = "captured" /\ g[m].order = c.order /\ c.order \in Docs
  PROVE  HandOK(Onward(c), g) /\ Onward(c).step \in Aside
  BY OnwardIs DEF HandOK, Aside

LEMMA SkipHand ==
  ASSUME NEW c \in Call, c.todo = {}, NEW D \in SUBSET Docs, NEW g
  PROVE  HandOK(Onward([c EXCEPT !.docs = D]), g) /\ Onward([c EXCEPT !.docs = D]).step \in Aside
  <1>. DEFINE d == [c EXCEPT !.docs = D]
  <1>1. d \in Call /\ d.todo = {}
    BY DEF Call
  <1>. HIDE DEF d
  <1>2. HandOK(Onward(d), g) /\ Onward(d).step \in Aside
    BY <1>1, OnwardHand
  <1>. QED BY <1>2 DEF d

LEMMA AlongHand ==
  ASSUME NEW c \in Call, NEW g, HandOK(c, g), NEW t, Along(c.step, t)
  PROVE  GoesTo(c, [c EXCEPT !.step = t], g)
  <1>. DEFINE d == [c EXCEPT !.step = t]
  <1>1. /\ d \in Call /\ d.step = t /\ d.order = c.order /\ d.payment = c.payment
        /\ d.amount = c.amount /\ d.todo = c.todo
    BY DEF Call, Steps, Settling, Along
  <1>2. /\ c.step \notin {"ask", "capture"} /\ t \notin {"ask", "capture"}
        /\ t \in InHand => c.step \in InHand
        /\ t \in {"capture", "outcome", "row", "credit"} => c.step \in {"outcome", "row", "credit"}
    BY DEF Along, InHand, Settling
  <1>. HIDE DEF d
  <1>3. HandOK(d, g) /\ Leads(c, d)
    BY <1>1, <1>2 DEF HandOK, Leads, Along
  <1>. QED BY <1>3 DEF d, GoesTo

LEMMA HandNow ==
  ASSUME OrdersTypeOK, TodoIsMoney, NEW p \in Procs
  PROVE  HandOK(call[p], gateway)
  <1>1. \A m \in call[p].todo : m \in Payments
    BY DEF OrdersTypeOK, Call
  <1>. QED BY <1>1 DEF OrdersTypeOK, TodoIsMoney, HandOK, Captured

\* The record with which a report or a sweep starts.
LEMMA ReadingIs ==
  ASSUME NEW via \in Vias, NEW docs \in SUBSET Docs, NEW g
  PROVE  HandOK(Reading(via, docs), g) /\ Reading(via, docs).step \in Aside
  <1>1. [Idle EXCEPT !.via = via, !.docs = docs] \in Call
    BY IdleIs DEF Call
  <1>2. [Idle EXCEPT !.via = via, !.docs = docs].todo = {}
    BY DEF Idle
  <1>. QED BY <1>1, <1>2, OnwardHand DEF Reading

\* One step of a call leaves it with money in hand that is captured.
LEMMA StepHand ==
  ASSUME OrdersTypeOK, TodoIsMoney, NEW p \in Procs, StepOf(p)
  PROVE  \E c : Goto(p, c) /\ GoesTo(call[p], c, gateway')
  <1>. DEFINE G(c) == Goto(p, c) /\ GoesTo(call[p], c, gateway')
  <1>0. HandOK(call[p], gateway)
    BY HandNow
  <1>. USE DEF GoesTo, HandOK, Leads, Aside, InHand, Settling
  <1>1. ASSUME NEW o \in Docs, AskAbout(p, o) PROVE \E c : G(c)
    <2>. DEFINE a == [call[p] EXCEPT !.docs = @ \ {o}, !.order = o]
                b == [a EXCEPT !.todo = AtGateway(o, "captured")]
    <2>1. a \in Call /\ a.order = o
      BY <1>0 DEF Call
    <2>2. gateway' = gateway
      BY <1>1 DEF AskAbout
    <2>3. \/ Goto(p, Onward(b))
          \/ \E m \in AtGateway(o, "authorized") : Goto(p, [a EXCEPT !.step = "capture", !.payment = m])
      BY <1>1 DEF AskAbout
    <2>4. CASE Goto(p, Onward(b))
      <3>1. b \in Call /\ b.order = o /\ b.todo = AtGateway(o, "captured")
        BY <2>1 DEF Call, AtGateway
      <3>2. \A m \in b.todo : gateway[m].status = "captured" /\ gateway[m].order = b.order /\ b.order \in Docs
        BY <3>1 DEF AtGateway
      <3>. HIDE DEF b
      <3>3. GoesTo(call[p], Onward(b), gateway)
        BY <3>1, <3>2, OnwardHand
      <3>. QED BY <2>2, <2>4, <3>3
    <2>5. ASSUME NEW m \in AtGateway(o, "authorized"), Goto(p, [a EXCEPT !.step = "capture", !.payment = m])
          PROVE  \E c : G(c)
      <3>1. m \in Payments /\ gateway[m].order = o /\ gateway[m].status # "none"
        BY DEF AtGateway
      <3>. DEFINE d == [a EXCEPT !.step = "capture", !.payment = m]
      <3>2. call[p].todo = {}
        BY <1>0, <1>1 DEF AskAbout
      <3>3. GoesTo(call[p], d, gateway)
        BY <2>1, <3>1, <3>2 DEF Call, Steps
      <3>. QED BY <2>2, <2>5, <3>3
    <2>. QED BY <2>3, <2>4, <2>5
  <1>2. CASE Unreachable(p)
    <2>1. gateway' = gateway /\ call[p] \in Call /\ call[p].todo = {} /\ call[p].docs \in SUBSET Docs
      BY <1>0, <1>2 DEF Unreachable, Call, gatewayVars
    <2>2. GoesTo(call[p], Idle, gateway)
      BY IdleIs
    <2>3. \/ Goto(p, Onward([call[p] EXCEPT !.docs = {}])) \/ Goto(p, Idle)
          \/ \E o \in call[p].docs : Goto(p, Onward([call[p] EXCEPT !.docs = @ \ {o}]))
      BY <1>2 DEF Unreachable
    <2>. HIDE DEF GoesTo, HandOK, Leads, Aside
    <2>4. GoesTo(call[p], Onward([call[p] EXCEPT !.docs = {}]), gateway)
      BY <2>1, SkipHand DEF GoesTo, Leads
    <2>5. \A o \in call[p].docs : GoesTo(call[p], Onward([call[p] EXCEPT !.docs = @ \ {o}]), gateway)
      <3>. TAKE o \in call[p].docs
      <3>. DEFINE D == call[p].docs \ {o}
      <3>1. GoesTo(call[p], Onward([call[p] EXCEPT !.docs = D]), gateway)
        BY <2>1, SkipHand DEF GoesTo, Leads
      <3>. QED BY <3>1
    <2>. QED BY <2>1, <2>2, <2>3, <2>4, <2>5
  <1>3. CASE Capture(p)
    <2>. DEFINE m == call[p].payment
                b == [call[p] EXCEPT !.todo = {m}]
    <2>1. /\ call[p].todo = {} /\ call[p].order \in Docs /\ call[p] \in Call
          /\ m \in Payments /\ gateway[m].order = call[p].order
      BY <1>0, <1>3 DEF Capture
    <2>2. GoesTo(call[p], Onward(call[p]), gateway)
      <3>. HIDE DEF GoesTo, HandOK, Leads, Aside
      <3>1. HandOK(Onward(call[p]), gateway) /\ Onward(call[p]).step \in Aside
        BY <2>1, OnwardHand
      <3>. QED BY <3>1 DEF GoesTo, Leads
    <2>3. GoesTo(call[p], Onward(Hearing(call[p], "pending")), gateway)
      <3>. DEFINE h == Hearing(call[p], "pending")
      <3>1. h \in Call /\ h.todo = {}
        BY <2>1, HearingIs
      <3>. HIDE DEF h
      <3>2. GoesTo(call[p], Onward(h), gateway)
        BY <3>1, OnwardHand
      <3>. QED BY <3>2 DEF h
    <2>4. CASE gateway' = gateway /\ Goto(p, Onward(call[p]))
      BY <2>2, <2>4
    <2>5. CASE gateway' = gateway /\ Goto(p, Onward(Hearing(call[p], "pending")))
      BY <2>3, <2>5
    <2>6. CASE gateway' = [gateway EXCEPT ![m].status = "captured"] /\ Goto(p, Onward(b))
      <3>1. gateway'[m].status = "captured" /\ gateway'[m].order = call[p].order
        BY <2>1, <2>6 DEF OrdersTypeOK, GatewayPayment
      <3>2. b \in Call /\ b.todo = {m} /\ b.order = call[p].order
        BY <2>1 DEF Call
      <3>3. GoesTo(call[p], Onward(b), gateway')
        <4>. HIDE DEF b, m
        <4>. QED BY <2>1, <3>1, <3>2, OnwardHand
      <3>. QED BY <2>6, <3>3
    <2>. QED BY <1>3, <2>4, <2>5, <2>6 DEF Capture
  <1>4. CASE Settle(p)
    <2>1. PICK m \in call[p].todo :
            LET c == Hearing([call[p] EXCEPT !.todo = @ \ {m}], "paid")
            IN  \/ Goto(p, [c EXCEPT !.step = "apply"])
                \/ Goto(p, Onward(c))
                \/ Goto(p, [c EXCEPT !.step = "outcome", !.payment = m])
      BY <1>4 DEF Settle
    <2>. DEFINE b == [call[p] EXCEPT !.todo = @ \ {m}]
                c == Hearing(b, "paid")
    <2>2. gateway' = gateway /\ call[p].step = "settle" /\ call[p].order \in Docs /\ m \in Payments
      BY <1>0, <1>4 DEF Settle, Call, gatewayVars
    <2>3. b \in Call /\ b.todo = call[p].todo \ {m} /\ b.order = call[p].order
      BY <1>0 DEF Call
    <2>4. c \in Call /\ c.todo = call[p].todo \ {m} /\ c.order = call[p].order
      <3>. HIDE DEF b
      <3>. QED BY <2>3, HearingIs
    <2>5. \A n \in c.todo : gateway[n].status = "captured" /\ gateway[n].order = c.order /\ c.order \in Docs
      BY <1>0, <2>4
    <2>. HIDE DEF c
    <2>6. GoesTo(call[p], Onward(c), gateway)
      BY <2>4, <2>5, OnwardHand
    <2>7. GoesTo(call[p], [c EXCEPT !.step = "apply"], gateway)
      BY <2>2, <2>4, <2>5 DEF Call, Steps
    <2>9. GoesTo(call[p], [c EXCEPT !.step = "outcome", !.payment = m], gateway)
      <3>. DEFINE d == [c EXCEPT !.step = "outcome", !.payment = m]
      <3>1. d \in Call /\ d.step = "outcome" /\ d.payment = m /\ d.todo = c.todo /\ d.order = c.order
        BY <2>2, <2>4 DEF Call, Steps
      <3>. HIDE DEF d
      <3>2. gateway[m].status = "captured" /\ gateway[m].order = call[p].order
        BY <1>0
      <3>3. GoesTo(call[p], d, gateway)
        BY <2>2, <2>4, <2>5, <3>1, <3>2
      <3>. QED BY <3>3 DEF d
    <2>8. \/ Goto(p, [c EXCEPT !.step = "apply"]) \/ Goto(p, Onward(c))
          \/ Goto(p, [c EXCEPT !.step = "outcome", !.payment = m])
      BY <2>1 DEF c
    <2>. HIDE DEF GoesTo, HandOK, Leads, Aside
    <2>. QED BY <2>2, <2>6, <2>7, <2>8, <2>9
  <1>5. CASE Outcome(p) \/ RecordRow(p) \/ CreditWallet(p) \/ Apply(p) \/ Confirm(p) \/ VoidLinks(p) \/ Finish(p) \/ Fails(p)
    <2>1. gateway' = gateway /\ call[p] \in Call /\ call[p].step \in InHand /\ call[p].step # "capture"
      BY <1>0, <1>5 DEF Outcome, RecordRow, CreditWallet, Apply, Confirm, VoidLinks, Finish, Fails, gatewayVars
    <2>2. \/ Goto(p, Onward(call[p]))
          \/ \E t : Goto(p, [call[p] EXCEPT !.step = t]) /\ Along(call[p].step, t)
      BY <1>5 DEF Outcome, RecordRow, CreditWallet, Apply, Confirm, VoidLinks, Finish, Fails, Along
    <2>3. GoesTo(call[p], Onward(call[p]), gateway)
      BY <1>0, <2>1, OnwardHand
    <2>. HIDE DEF GoesTo, HandOK, Leads, Aside
    <2>4. \A t : Along(call[p].step, t) => GoesTo(call[p], [call[p] EXCEPT !.step = t], gateway)
      BY <1>0, <2>1, AlongHand
    <2>. QED BY <2>1, <2>2, <2>3, <2>4
  <1>6. CASE Quote(p) \/ TakeLock(p) \/ GiveUpLock(p) \/ LookForOpen(p) \/ InsertOrder(p) \/ InsertLink(p)
             \/ MintFails(p) \/ ExpiryCheck(p) \/ Release(p)
    <2>1. gateway' = gateway /\ call[p] \in Call /\ due \in 0..MaxDue
      BY <1>0, <1>6 DEF Quote, TakeLock, GiveUpLock, LookForOpen, InsertOrder, InsertLink, MintFails,
                        ExpiryCheck, Release, gatewayVars, OrdersTypeOK
    <2>2. \/ Goto(p, Idle)
          \/ \E t : Goto(p, [call[p] EXCEPT !.step = t]) /\ Along(call[p].step, t)
          \/ \E s \in {"lock", "release"}, a \in 0..MaxDue : Goto(p, [call[p] EXCEPT !.step = s, !.amount = a, !.found = "open"])
          \/ Goto(p, [call[p] EXCEPT !.step = "release", !.found = "open"])
      BY <1>6, <2>1 DEF Quote, TakeLock, GiveUpLock, LookForOpen, InsertOrder, InsertLink, MintFails,
                        ExpiryCheck, Release, Call, Along
    <2>3. GoesTo(call[p], Idle, gateway)
      BY IdleIs
    <2>4. \A t : Along(call[p].step, t) => GoesTo(call[p], [call[p] EXCEPT !.step = t], gateway)
      <3>. HIDE DEF GoesTo, HandOK, Leads, Aside
      <3>. QED BY <1>0, <2>1, AlongHand
    <2>5. ASSUME NEW s \in {"lock", "release"}, NEW a \in 0..MaxDue
          PROVE  GoesTo(call[p], [call[p] EXCEPT !.step = s, !.amount = a, !.found = "open"], gateway)
      <3>. DEFINE d == [call[p] EXCEPT !.step = s, !.amount = a, !.found = "open"]
      <3>1. d \in Call /\ d.step = s /\ d.todo = call[p].todo /\ d.order = call[p].order
        BY <2>1 DEF Call, Steps
      <3>. HIDE DEF d
      <3>2. GoesTo(call[p], d, gateway)
        BY <1>0, <3>1
      <3>. QED BY <3>2 DEF d
    <2>6. GoesTo(call[p], [call[p] EXCEPT !.step = "release", !.found = "open"], gateway)
      <3>. DEFINE d == [call[p] EXCEPT !.step = "release", !.found = "open"]
      <3>1. d \in Call /\ d.step = "release" /\ d.todo = call[p].todo /\ d.order = call[p].order
        BY <2>1 DEF Call, Steps
      <3>. HIDE DEF d
      <3>2. GoesTo(call[p], d, gateway)
        BY <1>0, <3>1
      <3>. QED BY <3>2 DEF d
    <2>. HIDE DEF GoesTo, HandOK, Leads, Aside
    <2>. QED BY <2>1, <2>2, <2>3, <2>4, <2>5, <2>6
  <1>. HIDE DEF GoesTo, HandOK, Leads, Aside
  <1>. QED BY <1>1, <1>2, <1>3, <1>4, <1>5, <1>6 DEF StepOf

\* The same of every step: one call moves, or none.
LEMMA NextHand ==
  ASSUME OrdersTypeOK, TodoIsMoney, OrdersNext
  PROVE  call' = call \/ \E p \in Procs : \E c : Goto(p, c) /\ GoesTo(call[p], c, gateway')
  <1>. DEFINE Moves == \E p \in Procs : \E c : Goto(p, c) /\ GoesTo(call[p], c, gateway')
  <1>0. gateway \in [Payments -> GatewayPayment] /\ due \in 0..MaxDue /\ Requests \subseteq Procs /\ Loop \in Procs
    BY DEF OrdersTypeOK, Procs
  <1>1. ASSUME NEW p \in Procs, StepOf(p) PROVE Moves
    BY <1>1, StepHand
  <1>2. ASSUME NEW p \in Requests, NEW m \in Payments, Verify(p, m) \/ Webhook(p, m) PROVE Moves
    <2>. DEFINE o == gateway[m].order
                c == [Idle EXCEPT !.via = "report", !.order = o, !.step = "settle", !.todo = {m}]
                d == [Idle EXCEPT !.via = "report", !.order = o, !.step = "capture", !.payment = m]
    <2>1. gateway' = gateway /\ o \in Docs /\ gateway[m].status # "none" /\ ((Goto(p, c) /\ Captured(m)) \/ Goto(p, d))
      BY <1>0, <1>2 DEF Verify, Webhook, gatewayVars, TodoIsMoney, Captured
    <2>2. /\ c \in Call /\ c.step = "settle" /\ c.order = o /\ c.todo = {m}
          /\ d \in Call /\ d.step = "capture" /\ d.order = o /\ d.todo = {} /\ d.payment = m
      BY <2>1, IdleIs DEF Call, Steps, Vias, Idle
    <2>. HIDE DEF c, d
    <2>3. Captured(m) => GoesTo(call[p], c, gateway)
      BY <2>1, <2>2 DEF GoesTo, Leads, Aside, HandOK, Captured, InHand, Settling
    <2>4. GoesTo(call[p], d, gateway)
      BY <2>1, <2>2 DEF GoesTo, Leads, Aside, HandOK, InHand, Settling
    <2>. QED BY <1>0, <2>1, <2>3, <2>4
  <1>3. ASSUME NEW p \in Requests, NEW o \in Docs, Poll(p, o) PROVE Moves
    <2>1. GoesTo(call[p], Reading("report", {o}), gateway)
      BY ReadingIs DEF Vias, GoesTo, Leads
    <2>. QED BY <1>0, <1>3, <2>1 DEF Poll, gatewayVars
  <1>4. ASSUME NEW p \in Requests, CreateOrder(p) PROVE Moves
    <2>. DEFINE r == Reading("create", OpenPayments)
    <2>1. HandOK(r, gateway) /\ r.step \in Aside
      BY ReadingIs DEF Vias, OpenPayments
    <2>. HIDE DEF r
    <2>2. GoesTo(call[p], [r EXCEPT !.amount = due], gateway)
      BY <1>0, <2>1 DEF GoesTo, Leads, Aside, HandOK, Call
    <2>. QED BY <1>0, <1>4, <2>2 DEF CreateOrder, gatewayVars, r
  <1>5. ASSUME NEW p \in Requests, CreateLink(p) PROVE Moves
    <2>. DEFINE d == [Idle EXCEPT !.step = "insertLink", !.amount = due]
    <2>1. d \in Call /\ d.step = "insertLink" /\ d.todo = {}
      BY <1>0, IdleIs DEF Call, Steps, Idle
    <2>2. GoesTo(call[p], d, gateway)
      <3>. HIDE DEF d
      <3>. QED BY <2>1 DEF GoesTo, Leads, Aside, HandOK, InHand, Settling
    <2>. QED BY <1>0, <1>5, <2>2 DEF CreateLink, gatewayVars
  <1>6. ASSUME NEW p \in Procs, Kill(p) PROVE Moves
    BY <1>6, IdleIs DEF Kill, GoesTo, Leads, Aside, HandOK, gatewayVars, InHand, Settling
  <1>7. CASE SweepOrders \/ SweepLinks \/ ExpireUnpaid
    <2>1. \E via \in Vias, docs \in SUBSET Docs : Goto(Loop, Reading(via, docs))
      BY <1>7 DEF SweepOrders, SweepLinks, ExpireUnpaid, OpenPayments, OpenLinks, Vias
    <2>2. gateway' = gateway
      BY <1>7 DEF SweepOrders, SweepLinks, ExpireUnpaid, gatewayVars
    <2>. QED BY <1>0, <2>1, <2>2, ReadingIs DEF GoesTo, Leads
  <1>8. CASE World
    BY <1>8 DEF World, GatewayReturns, CustomerPays, PriceRises, CaptainCash, SwitchToCash, CustomerCancels, BadSignature
  <1>. QED BY <1>1, <1>2, <1>3, <1>4, <1>5, <1>6, <1>7, <1>8 DEF OrdersNext, Arrive

---------------------------------------------------------------------------
(* The type invariant, with what a call has in hand. *)

LEMMA MintedIs ==
  ASSUME NEW k \in Kinds, NEW a \in 0..MaxDue
  PROVE  Minted(k, a) \in Order /\ Minted(k, a).kind = k /\ Minted(k, a).amount = a
         /\ Minted(k, a).status = "created" /\ Minted(k, a).payment = NoPayment /\ ~Minted(k, a).settling
  BY DEF Minted, Order, Statuses

LEMMA ParkedIs ==
  ASSUME OrdersTypeOK, NEW o \in Docs
  PROVE  /\ Parked(o) \in Order /\ Parked(o).status = "attention" /\ ~Parked(o).settling
         /\ Parked(o).kind = orders[o].kind /\ Parked(o).payment = orders[o].payment
         /\ Parked(o).amount = orders[o].amount
  BY DEF Parked, OrdersTypeOK, Order, Statuses

LEMMA TypesInit == OrdersInit => OrdersTypeOK /\ TodoIsMoney
  <1>. SUFFICES ASSUME OrdersInit PROVE OrdersTypeOK /\ TodoIsMoney
    OBVIOUS
  <1>. USE OrdersAssumption DEF OrdersInit
  <1>1. orders \in [Docs -> Order]
    <2>1. Minted("checkout", 0) \in Order
      BY MintedIs DEF Kinds
    <2>. QED BY <2>1 DEF Order, Statuses
  <1>2. gateway \in [Payments -> GatewayPayment]
    BY DEF GatewayPayment
  <1>3. call \in [Procs -> Call] /\ \A p \in Procs : call[p].step = "idle" /\ call[p].todo = {}
    BY IdleIs
  <1>4. OrdersTypeOK
    BY <1>1, <1>2, <1>3 DEF OrdersTypeOK, InHand, Settling
  <1>. QED BY <1>3, <1>4 DEF TodoIsMoney

\* Everything typed but the calls.
DataTyped ==
  /\ orders \in [Docs -> Order] /\ booking \in {"awaiting", "confirmed", "cancelled"}
  /\ due \in 0..MaxDue /\ applied \subseteq Docs
  /\ rows \subseteq Payments /\ credited \subseteq Payments /\ events \subseteq Payments
  /\ gateway \in [Payments -> GatewayPayment] /\ dead \subseteq Docs
  /\ mintLock \in Procs \cup {NoOne} /\ kills \in 0..MaxKills

LEMMA DataTypes ==
  ASSUME OrdersTypeOK, TodoIsMoney, OrdersNext
  PROVE  DataTyped'
  <1>. USE DEF DataTyped, OrdersTypeOK, orderVars, moneyVars, gatewayVars
  <1>. USE OrdersAssumption
  <1>1. ASSUME NEW p \in Procs, StepOf(p) PROVE DataTyped'
    <2>0. call[p] \in Call /\ HandOK(call[p], gateway)
      BY HandNow
    <2>1. ASSUME NEW o \in Docs, AskAbout(p, o) PROVE DataTyped'
      <3>1. UNCHANGED <<mintLock, moneyVars, events, gateway, kills>>
        BY <2>1 DEF AskAbout
      <3>2. \/ UNCHANGED <<orders, dead>>
            \/ orders' = [orders EXCEPT ![o].status = "voided"] /\ dead' = dead \cup {o}
        BY <2>1 DEF AskAbout
      <3>. QED BY <3>1, <3>2 DEF Order, Statuses
    <2>2. CASE Capture(p)
      BY <2>2 DEF Capture, GatewayPayment
    <2>3. CASE Settle(p)
      <3>1. PICK m \in call[p].todo : orders' = Claim(call[p].order, m) \/ UNCHANGED orders
        BY <2>3 DEF Settle
      <3>2. UNCHANGED <<mintLock, moneyVars, events, gatewayVars, kills>> /\ m \in Payments
        BY <2>0, <2>3 DEF Settle, Call
      <3>. QED BY <3>1, <3>2 DEF Claim, Order, Statuses
    <2>4. CASE RecordRow(p) \/ CreditWallet(p)
      BY <2>0, <2>4 DEF RecordRow, CreditWallet, HandOK
    <2>5. CASE Apply(p) \/ Outcome(p) \/ Confirm(p) \/ Release(p)
      BY <2>0, <2>5 DEF Apply, Outcome, Confirm, Release, HandOK, InHand, Settling, Order
    <2>6. CASE VoidLinks(p) \/ ExpiryCheck(p)
      <3>1. UNCHANGED <<mintLock, moneyVars, events, gateway, kills>>
        BY <2>6 DEF VoidLinks, ExpiryCheck
      <3>2. UNCHANGED <<orders, dead>> \/ \E keep : VoidSome(keep)
        BY <2>6 DEF VoidLinks, ExpiryCheck
      <3>. QED BY <3>1, <3>2, VoidingKeeps
    <2>7. CASE Finish(p) \/ Fails(p)
      <3>1. UNCHANGED <<mintLock, moneyVars, events, gatewayVars, kills>> /\ call[p].order \in Docs
        BY <2>0, <2>7 DEF Finish, Fails, HandOK, InHand, Settling
      <3>2. CASE Fails(p)
        BY <3>1, <3>2, ParkedIs DEF Fails
      <3>3. CASE Finish(p)
        <4>1. [orders[call[p].order] EXCEPT !.settling = FALSE] \in Order
          BY <3>1 DEF Order
        <4>. QED BY <3>1, <3>3, <4>1 DEF Finish
      <3>. QED BY <2>7, <3>2, <3>3
    <2>8. CASE InsertOrder(p) \/ InsertLink(p)
      <3>1. call[p].amount \in 0..MaxDue
        BY <2>0 DEF Call
      <3>2. \A k \in Kinds : Minted(k, call[p].amount) \in Order
        BY <3>1, MintedIs
      <3>3. \E k \in Kinds, o \in Docs : orders' = [orders EXCEPT ![o] = Minted(k, call[p].amount)]
        BY <2>8 DEF InsertOrder, InsertLink, Kinds
      <3>4. UNCHANGED <<moneyVars, events, gatewayVars, kills>> /\ mintLock' \in {mintLock, NoOne}
        BY <2>8 DEF InsertOrder, InsertLink
      <3>. QED BY <3>2, <3>3, <3>4
    <2>9. CASE Unreachable(p) \/ Quote(p) \/ TakeLock(p) \/ GiveUpLock(p) \/ LookForOpen(p) \/ MintFails(p)
      BY <2>9 DEF Unreachable, Quote, TakeLock, GiveUpLock, LookForOpen, MintFails
    <2>. HIDE DEF DataTyped
    <2>. QED BY <1>1, <2>1, <2>2, <2>3, <2>4, <2>5, <2>6, <2>7, <2>8, <2>9 DEF StepOf
  <1>2. ASSUME NEW p \in Requests, Arrive(p) PROVE DataTyped'
    BY <1>2 DEF Arrive, Verify, Webhook, Poll, CreateOrder, CreateLink
  <1>3. ASSUME NEW p \in Procs, Kill(p) PROVE DataTyped'
    BY <1>3 DEF Kill
  <1>4. CASE SweepOrders \/ SweepLinks \/ ExpireUnpaid
    <2>1. CASE SweepOrders
      BY <2>1, ParkedIs DEF SweepOrders
    <2>2. CASE SweepLinks \/ ExpireUnpaid
      BY <2>2 DEF SweepLinks, ExpireUnpaid
    <2>. QED BY <1>4, <2>1, <2>2
  <1>5. CASE World
    <2>1. ASSUME NEW m \in Payments, NEW o \in Docs, CustomerPays(m, o) PROVE DataTyped'
      BY <2>1 DEF CustomerPays, GatewayPayment
    <2>2. ASSUME NEW m \in Payments, GatewayReturns(m) PROVE DataTyped'
      BY <2>2 DEF GatewayReturns, GatewayPayment
    <2>3. CASE PriceRises
      BY <2>3 DEF PriceRises
    <2>4. CASE CaptainCash \/ SwitchToCash \/ CustomerCancels
      <3>1. PICK keep : VoidSome(keep)
        BY <2>4 DEF CaptainCash, SwitchToCash, CustomerCancels
      <3>2. orders' \in [Docs -> Order] /\ dead' \subseteq Docs
        BY <3>1, VoidingKeeps
      <3>. QED BY <2>4, <3>2 DEF CaptainCash, SwitchToCash, CustomerCancels
    <2>5. ASSUME NEW o \in Docs, BadSignature(o) PROVE DataTyped'
      BY <2>5 DEF BadSignature, Order, Statuses
    <2>. HIDE DEF DataTyped
    <2>. QED BY <1>5, <2>1, <2>2, <2>3, <2>4, <2>5 DEF World
  <1>. HIDE DEF DataTyped
  <1>. QED BY <1>1, <1>2, <1>3, <1>4, <1>5 DEF OrdersNext

\* What was in hand stays in hand: the gateway takes nothing back.
LEMMA HandStays ==
  ASSUME OrdersTypeOK, TodoIsMoney, Keeps, NEW p \in Procs
  PROVE  HandOK(call[p], gateway')
  <1>1. HandOK(call[p], gateway)
    BY HandNow
  <1>2. call[p].todo \subseteq Payments
    BY DEF OrdersTypeOK, Call
  <1>. QED BY <1>1, <1>2 DEF HandOK, Keeps, Captured, TodoIsMoney

LEMMA TypesStep ==
  ASSUME OrdersTypeOK, TodoIsMoney, OrdersNext
  PROVE  OrdersTypeOK' /\ TodoIsMoney'
  <1>1. Keeps /\ DataTyped'
    BY StepKeeps, DataTypes
  <1>2. call' \in [Procs -> Call] /\ \A p \in Procs : HandOK(call'[p], gateway')
    <2>1. CASE call' = call
      BY <1>1, <2>1, HandStays DEF OrdersTypeOK
    <2>2. ASSUME NEW p \in Procs, NEW c, Goto(p, c), GoesTo(call[p], c, gateway')
          PROVE  call' \in [Procs -> Call] /\ \A q \in Procs : HandOK(call'[q], gateway')
      <3>1. call \in [Procs -> Call]
        BY DEF OrdersTypeOK
      <3>2. c \in Call
        BY <2>2 DEF GoesTo, HandOK
      <3>3. call' \in [Procs -> Call] /\ call'[p] = c /\ \A q \in Procs : q # p => call'[q] = call[q]
        BY <2>2, <3>1, <3>2, GoingIs
      <3>4. ASSUME NEW q \in Procs PROVE HandOK(call'[q], gateway')
        BY <1>1, <2>2, <3>3, HandStays DEF GoesTo
      <3>. QED BY <3>3, <3>4
    <2>. QED BY <2>1, <2>2, NextHand
  <1>3. OrdersTypeOK'
    BY <1>1, <1>2 DEF OrdersTypeOK, DataTyped, HandOK
  <1>4. \A m \in Payments : gateway'[m].status # "none" =>
          gateway'[m].order \in Docs /\ orders'[gateway'[m].order].status # "none"
    <2>1. CASE UNCHANGED gateway
      BY <1>1, <2>1 DEF TodoIsMoney, Keeps
    <2>2. ASSUME NEW m \in Payments, NEW o \in Docs, CustomerPays(m, o)
          PROVE  \A n \in Payments : gateway'[n].status # "none" =>
                   gateway'[n].order \in Docs /\ orders'[gateway'[n].order].status # "none"
      BY <2>2 DEF CustomerPays, TodoIsMoney, OrdersTypeOK, orderVars
    <2>3. ASSUME NEW m \in Payments, gateway[m].status # "none", NEW s,
                 gateway' = [gateway EXCEPT ![m].status = s]
          PROVE  \A n \in Payments : gateway'[n].status # "none" =>
                   gateway'[n].order \in Docs /\ orders'[gateway'[n].order].status # "none"
      BY <1>1, <2>3 DEF TodoIsMoney, Keeps, OrdersTypeOK, GatewayPayment
    <2>4. \/ UNCHANGED gateway
          \/ \E m \in Payments, o \in Docs : CustomerPays(m, o)
          \/ \E m \in Payments, s \in {"captured", "returned"} :
                gateway[m].status # "none" /\ gateway' = [gateway EXCEPT ![m].status = s]
      <3>1. ASSUME NEW p \in Procs, StepOf(p), gateway' # gateway
            PROVE  \E m \in Payments : gateway[m].status # "none" /\ gateway' = [gateway EXCEPT ![m].status = "captured"]
        <4>1. Capture(p)
          BY <3>1 DEF StepOf, AskAbout, Unreachable, Settle, Outcome, RecordRow, CreditWallet, Apply, Confirm,
             VoidLinks, Finish, Fails, Quote, TakeLock, GiveUpLock, LookForOpen, InsertOrder, InsertLink,
             MintFails, ExpiryCheck, Release, gatewayVars
        <4>2. call[p].payment \in Payments
          BY <4>1 DEF TodoIsMoney, Capture
        <4>. QED BY <3>1, <4>1, <4>2 DEF Capture
      <3>2. ASSUME NEW p \in Requests, Arrive(p) PROVE UNCHANGED gateway
        BY <3>2 DEF Arrive, Verify, Webhook, Poll, CreateOrder, CreateLink, gatewayVars
      <3>3. (\E p \in Procs : Kill(p)) \/ SweepOrders \/ SweepLinks \/ ExpireUnpaid => UNCHANGED gateway
        BY DEF Kill, SweepOrders, SweepLinks, ExpireUnpaid, gatewayVars
      <3>4. ASSUME World, gateway' # gateway
            PROVE  \/ \E m \in Payments, o \in Docs : CustomerPays(m, o)
                   \/ \E m \in Payments : gateway[m].status # "none" /\ gateway' = [gateway EXCEPT ![m].status = "returned"]
        BY <3>4 DEF World, GatewayReturns, PriceRises, CaptainCash, SwitchToCash, CustomerCancels, BadSignature, gatewayVars
      <3>. QED BY <3>1, <3>2, <3>3, <3>4 DEF OrdersNext
    <2>. QED BY <2>1, <2>2, <2>3, <2>4
  <1>. QED BY <1>2, <1>3, <1>4 DEF TodoIsMoney, HandOK, Captured

---------------------------------------------------------------------------
(* One settlement, by captured money. *)

SettlementOK == Marked /\ OneSettler /\ PaidMeansApplied /\ DoneIsPaid /\ NoPaymentYet

\* Steps that claim no order and end no settlement.
Quiet ==
  /\ \A o \in Docs :
        /\ orders'[o].settling = orders[o].settling
        /\ orders'[o].status \in Done <=> orders[o].status \in Done
        /\ orders'[o].status \in Done => orders'[o].status = orders[o].status
        /\ orders'[o].payment = orders[o].payment
  /\ \A p \in Procs : call'[p].step \in Settling =>
        /\ call[p].step \in Settling /\ call'[p].order = call[p].order
        /\ call'[p].step \in {"confirm", "void", "finish"} =>
              call[p].step \in {"confirm", "void", "finish"} \/ call[p].order \in applied'

LEMMA QuietSettles ==
  ASSUME OrdersTypeOK, OrdersTypeOK', SettlementOK, Keeps, Quiet
  PROVE  SettlementOK'
  <1>1. Marked'
    BY DEF SettlementOK, Marked, Quiet, Keeps, OrdersTypeOK, InHand, Done, Settling
  <1>2. OneSettler'
    BY DEF SettlementOK, OneSettler, Quiet
  <1>3. PaidMeansApplied'
    BY DEF SettlementOK, PaidMeansApplied, Quiet, Keeps, Done
  <1>4. DoneIsPaid'
    BY DEF SettlementOK, DoneIsPaid, Quiet, Keeps, OrdersTypeOK, GatewayPayment, Captured
  <1>5. NoPaymentYet'
    BY DEF SettlementOK, NoPaymentYet, Quiet
  <1>. QED BY <1>1, <1>2, <1>3, <1>4, <1>5 DEF SettlementOK

\* What a settle step does: a claim, or nothing to the orders.
LEMMA SettleIs ==
  ASSUME OrdersTypeOK, TodoIsMoney, NEW p \in Procs, Settle(p)
  PROVE  \E m \in call[p].todo :
           LET o == call[p].order IN
           /\ o \in Docs /\ m \in Payments /\ Captured(m) /\ gateway[m].order = o
           /\ \/ /\ Claimable(o) /\ orders' = Claim(o, m)
                 /\ call'[p].step = "apply" /\ call'[p].order = o
              \/ /\ UNCHANGED orders /\ call'[p].step \in Aside
              \/ /\ UNCHANGED orders /\ ~Claimable(o) /\ orders[o].kind # "link"
                 /\ call'[p].step = "outcome" /\ call'[p].order = o /\ call'[p].payment = m
  <1>0. HandOK(call[p], gateway) /\ call \in [Procs -> Call] /\ call[p].step = "settle"
    BY HandNow DEF Settle, OrdersTypeOK
  <1>. DEFINE o == call[p].order
  <1>1. PICK m \in call[p].todo :
          \/ /\ Claimable(o) /\ orders' = Claim(o, m)
             /\ Goto(p, [Hearing([call[p] EXCEPT !.todo = @ \ {m}], "paid") EXCEPT !.step = "apply"])
          \/ /\ UNCHANGED orders
             /\ Goto(p, Onward(Hearing([call[p] EXCEPT !.todo = @ \ {m}], "paid")))
          \/ /\ UNCHANGED orders /\ ~Claimable(o) /\ orders[o].kind # "link"
             /\ Goto(p, [Hearing([call[p] EXCEPT !.todo = @ \ {m}], "paid") EXCEPT !.step = "outcome", !.payment = m])
    BY DEF Settle
  <1>. DEFINE b == [call[p] EXCEPT !.todo = @ \ {m}]
              c == Hearing(b, "paid")
  <1>2. o \in Docs /\ m \in Payments /\ Captured(m) /\ gateway[m].order = o
    BY <1>0 DEF HandOK, InHand, Captured, Call
  <1>3. b \in Call /\ b.order = o /\ b.todo \subseteq call[p].todo
    BY <1>0 DEF Call
  <1>4. c \in Call /\ c.order = o /\ c.todo \subseteq call[p].todo
    <2>. HIDE DEF b, o
    <2>. QED BY <1>3, HearingIs
  <1>. HIDE DEF c
  <1>5. Onward(c).step \in Aside
    BY <1>2, <1>4, OnwardIs DEF Aside
  <1>6. /\ [c EXCEPT !.step = "apply"].step = "apply" /\ [c EXCEPT !.step = "apply"].order = o
        /\ [c EXCEPT !.step = "outcome", !.payment = m].step = "outcome"
        /\ [c EXCEPT !.step = "outcome", !.payment = m].order = o
        /\ [c EXCEPT !.step = "outcome", !.payment = m].payment = m
    BY <1>4 DEF Call
  <1>7. \/ Claimable(o) /\ orders' = Claim(o, m) /\ Goto(p, [c EXCEPT !.step = "apply"])
        \/ UNCHANGED orders /\ Goto(p, Onward(c))
        \/ /\ UNCHANGED orders /\ ~Claimable(o) /\ orders[o].kind # "link"
           /\ Goto(p, [c EXCEPT !.step = "outcome", !.payment = m])
    BY <1>1 DEF c
  <1>8. \A x : Goto(p, x) => call'[p] = x
    BY <1>0 DEF Goto
  <1>. HIDE DEF o, b
  <1>. QED BY <1>2, <1>5, <1>6, <1>7, <1>8 DEF o

\* What becomes of the calls: one moves, and only aside, by a claim or along.
LEMMA NextLeads ==
  ASSUME OrdersTypeOK, TodoIsMoney, OrdersNext
  PROVE  call' = call \/ \E p \in Procs : Leads(call[p], call'[p]) /\ \A q \in Procs : q # p => call'[q] = call[q]
  BY NextHand DEF GoesTo, OrdersTypeOK, Goto

QuietOrders ==
  \A o \in Docs :
     /\ orders'[o].settling = orders[o].settling
     /\ orders'[o].status \in Done <=> orders[o].status \in Done
     /\ orders'[o].status \in Done => orders'[o].status = orders[o].status
     /\ orders'[o].payment = orders[o].payment

\* Nobody claims or applies.
Bystanders == \A p \in Procs : call[p].step \in {"settle", "apply"} =>
                 call'[p] = call[p] \/ call'[p].step \notin Settling

LEMMA BystandersAreQuiet ==
  ASSUME OrdersTypeOK, TodoIsMoney, OrdersNext, QuietOrders, Bystanders
  PROVE  Quiet
  <1>1. CASE call' = call
    BY <1>1 DEF Quiet, QuietOrders
  <1>2. ASSUME NEW p \in Procs, Leads(call[p], call'[p]), \A q \in Procs : q # p => call'[q] = call[q],
               call'[p].step \in Settling
        PROVE  /\ call[p].step \in Settling /\ call'[p].order = call[p].order
               /\ call'[p].step \in {"confirm", "void", "finish"} => call[p].step \in {"confirm", "void", "finish"}
    BY <1>2 DEF Bystanders, Leads, Along, Aside, Settling
  <1>. QED BY <1>1, <1>2, NextLeads DEF Quiet, QuietOrders

LEMMA NextSettles ==
  ASSUME OrdersTypeOK, TodoIsMoney, SettlementOK, OrdersNext
  PROVE  SettlementOK'
  <1>0. Keeps /\ OrdersTypeOK' /\ call \in [Procs -> Call] /\ orders \in [Docs -> Order]
    BY StepKeeps, TypesStep DEF OrdersTypeOK
  <1>. DEFINE Calm == QuietOrders /\ Bystanders
  <1>1. ASSUME Calm PROVE SettlementOK'
    BY <1>0, <1>1, BystandersAreQuiet, QuietSettles
  <1>2. UNCHANGED orders => QuietOrders
    BY DEF QuietOrders
  <1>3. ASSUME NEW keep, VoidSome(keep) PROVE QuietOrders
    BY <1>3, VoidingKeeps DEF QuietOrders, Done
  <1>4. ASSUME NEW p \in Procs, StepOf(p) PROVE SettlementOK'
    <2>0. /\ call[p].step \in InHand => call[p].order \in Docs
          /\ \A q \in Procs : q # p => call'[q] = call[q]
      BY <1>0, <1>4, HandNow, StepHand DEF HandOK, Goto
    <2>1. ASSUME NEW o \in Docs, AskAbout(p, o) PROVE Calm
      <3>1. \/ UNCHANGED orders
            \/ orders[o].status = "created" /\ orders' = [orders EXCEPT ![o].status = "voided"]
        BY <2>1 DEF AskAbout
      <3>2. QuietOrders
        BY <1>0, <3>1 DEF QuietOrders, Done, Order
      <3>3. Bystanders
        BY <2>0, <2>1 DEF AskAbout, Bystanders
      <3>. QED BY <3>2, <3>3
    <2>2. CASE Unreachable(p) \/ Capture(p) \/ Outcome(p) \/ RecordRow(p) \/ CreditWallet(p) \/ Confirm(p)
               \/ Quote(p) \/ TakeLock(p) \/ GiveUpLock(p) \/ LookForOpen(p) \/ MintFails(p) \/ Release(p)
      <3>1. UNCHANGED orders /\ call[p].step \notin {"settle", "apply"}
        BY <2>2 DEF Unreachable, Capture, Outcome, RecordRow, CreditWallet, Confirm, Quote, TakeLock,
           GiveUpLock, LookForOpen, MintFails, Release, orderVars
      <3>. QED BY <1>1, <1>2, <2>0, <3>1 DEF Bystanders
    <2>3. CASE VoidLinks(p) \/ ExpiryCheck(p)
      <3>1. QuietOrders
        BY <1>2, <1>3, <2>3 DEF VoidLinks, ExpiryCheck
      <3>2. call[p].step \notin {"settle", "apply"}
        BY <2>3 DEF VoidLinks, ExpiryCheck
      <3>. QED BY <1>1, <2>0, <3>1, <3>2 DEF Bystanders
    <2>4. CASE InsertOrder(p) \/ InsertLink(p)
      <3>1. PICK o \in Docs, k \in Kinds : orders[o].status = "none" /\ orders' = [orders EXCEPT ![o] = Minted(k, call[p].amount)]
        BY <2>4 DEF InsertOrder, InsertLink, Kinds
      <3>2. orders[o].settling = FALSE /\ orders[o].payment = NoPayment
        BY <1>0, <3>1 DEF SettlementOK, Marked, NoPaymentYet, Done, Order
      <3>3. call[p].amount \in 0..MaxDue /\ call[p].step \notin {"settle", "apply"}
        BY <1>0, <2>4 DEF Call, InsertOrder, InsertLink
      <3>4. QuietOrders
        <4>1. /\ orders'[o] = Minted(k, call[p].amount)
              /\ \A x \in Docs : x # o => orders'[x] = orders[x]
          BY <1>0, <3>1
        <4>2. orders'[o].status = "created" /\ orders'[o].settling = FALSE /\ orders'[o].payment = NoPayment
          BY <4>1 DEF Minted
        <4>. QED BY <1>0, <3>1, <3>2, <4>1, <4>2 DEF QuietOrders, Done, Order
      <3>. QED BY <1>1, <2>0, <3>3, <3>4 DEF Bystanders
    <2>5. CASE Settle(p)
      <3>. DEFINE o == call[p].order
      <3>1. PICK m \in call[p].todo :
              /\ o \in Docs /\ m \in Payments /\ Captured(m) /\ gateway[m].order = o
              /\ \/ /\ Claimable(o) /\ orders' = Claim(o, m)
                    /\ call'[p].step = "apply" /\ call'[p].order = o
                 \/ UNCHANGED orders /\ call'[p].step \in Aside \cup {"outcome"}
        BY <2>5, SettleIs
      <3>2. CASE UNCHANGED orders /\ call'[p].step \in Aside \cup {"outcome"}
        BY <1>1, <1>2, <2>0, <3>2 DEF Bystanders, Aside, Settling
      <3>3. CASE /\ Claimable(o) /\ orders' = Claim(o, m)
                 /\ call'[p].step = "apply" /\ call'[p].order = o
        <4>1. UNCHANGED <<gateway, applied>>
          BY <2>5 DEF Settle, gatewayVars, moneyVars
        <4>2. orders[o].status \notin Done
          BY <3>3 DEF Claimable, IsOpen, Payable, Done
        <4>3. /\ orders'[o].status = "paid" /\ orders'[o].settling /\ orders'[o].payment = m
              /\ \A x \in Docs : x # o => orders'[x] = orders[x]
          BY <1>0, <3>1, <3>3 DEF Claim, Order
        <4>4. \A q \in Procs : call[q].step \in Settling => call[q].order \in Docs /\ call[q].order # o
          BY <4>2 DEF SettlementOK, Marked, Done, OrdersTypeOK, InHand
        <4>. HIDE DEF o
        <4>5. Marked' /\ OneSettler' /\ PaidMeansApplied'
          BY <2>0, <3>1, <3>3, <4>1, <4>3, <4>4 DEF SettlementOK, Marked, OneSettler, PaidMeansApplied
        <4>6. DoneIsPaid' /\ NoPaymentYet'
          BY <3>1, <4>1, <4>3 DEF SettlementOK, DoneIsPaid, NoPaymentYet, Captured, Done
        <4>. QED BY <4>5, <4>6 DEF SettlementOK
      <3>. QED BY <3>1, <3>2, <3>3
    <2>6. CASE Apply(p)
      <3>1. /\ UNCHANGED orders /\ call[p].step = "apply" /\ call[p].order \in applied'
            /\ \E t \in {"confirm", "finish"} : Goto(p, [call[p] EXCEPT !.step = t])
        BY <2>6 DEF Apply, orderVars
      <3>2. call'[p].step \in {"confirm", "finish"} /\ call'[p].order = call[p].order
        BY <1>0, <3>1 DEF Goto, Call
      <3>3. Quiet
        BY <2>0, <3>1, <3>2 DEF Quiet, Settling
      <3>. QED BY <1>0, <3>3, QuietSettles
    <2>7. CASE Finish(p) \/ Fails(p)
      <3>. DEFINE o == call[p].order
      <3>1. /\ o \in Docs /\ call[p].step \in Settling /\ UNCHANGED <<gateway, applied>>
            /\ Goto(p, Onward(call[p]))
        BY <2>0, <2>7 DEF Finish, Fails, InHand, Settling, moneyVars, gatewayVars
      <3>2. \/ orders' = [orders EXCEPT ![o] = Parked(o)]
            \/ orders' = [orders EXCEPT ![o].settling = FALSE] /\ o \in applied
        BY <2>7 DEF Finish, Fails, SettlementOK, Marked
      <3>3. orders[o].settling /\ orders[o].status = "paid"
        BY <3>1 DEF SettlementOK, Marked
      <3>4. /\ ~orders'[o].settling /\ orders'[o].payment = orders[o].payment
            /\ orders'[o].status = "attention" \/ (orders'[o].status = "paid" /\ o \in applied)
            /\ \A x \in Docs : x # o => orders'[x] = orders[x]
        BY <1>0, <3>1, <3>2, <3>3, ParkedIs DEF Order
      <3>5. call'[p].step \notin Settling
        <4>1. call[p].todo # {} => call[p].order \in Docs
          BY <3>1
        <4>2. Onward(call[p]).step \notin Settling
          BY <1>0, <4>1, OnwardIs DEF Settling
        <4>. QED BY <1>0, <3>1, <4>2 DEF Goto
      <3>6. \A q \in Procs : q # p /\ call[q].step \in Settling => call[q].order \in Docs /\ call[q].order # o
        BY <3>1 DEF SettlementOK, OneSettler, OrdersTypeOK, InHand
      <3>. HIDE DEF o
      <3>7. Marked' /\ OneSettler' /\ PaidMeansApplied'
        BY <2>0, <3>1, <3>4, <3>5, <3>6 DEF SettlementOK, Marked, OneSettler, PaidMeansApplied, Settling
      <3>8. DoneIsPaid' /\ NoPaymentYet'
        BY <3>1, <3>3, <3>4 DEF SettlementOK, DoneIsPaid, NoPaymentYet, Captured, Done
      <3>. QED BY <3>7, <3>8 DEF SettlementOK
    <2>. QED BY <1>1, <1>4, <2>1, <2>2, <2>3, <2>4, <2>5, <2>6, <2>7 DEF StepOf
  <1>5. CASE SweepOrders
    <2>1. /\ orders' = [o \in Docs |-> IF Interrupted(o) THEN Parked(o) ELSE orders[o]]
          /\ UNCHANGED <<gateway, applied>> /\ call[Loop].step = "idle"
          /\ \A q \in Procs : q # Loop => call'[q] = call[q]
      BY <1>0, <1>5 DEF SweepOrders, Goto, moneyVars, gatewayVars
    <2>2. call'[Loop].step \notin Settling
      <3>1. PICK docs \in SUBSET Docs : Goto(Loop, Reading("sweep", docs))
        BY <1>5 DEF SweepOrders, OpenPayments
      <3>2. Reading("sweep", docs).step \in Aside
        BY ReadingIs DEF Vias
      <3>. QED BY <1>0, <3>1, <3>2 DEF Goto, Aside, Settling, Procs
    <2>3. \A o \in Docs : Interrupted(o) =>
            /\ orders[o].status = "paid" /\ orders'[o].status = "attention" /\ ~orders'[o].settling
            /\ orders'[o].payment = orders[o].payment
      BY <2>1, ParkedIs DEF SettlementOK, Marked, Interrupted
    <2>4. \A o \in Docs : ~Interrupted(o) => orders'[o] = orders[o]
      BY <2>1
    <2>5. \A q \in Procs : call[q].step \in Settling => call[q].order \in Docs /\ ~Interrupted(call[q].order)
      BY DEF Interrupted, OrdersTypeOK, InHand
    <2>6. Marked' /\ OneSettler' /\ PaidMeansApplied'
      BY <2>1, <2>2, <2>3, <2>4, <2>5 DEF SettlementOK, Marked, OneSettler, PaidMeansApplied, Settling
    <2>7. DoneIsPaid' /\ NoPaymentYet'
      BY <2>1, <2>3, <2>4 DEF SettlementOK, DoneIsPaid, NoPaymentYet, Captured, Done
    <2>. QED BY <2>6, <2>7 DEF SettlementOK
  <1>6. ASSUME NEW p \in Requests, Arrive(p) PROVE SettlementOK'
    <2>1. UNCHANGED orders
      BY <1>6 DEF Arrive, Verify, Webhook, Poll, CreateOrder, CreateLink, orderVars
    <2>2. call[p].step = "idle" /\ \A q \in Procs : q # p => call'[q] = call[q]
      BY <1>0, <1>6 DEF Arrive, Verify, Webhook, Poll, CreateOrder, CreateLink, Goto
    <2>. QED BY <1>1, <1>2, <2>1, <2>2 DEF Bystanders
  <1>7. ASSUME NEW p \in Procs, Kill(p) PROVE SettlementOK'
    <2>1. UNCHANGED orders /\ call'[p].step = "idle" /\ \A q \in Procs : q # p => call'[q] = call[q]
      BY <1>0, <1>7, IdleIs DEF Kill, Goto, orderVars
    <2>. QED BY <1>1, <1>2, <2>1 DEF Bystanders, Settling
  <1>8. CASE SweepLinks \/ ExpireUnpaid
    <2>1. UNCHANGED orders /\ call[Loop].step = "idle" /\ \A q \in Procs : q # Loop => call'[q] = call[q]
      BY <1>0, <1>8 DEF SweepLinks, ExpireUnpaid, Goto, orderVars
    <2>. QED BY <1>1, <1>2, <2>1 DEF Bystanders
  <1>9. CASE World
    <2>1. Bystanders
      BY <1>9 DEF World, GatewayReturns, CustomerPays, PriceRises, CaptainCash, SwitchToCash, CustomerCancels,
         BadSignature, Bystanders
    <2>2. UNCHANGED orders \/ (\E keep : VoidSome(keep)) \/ \E o \in Docs : BadSignature(o)
      BY <1>9 DEF World, GatewayReturns, CustomerPays, PriceRises, CaptainCash, SwitchToCash, CustomerCancels, orderVars
    <2>3. ASSUME NEW o \in Docs, BadSignature(o) PROVE QuietOrders
      BY <1>0, <2>3 DEF BadSignature, QuietOrders, Done, Order
    <2>. QED BY <1>1, <1>2, <1>3, <2>1, <2>2, <2>3
  <1>. QED BY <1>4, <1>5, <1>6, <1>7, <1>8, <1>9 DEF OrdersNext

---------------------------------------------------------------------------
(* A payment counts once. *)

\* A call in the middle of a payment moves by its own action, or is killed.
LEMMA OwnMove ==
  ASSUME OrdersTypeOK, OrdersNext, NEW p \in Procs, call'[p] # call[p],
         call[p].step \in {"settle", "outcome", "row", "lock", "look", "confirm"}
  PROVE  \/ call'[p].step = "idle"
         \/ call[p].step = "settle" /\ Settle(p)
         \/ call[p].step = "outcome" /\ Outcome(p)
         \/ call[p].step = "row" /\ RecordRow(p)
         \/ call[p].step = "confirm" /\ (Confirm(p) \/ Fails(p))
         \/ call[p].step = "lock" /\ TakeLock(p)
         \/ call[p].step = "look" /\ LookForOpen(p)
  <1>0. call \in [Procs -> Call] /\ Requests \subseteq Procs /\ Loop \in Procs
    BY DEF OrdersTypeOK, Procs
  <1>. DEFINE Own == \/ call'[p].step = "idle"
                     \/ call[p].step = "settle" /\ Settle(p)
                     \/ call[p].step = "outcome" /\ Outcome(p)
                     \/ call[p].step = "row" /\ RecordRow(p)
                     \/ call[p].step = "confirm" /\ (Confirm(p) \/ Fails(p))
                     \/ call[p].step = "lock" /\ TakeLock(p)
                     \/ call[p].step = "look" /\ LookForOpen(p)
  <1>1. ASSUME NEW q \in Procs, StepOf(q) PROVE Own
    <2>1. q = p
      <3>1. PICK c : Goto(q, c)
        BY <1>1 DEF StepOf, AskAbout, Unreachable, Capture, Settle, Outcome, RecordRow, CreditWallet, Apply,
           Confirm, VoidLinks, Finish, Fails, Quote, TakeLock, GiveUpLock, LookForOpen, InsertOrder,
           InsertLink, MintFails, ExpiryCheck, Release
      <3>. QED BY <1>0, <3>1 DEF Goto
    <2>2. CASE GiveUpLock(p)
      BY <1>0, <2>2, IdleIs DEF GiveUpLock, Goto
    <2>3. CASE Settle(p) \/ Outcome(p) \/ RecordRow(p) \/ TakeLock(p) \/ LookForOpen(p)
      BY <2>3 DEF Settle, Outcome, RecordRow, TakeLock, LookForOpen
    <2>4. CASE Confirm(p) \/ Fails(p)
      BY <2>4 DEF Confirm, Fails
    <2>5. CASE \/ \E o \in Docs : AskAbout(p, o)
               \/ Unreachable(p) \/ Capture(p) \/ CreditWallet(p) \/ Apply(p) \/ VoidLinks(p) \/ Finish(p) \/ Quote(p)
               \/ InsertOrder(p) \/ InsertLink(p) \/ MintFails(p) \/ ExpiryCheck(p) \/ Release(p)
      BY <2>5 DEF AskAbout, Unreachable, Capture, CreditWallet, Apply, VoidLinks, Finish, Quote, InsertOrder,
         InsertLink, MintFails, ExpiryCheck, Release
    <2>. HIDE DEF Own
    <2>. QED BY <1>1, <2>1, <2>2, <2>3, <2>4, <2>5 DEF StepOf
  <1>2. ASSUME NEW q \in Requests, Arrive(q) PROVE FALSE
    BY <1>0, <1>2 DEF Arrive, Verify, Webhook, Poll, CreateOrder, CreateLink, Goto
  <1>3. ASSUME NEW q \in Procs, Kill(q) PROVE Own
    BY <1>0, <1>3, IdleIs DEF Kill, Goto
  <1>4. CASE SweepOrders \/ SweepLinks \/ ExpireUnpaid
    BY <1>0, <1>4 DEF SweepOrders, SweepLinks, ExpireUnpaid, Goto
  <1>5. CASE World
    BY <1>5 DEF World, GatewayReturns, CustomerPays, PriceRises, CaptainCash, SwitchToCash, CustomerCancels, BadSignature
  <1>. QED BY <1>1, <1>2, <1>3, <1>4, <1>5 DEF OrdersNext

\* What may become of an order.
OrderMoves ==
  \A o \in Docs :
    \/ orders'[o] = orders[o]
    \/ orders'[o].status = "attention"
    \/ /\ orders'[o].status = "paid"
       /\ orders'[o].settling \/ \E p \in Procs : Finish(p) /\ call[p].order = o
    \/ orders[o].status \in {"none", "created"} /\ orders'[o].kind = "link"
    \/ orders[o].status = "created" /\ orders'[o].status = "failed"
    \/ /\ orders[o].status = "none" /\ orders'[o].status = "created"
       /\ \E p \in Procs : InsertOrder(p) /\ orders'[o].amount = call[p].amount

LEMMA NextOrder ==
  ASSUME OrdersTypeOK, TodoIsMoney, SettlementOK, OrdersNext
  PROVE  OrderMoves
  <1>0. orders \in [Docs -> Order] /\ call \in [Procs -> Call]
    BY DEF OrdersTypeOK
  <1>1. CASE UNCHANGED orders
    BY <1>1 DEF OrderMoves
  <1>2. ASSUME NEW keep, VoidSome(keep) PROVE OrderMoves
    BY <1>2, VoidingKeeps DEF OrderMoves
  <1>3. ASSUME NEW o \in Docs, NEW r, orders' = [orders EXCEPT ![o] = r],
               r.status = "attention" \/ (orders[o].status \in {"none", "created"} /\ r.kind = "link")
        PROVE  OrderMoves
    BY <1>0, <1>3 DEF OrderMoves
  <1>4. ASSUME NEW p \in Procs, StepOf(p) PROVE OrderMoves
    <2>1. ASSUME NEW o \in Docs, AskAbout(p, o) PROVE OrderMoves
      <3>1. \/ UNCHANGED orders
            \/ /\ orders[o].kind = "link" /\ orders[o].status = "created"
               /\ orders' = [orders EXCEPT ![o].status = "voided"]
        BY <2>1 DEF AskAbout
      <3>2. [orders[o] EXCEPT !.status = "voided"].kind = orders[o].kind
        BY <1>0 DEF Order
      <3>. QED BY <1>1, <1>3, <3>1, <3>2
    <2>2. CASE Settle(p)
      <3>1. \/ UNCHANGED orders
            \/ call[p].order \in Docs /\ \E m : orders' = Claim(call[p].order, m)
        BY <2>2, SettleIs
      <3>2. ASSUME NEW m, call[p].order \in Docs, orders' = Claim(call[p].order, m) PROVE OrderMoves
        <4>1. orders'[call[p].order].status = "paid" /\ orders'[call[p].order].settling
          BY <1>0, <3>2 DEF Claim, Order
        <4>2. \A x \in Docs : x # call[p].order => orders'[x] = orders[x]
          BY <1>0, <3>2 DEF Claim
        <4>. QED BY <4>1, <4>2 DEF OrderMoves
      <3>. QED BY <1>1, <3>1, <3>2
    <2>3. CASE Finish(p) \/ Fails(p)
      <3>1. call[p].order \in Docs /\ orders[call[p].order].status = "paid"
        BY <2>3 DEF OrdersTypeOK, Finish, Fails, InHand, Settling, SettlementOK, Marked
      <3>2. CASE Fails(p)
        BY <1>3, <3>1, <3>2, ParkedIs DEF Fails, Done
      <3>3. CASE Finish(p)
        BY <1>0, <3>1, <3>3 DEF Finish, Order, OrderMoves, Done
      <3>. QED BY <2>3, <3>2, <3>3
    <2>4. CASE InsertOrder(p)
      <3>1. PICK o \in Docs : orders[o].status = "none" /\ orders' = [orders EXCEPT ![o] = Minted("checkout", call[p].amount)]
        BY <2>4 DEF InsertOrder
      <3>2. orders'[o].status = "created" /\ orders'[o].amount = call[p].amount
        BY <1>0, <3>1 DEF Minted
      <3>3. \A x \in Docs : x # o => orders'[x] = orders[x]
        BY <1>0, <3>1
      <3>. QED BY <2>4, <3>1, <3>2, <3>3 DEF OrderMoves
    <2>5. CASE InsertLink(p)
      BY <1>3, <2>5 DEF InsertLink, Minted
    <2>6. CASE VoidLinks(p) \/ ExpiryCheck(p)
      BY <1>1, <1>2, <2>6 DEF VoidLinks, ExpiryCheck
    <2>7. CASE Unreachable(p) \/ Capture(p) \/ Outcome(p) \/ RecordRow(p) \/ CreditWallet(p) \/ Apply(p) \/ Confirm(p)
               \/ Quote(p) \/ TakeLock(p) \/ GiveUpLock(p) \/ LookForOpen(p) \/ MintFails(p) \/ Release(p)
      BY <1>1, <2>7 DEF Unreachable, Capture, Outcome, RecordRow, CreditWallet, Apply, Confirm, Quote, TakeLock,
         GiveUpLock, LookForOpen, MintFails, Release, orderVars
    <2>. QED BY <1>4, <2>1, <2>2, <2>3, <2>4, <2>5, <2>6, <2>7 DEF StepOf
  <1>5. CASE SweepOrders
    BY <1>0, <1>5, ParkedIs DEF SweepOrders, OrderMoves, Done
  <1>6. (\E p \in Requests : Arrive(p)) \/ (\E p \in Procs : Kill(p)) \/ SweepLinks \/ ExpireUnpaid => UNCHANGED orders
    BY DEF Arrive, Verify, Webhook, Poll, CreateOrder, CreateLink, Kill, SweepLinks, ExpireUnpaid, orderVars
  <1>7. CASE World
    <2>1. UNCHANGED orders \/ (\E keep : VoidSome(keep)) \/ \E o \in Docs : BadSignature(o)
      BY <1>7 DEF World, GatewayReturns, CustomerPays, PriceRises, CaptainCash, SwitchToCash, CustomerCancels, orderVars
    <2>2. ASSUME NEW o \in Docs, BadSignature(o) PROVE OrderMoves
      BY <1>0, <2>2 DEF BadSignature, Order, OrderMoves
    <2>. QED BY <1>1, <1>2, <2>1, <2>2
  <1>. QED BY <1>1, <1>4, <1>5, <1>6, <1>7 DEF OrdersNext

LEMMA NextSecond ==
  ASSUME OrdersTypeOK, TodoIsMoney, SettlementOK, SecondIsSecond, OrdersNext
  PROVE  SecondIsSecond'
  <1>0. Keeps /\ OrdersTypeOK' /\ TodoIsMoney' /\ call \in [Procs -> Call]
    BY StepKeeps, TypesStep DEF OrdersTypeOK
  <1>1. ASSUME NEW m, NEW o \in Docs, LateIsLate(m, o) PROVE LateIsLate(m, o)'
    BY <1>0, <1>1 DEF Keeps, LateIsLate, Captured, Done
  <1>2. ASSUME NEW p \in Procs, call'[p].step \in {"outcome", "row", "credit"}
        PROVE  /\ LateIsLate(call[p].payment, call[p].order)'
               /\ call'[p].step = "row" => orders'[call'[p].order].payment # call'[p].payment
    <2>1. PICK m, x : m = call'[p].payment /\ x = call'[p].order
      OBVIOUS
    <2>2. x \in Docs
      BY <1>0, <1>2, <2>1 DEF OrdersTypeOK, InHand
    <2>3. CASE call'[p] = call[p]
      BY <1>0, <1>1, <1>2, <2>1, <2>2, <2>3 DEF SecondIsSecond, Keeps, LateIsLate
    <2>4. CASE call'[p] # call[p]
      <3>1. Leads(call[p], call'[p])
        BY <2>4, NextLeads
      <3>2. /\ x = call[p].order
            /\ \/ call[p].step = "settle" /\ call'[p].step = "outcome"
               \/ call[p].step = "outcome" /\ call'[p].step = "row" /\ m = call[p].payment
               \/ call[p].step = "row" /\ call'[p].step = "credit" /\ m = call[p].payment
        BY <1>2, <2>1, <3>1 DEF Leads, Along, Aside
      <3>3. CASE call[p].step = "settle"
        <4>1. Settle(p) /\ call'[p].step = "outcome"
          BY <1>2, <2>4, <3>2, <3>3, OwnMove
        <4>2. /\ m \in Payments /\ Captured(m) /\ gateway[m].order = x
              /\ UNCHANGED <<orders, gateway>> /\ ~Claimable(x) /\ orders[x].kind # "link"
          BY <2>1, <4>1, SettleIs DEF Aside, Settle, gatewayVars
        <4>3. LateIsLate(m, x)
          BY <2>2, <4>2 DEF LateIsLate, Claimable, IsOpen, Payable, SecondIsSecond, TodoIsMoney, OrdersTypeOK,
             Order, Kinds, Statuses, Done, Captured
        <4>. QED BY <1>1, <2>1, <2>2, <4>1, <4>3 DEF LateIsLate
      <3>4. CASE call[p].step \in {"outcome", "row"}
        <4>1. LateIsLate(m, x)'
          BY <1>1, <2>1, <2>2, <3>2, <3>4 DEF SecondIsSecond
        <4>2. call'[p].step = "row" => orders'[x].payment # m
          <5>. SUFFICES ASSUME call'[p].step = "row" PROVE orders'[x].payment # m
            OBVIOUS
          <5>1. Outcome(p) /\ call[p].step = "outcome"
            BY <2>4, <3>2, <3>4, OwnMove
          <5>2. UNCHANGED orders /\ (orders[x].payment # m \/ Goto(p, Onward(call[p])))
            BY <2>1, <3>2, <5>1 DEF Outcome, SecondPayment, orderVars
          <5>3. Onward(call[p]).step # "row"
            BY <1>0, HandNow, OnwardIs DEF HandOK
          <5>. QED BY <1>0, <5>2, <5>3 DEF Goto
        <4>. QED BY <2>1, <4>1, <4>2 DEF LateIsLate
      <3>. QED BY <3>2, <3>3, <3>4
    <2>. QED BY <2>3, <2>4
  <1>3. ASSUME NEW m \in rows'
        PROVE  LateIsLate(m, gateway[m].order)' /\ orders'[gateway'[m].order].payment # m
    <2>1. PICK x : x = gateway[m].order
      OBVIOUS
    <2>2. LateIsLate(m, x) /\ orders[x].payment # m
      <3>1. CASE m \in rows
        BY <2>1, <3>1 DEF SecondIsSecond
      <3>2. CASE m \notin rows
        <4>1. PICK p \in Procs : RecordRow(p)
          BY <1>3, <3>2 DEF OrdersNext, World, Arrive, StepOf, moneyVars, AskAbout, Unreachable, Capture, Settle, Outcome,
             CreditWallet, Apply, Confirm, VoidLinks, Finish, Fails, Quote, TakeLock, GiveUpLock, LookForOpen,
             InsertOrder, InsertLink, MintFails, ExpiryCheck, Release, Kill, SweepOrders, SweepLinks, ExpireUnpaid,
             GatewayReturns, CustomerPays, PriceRises, CaptainCash, SwitchToCash, CustomerCancels, BadSignature,
             Verify, Webhook, Poll, CreateOrder, CreateLink
        <4>2. m = call[p].payment /\ call[p].step = "row"
          BY <1>3, <3>2, <4>1 DEF RecordRow
        <4>3. LateIsLate(m, call[p].order) /\ orders[call[p].order].payment # m
          BY <4>2 DEF SecondIsSecond
        <4>. QED BY <2>1, <4>3 DEF LateIsLate
      <3>. QED BY <3>1, <3>2
    <2>3. m \in Payments /\ x \in Docs /\ gateway'[m].order = x
      BY <1>0, <2>1, <2>2 DEF LateIsLate, Captured, TodoIsMoney, Keeps
    <2>4. LateIsLate(m, x)' /\ orders'[x].payment # m
      BY <1>0, <1>1, <2>2, <2>3 DEF Keeps, LateIsLate
    <2>. QED BY <2>3, <2>4 DEF LateIsLate
  <1>4. \A o \in Docs : orders'[o].status = "voided" => orders'[o].kind = "link"
    BY NextOrder DEF OrderMoves, SecondIsSecond, Done
  <1>. QED BY <1>2, <1>3, <1>4 DEF SecondIsSecond

---------------------------------------------------------------------------
(* One payable order for one purchase. *)

LEMMA NextMinter ==
  ASSUME OrdersTypeOK, TodoIsMoney, SettlementOK, MinterAlone, OnePayableOrder, OrdersNext
  PROVE  MinterAlone' /\ OnePayableOrder'
  <1>0. Keeps /\ OrdersTypeOK' /\ OrderMoves /\ call \in [Procs -> Call]
    BY StepKeeps, TypesStep, NextOrder DEF OrdersTypeOK
  <1>1. ASSUME NEW o \in Docs, orders'[o].kind = "checkout", IsOpen(o)'
        PROVE  \/ /\ orders[o].kind = "checkout" /\ IsOpen(o) /\ orders'[o].amount = orders[o].amount
               \/ \E p \in Procs : InsertOrder(p) /\ orders'[o].amount = call[p].amount
    BY <1>0, <1>1 DEF OrderMoves, Keeps, IsOpen, Payable, Done
  <1>2. ASSUME NEW p \in Procs, InsertOrder(p)
        PROVE  /\ \A q \in Procs : q # p => call'[q] = call[q] /\ call[q].step \notin {"look", "insert"}
               /\ call'[p].step = "idle" /\ Reusable(call[p].amount) = {}
               /\ \E o \in Docs : \A x \in Docs : x # o => orders'[x] = orders[x]
    BY <1>0, <1>2, IdleIs DEF InsertOrder, Goto, MinterAlone, OrdersTypeOK
  <1>3. OnePayableOrder'
    <2>1. CASE \E p \in Procs : InsertOrder(p)
      <3>1. PICK p \in Procs : InsertOrder(p)
        BY <2>1
      <3>2. PICK o \in Docs : \A x \in Docs : x # o => orders'[x] = orders[x]
        BY <1>2, <3>1
      <3>3. \A x \in Docs : x # o /\ orders'[x].kind = "checkout" /\ IsOpen(x)' =>
              orders[x].kind = "checkout" /\ IsOpen(x) /\ orders'[x].amount = orders[x].amount
        BY <3>2 DEF IsOpen
      <3>4. orders'[o].kind = "checkout" /\ IsOpen(o)' =>
              \/ orders[o].kind = "checkout" /\ IsOpen(o) /\ orders'[o].amount = orders[o].amount
              \/ \A x \in Docs : ~(orders[x].kind = "checkout" /\ IsOpen(x) /\ orders[x].amount = orders'[o].amount)
        BY <1>1, <1>2 DEF Reusable
      <3>. QED BY <3>3, <3>4 DEF OnePayableOrder
    <2>2. CASE ~\E p \in Procs : InsertOrder(p)
      BY <1>1, <2>2 DEF OnePayableOrder
    <2>. QED BY <2>1, <2>2
  <1>4. \/ UNCHANGED mintLock
        \/ \E p \in Procs : TakeLock(p)
        \/ \E p \in Procs : call[p].step \in {"look", "insert"} /\ call'[p].step = "idle"
    <2>1. ASSUME NEW p \in Procs, StepOf(p), mintLock' # mintLock, ~TakeLock(p)
          PROVE  call[p].step \in {"look", "insert"} /\ call'[p].step = "idle"
      <3>1. LookForOpen(p) \/ InsertOrder(p) \/ MintFails(p)
        BY <2>1 DEF StepOf, AskAbout, Unreachable, Capture, Settle, Outcome, RecordRow, CreditWallet,
           Apply, Confirm, VoidLinks, Finish, Fails, Quote, GiveUpLock, InsertLink, ExpiryCheck, Release, orderVars
      <3>. QED BY <1>0, <2>1, <3>1, IdleIs DEF LookForOpen, InsertOrder, MintFails, Goto
    <2>2. (\E p \in Requests : Arrive(p)) \/ (\E p \in Procs : Kill(p)) \/ SweepOrders \/ SweepLinks \/ ExpireUnpaid \/ World
             => UNCHANGED mintLock
      BY DEF Arrive, Verify, Webhook, Poll, CreateOrder, CreateLink, Kill, SweepOrders, SweepLinks, ExpireUnpaid, World,
         GatewayReturns, CustomerPays, PriceRises, CaptainCash, SwitchToCash, CustomerCancels, BadSignature, orderVars
    <2>. QED BY <2>1, <2>2 DEF OrdersNext
  <1>5. ASSUME NEW q \in Procs, call'[q].step \in {"look", "insert"}
        PROVE  mintLock' = q /\ (call'[q].step = "insert" => Reusable(call[q].amount)' = {})
    <2>1. CASE call'[q] = call[q]
      <3>1. mintLock' = q
        BY <1>4, <1>5, <2>1 DEF MinterAlone, TakeLock, LockFree
      <3>2. ~\E p \in Procs : InsertOrder(p)
        BY <1>2, <1>5, <2>1
      <3>3. call[q].step = "insert" => Reusable(call[q].amount)' = {}
        <4>. PICK a : a = call[q].amount
          OBVIOUS
        <4>1. call[q].step = "insert" => Reusable(a)' = {}
          BY <1>1, <3>2 DEF MinterAlone, Reusable
        <4>. QED BY <2>1, <4>1
      <3>. QED BY <2>1, <3>1, <3>3
    <2>2. CASE call'[q] # call[q]
      <3>1. Leads(call[q], call'[q])
        BY <2>2, NextLeads
      <3>2. /\ call'[q].amount = call[q].amount
            /\ \/ call[q].step = "lock" /\ call'[q].step = "look"
               \/ call[q].step = "look" /\ call'[q].step = "insert"
        BY <1>5, <3>1 DEF Leads, Along, Aside
      <3>3. CASE call[q].step = "lock"
        BY <2>2, <3>2, <3>3, OwnMove DEF TakeLock
      <3>4. CASE call[q].step = "look"
        <4>1. LookForOpen(q) /\ call'[q].step = "insert"
          BY <2>2, <3>2, <3>4, OwnMove
        <4>2. UNCHANGED <<orders, mintLock>> /\ Reusable(call[q].amount) = {}
          BY <1>0, <4>1, IdleIs DEF LookForOpen, Goto
        <4>. PICK a : a = call[q].amount /\ a = call'[q].amount
          BY <3>2
        <4>3. Reusable(a)' = {}
          BY <4>2 DEF Reusable, IsOpen
        <4>. QED BY <3>4, <4>2, <4>3 DEF MinterAlone
      <3>. QED BY <3>2, <3>3, <3>4
    <2>. QED BY <2>1, <2>2
  <1>6. MinterAlone'
    BY <1>5 DEF MinterAlone
  <1>. QED BY <1>3, <1>6

---------------------------------------------------------------------------
(* Nobody is left waiting unnoticed. *)

LEMMA NextNoticed ==
  ASSUME OrdersTypeOK, TodoIsMoney, SettlementOK, Noticed, OrdersNext
  PROVE  Noticed'
  <1>0. /\ Keeps /\ OrdersTypeOK' /\ SettlementOK' /\ call \in [Procs -> Call] /\ orders \in [Docs -> Order]
        /\ booking' \in {"awaiting", "confirmed", "cancelled"} /\ due \in 0..MaxDue
    BY StepKeeps, TypesStep, NextSettles DEF OrdersTypeOK
  <1>. SUFFICES ASSUME booking' = "awaiting", due' = 0
                PROVE  \E o \in Docs :
                         \/ orders'[o].status = "attention"
                         \/ /\ orders'[o].settling
                            /\ \A p \in Procs : call'[p].step \in Settling /\ call'[p].order = o => call'[p].step = "confirm"
    BY DEF Noticed
  <1>1. ASSUME NEW p \in Procs, Apply(p), due # 0
        PROVE  \E o \in Docs : /\ orders'[o].settling
                               /\ \A q \in Procs : call'[q].step \in Settling /\ call'[q].order = o => call'[q].step = "confirm"
    <2>. DEFINE o == call[p].order
    <2>1. o \in Docs /\ call[p].step = "apply" /\ UNCHANGED orders
      BY <1>1 DEF Apply, OrdersTypeOK, InHand, Settling, orderVars
    <2>2. call'[p].step = "confirm" /\ call'[p].order = o /\ \A q \in Procs : q # p => call'[q] = call[q]
      BY <1>0, <1>1 DEF Apply, Goto, Call
    <2>3. \A q \in Procs : q # p /\ call[q].step \in Settling => call[q].order # o
      BY <2>1 DEF SettlementOK, OneSettler, Settling
    <2>4. orders'[o].settling
      BY <2>1 DEF SettlementOK, Marked, Settling
    <2>. QED BY <2>1, <2>2, <2>3, <2>4
  <1>2. booking = "awaiting" /\ (due = 0 \/ \E p \in Procs : Apply(p) /\ due # 0)
    <2>1. ASSUME NEW p \in Procs, StepOf(p), ~Apply(p) PROVE UNCHANGED due /\ booking = "awaiting"
      BY <2>1 DEF StepOf, AskAbout, Unreachable, Capture, Settle, Outcome, RecordRow, CreditWallet, Confirm, VoidLinks,
         Finish, Fails, Quote, TakeLock, GiveUpLock, LookForOpen, InsertOrder, InsertLink, MintFails, ExpiryCheck, Release, moneyVars
    <2>2. ASSUME NEW p \in Procs, Apply(p) PROVE booking = "awaiting"
      BY <2>2 DEF Apply
    <2>3. (\E p \in Requests : Arrive(p)) \/ (\E p \in Procs : Kill(p)) \/ SweepOrders \/ SweepLinks \/ ExpireUnpaid
             => UNCHANGED due /\ booking = "awaiting"
      BY DEF Arrive, Verify, Webhook, Poll, CreateOrder, CreateLink, Kill, SweepOrders, SweepLinks, ExpireUnpaid, moneyVars
    <2>4. World => UNCHANGED due /\ booking = "awaiting"
      BY DEF World, GatewayReturns, CustomerPays, PriceRises, CaptainCash, SwitchToCash, CustomerCancels, BadSignature, moneyVars
    <2>. QED BY <2>1, <2>2, <2>3, <2>4 DEF OrdersNext
  <1>3. ASSUME booking = "awaiting", due = 0
        PROVE  \E o \in Docs :
                 \/ orders'[o].status = "attention"
                 \/ /\ orders'[o].settling
                    /\ \A p \in Procs : call'[p].step \in Settling /\ call'[p].order = o => call'[p].step = "confirm"
    <2>1. PICK o \in Docs :
             \/ orders[o].status = "attention"
             \/ /\ orders[o].settling
                /\ \A p \in Procs : call[p].step \in Settling /\ call[p].order = o => call[p].step = "confirm"
      BY <1>3 DEF Noticed
    <2>2. CASE orders[o].status = "attention"
      <3>1. orders'[o].status = "attention"
        BY <1>0, <2>2 DEF Keeps, Done
      <3>. QED BY <3>1
    <2>3. CASE /\ orders[o].settling /\ orders'[o].status # "attention" /\ orders[o].status # "attention"
               /\ \A p \in Procs : call[p].step \in Settling /\ call[p].order = o => call[p].step = "confirm"
      <3>1. orders[o].status = "paid"
        BY <2>3 DEF SettlementOK, Marked
      <3>2. orders'[o].settling
        BY <2>3, <3>1, NextOrder DEF OrderMoves, Finish, Settling
      <3>3. ASSUME NEW p \in Procs, call'[p].step \in Settling, call'[p].order = o, call'[p] # call[p]
            PROVE  FALSE
        <4>1. Leads(call[p], call'[p])
          BY <3>3, NextLeads
        <4>2. CASE call[p].step = "settle"
          <5>1. Settle(p) /\ call'[p].step = "apply"
            BY <3>3, <4>1, <4>2, OwnMove DEF Leads, Along, Aside, Settling
          <5>2. Claimable(o)
            BY <3>3, <5>1, SettleIs DEF Aside
          <5>. QED BY <3>1, <5>2 DEF Claimable, IsOpen, Payable
        <4>3. CASE call[p].step # "settle"
          <5>1. call[p].step = "confirm" /\ call'[p].step = "void"
            BY <2>3, <3>3, <4>1, <4>3 DEF Leads, Along, Aside, Settling
          <5>2. Confirm(p) \/ Fails(p)
            BY <3>3, <5>1, OwnMove
          <5>3. CASE Confirm(p)
            BY <1>3, <5>3 DEF Confirm
          <5>4. CASE Fails(p)
            <6>1. call'[p] = Onward(call[p]) /\ Onward(call[p]).step # "void"
              BY <1>0, <5>4, HandNow, OnwardIs DEF Fails, Goto, HandOK
            <6>. QED BY <5>1, <6>1
          <5>. QED BY <5>2, <5>3, <5>4
        <4>. QED BY <4>2, <4>3
      <3>. QED BY <2>3, <3>2, <3>3
    <2>. QED BY <2>1, <2>2, <2>3
  <1>. QED BY <1>1, <1>2, <1>3

---------------------------------------------------------------------------
(* The theorems. *)

OrdersInv == OrdersTypeOK /\ TodoIsMoney /\ SettlementOK /\ SecondIsSecond /\ MinterAlone /\ OnePayableOrder /\ Noticed

LEMMA InvInit == OrdersInit => OrdersInv
  <1>. SUFFICES ASSUME OrdersInit PROVE OrdersInv
    OBVIOUS
  <1>1. OrdersTypeOK /\ TodoIsMoney
    BY TypesInit
  <1>2. \A o \in Docs : orders[o].status = "none" /\ ~orders[o].settling /\ orders[o].payment = NoPayment
    BY DEF OrdersInit, Minted
  <1>3. \A p \in Procs : call[p].step = "idle"
    BY IdleIs DEF OrdersInit
  <1>4. SettlementOK
    BY <1>2, <1>3 DEF SettlementOK, Marked, OneSettler, PaidMeansApplied, DoneIsPaid, NoPaymentYet, Settling, Done
  <1>5. SecondIsSecond /\ MinterAlone /\ OnePayableOrder
    BY <1>2, <1>3 DEF SecondIsSecond, MinterAlone, OnePayableOrder, IsOpen, Payable, OrdersInit
  <1>6. Noticed
    BY OrdersAssumption DEF Noticed, OrdersInit
  <1>. QED BY <1>1, <1>4, <1>5, <1>6 DEF OrdersInv

LEMMA InvStep ==
  ASSUME OrdersInv, [OrdersNext]_vars
  PROVE  OrdersInv'
  <1>1. CASE OrdersNext
    BY <1>1, TypesStep, NextSettles, NextSecond, NextMinter, NextNoticed DEF OrdersInv
  <1>2. CASE UNCHANGED vars
    BY <1>2 DEF OrdersInv, vars, OrdersTypeOK, TodoIsMoney, SettlementOK, Marked, OneSettler, PaidMeansApplied,
       DoneIsPaid, NoPaymentYet, SecondIsSecond, LateIsLate, MinterAlone, Reusable, OnePayableOrder, Noticed,
       IsOpen, Captured
  <1>. QED BY <1>1, <1>2

THEOREM OrdersAlways == OrdersSpec => []OrdersInv
  BY InvInit, InvStep, PTL DEF OrdersSpec

\* However many calls, payments and orders there are, every variable stays of its type.
THEOREM OrdersTyped == OrdersSpec => []OrdersTypeOK
  <1>1. OrdersInv => OrdersTypeOK
    BY DEF OrdersInv
  <1>. QED BY <1>1, OrdersAlways, PTL

\* An order is settled by one call at a time, whichever path found its money:
\* _apply_order_paid and _apply_link_paid let one claim through.
THEOREM SettledByOne == OrdersSpec => []OneSettler
  <1>1. OrdersInv => OneSettler
    BY DEF OrdersInv, SettlementOK
  <1>. QED BY <1>1, OrdersAlways, PTL

\* An order that reads paid with its settlement over has its money applied,
\* however many processes were killed.
THEOREM PaidIsApplied == OrdersSpec => []PaidMeansApplied
  <1>1. OrdersInv => PaidMeansApplied
    BY DEF OrdersInv, SettlementOK
  <1>. QED BY <1>1, OrdersAlways, PTL

\* Only a payment captured for it pays an order.
THEOREM PaidByCaptured == OrdersSpec => []PaidIsCaptured
  <1>1. OrdersInv => PaidIsCaptured
    BY DEF OrdersInv, SettlementOK, DoneIsPaid, PaidIsCaptured, AtGateway, Captured, Done
  <1>. QED BY <1>1, OrdersAlways, PTL

\* A payment recorded as a second one settled no order.
THEOREM CountedOnce == OrdersSpec => []PaymentCountsOnce
  <1>1. ASSUME OrdersInv, NEW m \in Payments, NEW o \in Docs, m \in rows, orders[o].payment = m
        PROVE  FALSE
    <2>1. orders[o].payment # NoPayment
      BY <1>1, OrdersAssumption
    <2>2. gateway[m].order = o
      BY <1>1, <2>1 DEF OrdersInv, SettlementOK, NoPaymentYet, DoneIsPaid
    <2>. QED BY <1>1, <2>2 DEF OrdersInv, SecondIsSecond
  <1>2. OrdersInv => PaymentCountsOnce
    BY <1>1 DEF PaymentCountsOnce
  <1>. QED BY <1>2, OrdersAlways, PTL

\* create_order never makes a second payable order of the same amount for the
\* same purchase.
THEOREM OnePayable == OrdersSpec => []OnePayableOrder
  <1>1. OrdersInv => OnePayableOrder
    BY DEF OrdersInv
  <1>. QED BY <1>1, OrdersAlways, PTL

\* A booking that owes nothing and is not confirmed is being settled or is on
\* the attention queue.
THEOREM AlwaysNoticed == OrdersSpec => []PaidIsNoticed
  <1>1. OrdersInv => PaidIsNoticed
    BY DEF OrdersInv, Noticed, PaidIsNoticed, Confirming
  <1>. QED BY <1>1, OrdersAlways, PTL
=============================================================================
