---------------------------- MODULE PaymentOrders ----------------------------
(***************************************************************************)
(* The life of an online payment for one booking: checkout orders and      *)
(* payment links are minted, the customer pays at the gateway, and the     *)
(* money is found by whoever looks first - the browser's verify, the       *)
(* webhook, the status poll, the reconciliation sweep, the expiry sweep or *)
(* the next create_order.  Every one of them settles through one guarded   *)
(* update of the order (the claim); what follows is a series of awaits of  *)
(* which a process may be killed at any.                                   *)
(*                                                                         *)
(* A call in progress is call[p]; what the booking is charged and what its *)
(* money does are BookingMoney's, of which this module keeps what is due.  *)
(***************************************************************************)
EXTENDS Integers, FiniteSets

CONSTANTS
    Docs,         \* documents of payment_orders: checkout orders and links
    Payments,     \* payments at the gateway
    Requests,     \* API calls and webhook deliveries served at once
    Loop,         \* the reminder loop's pass, run by the lease holder
    Price,        \* what the booking costs
    MaxDue,       \* bound: an edit never raises what is due above it
    MaxKills,     \* bound: processes killed
    NoDoc, NoPayment, NoOne

Procs == Requests \cup {Loop}

ASSUME OrdersAssumption ==
    /\ Loop \notin Requests /\ NoOne \notin Procs
    /\ NoDoc \notin Docs /\ NoPayment \notin Payments
    /\ Price \in Nat \ {0} /\ MaxDue \in Nat /\ Price <= MaxDue /\ MaxKills \in Nat

VARIABLES
    orders,    \* payment_orders: kind, status, settling, amount, payment
    booking,   \* the booking's status
    due,       \* what the booking owes
    applied,   \* orders whose key po:<id> is on the booking's payments
    rows,      \* payments with a duplicate_payment row
    credited,  \* payments whose key dup:<id> is on the wallet
    events,    \* payments with a row in razorpay_webhook_events
    gateway,   \* Razorpay: what each payment is and which order it is for
    dead,      \* Razorpay: links cancelled there
    mintLock,  \* payment_order_claims: who mints
    call,      \* where each process is
    kills      \* processes killed so far

orderVars == <<orders, mintLock>>
moneyVars == <<booking, due, applied, rows, credited>>
gatewayVars == <<gateway, dead>>
vars == <<orders, booking, due, applied, rows, credited, events, gateway, dead,
          mintLock, call, kills>>

Kinds == {"checkout", "link"}
Statuses == {"none", "created", "failed", "voided", "paid", "attention"}

Order == [kind : Kinds, status : Statuses, settling : BOOLEAN, amount : 0..MaxDue,
          payment : Payments \cup {NoPayment}]

GatewayPayment == [status : {"none", "authorized", "captured", "returned"},
                   order : Docs \cup {NoDoc}]

(* Who calls: the loop's sweep or expiry, create_order, or any report of a payment. *)
Vias == {"none", "report", "sweep", "expiry", "create"}

(* The steps between a claim and the end of its settlement. *)
Settling == {"apply", "confirm", "void", "finish"}

Steps == Settling \cup {"idle", "ask", "capture", "settle", "outcome", "row", "credit",
          "quote", "lock", "look", "insert", "insertLink", "check", "release"}

(* The steps with an order in hand. *)
InHand == Settling \cup {"capture", "settle", "outcome", "row", "credit"}

(* docs: orders still to ask the gateway about; order, todo, payment: the *)
(* one in hand, its payments still to settle, the one being settled;      *)
(* found: the best answer so far; amount: what the booking read owed.     *)
Call == [step : Steps, via : Vias, docs : SUBSET Docs, order : Docs \cup {NoDoc},
         todo : SUBSET Payments, payment : Payments \cup {NoPayment},
         found : {"open", "pending", "paid"}, amount : 0..MaxDue]

Idle == [step |-> "idle", via |-> "none", docs |-> {}, order |-> NoDoc, todo |-> {},
         payment |-> NoPayment, found |-> "open", amount |-> 0]

OrdersTypeOK ==
    /\ orders \in [Docs -> Order]
    /\ booking \in {"awaiting", "confirmed", "cancelled"}
    /\ due \in 0..MaxDue
    /\ applied \subseteq Docs
    /\ rows \subseteq Payments /\ credited \subseteq Payments /\ events \subseteq Payments
    /\ gateway \in [Payments -> GatewayPayment]
    /\ dead \subseteq Docs
    /\ mintLock \in Procs \cup {NoOne}
    /\ call \in [Procs -> Call]
    /\ kills \in 0..MaxKills
    /\ \A p \in Procs : call[p].step \in InHand => call[p].order \in Docs

-----------------------------------------------------------------------------
(* Who is asked what. *)

Payable == {"created", "failed"}                        \* _OPEN
IsOpen(o) == orders[o].status \in Payable
OpenLinks == {o \in Docs : orders[o].kind = "link" /\ orders[o].status = "created"}

(* mutant: an order whose signature check failed is forgotten *)
OpenPaymentsFresh == {o \in Docs : orders[o].status = "created"}

(* _open_payments: the checkout orders and links still payable. *)
OpenPayments == {o \in Docs : IsOpen(o)}

Captured(m) == gateway[m].status = "captured"
AtGateway(o, status) == {m \in Payments : gateway[m].order = o /\ gateway[m].status = status}

(* Something the order pays for still owes money. *)
TargetStillPayable == booking # "cancelled" /\ due > 0

(* A claim may be made: a link voided a moment too late is claimed too. *)
Claimable(o) ==
    IF orders[o].kind = "link" THEN orders[o].status \in {"created", "voided"}
                               ELSE IsOpen(o)

Goto(p, c) == call' = [call EXCEPT ![p] = c]

(* What a call does once it is done with a payment or an order. *)
Onward(c) ==
    LET free == [c EXCEPT !.order = NoDoc, !.payment = NoPayment]
    IN  IF c.todo # {} THEN [c EXCEPT !.step = "settle", !.payment = NoPayment]
        ELSE IF c.docs # {} THEN [free EXCEPT !.step = "ask"]
        ELSE IF c.via = "create" THEN [free EXCEPT !.step = "quote"]
        ELSE IF c.via = "expiry" THEN [free EXCEPT !.step = "check"] ELSE Idle

(* The best of what the gateway said of the orders asked about: only those *)
(* who go on to decide something keep it.                                  *)
Hearing(c, answer) ==
    IF c.via \in {"create", "expiry"} /\ (answer = "paid" \/ c.found = "open")
      THEN [c EXCEPT !.found = answer] ELSE c

Reading(via, docs) == Onward([Idle EXCEPT !.via = via, !.docs = docs])

(* mutant: an interrupted settlement is closed, nobody is told *)
ParkedQuietly(o) == [orders[o] EXCEPT !.settling = FALSE]

(* _flag_order_attention: money that could not be applied, for a human. *)
Parked(o) == [orders[o] EXCEPT !.status = "attention", !.settling = FALSE]

(* A settlement that will not go on: nobody is between its claim and its end. *)
Interrupted(o) ==
    /\ orders[o].settling
    /\ \A p \in Procs : ~(call[p].order = o /\ call[p].step \in Settling)

-----------------------------------------------------------------------------
(* The gateway and the people. *)

(* The customer pays an order that is on his screen, or a link he was sent; *)
(* the gateway captures it at once or leaves it authorized.                 *)
CustomerPays(m, o) ==
    /\ gateway[m].status = "none"
    /\ orders[o].status # "none" /\ o \notin dead
    /\ orders[o].kind = "link" => AtGateway(o, "captured") = {}
    /\ \E s \in {"authorized", "captured"} :
          /\ orders[o].kind = "link" => s = "captured"
          /\ gateway' = [gateway EXCEPT ![m] = [status |-> s, order |-> o]]
    /\ UNCHANGED <<orderVars, moneyVars, events, dead, call, kills>>

(* An authorized payment nobody captured goes back on its own. *)
GatewayReturns(m) ==
    /\ gateway[m].status = "authorized"
    /\ gateway' = [gateway EXCEPT ![m].status = "returned"]
    /\ UNCHANGED <<orderVars, moneyVars, events, dead, call, kills>>

(* void_open_links: each link the gateway agrees to cancel is voided; one *)
(* just paid is not, and a failed call leaves it.                         *)
VoidSome(keep) ==
    LET gone == {o \in OpenLinks : AtGateway(o, "captured") = {}} \ keep
    IN  /\ orders' = [o \in Docs |-> IF o \in gone THEN [orders[o] EXCEPT !.status = "voided"]
                                                   ELSE orders[o]]
        /\ dead' = dead \cup gone

(* An edit or an on-site add-on raises what is due. *)
PriceRises ==
    /\ booking = "confirmed" /\ due < MaxDue
    /\ due' = due + 1
    /\ UNCHANGED <<orderVars, booking, applied, rows, credited, events, gatewayVars, call, kills>>

(* The captain collects what is due. *)
CaptainCash ==
    /\ booking = "confirmed" /\ due > 0
    /\ due' = 0
    /\ \E keep \in SUBSET OpenLinks : VoidSome(keep)
    /\ UNCHANGED <<booking, applied, rows, credited, events, gateway, mintLock, call, kills>>

SwitchToCash ==
    /\ booking = "awaiting" /\ due > 0
    /\ booking' = "confirmed"
    /\ \E keep \in SUBSET OpenLinks : VoidSome(keep)
    /\ UNCHANGED <<due, applied, rows, credited, events, gateway, mintLock, call, kills>>

CustomerCancels ==
    /\ booking # "cancelled"
    /\ booking' = "cancelled"
    /\ \E keep \in SUBSET OpenLinks : VoidSome(keep)
    /\ UNCHANGED <<due, applied, rows, credited, events, gateway, mintLock, call, kills>>

(* verify with a signature that does not match: only the order is marked. *)
BadSignature(o) ==
    /\ orders[o].kind = "checkout" /\ orders[o].status = "created"
    /\ orders' = [orders EXCEPT ![o].status = "failed"]
    /\ UNCHANGED <<mintLock, moneyVars, events, gatewayVars, call, kills>>

-----------------------------------------------------------------------------
(* The ways in. *)

(* verify_payment and verify_link_callback: the browser names the payment, *)
(* the gateway says what it is.  A replay of the payment that settled a    *)
(* checkout order only reports.                                            *)
Verify(p, m) ==
    LET o == gateway[m].order
        c == [Idle EXCEPT !.via = "report", !.order = o]
    IN  /\ call[p].step = "idle"
        /\ gateway[m].status \in {"authorized", "captured"}
        /\ orders[o].kind = "checkout" => ~(~IsOpen(o) /\ orders[o].payment = m)
        /\ Goto(p, IF Captured(m)
                     THEN [c EXCEPT !.step = "settle", !.todo = {m}]
                     ELSE [c EXCEPT !.step = "capture", !.payment = m])
        /\ UNCHANGED <<orderVars, moneyVars, events, gatewayVars, kills>>

(* handle_webhook: payment.captured, payment_link.paid.  A delivery whose   *)
(* event is known is answered "duplicate", even if its process was killed. *)
Webhook(p, m) ==
    /\ call[p].step = "idle"
    /\ Captured(m) /\ m \notin events
    /\ events' = events \cup {m}
    /\ Goto(p, [Idle EXCEPT !.via = "report", !.order = gateway[m].order,
                            !.step = "settle", !.todo = {m}])
    /\ UNCHANGED <<orderVars, moneyVars, gatewayVars, kills>>

(* The checkout's status poll and the captain's QR poll ask about one order. *)
Poll(p, o) ==
    /\ call[p].step = "idle"
    /\ IsOpen(o)
    /\ Goto(p, Reading("report", {o}))
    /\ UNCHANGED <<orderVars, moneyVars, events, gatewayVars, kills>>

(* sync_pending_orders: interrupted settlements are parked, then the open *)
(* checkout orders are asked about; sync_pending_links: the open links.   *)
SweepOrders ==
    /\ call[Loop].step = "idle"
    /\ orders' = [o \in Docs |-> IF Interrupted(o) THEN Parked(o) ELSE orders[o]]
    /\ Goto(Loop, Reading("sweep", {o \in OpenPayments : orders[o].kind = "checkout"}))
    /\ UNCHANGED <<mintLock, moneyVars, events, gatewayVars, kills>>

SweepLinks ==
    /\ call[Loop].step = "idle" /\ OpenLinks # {}
    /\ Goto(Loop, Reading("sweep", OpenLinks))
    /\ UNCHANGED <<orderVars, moneyVars, events, gatewayVars, kills>>

(* create_order: what is open for the booking is asked about first. *)
CreateOrder(p) ==
    /\ call[p].step = "idle"
    /\ booking # "cancelled" /\ due > 0
    /\ Goto(p, [Reading("create", OpenPayments) EXCEPT !.amount = due])
    /\ UNCHANGED <<orderVars, moneyVars, events, gatewayVars, kills>>

(* create_payment_link, captain_payment_link (which hands back an open link *)
(* for the same amount).                                                    *)
CreateLink(p) ==
    /\ call[p].step = "idle"
    /\ booking # "cancelled" /\ due > 0
    /\ \A o \in OpenLinks : orders[o].amount # due
    /\ Goto(p, [Idle EXCEPT !.step = "insertLink", !.amount = due])
    /\ UNCHANGED <<orderVars, moneyVars, events, gatewayVars, kills>>

(* prepare_expiry: the payment window of an unpaid booking ran out. *)
ExpireUnpaid ==
    /\ call[Loop].step = "idle"
    /\ booking = "awaiting"
    /\ Goto(Loop, Reading("expiry", OpenPayments))
    /\ UNCHANGED <<orderVars, moneyVars, events, gatewayVars, kills>>

-----------------------------------------------------------------------------
(* Asking the gateway. *)

(* _reconcile_one, _apply_order_payments.  The link sweep also voids a link *)
(* nobody needs any more.                                                  *)
AskAbout(p, o) ==
    LET c == [call[p] EXCEPT !.docs = @ \ {o}, !.order = o]
        captured == AtGateway(o, "captured")
        waiting == AtGateway(o, "authorized")
        moot == /\ c.via = "sweep" /\ orders[o].kind = "link" /\ captured = {}
                /\ orders[o].status = "created" /\ ~TargetStillPayable
    IN  /\ call[p].step = "ask" /\ o \in call[p].docs
        /\ IF captured = {} /\ waiting # {}
             THEN \E m \in waiting : Goto(p, [c EXCEPT !.step = "capture", !.payment = m])
             ELSE Goto(p, Onward([c EXCEPT !.todo = captured]))
        /\ IF moot THEN /\ orders' = [orders EXCEPT ![o].status = "voided"]
                        /\ dead' = dead \cup {o}
                   ELSE UNCHANGED <<orders, dead>>
        /\ UNCHANGED <<mintLock, moneyVars, events, gateway, kills>>

(* The gateway does not answer.  Down or slow, it ends a sweep and an expiry, *)
(* and a new order goes ahead; an error about one order skips that one.      *)
Unreachable(p) ==
    /\ call[p].step = "ask"
    /\ \/ Goto(p, IF call[p].via = "create" THEN Onward([call[p] EXCEPT !.docs = {}]) ELSE Idle)
       \/ \E o \in call[p].docs : Goto(p, Onward([call[p] EXCEPT !.docs = @ \ {o}]))
    /\ UNCHANGED <<orderVars, moneyVars, events, gatewayVars, kills>>

(* _settle_gateway_payment of an authorized payment: not captured for an *)
(* order that is closed or a target that owes nothing.                   *)
Capture(p) ==
    LET c == call[p]
        wanted == IsOpen(c.order) /\ TargetStillPayable
    IN  /\ c.step = "capture"
        /\ \/ /\ ~wanted
              /\ Goto(p, Onward(c)) /\ UNCHANGED gateway
           \/ /\ wanted /\ gateway[c.payment].status \in {"authorized", "captured"}
              /\ gateway' = [gateway EXCEPT ![c.payment].status = "captured"]
              /\ Goto(p, Onward([c EXCEPT !.todo = {c.payment}]))
           \/ /\ wanted                         \* the gateway would not, or not yet
              /\ Goto(p, Onward(Hearing(c, "pending")))
              /\ UNCHANGED gateway
        /\ UNCHANGED <<orderVars, moneyVars, events, dead, kills>>

-----------------------------------------------------------------------------
(* Settling. *)

(* mutant: nothing says that the settlement is under way *)
ClaimQuietly(o, m) == [orders EXCEPT ![o].status = "paid", ![o].payment = m]

Claim(o, m) == [orders EXCEPT ![o].status = "paid", ![o].settling = TRUE, ![o].payment = m]

(* _apply_order_paid, _apply_link_paid: the claim. *)
Settle(p) ==
    /\ call[p].step = "settle"
    /\ \E m \in call[p].todo :
          LET o == call[p].order
              c == Hearing([call[p] EXCEPT !.todo = @ \ {m}], "paid")
          IN  \/ /\ Claimable(o)
                 /\ orders' = Claim(o, m)
                 /\ Goto(p, [c EXCEPT !.step = "apply"])
              \/ /\ ~Claimable(o) /\ UNCHANGED orders
                 /\ Goto(p, IF orders[o].kind = "link" THEN Onward(c)
                                                       ELSE [c EXCEPT !.step = "outcome", !.payment = m])
    /\ UNCHANGED <<mintLock, moneyVars, events, gatewayVars, kills>>

(* mutant: whoever comes second is a second payment *)
SecondReport(o, m) == orders[o].payment # NoPayment

(* _order_outcome: another payment settled the order. *)
SecondPayment(o, m) == orders[o].payment # m

Outcome(p) ==
    LET c == call[p] IN
    /\ c.step = "outcome"
    /\ Goto(p, IF SecondPayment(c.order, c.payment) THEN [c EXCEPT !.step = "row"] ELSE Onward(c))
    /\ UNCHANGED <<orderVars, moneyVars, events, gatewayVars, kills>>

(* _record_duplicate_payment: the row, unless somebody has recorded it ... *)
RecordRow(p) ==
    LET c == call[p] IN
    /\ c.step = "row"
    /\ rows' = rows \cup {c.payment}
    /\ Goto(p, IF c.payment \in rows THEN Onward(c) ELSE [c EXCEPT !.step = "credit"])
    /\ UNCHANGED <<orderVars, booking, due, applied, credited, events, gatewayVars, kills>>

(* ... and the wallet. *)
CreditWallet(p) ==
    LET c == call[p] IN
    /\ c.step = "credit"
    /\ credited' = credited \cup {c.payment}
    /\ Goto(p, Onward(c))
    /\ UNCHANGED <<orderVars, booking, due, applied, rows, events, gatewayVars, kills>>

(* _settle_booking_money: the order's money, once by its key; what a closed *)
(* or paid booking does not owe is the customer's wallet credit.           *)
Apply(p) ==
    LET c == call[p]
        left == IF due > orders[c.order].amount THEN due - orders[c.order].amount ELSE 0
        takes == booking # "cancelled" /\ due > 0 /\ c.order \notin applied
    IN  /\ c.step = "apply"
        /\ applied' = applied \cup {c.order}
        /\ due' = IF takes THEN left ELSE due
        /\ Goto(p, [c EXCEPT !.step = IF takes /\ left = 0 THEN "confirm" ELSE "finish"])
        /\ UNCHANGED <<orderVars, booking, rows, credited, events, gatewayVars, kills>>

(* confirm_awaiting_payment_booking: a no-op for any other booking. *)
Confirm(p) ==
    /\ call[p].step = "confirm"
    /\ booking' = IF booking = "awaiting" THEN "confirmed" ELSE booking
    /\ Goto(p, [call[p] EXCEPT !.step = "void"])
    /\ UNCHANGED <<orderVars, due, applied, rows, credited, events, gatewayVars, kills>>

VoidLinks(p) ==
    /\ call[p].step = "void"
    /\ \E keep \in SUBSET OpenLinks : VoidSome(keep)
    /\ Goto(p, [call[p] EXCEPT !.step = "finish"])
    /\ UNCHANGED <<mintLock, moneyVars, events, gateway, kills>>

Finish(p) ==
    /\ call[p].step = "finish"
    /\ orders' = [orders EXCEPT ![call[p].order].settling = FALSE]
    /\ Goto(p, Onward(call[p]))
    /\ UNCHANGED <<mintLock, moneyVars, events, gatewayVars, kills>>

(* An exception anywhere in a settlement parks the order. *)
Fails(p) ==
    /\ call[p].step \in {"apply", "confirm", "void"}
    /\ orders' = [orders EXCEPT ![call[p].order] = Parked(call[p].order)]
    /\ Goto(p, Onward(call[p]))
    /\ UNCHANGED <<mintLock, moneyVars, events, gatewayVars, kills>>

-----------------------------------------------------------------------------
(* A new order. *)

(* Money in and not applied yet: mid-settlement, or parked for a human. *)
Confirming == \E o \in Docs : orders[o].settling \/ orders[o].status = "attention"

(* _booking_order after the gateway's answers, _refuse_while_confirming. *)
Quote(p) ==
    LET c == call[p]
        owed == IF c.found = "paid" THEN due ELSE c.amount
    IN  /\ c.step = "quote"
        /\ Goto(p, IF owed = 0 \/ c.found = "pending" \/ Confirming THEN Idle
                   ELSE [c EXCEPT !.step = "lock", !.amount = owed, !.found = "open"])
        /\ UNCHANGED <<orderVars, moneyVars, events, gatewayVars, kills>>

(* mutant: the claim document is taken over at once *)
LockIgnored == mintLock \in Procs \cup {NoOne}

(* _mint_lock: free, or left by a request that died. *)
LockFree == mintLock \notin {p \in Procs : call[p].step \in {"look", "insert"}}

TakeLock(p) ==
    /\ call[p].step = "lock" /\ LockFree
    /\ mintLock' = p
    /\ Goto(p, [call[p] EXCEPT !.step = "look"])
    /\ UNCHANGED <<orders, moneyVars, events, gatewayVars, kills>>

GiveUpLock(p) ==
    /\ call[p].step = "lock" /\ ~LockFree
    /\ Goto(p, Idle)
    /\ UNCHANGED <<orderVars, moneyVars, events, gatewayVars, kills>>

(* _reusable_order: a still-open checkout order for the same amount. *)
Reusable(amount) == {o \in Docs : orders[o].kind = "checkout" /\ IsOpen(o) /\ orders[o].amount = amount}

LookForOpen(p) ==
    /\ call[p].step = "look"
    /\ \/ /\ Reusable(call[p].amount) = {}
          /\ Goto(p, [call[p] EXCEPT !.step = "insert"]) /\ UNCHANGED mintLock
       \/ /\ Reusable(call[p].amount) # {}
          /\ Goto(p, Idle) /\ mintLock' = NoOne
    /\ UNCHANGED <<orders, moneyVars, events, gatewayVars, kills>>

Minted(kind, amount) == [kind |-> kind, status |-> "created", settling |-> FALSE, amount |-> amount,
                         payment |-> NoPayment]

(* _mint_checkout_order: the gateway's order, then the document; the lock goes. *)
InsertOrder(p) ==
    /\ call[p].step = "insert"
    /\ \E o \in Docs :
          /\ orders[o].status = "none"
          /\ orders' = [orders EXCEPT ![o] = Minted("checkout", call[p].amount)]
    /\ mintLock' = NoOne
    /\ Goto(p, Idle)
    /\ UNCHANGED <<moneyVars, events, gatewayVars, kills>>

InsertLink(p) ==
    /\ call[p].step = "insertLink"
    /\ \E o \in Docs :
          /\ orders[o].status = "none"
          /\ orders' = [orders EXCEPT ![o] = Minted("link", call[p].amount)]
    /\ Goto(p, Idle)
    /\ UNCHANGED <<mintLock, moneyVars, events, gatewayVars, kills>>

(* The gateway declines, or the bound on documents is reached. *)
MintFails(p) ==
    /\ call[p].step \in {"insert", "insertLink"}
    /\ mintLock' = IF call[p].step = "insert" THEN NoOne ELSE mintLock
    /\ Goto(p, Idle)
    /\ UNCHANGED <<orders, moneyVars, events, gatewayVars, kills>>

-----------------------------------------------------------------------------
(* The end of a payment window. *)

(* prepare_expiry after the gateway's answers: still waiting, nothing      *)
(* authorized and no checkout opened in the last minutes - or past the     *)
(* hard stop, which overrules those two.                                   *)
ExpiryCheck(p) ==
    LET c == call[p] IN
    /\ c.step = "check"
    /\ \E pastHardStop, onScreen \in BOOLEAN :
          /\ onScreen => \E o \in Docs : orders[o].kind = "checkout" /\ IsOpen(o)
          /\ IF /\ booking # "confirmed" /\ (booking = "awaiting" => due > 0)
                /\ pastHardStop \/ (c.found # "pending" /\ ~onScreen)
               THEN /\ \E keep \in SUBSET OpenLinks : VoidSome(keep)
                    /\ Goto(p, [c EXCEPT !.step = "release", !.found = "open"])
               ELSE Goto(p, Idle) /\ UNCHANGED <<orders, dead>>
    /\ UNCHANGED <<mintLock, moneyVars, events, gateway, kills>>

(* cancel_booking with only_if_unpaid. *)
Release(p) ==
    /\ call[p].step = "release"
    /\ booking' = IF booking = "awaiting" /\ due >= Price THEN "cancelled" ELSE booking
    /\ Goto(p, Idle)
    /\ UNCHANGED <<orderVars, due, applied, rows, credited, events, gatewayVars, kills>>

(* A process is killed wherever it is. *)
Kill(p) ==
    /\ call[p].step # "idle" /\ kills < MaxKills
    /\ kills' = kills + 1
    /\ Goto(p, Idle)
    /\ UNCHANGED <<orderVars, moneyVars, events, gatewayVars>>

-----------------------------------------------------------------------------
OrdersInit ==
    /\ orders = [o \in Docs |-> [Minted("checkout", 0) EXCEPT !.status = "none"]]
    /\ booking = "awaiting" /\ due = Price
    /\ applied = {} /\ rows = {} /\ credited = {} /\ events = {}
    /\ gateway = [m \in Payments |-> [status |-> "none", order |-> NoDoc]]
    /\ dead = {} /\ mintLock = NoOne
    /\ call = [p \in Procs |-> Idle]
    /\ kills = 0

Arrive(p) ==
    \/ \E m \in Payments : Verify(p, m) \/ Webhook(p, m)
    \/ \E o \in Docs : Poll(p, o)
    \/ CreateOrder(p) \/ CreateLink(p)

(* One step of a call in progress. *)
StepOf(p) ==
    \/ \E o \in Docs : AskAbout(p, o)
    \/ Unreachable(p) \/ Capture(p)
    \/ Settle(p) \/ Outcome(p) \/ RecordRow(p) \/ CreditWallet(p)
    \/ Apply(p) \/ Confirm(p) \/ VoidLinks(p) \/ Finish(p) \/ Fails(p)
    \/ Quote(p) \/ TakeLock(p) \/ GiveUpLock(p) \/ LookForOpen(p)
    \/ InsertOrder(p) \/ InsertLink(p) \/ MintFails(p)
    \/ ExpiryCheck(p) \/ Release(p)

World ==
    \/ \E m \in Payments : GatewayReturns(m) \/ \E o \in Docs : CustomerPays(m, o)
    \/ PriceRises \/ CaptainCash \/ SwitchToCash \/ CustomerCancels
    \/ \E o \in Docs : BadSignature(o)

OrdersNext ==
    \/ \E p \in Requests : Arrive(p)
    \/ \E p \in Procs : StepOf(p) \/ Kill(p)
    \/ SweepOrders \/ SweepLinks \/ ExpireUnpaid
    \/ World

OrdersSpec == OrdersInit /\ [][OrdersNext]_vars

(* A call goes on until it ends or its process is killed: its awaits time out. *)
(* The loop starts each sweep again and again, and the gateway answers it     *)
(* about each order in the end; people owe nothing.                           *)
Fairness ==
    /\ \A p \in Procs : WF_vars(StepOf(p))
    /\ SF_vars(SweepOrders) /\ SF_vars(SweepLinks)
    /\ \A o \in Docs : SF_vars(AskAbout(Loop, o))

OrdersLiveSpec == OrdersSpec /\ Fairness

-----------------------------------------------------------------------------
(* PROPERTIES *)

(* An order is settled by one call at a time, whichever path found the money: *)
(* _apply_order_paid's claim lets one of them through.                        *)
OneSettler ==
    \A p, q \in Procs : call[p].step \in Settling /\ call[q].step \in Settling
        /\ call[p].order = call[q].order => p = q

(* An order that reads paid with its settlement over has its money applied:  *)
(* a call killed or failed half-way leaves it settling or parked.            *)
PaidMeansApplied ==
    \A o \in Docs : orders[o].status = "paid" /\ ~orders[o].settling => o \in applied

(* An order is only ever paid by a payment that was captured for it: a       *)
(* signature proves the customer finished checkout, not that money came.     *)
PaidIsCaptured ==
    \A o \in Docs : orders[o].status \in {"paid", "attention"} =>
        \E m \in AtGateway(o, "captured") : orders[o].payment = m

(* A payment counts once: the one that settled an order is never credited to *)
(* the wallet as its duplicate, however many paths report it.                *)
PaymentCountsOnce ==
    \A m \in Payments, o \in Docs : m \in rows => orders[o].payment # m

(* One purchase never has two payable orders: create_order hands back the    *)
(* open one, or mints under the lock.                                        *)
OnePayableOrder ==
    \A o, q \in Docs : orders[o].kind = "checkout" /\ orders[q].kind = "checkout"
        /\ IsOpen(o) /\ IsOpen(q) /\ orders[o].amount = orders[q].amount => o = q

(* A booking whose money is all applied does not stay unconfirmed unnoticed: *)
(* an order of it is being settled or is on the attention queue.             *)
PaidIsNoticed == booking = "awaiting" /\ due = 0 => Confirming

(* Captured money of an open order is claimed and its settlement ends, with  *)
(* every browser and webhook lost: the sweeps find it.                       *)
MoneyFound ==
    \A o \in Docs : IsOpen(o) /\ AtGateway(o, "captured") # {}
        ~> orders[o].status \in {"paid", "attention"} /\ ~orders[o].settling
=============================================================================
