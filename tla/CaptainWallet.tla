----------------------------- MODULE CaptainWallet -----------------------------
(***************************************************************************)
(* What a captain is owed: how the price of a job is shared between him    *)
(* and the platform (booking_service.py, booking_adjust_service.py), what  *)
(* the job posts to his wallet (money_service.py), and how he draws it     *)
(* (wallet_service.py).  One booking, several captains; a call that reads  *)
(* and then writes takes a step for each.                                  *)
(***************************************************************************)
EXTENDS Integers, FiniteSetsExt

CONSTANTS
    Captains,
    Calls,               \* calls that take several steps
    Withdrawals,         \* the requests captains may file
    Prices, Pay,         \* what the services cost, and their captain's pay
    Penalty,             \* what a late start costs him, at most
    Discounts, AddOns,   \* amounts a manager takes off, and adds on site
    Amounts,             \* what a captain may ask to be paid out
    Opening,             \* what every wallet starts with
    MaxChanges,          \* bound: changes of the price
    Nobody, Unseen

ASSUME WalletAssumption ==
    /\ Prices \subseteq Nat /\ Pay \in [Prices -> Nat] /\ \A p \in Prices : Pay[p] <= p
    /\ Penalty \in Nat /\ Discounts \subseteq Nat /\ AddOns \subseteq Nat /\ Amounts \subseteq Nat \ {0}
    /\ Opening \in Int /\ MaxChanges \in Nat /\ Nobody \notin Captains \cup Withdrawals
    /\ IsFiniteSet(Withdrawals)

VARIABLES
    job,        \* the booking: who does it, its price and shares, cash and postings
    keys,       \* payment_keys: the cash collections applied to it
    wallet,     \* balance of each captain
    hand,       \* cash each captain has taken from the customer
    request,    \* the withdrawal requests
    debits,     \* how often each was taken from its wallet, less given back
    call,       \* where each call is and what it has read
    changes,
    stale,      \* a share was written from an amount changed since it was read
    handed,     \* an administrator gave away a job for which cash was taken
    muddled     \* requests reviewed in the middle of a review, or of a broken one

jobVars == <<job, keys, hand, changes, stale, handed>>
drawVars == <<request, debits, muddled>>
vars == <<jobVars, drawVars, wallet, call>>

Open == {"pending", "assigned", "heading", "started"}
Job == [status : Open \cup {"done", "closed", "cancelled"}, captain : Captains \cup {Nobody},
        price : Prices, discount : Nat, added : Nat, paid : Int,
        earn : Nat, platform : Int, late : Nat, cash : Int, settled : Int]
Request == [status : {"none", "pending", "approved", "rejected", "paid"},
            captain : Captains \cup {Nobody}, amount : Nat]
Call == [op : {"none", "setoff", "release", "collect", "review"},
         step : {"idle", "write", "claim", "money", "handback"},
         by : Captains \cup {Nobody}, seen : Job \cup {Unseen}, amount : Int,
         w : Withdrawals \cup {Nobody}, from : {"none", "pending", "approved"},
         to : {"none", "approved", "rejected", "paid"}]

WalletTypeOK ==
    /\ job \in Job /\ wallet \in [Captains -> Int] /\ hand \in [Captains -> Int]
    /\ request \in [Withdrawals -> Request] /\ debits \in [Withdrawals -> Int]
    /\ call \in [Calls -> Call] /\ changes \in 0..MaxChanges
    /\ stale \in BOOLEAN /\ handed \in BOOLEAN /\ muddled \subseteq Withdrawals

Least(a, b) == IF a < b THEN a ELSE b

Total(j) == j.price - j.discount + j.added
Due(j) == IF j.status = "cancelled" \/ j.paid > Total(j) THEN 0 ELSE Total(j) - j.paid

(* A price put down below what was paid: the rest went to the customer's wallet. *)
Repaid(j) == [j EXCEPT !.paid = Least(@, Total(j))]

Quiet == [op |-> "none", step |-> "idle", by |-> Nobody, seen |-> Unseen, amount |-> 0,
          w |-> Nobody, from |-> "none", to |-> "none"]

(* A call of captain k that has read the job, and works with the amount n. *)
Reading(o, k, n) == [op |-> o, step |-> "write", by |-> k, seen |-> job, amount |-> n,
                     w |-> Nobody, from |-> "none", to |-> "none"]

Starts(a, r) == call[a] = Quiet /\ call' = [call EXCEPT ![a] = r]
Over(a) == call' = [call EXCEPT ![a] = Quiet]

-----------------------------------------------------------------------------
(* The job's posting. *)

(* Where the booking should leave its captain's wallet. *)
Target(j) == (IF j.status = "done" THEN j.earn ELSE 0) - j.cash
Exempt(j) == j.captain = Nobody \/ j.status = "closed"

(* The booking becomes j, and its captain's wallet follows. *)
Settle(j) ==
    IF Exempt(j) THEN job' = j /\ UNCHANGED wallet
    ELSE /\ job' = [j EXCEPT !.settled = Target(j)]
         /\ wallet' = [wallet EXCEPT ![j.captain] = @ + Target(j) - j.settled]

Unposted == UNCHANGED <<keys, wallet, hand, handed>>

-----------------------------------------------------------------------------
(* The shares. *)

(* One change of the price, in one transaction. *)
Change(j) ==
    /\ changes < MaxChanges
    /\ changes' = changes + 1
    /\ job' = Repaid(j)
    /\ Unposted
    /\ UNCHANGED <<stale, drawVars, call>>

(* The platform alone bears a discount, and keeps what is added on site. *)
SetDiscount(d) ==
    /\ job.status # "cancelled" /\ d <= job.price /\ d # job.discount
    /\ Change([job EXCEPT !.discount = d, !.platform = @ - (d - job.discount)])

AddServices(x) ==
    /\ job.status # "cancelled"
    /\ Change([job EXCEPT !.added = @ + x, !.platform = @ + x])

(* The customer's edit, refused once the captain is on the way. *)
Edit(p) ==
    /\ job.status \in {"pending", "assigned"} /\ p # job.price
    /\ LET j == [job EXCEPT !.price = p, !.discount = Least(@, p)]
       IN  Change([j EXCEPT !.earn = Pay[p], !.platform = Total(j) - Pay[p]])

(* Mutant: the captain's penalty is nobody's gain. *)
LateUnshared(j, seen, n) == [j EXCEPT !.earn = seen.earn - n, !.late = n]

(* A late start: the platform gains what the captain loses. *)
Late(j, seen, n) == [j EXCEPT !.earn = seen.earn - n, !.platform = seen.platform + n, !.late = n]

(* The next captain is paid in full. *)
Restored(j, seen) ==
    [j EXCEPT !.earn = seen.earn + seen.late, !.platform = seen.platform - seen.late, !.late = 0]

SharesMoved(seen) == seen.earn # job.earn \/ seen.platform # job.platform

Assign(k) ==
    /\ job.status = "pending"
    /\ job' = [job EXCEPT !.status = "assigned", !.captain = k]
    /\ Unposted /\ UNCHANGED <<changes, stale, drawVars, call>>

(* start_heading: how late he is, and the shares, are worked out from what was read. *)
ReadToSetOff(a, k, n) ==
    /\ job.status = "assigned" /\ job.captain = k
    /\ Starts(a, Reading("setoff", k, Least(n, job.earn)))
    /\ UNCHANGED <<jobVars, drawVars, wallet>>

SetOff(a) ==
    LET seen == call[a].seen
        on == [job EXCEPT !.status = "heading", !.late = 0]
    IN  /\ call[a].op = "setoff"
        /\ IF job.status = "assigned" /\ job.captain = call[a].by
             THEN /\ job' = IF call[a].amount = 0 THEN on ELSE Late(on, seen, call[a].amount)
                  /\ stale' = (stale \/ (call[a].amount # 0 /\ SharesMoved(seen)))
             ELSE UNCHANGED <<job, stale>>
        /\ Over(a)
        /\ Unposted /\ UNCHANGED <<changes, drawVars>>

(* captain_cancel *)
ReadToRelease(a, k) ==
    /\ job.status \in {"assigned", "heading"} /\ job.captain = k
    /\ Starts(a, Reading("release", k, 0))
    /\ UNCHANGED <<jobVars, drawVars, wallet>>

Release(a) ==
    LET seen == call[a].seen
        off == [job EXCEPT !.status = "pending", !.captain = Nobody, !.late = 0]
    IN  /\ call[a].op = "release"
        /\ IF job.status = seen.status /\ job.captain = call[a].by
             THEN /\ job' = IF seen.late = 0 THEN off ELSE Restored(off, seen)
                  /\ stale' = (stale \/ (seen.late # 0 /\ SharesMoved(seen)) \/ seen.late # job.late)
             ELSE UNCHANGED <<job, stale>>
        /\ Over(a)
        /\ Unposted /\ UNCHANGED <<changes, drawVars>>

Begin ==
    /\ job.status = "heading" /\ job.captain # Nobody
    /\ job' = [job EXCEPT !.status = "started"]
    /\ Unposted /\ UNCHANGED <<changes, stale, drawVars, call>>

Cancel ==
    /\ job.status \in Open
    /\ job' = [job EXCEPT !.status = "cancelled"]
    /\ Unposted /\ UNCHANGED <<changes, stale, drawVars, call>>

(* The manager did it himself: no captain is paid, and he collects what is due. *)
MarkDone ==
    /\ job.status \in {"pending", "assigned"}
    /\ job' = [job EXCEPT !.status = "closed", !.captain = Nobody, !.earn = 0,
                          !.platform = Total(job), !.paid = Total(job)]
    /\ Unposted /\ UNCHANGED <<changes, stale, drawVars, call>>

-----------------------------------------------------------------------------
(* The job's money. *)

(* What every action on the booking and its captain's wallet leaves alone. *)
Aside == UNCHANGED <<changes, stale, drawVars>>

Complete ==
    /\ job.status = "started" /\ job.captain # Nobody
    /\ Settle([job EXCEPT !.status = "done"])
    /\ Aside /\ UNCHANGED <<keys, hand, handed, call>>

PayOnline ==
    /\ Due(job) > 0
    /\ job' = [job EXCEPT !.paid = Total(job)]
    /\ Aside /\ Unposted /\ UNCHANGED call

(* captain_collect_cash: what is due, and the key, are those of the booking it read. *)
ReadToCollect(a, k) ==
    /\ job.status = "done" /\ job.captain = k /\ Due(job) > 0
    /\ Starts(a, Reading("collect", k, Due(job)))
    /\ UNCHANGED <<jobVars, drawVars, wallet>>

(* Mutant: only what the booking still owes is booked as cash in his hand. *)
CashStillDue(amount) == Least(Due(job), amount)

(* What is beyond the amount due is the customer's credit, and still in his hand. *)
CashTaken(amount) == amount

Collect(a) ==
    LET c == call[a]
        key == <<c.by, c.seen.paid, Total(c.seen)>>
    IN  /\ c.op = "collect"
        /\ IF key \in keys THEN UNCHANGED <<job, keys, wallet, hand, handed>>
           ELSE /\ keys' = keys \cup {key}
                /\ hand' = [hand EXCEPT ![c.by] = @ + c.amount]
                /\ handed' = (handed \/ job.captain # c.by)
                /\ Settle([job EXCEPT !.paid = @ + Least(Due(job), c.amount),
                                       !.cash = @ + CashTaken(c.amount)])
        /\ Over(a) /\ Aside

(* An administrator gives the job to k: what it posted is taken from the one who had it. *)
AdminGive(k) ==
    LET j == [job EXCEPT !.captain = k, !.settled = 0,
                         !.status = CASE k = Nobody /\ @ = "assigned" -> "pending"
                                      [] k # Nobody /\ @ = "pending" -> "assigned"
                                      [] OTHER -> @]
        reversed == IF job.captain = Nobody THEN wallet
                    ELSE [wallet EXCEPT ![job.captain] = @ - job.settled]
    IN  /\ job.status # "cancelled" /\ k # job.captain
        /\ handed' = (handed \/ job.cash > 0)
        /\ IF Exempt(j)
             THEN job' = j /\ wallet' = reversed
             ELSE /\ job' = [j EXCEPT !.settled = Target(j)]
                  /\ wallet' = [reversed EXCEPT ![k] = @ + Target(j)]
        /\ Aside /\ UNCHANGED <<keys, hand, call>>

(* An administrator takes a finished job back to work. *)
AdminReopen ==
    /\ job.status = "done" /\ job.captain # Nobody
    /\ Settle([job EXCEPT !.status = "started"])
    /\ Aside /\ UNCHANGED <<keys, hand, handed, call>>

-----------------------------------------------------------------------------
(* Withdrawals. *)

Moves == [s \in {"none", "pending", "approved", "rejected", "paid"} |->
            CASE s = "pending" -> {"approved", "rejected"}
              [] s = "approved" -> {"paid", "rejected"}
              [] OTHER -> {}]

Waiting(k, ws) == \E w \in ws : request[w].status = "pending" /\ request[w].captain = k

(* One request waits at a time: a unique index. *)
Ask(w, k, n) ==
    /\ request[w].status = "none" /\ n <= wallet[k] /\ ~Waiting(k, Withdrawals)
    /\ request' = [request EXCEPT ![w] = [status |-> "pending", captain |-> k, amount |-> n]]
    /\ UNCHANGED <<jobVars, wallet, debits, muddled, call>>

Review(a, w, to) ==
    /\ to \in Moves[request[w].status]
    /\ Starts(a, [op |-> "review", step |-> "claim", by |-> Nobody, seen |-> Unseen, amount |-> 0,
                  w |-> w, from |-> request[w].status, to |-> to])
    /\ UNCHANGED <<jobVars, drawVars, wallet>>

(* A call has claimed the request, and its money has not moved or has to be put back. *)
UnderWay(w, calls) == \E a \in calls : call[a].w = w /\ call[a].step \in {"money", "handback"}

MovesMoney(c) == <<c.from, c.to>> \in {<<"pending", "approved">>, <<"approved", "rejected">>}

(* Mutant: the status a reviewer read is not looked at again. *)
ClaimUnguarded(c) == TRUE

Claimable(c) == request[c.w].status = c.from

Claim(a) ==
    LET c == call[a]
    IN  /\ c.step = "claim"
        /\ IF ~Claimable(c) THEN Over(a) /\ UNCHANGED <<request, muddled>>
           ELSE /\ request' = [request EXCEPT ![c.w].status = c.to]
                /\ muddled' = IF UnderWay(c.w, Calls) THEN muddled \cup {c.w} ELSE muddled
                /\ IF MovesMoney(c) THEN call' = [call EXCEPT ![a].step = "money"] ELSE Over(a)
        /\ UNCHANGED <<jobVars, wallet, debits>>

(* Approved, it leaves the wallet; approved and then rejected, it returns. *)
Drawn(c) == IF c.to = "approved" THEN 1 ELSE -1
MoneyMoves(c) ==
    LET r == request[c.w]
    IN  /\ c.step = "money"
        /\ c.to = "approved" => wallet[r.captain] >= r.amount
        /\ wallet' = [wallet EXCEPT ![r.captain] = @ - Drawn(c) * r.amount]
        /\ debits' = [debits EXCEPT ![c.w] = @ + Drawn(c)]

Draw(a) ==
    /\ MoneyMoves(call[a])
    /\ Over(a)
    /\ UNCHANGED <<jobVars, request, muddled>>

(* Too little in the wallet, or the database fails. *)
DrawFails(a) ==
    /\ call[a].step = "money"
    /\ call' = [call EXCEPT ![a].step = "handback"]
    /\ UNCHANGED <<jobVars, drawVars, wallet>>

(* The balance has changed, and the row that records it fails. *)
RowFails(a) ==
    /\ MoneyMoves(call[a])
    /\ call' = [call EXCEPT ![a].step = "handback"]
    /\ muddled' = muddled \cup {call[a].w}
    /\ UNCHANGED <<jobVars, request>>

(* The claim is given back, unless its captain has asked again meanwhile. *)
HandBack(a) ==
    LET c == call[a]
        refused == c.from = "pending" /\ Waiting(request[c.w].captain, Withdrawals)
    IN  /\ c.step = "handback"
        /\ IF request[c.w].status # c.to THEN UNCHANGED <<request, muddled>>
           ELSE IF refused THEN muddled' = muddled \cup {c.w} /\ UNCHANGED request
           ELSE request' = [request EXCEPT ![c.w].status = c.from] /\ UNCHANGED muddled
        /\ Over(a)
        /\ UNCHANGED <<jobVars, wallet, debits>>

(* The process that runs a call is killed. *)
Dies(a) ==
    /\ call[a] # Quiet
    /\ muddled' = IF call[a].step \in {"money", "handback"} THEN muddled \cup {call[a].w} ELSE muddled
    /\ Over(a)
    /\ UNCHANGED <<jobVars, wallet, request, debits>>

-----------------------------------------------------------------------------
WalletInit ==
    /\ \E p \in Prices :
         job = [status |-> "pending", captain |-> Nobody, price |-> p, discount |-> 0, added |-> 0,
                paid |-> 0, earn |-> Pay[p], platform |-> p - Pay[p], late |-> 0, cash |-> 0,
                settled |-> 0]
    /\ keys = {} /\ changes = 0 /\ stale = FALSE /\ handed = FALSE /\ muddled = {}
    /\ wallet = [k \in Captains |-> Opening] /\ hand = [k \in Captains |-> 0]
    /\ request = [w \in Withdrawals |-> [status |-> "none", captain |-> Nobody, amount |-> 0]]
    /\ debits = [w \in Withdrawals |-> 0]
    /\ call = [a \in Calls |-> Quiet]

Priced ==
    \/ \E d \in Discounts : SetDiscount(d)
    \/ \E x \in AddOns : AddServices(x)
    \/ \E p \in Prices : Edit(p)

Worked ==
    \/ \E k \in Captains : Assign(k)
    \/ \E k \in Captains \cup {Nobody} : AdminGive(k)
    \/ Begin \/ Complete \/ Cancel \/ MarkDone \/ AdminReopen \/ PayOnline

Called(a) ==
    \/ \E k \in Captains, n \in 0..Penalty : ReadToSetOff(a, k, n)
    \/ \E k \in Captains : ReadToRelease(a, k) \/ ReadToCollect(a, k)
    \/ SetOff(a) \/ Release(a) \/ Collect(a)
    \/ \E w \in Withdrawals, to \in {"approved", "rejected", "paid"} : Review(a, w, to)
    \/ Claim(a) \/ Draw(a) \/ DrawFails(a) \/ RowFails(a) \/ HandBack(a) \/ Dies(a)

WalletNext ==
    \/ Priced \/ Worked
    \/ \E w \in Withdrawals, k \in Captains, n \in Amounts : Ask(w, k, n)
    \/ \E a \in Calls : Called(a)

WalletSpec == WalletInit /\ [][WalletNext]_vars

-----------------------------------------------------------------------------
(* The shares add up to the price through every discount, addition, edit,   *)
(* late start and release, and the captain is short of his pay by exactly   *)
(* his penalty, which leaves with him - unless a share was written from an  *)
(* amount that had changed since it was read (start_heading, captain_cancel).*)
SharesAddUp ==
    ~stale => /\ job.earn + job.platform = Total(job)
              /\ job.status # "closed" => job.earn + job.late = Pay[job.price]
              /\ job.status \in {"pending", "assigned"} => job.late = 0

(* What k's withdrawals have taken from his wallet. *)
DrawnBy(k) == MapThenSumSet(LAMBDA w : debits[w] * request[w].amount,
                            {w \in Withdrawals : request[w].captain = k})

(* Every captain's wallet holds what the job earned whoever finished it, less the cash he *)
(* took from the customer and what he has drawn, whatever is collected twice, paid online *)
(* meanwhile, reopened or given to another - unless cash was taken for a job given away.  *)
WalletsFollowJobs ==
    ~handed => \A k \in Captains :
        wallet[k] = Opening + (IF job.status = "done" /\ job.captain = k THEN job.earn ELSE 0)
                            - hand[k] - DrawnBy(k)

(* A request stands approved or paid when it was taken from the wallet once, *)
(* and otherwise not at all, whoever reviews it at the same time - unless it *)
(* was reviewed again before the money of a review had moved, or a review of *)
(* it was cut short.                                                         *)
DebitedOnce ==
    \A w \in Withdrawals : w \notin muddled /\ ~UnderWay(w, Calls) =>
        debits[w] = IF request[w].status \in {"approved", "paid"} THEN 1 ELSE 0

=============================================================================
