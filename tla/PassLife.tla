------------------------------ MODULE PassLife ------------------------------
(***************************************************************************)
(* The passes of one car (subscription_service.py): sold, extended,        *)
(* renewed by auto-pay, upgraded, spent, given back, cancelled, ended.     *)
(* ONE CAR CARRIES ONE PASS: whoever creates a pass, or brings one back by *)
(* extending it, holds the car's document in pass_claims.                  *)
(*                                                                         *)
(* Each await is a step.  A sale and an extension are calls with their own *)
(* steps; everything else that reads a pass, awaits and writes it is a     *)
(* task of the pass.                                                       *)
(***************************************************************************)
EXTENDS Integers, FiniteSets

CONSTANTS
    Sales,        \* calls that sell a pass; the pass a sale creates has its name
    Grants,       \* calls that extend a pass
    Washes,       \* the washes of a pass
    MaxGrants,    \* PASS_EXTENSION_MAX_DAYS, in grants
    MaxRenewals,  \* bound: renewals of one pass
    MaxRiding,    \* bound: bookings that spent a wash and may give it back
    NoCall, NoPass, NoRead

Calls == Sales \cup Grants

ASSUME PassAssumption ==
    /\ Sales \cap Grants = {} /\ NoCall \notin Calls /\ NoPass \notin Sales
    /\ Washes \in Nat \ {0} /\ {MaxGrants, MaxRenewals, MaxRiding} \subseteq Nat

VARIABLES
    pass,         \* user_subscriptions of the car
    claim,        \* pass_claims of the car: the token (its call) and the pass bound to it
    call,         \* where each sale and each extension is
    task,         \* what each task of a pass has read
    riding,       \* bookings that spent a wash of each pass
    revived,      \* passes brought back without the car's claim being theirs alone
    overwritten   \* passes a task wrote from a read that was no longer true

vars == <<pass, claim, call, task, riding, revived, overwritten>>
ghosts == <<revived, overwritten>>

(* autopay: "on" is auto_renew with a mandate, "off" a mandate without, whose *)
(* charges may still come.  period: before its end (or   *)
(* the end of an extension), within AUTOPAY_GRACE of it, after that.         *)
Pass == [status : {"none", "active", "expired", "cancelled"}, left : 0..Washes,
         period : {"in", "grace", "past"}, autopay : {"none", "on", "off"},
         grants : 0..MaxGrants, renewals : 0..MaxRenewals]

NotSold == [status |-> "none", left |-> 0, period |-> "in", autopay |-> "none",
            grants |-> 0, renewals |-> 0]

Free == [by |-> NoCall, pass |-> NoPass]
Claims == [by : Calls, pass : Sales \cup {NoPass}] \cup {Free}

Steps == {"idle", "check", "claim", "judge", "take", "conflict", "insert", "bind", "read",
          "write", "done", "dead"}
(* The end of a pass, extensions included: each moves it. *)
EndOf(q) == [grants |-> q.grants, renewals |-> q.renewals]
Ends == [grants : 0..MaxGrants, renewals : 0..MaxRenewals]
Call == [step : Steps, pass : Sales \cup {NoPass}, end : Ends, seen : Claims,
         retook : BOOLEAN, alone : BOOLEAN, others : SUBSET Calls]
Idle == [step |-> "idle", pass |-> NoPass, end |-> EndOf(NotSold), seen |-> Free,
         retook |-> FALSE, alone |-> FALSE, others |-> {}]

Kinds == {"plan", "lapse", "renew", "off", "upgrade", "cancel", "release"}

PassTypeOK ==
    /\ pass \in [Sales -> Pass] /\ claim \in Claims /\ call \in [Calls -> Call]
    /\ task \in [Sales -> [Kinds -> Pass \cup {NoRead}]]
    /\ riding \in [Sales -> 0..MaxRiding]
    /\ revived \subseteq Sales /\ overwritten \subseteq Sales

(* pass_blocks_new: the pass a car carries. *)
Live(q) == q.status = "active" /\ (q.period = "in" \/ (q.period = "grace" /\ q.autopay = "on"))

InFlight(c) == call[c].step \notin {"idle", "done", "dead"}

(* A call starts: whoever is under way is not alone. *)
Begins(c, r) ==
    call' = [d \in Calls |->
        IF d = c THEN [r EXCEPT !.alone = \A e \in Calls : InFlight(e) => e = c]
        ELSE IF InFlight(d) THEN [call[d] EXCEPT !.alone = FALSE] ELSE call[d]]

Goes(c, r) == call' = [call EXCEPT ![c] = r]
Onward(c, step) == Goes(c, [call[c] EXCEPT !.step = step])

(* A call ends, with its outcome or refused; one refused may be made again. *)
Over(c, r) ==
    call' = [d \in Calls |-> IF d = c THEN r ELSE [call[d] EXCEPT !.others = @ \ {c}]]
Done(c) == Over(c, [Idle EXCEPT !.step = "done"])
Refused(c) == Over(c, Idle)

-----------------------------------------------------------------------------
(* The claim on the car. *)

(* Mutant: a claim with no pass yet is taken for stale at once. *)
HolderLiveOnceBound(k) == k.pass # NoPass /\ Live(pass[k.pass])

(* _claim_holder_live: a bound claim lives with its pass; one with no pass   *)
(* yet until PASS_CLAIM_STALE is over.  That is longer than two calls after  *)
(* one another: who died under way has lapsed when every call that was under *)
(* way with it is over.                                                      *)
HolderLive(k) ==
    IF k.pass = NoPass
      THEN call[k.by].step # "dead" \/ \E d \in call[k.by].others : InFlight(d)
      ELSE Live(pass[k.pass])

Own(c) == [by |-> c, pass |-> NoPass]
Taken(c) == Goes(c, [call[c] EXCEPT !.step = IF c \in Sales THEN "insert" ELSE "bind",
                                    !.retook = TRUE, !.seen = Free])

(* _claim_one: insert, or read who holds it. *)
TryClaim(c) ==
    /\ call[c].step = "claim"
    /\ IF claim = Free
         THEN claim' = Own(c) /\ Taken(c)
         ELSE /\ Goes(c, [call[c] EXCEPT !.step = "judge", !.seen = claim])
              /\ UNCHANGED claim
    /\ UNCHANGED <<pass, task, riding, ghosts>>

(* PassClaimConflict. *)
Loses(c) == IF c \in Sales THEN Refused(c) ELSE Onward(c, "conflict")

(* The holder of the claim it read lives, or its claim has no pass and is    *)
(* too young to tell.                                                        *)
Conflict(c) ==
    /\ call[c].step = "judge"
    /\ HolderLive(call[c].seen) \/ call[c].seen.pass = NoPass
    /\ Loses(c)
    /\ UNCHANGED <<pass, claim, task, riding, ghosts>>

JudgedStale(c) ==
    /\ call[c].step = "judge" /\ ~HolderLive(call[c].seen)
    /\ Onward(c, "take")
    /\ UNCHANGED <<pass, claim, task, riding, ghosts>>

(* A stale claim is taken over, guarded on the token that was judged; who is *)
(* beaten to it tries again, four times at most.                             *)
TakeOver(c) ==
    /\ call[c].step = "take"
    /\ IF claim.by = call[c].seen.by
         THEN claim' = Own(c) /\ Taken(c)
         ELSE (Onward(c, "claim") \/ Loses(c)) /\ UNCHANGED claim
    /\ UNCHANGED <<pass, task, riding, ghosts>>

(* bind_pass_claim. *)
Bind(c) ==
    /\ call[c].step = "bind"
    /\ claim' = IF claim.by = c THEN [claim EXCEPT !.pass = IF c \in Sales THEN c ELSE call[c].pass]
                ELSE claim
    /\ IF c \in Sales THEN Done(c) ELSE Onward(c, "write")
    /\ UNCHANGED <<pass, task, riding, ghosts>>

-----------------------------------------------------------------------------
(* A sale: subscribe, a verified payment, a staff grant. *)

(* _guard_duplicate_pass: no live pass on the car. *)
StartSale(c) ==
    /\ call[c].step = "idle"
    /\ \A p \in Sales : ~Live(pass[p])
    /\ Begins(c, [Idle EXCEPT !.step = "claim"])
    /\ UNCHANGED <<pass, claim, task, riding, ghosts>>

InsertPass(c) ==
    /\ call[c].step = "insert"
    /\ \E a \in {"none", "on"} :
          pass' = [pass EXCEPT ![c] = [NotSold EXCEPT !.status = "active", !.left = Washes, !.autopay = a]]
    /\ Onward(c, "bind")
    /\ UNCHANGED <<claim, task, riding, ghosts>>

(* The insert fails: release_pass_claim. *)
InsertFails(c) ==
    /\ call[c].step = "insert"
    /\ claim' = IF claim.by = c THEN Free ELSE claim
    /\ Done(c)
    /\ UNCHANGED <<pass, task, riding, ghosts>>

-----------------------------------------------------------------------------
(* An extension. *)

Extendable(q) ==
    /\ q.status \in {"active", "expired"} /\ q.autopay # "on"
    /\ q.left > 0 /\ q.grants < MaxGrants

(* What the pass read decides: a live one is only written, an ended one must *)
(* have its car to itself.                                                   *)
AsRead(r, p) ==
    [r EXCEPT !.pass = p, !.end = EndOf(pass[p]), !.step = IF Live(pass[p]) THEN "write" ELSE "check"]

StartGrant(c) ==
    /\ call[c].step = "idle"
    /\ \E p \in Sales : Extendable(pass[p]) /\ Begins(c, AsRead(Idle, p))
    /\ UNCHANGED <<pass, claim, task, riding, ghosts>>

(* The write's guard failed: read again.  An identity is not taken twice in  *)
(* one call: a pass does not end twice within one.                           *)
ReadAgain(c) ==
    LET p == call[c].pass IN
    /\ call[c].step = "read"
    /\ IF Extendable(pass[p]) /\ (Live(pass[p]) \/ ~call[c].retook)
         THEN Goes(c, AsRead(call[c], p)) ELSE Done(c)
    /\ UNCHANGED <<pass, claim, task, riding, ghosts>>

(* _retake_pass_identity, _other_live_pass. *)
CheckOther(c) ==
    /\ call[c].step = "check"
    /\ IF \E p \in Sales \ {call[c].pass} : Live(pass[p]) THEN Refused(c) ELSE Onward(c, "claim")
    /\ UNCHANGED <<pass, claim, task, riding, ghosts>>

(* The claim is held: by this very pass, by a call that has not bound it yet *)
(* (wait, ten times at most), or by another pass.                            *)
ConflictSeen(c) ==
    /\ call[c].step = "conflict"
    /\ \/ claim.pass = call[c].pass /\ Onward(c, "write")
       \/ claim.pass # call[c].pass /\ Refused(c)
       \/ claim # Free /\ claim.pass = NoPass /\ Onward(c, "claim")
    /\ UNCHANGED <<pass, claim, task, riding, ghosts>>

(* Who comes back holds the car alone if it retook the claim and no other    *)
(* call was under way meanwhile.                                             *)
RevivedBy(c) ==
    LET p == call[c].pass IN
    IF call[c].alone /\ call[c].retook THEN revived \ {p}
    ELSE IF Live(pass[p]) THEN revived ELSE revived \cup {p}

Extended(q) == [q EXCEPT !.status = "active", !.period = "in", !.grants = @ + 1]

(* The guarded write. *)
MayExtend(q, end) == q.status \in {"active", "expired"} /\ EndOf(q) = end

Extend(c) ==
    LET p == call[c].pass IN
    /\ call[c].step = "write"
    /\ IF MayExtend(pass[p], call[c].end)
         THEN /\ pass' = [pass EXCEPT ![p] = Extended(@)]
              /\ revived' = RevivedBy(c)
              /\ Done(c)
         ELSE Onward(c, "read") /\ UNCHANGED <<pass, revived>>
    /\ UNCHANGED <<claim, task, riding, overwritten>>

(* The process dies. *)
Kill(c) ==
    /\ InFlight(c)
    /\ Goes(c, [Idle EXCEPT !.step = "dead", !.others = {d \in Calls \ {c} : InFlight(d)}])
    /\ UNCHANGED <<pass, claim, task, riding, ghosts>>

-----------------------------------------------------------------------------
(* Tasks: read, await, write. *)

Reads(p, k, condition) ==
    /\ task[p][k] = NoRead /\ condition
    /\ task' = [task EXCEPT ![p][k] = pass[p]]
    /\ UNCHANGED <<pass, claim, call, riding, ghosts>>

Wrote(p, k) == task' = [task EXCEPT ![p][k] = NoRead]

(* A write with no guard on what was read. *)
Blindly(p, k, q) ==
    /\ task[p][k] # NoRead
    /\ pass' = [pass EXCEPT ![p] = q]
    /\ revived' = IF Live(q) /\ ~Live(pass[p]) THEN revived \cup {p} ELSE revived
    /\ overwritten' = IF pass[p] = task[p][k] THEN overwritten ELSE overwritten \cup {p}

(* plan_consumption, commit_consumption: the wash is spent after the booking *)
(* was made; the last one ends a pass that nothing will refill.              *)
PlanWash(p) ==
    riding[p] < MaxRiding /\ Reads(p, "plan", pass[p].status = "active" /\ pass[p].period = "in" /\ pass[p].left > 0)

Spent(q) ==
    [q EXCEPT !.left = @ - 1, !.status = IF q.left = 1 /\ q.autopay # "on" THEN "expired" ELSE @]

CommitWash(p) ==
    /\ task[p]["plan"] # NoRead
    /\ IF pass[p].left > 0
         THEN /\ pass' = [pass EXCEPT ![p] = Spent(@)]
              /\ riding' = [riding EXCEPT ![p] = @ + 1]
              /\ overwritten' = IF pass[p].status = task[p]["plan"].status THEN overwritten
                                ELSE overwritten \cup {p}
         ELSE UNCHANGED <<pass, riding, overwritten>>
    /\ Wrote(p, "plan")
    /\ UNCHANGED <<claim, call, revived>>

(* restore_consumption: a booking is cancelled. *)
GivenBack(q) ==
    [q EXCEPT !.left = IF @ < Washes THEN @ + 1 ELSE @, !.status = IF @ = "expired" THEN "active" ELSE @]

GiveBack(p) ==
    /\ riding[p] > 0
    /\ riding' = [riding EXCEPT ![p] = @ - 1]
    /\ pass' = [pass EXCEPT ![p] = GivenBack(@)]
    /\ revived' = IF Live(pass'[p]) /\ ~Live(pass[p]) THEN revived \cup {p} ELSE revived
    /\ UNCHANGED <<claim, call, task, overwritten>>

(* _get_active_subscription: whoever quotes or books on an ended pass ends   *)
(* it, unless its end moved meanwhile.                                       *)
FindEnded(p) == Reads(p, "lapse", pass[p].status = "active" /\ pass[p].period # "in")

(* Mutant: the pass is ended whatever happened since it was read. *)
LapseUnguarded(p) ==
    /\ task[p]["lapse"] # NoRead
    /\ pass' = IF pass[p].status = "active" THEN [pass EXCEPT ![p].status = "expired"] ELSE pass
    /\ Wrote(p, "lapse")
    /\ UNCHANGED <<claim, call, riding, ghosts>>

Lapse(p) ==
    /\ task[p]["lapse"] # NoRead
    /\ pass' = IF pass[p].status = "active" /\ EndOf(pass[p]) = EndOf(task[p]["lapse"])
                 THEN [pass EXCEPT ![p].status = "expired"] ELSE pass
    /\ Wrote(p, "lapse")
    /\ UNCHANGED <<claim, call, riding, ghosts>>

(* A renewal was charged: apply_renewal_cycle. *)
RenewalCharged(p) ==
    Reads(p, "renew", /\ pass[p].status \notin {"none", "cancelled"} /\ pass[p].autopay # "none"
                      /\ pass[p].renewals < MaxRenewals)

Renewed(q) ==
    [q EXCEPT !.status = "active", !.left = Washes, !.period = "in", !.renewals = @ + 1,
              !.autopay = IF @ = "off" THEN "on" ELSE @]

Renew(p) ==
    /\ Blindly(p, "renew", Renewed(pass[p]))
    /\ Wrote(p, "renew")
    /\ UNCHANGED <<claim, call, riding>>

(* set_auto_pay and mark_auto_renew_off: a pass that waits at no washes for  *)
(* its refill is spent.                                                      *)
TurnOff(p) == Reads(p, "off", pass[p].status # "none" /\ pass[p].autopay \in {"on", "off"})

Off(a) == IF a = "on" THEN "off" ELSE a

TurnedOff(q, read) ==
    [q EXCEPT !.autopay = Off(@),
              !.status = IF read.status = "active" /\ read.left = 0 THEN "expired" ELSE @]

AutoOff(p) ==
    /\ Blindly(p, "off", TurnedOff(pass[p], task[p]["off"]))
    /\ Wrote(p, "off")
    /\ UNCHANGED <<claim, call, riding>>

(* upgrade, to a plan of as many washes: guarded on the document and on its  *)
(* status; that it retires the mandate is decided once.                       *)
StartUpgrade(p) == Reads(p, "upgrade", pass[p].status = "active")

Upgrade(p) ==
    /\ task[p]["upgrade"] # NoRead
    /\ pass' = IF pass[p].status = "active" /\ task[p]["upgrade"].autopay = "on"
                 THEN [pass EXCEPT ![p].autopay = "none"] ELSE pass
    /\ Wrote(p, "upgrade")
    /\ UNCHANGED <<claim, call, riding, ghosts>>

(* cancel: the mandate first, then the pass, then its claim. *)
StartCancel(p) == Reads(p, "cancel", pass[p].status = "active" /\ pass[p].period = "in")

Cancel(p) ==
    /\ Blindly(p, "cancel", [pass[p] EXCEPT !.status = "cancelled", !.autopay = Off(@)])
    /\ task' = [task EXCEPT ![p] = [@ EXCEPT !["cancel"] = NoRead, !["release"] = NotSold]]
    /\ UNCHANGED <<claim, call, riding>>

ReleaseClaim(p) ==
    /\ task[p]["release"] # NoRead
    /\ claim' = IF claim.pass = p THEN Free ELSE claim
    /\ Wrote(p, "release")
    /\ UNCHANGED <<pass, call, riding, ghosts>>

(* A task's process dies, or the gateway refuses. *)
TaskLost(p) ==
    /\ \E k \in Kinds : task[p][k] # NoRead /\ Wrote(p, k)
    /\ UNCHANGED <<pass, claim, call, riding, ghosts>>

-----------------------------------------------------------------------------
(* Time, and the sweep for ended passes. *)

PeriodEnds(p) ==
    /\ pass[p].status \in {"active", "expired"} /\ pass[p].period # "past"
    /\ pass' = [pass EXCEPT ![p].period = IF @ = "in" /\ pass[p].autopay = "on" THEN "grace" ELSE "past"]
    /\ UNCHANGED <<claim, call, task, riding, ghosts>>

(* find_subscriptions_ended, mark_subscription_expired. *)
SweepEnded(p) ==
    /\ pass[p].status = "active" /\ pass[p].period # "in"
    /\ pass[p].autopay = "on" => pass[p].period = "past"
    /\ pass' = [pass EXCEPT ![p].status = "expired"]
    /\ UNCHANGED <<claim, call, task, riding, ghosts>>

-----------------------------------------------------------------------------
PassInit ==
    /\ pass = [p \in Sales |-> NotSold] /\ claim = Free
    /\ call = [c \in Calls |-> Idle]
    /\ task = [p \in Sales |-> [k \in Kinds |-> NoRead]]
    /\ riding = [p \in Sales |-> 0] /\ revived = {} /\ overwritten = {}

ClaimStep(c) == TryClaim(c) \/ Conflict(c) \/ JudgedStale(c) \/ TakeOver(c) \/ Bind(c) \/ Kill(c)
SaleStep(c) == StartSale(c) \/ InsertPass(c) \/ InsertFails(c)
GrantStep(c) == StartGrant(c) \/ ReadAgain(c) \/ CheckOther(c) \/ ConflictSeen(c) \/ Extend(c)
WashStep(p) == PlanWash(p) \/ CommitWash(p) \/ GiveBack(p) \/ FindEnded(p) \/ Lapse(p)
AutoPayStep(p) == RenewalCharged(p) \/ Renew(p) \/ TurnOff(p) \/ AutoOff(p) \/ StartUpgrade(p) \/ Upgrade(p)
EndStep(p) == StartCancel(p) \/ Cancel(p) \/ ReleaseClaim(p) \/ TaskLost(p) \/ PeriodEnds(p) \/ SweepEnded(p)

PassNext ==
    \/ \E c \in Calls : ClaimStep(c)
    \/ \E c \in Sales : SaleStep(c)
    \/ \E c \in Grants : GrantStep(c)
    \/ \E p \in Sales : WashStep(p) \/ AutoPayStep(p) \/ EndStep(p)

PassSpec == PassInit /\ [][PassNext]_vars

-----------------------------------------------------------------------------
(* PROPERTIES *)

(* ONE CAR CARRIES ONE PASS, whoever sells, extends, cancels or dies at the  *)
(* same time - unless one of them came back to life without taking the car's *)
(* claim first, or while another call was taking it.                         *)
OneLivePass ==
    \A p \in Sales : \A q \in Sales :
        Live(pass[p]) /\ Live(pass[q]) /\ p # q => p \in revived \/ q \in revived

(* Founder rule: "ONE CAR CARRIES ONE PASS ... never two on the same car".   *)
OneCarOnePass ==
    \A p \in Sales : \A q \in Sales : Live(pass[p]) /\ Live(pass[q]) => p = q

(* A pass somebody cancelled stays cancelled: an extension, a refund of a    *)
(* wash or a sweep never brings it back.  Only what overwrote it from an old *)
(* read does.                                                                *)
CancelledStays ==
    [][\A p \in Sales : pass[p].status = "cancelled" /\ p \notin overwritten'
                          => pass'[p].status = "cancelled"]_vars

(* Washes inside their period are never stranded on an expired pass, unless  *)
(* a task overwrote it from an old read.                                     *)
WashesUsable ==
    \A p \in Sales : pass[p].status = "expired" /\ pass[p].period = "in" /\ p \notin overwritten
                       => pass[p].left = 0
=============================================================================
