--------------------------- MODULE PassLifeProofs ---------------------------
(***************************************************************************)
(* Theorems about PassLife, for any sales, extensions, washes and bounds.   *)
(***************************************************************************)
EXTENDS PassLife, TLAPS

(* Of a car's live passes, the one that was not brought back behind the      *)
(* claim's back.                                                             *)
Steady(p) == Live(pass[p]) /\ p \notin revived

(* Steps after a call found the car without a live pass, and before it has   *)
(* taken the claim.                                                          *)
Looking == {"claim", "judge", "take", "conflict"}
Holding == {"insert", "bind"}

(* What a call at each step is about. *)
CallOK(c) ==
    /\ c \in Sales => call[c].step \notin {"check", "conflict", "read", "write"}
    /\ c \in Grants => call[c].step # "insert" /\ (InFlight(c) => pass[call[c].pass].status # "none")
    /\ call[c].step \in {"idle", "check"} \cup Looking => ~call[c].retook
    /\ call[c].step \in Holding => call[c].retook
    /\ c \in Sales /\ call[c].step \in {"idle", "insert"} \cup Looking => pass[c].status = "none"
CallsOK == \A c \in Calls : CallOK(c)

(* Nothing happens to a pass that was never sold. *)
UnsoldOK ==
    \A p \in Sales : pass[p].status = "none" => p \notin revived /\ \A k \in Kinds : task[p][k] = NoRead

Alone == \A c \in Calls : \A d \in Calls : InFlight(c) /\ call[c].alone /\ InFlight(d) => c = d

(* A call takes the claim once, and nobody takes over one that is alive. *)
HasTaken(c) ==
    \/ call[c].step \in Holding \cup {"done", "dead"}
    \/ call[c].step \in {"write", "read"} /\ call[c].retook
Bound(c) == HasTaken(c) /\ call[c].step \notin Holding

ClaimOK ==
    /\ claim # Free => HasTaken(claim.by)
    /\ claim.pass # NoPass => Bound(claim.by)
    /\ \A c \in Calls : call[c].step \in Holding => claim = Own(c)

(* What a call read of the claim: k. *)
SeenBy(c, k) ==
    /\ call[c].step \in {"judge", "take"} => k # Free
    /\ k # Free => HasTaken(k.by)
    /\ k.pass # NoPass => Bound(k.by)
    /\ k # Free /\ k.by = claim.by => k.pass = NoPass \/ k.pass = claim.pass
    /\ call[c].step = "take" => Bound(k.by)
    /\ (call[c].step = "judge" /\ k.pass = NoPass /\ claim.by = k.by /\ claim.pass # NoPass
          /\ call[k.by].step = "dead")
         => c \in call[k.by].others
SeenOK == \A c \in Calls : SeenBy(c, call[c].seen)

(* The claim is the pass's, or that of its sale before it bound it. *)
Holds(p, c) ==
    \/ claim.pass = p
    \/ claim = Own(p) /\ (call[p].step = "bind" \/ (call[p].step = "dead" /\ c \in call[p].others))

(* Who is looking, or about to look, at a car that carries a pass finds its claim held. *)
Looker(c, p) ==
    /\ call[c].step = "check" => p # call[c].pass
    /\ call[c].step # "insert"
    /\ call[c].step \in Looking =>
          /\ Holds(p, c) /\ task[p]["release"] = NoRead
          /\ call[c].step = "take" => call[c].seen.by # claim.by
    /\ InFlight(c) /\ call[c].alone /\ (call[c].step \in Looking \/ call[c].retook) /\ c \in Grants
          => p = call[c].pass
LookersOK == \A c \in Calls : \A p \in Sales : Steady(p) => Looker(c, p)

(* Of the passes that were not brought back behind it, one is live. *)
OneSteady == \A p \in Sales : \A q \in Sales : Steady(p) /\ Steady(q) => p = q

(* What keeps the counters of a pass within their bounds. *)
GrantsOK == \A c \in Grants : InFlight(c) => call[c].pass \in Sales /\ call[c].end.grants < MaxGrants
TasksOK ==
    \A p \in Sales :
        /\ task[p]["renew"] # NoRead => pass[p].renewals < MaxRenewals
        /\ task[p]["plan"] # NoRead => riding[p] < MaxRiding

Shape == PassTypeOK /\ GrantsOK /\ TasksOK

PassInv == Shape /\ CallsOK /\ UnsoldOK /\ Alone /\ ClaimOK /\ SeenOK /\ LookersOK /\ OneSteady

-----------------------------------------------------------------------------
(* Types. *)

LEMMA Basics ==
  ASSUME PassAssumption
  PROVE  /\ Washes \in Nat /\ Washes > 0 /\ MaxGrants \in Nat /\ MaxRenewals \in Nat /\ MaxRiding \in Nat
         /\ Free \in Claims /\ NotSold \in Pass /\ Idle \in Call /\ Free.pass = NoPass /\ Free.by = NoCall
         /\ Sales \subseteq Calls /\ Grants \subseteq Calls
         /\ \A c \in Calls : Own(c) \in Claims /\ Own(c) # Free /\ Own(c).by = c /\ Own(c).pass = NoPass
BY DEF PassAssumption, Free, Claims, NotSold, Pass, Idle, Call, Steps, EndOf, Ends, Own, Calls

LEMMA TypeInit == ASSUME PassAssumption, PassInit PROVE PassTypeOK
BY Basics DEF PassInit, PassTypeOK

LEMMA EndType == ASSUME NEW q \in Pass PROVE EndOf(q) \in Ends
BY DEF EndOf, Pass, Ends

LEMMA CallType ==
  ASSUME PassAssumption, PassTypeOK, NEW c \in Calls, NEW r \in Call
  PROVE  /\ Goes(c, r) => call' \in [Calls -> Call]
         /\ Over(c, r) => call' \in [Calls -> Call]
         /\ Begins(c, r) => call' \in [Calls -> Call]
<1>1. Goes(c, r) => call' \in [Calls -> Call] BY DEF Goes, PassTypeOK
<1>2. Over(c, r) => call' \in [Calls -> Call]
  <2>1. \A d \in Calls : [call[d] EXCEPT !.others = @ \ {c}] \in Call BY DEF PassTypeOK, Call
  <2> QED BY <2>1 DEF Over
<1>3. Begins(c, r) => call' \in [Calls -> Call]
  <2>1. \A d \in Calls : [call[d] EXCEPT !.alone = FALSE] \in Call BY DEF PassTypeOK, Call
  <2> DEFINE b == \A e \in Calls : InFlight(e) => e = c
  <2>2. b \in BOOLEAN OBVIOUS
  <2> HIDE DEF b
  <2>3. [r EXCEPT !.alone = b] \in Call BY <2>2 DEF Call
  <2>4. \A d \in Calls : IF d = c THEN [r EXCEPT !.alone = b] \in Call
                         ELSE (IF InFlight(d) THEN [call[d] EXCEPT !.alone = FALSE] ELSE call[d]) \in Call
    BY <2>1, <2>3 DEF PassTypeOK
  <2>5. SUFFICES ASSUME Begins(c, r) PROVE call' \in [Calls -> Call] OBVIOUS
  <2>6. call' = [d \in Calls |-> IF d = c THEN [r EXCEPT !.alone = b]
                                 ELSE IF InFlight(d) THEN [call[d] EXCEPT !.alone = FALSE] ELSE call[d]]
    BY <2>5 DEF Begins, b
  <2> QED BY <2>4, <2>6
<1> QED BY <1>1, <1>2, <1>3

LEMMA StepType ==
  ASSUME PassAssumption, PassTypeOK, NEW c \in Calls, NEW s \in Steps
  PROVE  [call[c] EXCEPT !.step = s] \in Call
BY DEF PassTypeOK, Call

LEMMA ClaimTypes ==
  ASSUME PassAssumption, PassTypeOK, NEW c \in Calls, ClaimStep(c)
  PROVE  PassTypeOK'
<1>0. /\ claim \in Claims /\ call[c] \in Call /\ pass \in [Sales -> Pass] /\ Free \in Claims
      /\ Own(c) \in Claims /\ Idle \in Call
  BY Basics DEF PassTypeOK
<1>1. CASE TryClaim(c)
  <2>1. [call[c] EXCEPT !.step = IF c \in Sales THEN "insert" ELSE "bind", !.retook = TRUE, !.seen = Free] \in Call
    BY <1>0 DEF Call, Steps
  <2>2. [call[c] EXCEPT !.step = "judge", !.seen = claim] \in Call BY <1>0 DEF Call, Steps
  <2>3. call' \in [Calls -> Call] BY <1>1, <2>1, <2>2, CallType DEF TryClaim, Taken
  <2>4. claim' \in Claims BY <1>0, <1>1 DEF TryClaim
  <2> QED BY <1>1, <2>3, <2>4 DEF TryClaim, PassTypeOK, ghosts
<1>2. CASE Conflict(c)
  <2>1. [call[c] EXCEPT !.step = "conflict"] \in Call BY <1>0 DEF Call, Steps
  <2>2. call' \in [Calls -> Call] BY <1>0, <1>2, <2>1, CallType DEF Conflict, Loses, Refused, Onward
  <2> QED BY <1>2, <2>2 DEF Conflict, PassTypeOK, ghosts
<1>3. CASE JudgedStale(c)
  <2>1. [call[c] EXCEPT !.step = "take"] \in Call BY <1>0 DEF Call, Steps
  <2>2. call' \in [Calls -> Call] BY <1>3, <2>1, CallType DEF JudgedStale, Onward
  <2> QED BY <1>3, <2>2 DEF JudgedStale, PassTypeOK, ghosts
<1>4. CASE TakeOver(c)
  <2>1. [call[c] EXCEPT !.step = IF c \in Sales THEN "insert" ELSE "bind", !.retook = TRUE, !.seen = Free] \in Call
    BY <1>0 DEF Call, Steps
  <2>2. [call[c] EXCEPT !.step = "claim"] \in Call BY <1>0 DEF Call, Steps
  <2>5. [call[c] EXCEPT !.step = "conflict"] \in Call BY <1>0 DEF Call, Steps
  <2>3. call' \in [Calls -> Call]
    BY <1>0, <1>4, <2>1, <2>2, <2>5, CallType DEF TakeOver, Taken, Onward, Loses, Refused
  <2>4. claim' \in Claims BY <1>0, <1>4 DEF TakeOver
  <2> QED BY <1>4, <2>3, <2>4 DEF TakeOver, PassTypeOK, ghosts
<1>5. CASE Bind(c)
  <2>1. [call[c] EXCEPT !.step = "write"] \in Call BY <1>0 DEF Call, Steps
  <2>2. [Idle EXCEPT !.step = "done"] \in Call BY <1>0 DEF Call, Steps
  <2>3. call' \in [Calls -> Call] BY <1>5, <2>1, <2>2, CallType DEF Bind, Done, Onward
  <2>4. claim' \in Claims
    <3>1. call[c].pass \in Sales \cup {NoPass} BY <1>0 DEF Call
    <3>2. claim.by = c => [claim EXCEPT !.pass = IF c \in Sales THEN c ELSE call[c].pass] \in Claims
      BY <1>0, <3>1 DEF Claims, Free
    <3> QED BY <1>0, <1>5, <3>2 DEF Bind
  <2> QED BY <1>5, <2>3, <2>4 DEF Bind, PassTypeOK, ghosts
<1>6. CASE Kill(c)
  <2>1. [Idle EXCEPT !.step = "dead", !.others = {d \in Calls \ {c} : InFlight(d)}] \in Call
    BY <1>0 DEF Call, Steps
  <2>2. call' \in [Calls -> Call] BY <1>6, <2>1, CallType DEF Kill
  <2> QED BY <1>6, <2>2 DEF Kill, PassTypeOK, ghosts
<1> QED BY <1>1, <1>2, <1>3, <1>4, <1>5, <1>6 DEF ClaimStep

LEMMA NewFields ==
  ASSUME PassAssumption, NEW q \in Pass, NEW a \in {"none", "on"}
  PROVE  [q EXCEPT !.status = "active", !.left = Washes, !.autopay = a] \in Pass
<1>1. Washes \in 0..Washes BY Basics
<1> QED BY <1>1 DEF Pass

LEMMA SaleTypes ==
  ASSUME PassAssumption, PassTypeOK, NEW c \in Sales, SaleStep(c)
  PROVE  PassTypeOK'
<1>0. /\ c \in Calls /\ call[c] \in Call /\ Free \in Claims /\ claim \in Claims
      /\ NotSold \in Pass /\ Idle \in Call /\ Washes \in Nat
  BY Basics DEF PassTypeOK
<1>1. CASE StartSale(c)
  <2>1. [Idle EXCEPT !.step = "claim"] \in Call BY <1>0 DEF Call, Steps
  <2>2. call' \in [Calls -> Call] BY <1>0, <1>1, <2>1, CallType DEF StartSale
  <2> QED BY <1>1, <2>2 DEF StartSale, PassTypeOK, ghosts
<1>2. CASE InsertPass(c)
  <2>1. [call[c] EXCEPT !.step = "bind"] \in Call BY <1>0 DEF Call, Steps
  <2>2. call' \in [Calls -> Call] BY <1>0, <1>2, <2>1, CallType DEF InsertPass, Onward
  <2>3. \A a \in {"none", "on"} :
           [NotSold EXCEPT !.status = "active", !.left = Washes, !.autopay = a] \in Pass
    BY <1>0, NewFields
  <2> QED BY <1>2, <2>2, <2>3 DEF InsertPass, PassTypeOK, ghosts
<1>3. CASE InsertFails(c)
  <2>1. [Idle EXCEPT !.step = "done"] \in Call BY <1>0 DEF Call, Steps
  <2>2. call' \in [Calls -> Call] BY <1>0, <1>3, <2>1, CallType DEF InsertFails, Done
  <2> QED BY <1>0, <1>3, <2>2 DEF InsertFails, PassTypeOK, ghosts
<1> QED BY <1>1, <1>2, <1>3 DEF SaleStep

LEMMA GrantFields ==
  ASSUME NEW q \in Pass, NEW s \in {"active", "expired", "cancelled"}, NEW n \in 0..MaxGrants
  PROVE  [q EXCEPT !.status = s, !.period = "in", !.grants = n] \in Pass
BY DEF Pass

LEMMA AsReadType ==
  ASSUME PassAssumption, PassTypeOK, NEW r \in Call, NEW p \in Sales
  PROVE  AsRead(r, p) \in Call
<1>1. EndOf(pass[p]) \in Ends BY EndType DEF PassTypeOK
<1> QED BY <1>1 DEF AsRead, Call, Steps

LEMMA GrantTypes ==
  ASSUME PassAssumption, PassTypeOK, GrantsOK, NEW c \in Grants, GrantStep(c)
  PROVE  PassTypeOK'
<1>0. c \in Calls /\ call[c] \in Call /\ Idle \in Call BY Basics DEF PassTypeOK
<1>d. [Idle EXCEPT !.step = "done"] \in Call BY <1>0 DEF Call, Steps
<1>1. CASE StartGrant(c)
  <2>1. call' \in [Calls -> Call] BY <1>0, <1>1, AsReadType, CallType DEF StartGrant
  <2> QED BY <1>1, <2>1 DEF StartGrant, PassTypeOK, ghosts
<1>2. CASE ReadAgain(c)
  <2>1. call[c].pass \in Sales BY <1>2 DEF ReadAgain, GrantsOK, InFlight
  <2>2. AsRead(call[c], call[c].pass) \in Call BY <1>0, <2>1, AsReadType
  <2>3. call' \in [Calls -> Call] BY <1>0, <1>2, <1>d, <2>2, CallType DEF ReadAgain, Done
  <2> QED BY <1>2, <2>3 DEF ReadAgain, PassTypeOK, ghosts
<1>3. CASE CheckOther(c)
  <2>1. [call[c] EXCEPT !.step = "claim"] \in Call BY <1>0 DEF Call, Steps
  <2>2. call' \in [Calls -> Call] BY <1>0, <1>3, <2>1, CallType DEF CheckOther, Refused, Onward
  <2> QED BY <1>3, <2>2 DEF CheckOther, PassTypeOK, ghosts
<1>4. CASE ConflictSeen(c)
  <2>1. [call[c] EXCEPT !.step = "claim"] \in Call /\ [call[c] EXCEPT !.step = "write"] \in Call
    BY <1>0 DEF Call, Steps
  <2>2. call' \in [Calls -> Call] BY <1>0, <1>4, <2>1, CallType DEF ConflictSeen, Refused, Onward
  <2> QED BY <1>4, <2>2 DEF ConflictSeen, PassTypeOK, ghosts
<1>5. CASE Extend(c)
  <2>1. [call[c] EXCEPT !.step = "read"] \in Call BY <1>0 DEF Call, Steps
  <2>2. call' \in [Calls -> Call] BY <1>0, <1>5, <1>d, <2>1, CallType DEF Extend, Done, Onward
  <2>3. call[c].pass \in Sales /\ call[c].end.grants < MaxGrants
    BY <1>5 DEF Extend, GrantsOK, InFlight
  <2> DEFINE q == pass[call[c].pass]
  <2>4. MayExtend(q, call[c].end) => Extended(q) \in Pass
    <3>1. q \in Pass /\ MaxGrants \in Nat BY <2>3, Basics DEF PassTypeOK
    <3> HIDE DEF q
    <3>2. MayExtend(q, call[c].end) => q.grants < MaxGrants BY <2>3 DEF MayExtend, EndOf
    <3>3. MayExtend(q, call[c].end) => q.grants + 1 \in 0..MaxGrants BY <3>1, <3>2 DEF Pass
    <3> QED BY <3>1, <3>3, GrantFields DEF Extended
  <2>5. pass' \in [Sales -> Pass] BY <1>5, <2>3, <2>4 DEF Extend, PassTypeOK
  <2>6. revived' \subseteq Sales BY <1>5, <2>3 DEF Extend, RevivedBy, PassTypeOK
  <2> QED BY <1>5, <2>2, <2>5, <2>6 DEF Extend, PassTypeOK, ghosts
<1> QED BY <1>1, <1>2, <1>3, <1>4, <1>5 DEF GrantStep

LEMMA WashFields ==
  ASSUME NEW q \in Pass, NEW s \in {"active", "expired", "cancelled", "none"}, NEW n \in 0..Washes
  PROVE  [q EXCEPT !.left = n, !.status = s] \in Pass
BY DEF Pass

LEMMA WashTypes ==
  ASSUME PassAssumption, Shape, NEW p \in Sales, WashStep(p)
  PROVE  PassTypeOK' /\ UNCHANGED <<call, claim>>
<1>0. /\ pass \in [Sales -> Pass] /\ pass[p] \in Pass /\ riding[p] \in 0..MaxRiding
      /\ task \in [Sales -> [Kinds -> Pass \cup {NoRead}]] /\ riding \in [Sales -> 0..MaxRiding]
      /\ Washes \in Nat /\ MaxRiding \in Nat
  BY Basics DEF Shape, PassTypeOK
<1>k. {"plan", "lapse", "renew", "off", "upgrade", "cancel", "release"} = Kinds BY DEF Kinds
<1>1. ASSUME PlanWash(p) PROVE PassTypeOK' /\ UNCHANGED <<call, claim>>
  BY <1>0, <1>1, <1>k DEF PlanWash, Reads, Shape, PassTypeOK, ghosts
<1>2. ASSUME CommitWash(p) PROVE PassTypeOK' /\ UNCHANGED <<call, claim>>
  <2>1. pass[p].left > 0 => Spent(pass[p]) \in Pass
    <3> DEFINE q == pass[p]
               s == IF q.left = 1 /\ q.autopay # "on" THEN "expired" ELSE q.status
               n == q.left - 1
    <3>1. s \in {"active", "expired", "cancelled", "none"} BY <1>0 DEF Pass
    <3>2. pass[p].left > 0 => n \in 0..Washes BY <1>0 DEF Pass
    <3>3. Spent(pass[p]) = [q EXCEPT !.left = n, !.status = s] BY DEF Spent
    <3>4. q \in Pass BY <1>0
    <3> HIDE DEF q, s, n
    <3>5. n \in 0..Washes => [q EXCEPT !.left = n, !.status = s] \in Pass BY <3>1, <3>4, WashFields
    <3> QED BY <3>2, <3>3, <3>5
  <2>2. riding[p] < MaxRiding BY <1>2 DEF CommitWash, Shape, TasksOK
  <2>3. pass' \in [Sales -> Pass]
    <3>1. pass' = pass \/ (pass' = [pass EXCEPT ![p] = Spent(pass[p])] /\ pass[p].left > 0)
      BY <1>0, <1>2 DEF CommitWash
    <3>2. ASSUME pass' = [pass EXCEPT ![p] = Spent(pass[p])], pass[p].left > 0 PROVE pass' \in [Sales -> Pass]
      BY <1>0, <2>1, <3>2
    <3>3. ASSUME pass' = pass PROVE pass' \in [Sales -> Pass] BY <1>0, <3>3
    <3> QED BY <3>1, <3>2, <3>3
  <2>4. riding' \in [Sales -> 0..MaxRiding]
    <3>1. riding[p] + 1 \in 0..MaxRiding BY <1>0, <2>2
    <3>2. riding' = riding \/ riding' = [riding EXCEPT ![p] = riding[p] + 1] BY <1>2 DEF CommitWash
    <3> QED BY <1>0, <3>1, <3>2
  <2>5. task' \in [Sales -> [Kinds -> Pass \cup {NoRead}]] BY <1>0, <1>2, <1>k DEF CommitWash, Wrote
  <2>6. overwritten' \subseteq Sales BY <1>2 DEF CommitWash, Shape, PassTypeOK
  <2> QED BY <1>2, <2>3, <2>4, <2>5, <2>6 DEF CommitWash, Shape, PassTypeOK
<1>3. ASSUME GiveBack(p) PROVE PassTypeOK' /\ UNCHANGED <<call, claim>>
  <2>1. GivenBack(pass[p]) \in Pass
    <3> DEFINE q == pass[p]
               s == IF q.status = "expired" THEN "active" ELSE q.status
               n == IF q.left < Washes THEN q.left + 1 ELSE q.left
    <3>1. s \in {"active", "expired", "cancelled", "none"} BY <1>0 DEF Pass
    <3>2. n \in 0..Washes BY <1>0 DEF Pass
    <3>3. GivenBack(pass[p]) = [q EXCEPT !.left = n, !.status = s] BY DEF GivenBack
    <3>4. q \in Pass BY <1>0
    <3> HIDE DEF q, s, n
    <3>5. [q EXCEPT !.left = n, !.status = s] \in Pass BY <3>1, <3>2, <3>4, WashFields
    <3> QED BY <3>3, <3>5
  <2>2. pass' \in [Sales -> Pass] BY <1>0, <1>3, <2>1 DEF GiveBack
  <2>3. riding' \in [Sales -> 0..MaxRiding] BY <1>0, <1>3 DEF GiveBack
  <2>4. revived' \subseteq Sales BY <1>3 DEF GiveBack, Shape, PassTypeOK
  <2> QED BY <1>3, <2>2, <2>3, <2>4 DEF GiveBack, Shape, PassTypeOK
<1>4. ASSUME FindEnded(p) PROVE PassTypeOK' /\ UNCHANGED <<call, claim>>
  BY <1>0, <1>4, <1>k DEF FindEnded, Reads, Shape, PassTypeOK, ghosts
<1>5. ASSUME Lapse(p) PROVE PassTypeOK' /\ UNCHANGED <<call, claim>>
  <2>1. [pass[p] EXCEPT !.status = "expired"] \in Pass BY <1>0 DEF Pass
  <2>2. pass' \in [Sales -> Pass] BY <1>0, <1>5, <2>1 DEF Lapse
  <2>3. task' \in [Sales -> [Kinds -> Pass \cup {NoRead}]] BY <1>0, <1>5, <1>k DEF Lapse, Wrote
  <2> QED BY <1>5, <2>2, <2>3 DEF Lapse, Shape, PassTypeOK, ghosts
<1> QED BY <1>1, <1>2, <1>3, <1>4, <1>5 DEF WashStep

LEMMA RenewFields ==
  ASSUME PassAssumption, NEW q \in Pass, NEW a \in {"none", "on", "off"}, NEW n \in 0..MaxRenewals
  PROVE  [q EXCEPT !.status = "active", !.left = Washes, !.period = "in", !.renewals = n, !.autopay = a] \in Pass
<1>1. Washes \in 0..Washes BY Basics
<1> QED BY <1>1 DEF Pass

LEMMA AutoPayTypes ==
  ASSUME PassAssumption, Shape, NEW p \in Sales, AutoPayStep(p)
  PROVE  PassTypeOK' /\ UNCHANGED <<call, claim>>
<1>0. /\ pass \in [Sales -> Pass] /\ pass[p] \in Pass
      /\ task \in [Sales -> [Kinds -> Pass \cup {NoRead}]]
      /\ Washes \in Nat /\ MaxRenewals \in Nat
  BY Basics DEF Shape, PassTypeOK
<1>k. {"plan", "lapse", "renew", "off", "upgrade", "cancel", "release"} = Kinds BY DEF Kinds
<1>1. ASSUME RenewalCharged(p) \/ TurnOff(p) \/ StartUpgrade(p) PROVE PassTypeOK' /\ UNCHANGED <<call, claim>>
  BY <1>0, <1>1, <1>k DEF RenewalCharged, TurnOff, StartUpgrade, Reads, Shape, PassTypeOK, ghosts
<1>2. ASSUME Renew(p) PROVE PassTypeOK' /\ UNCHANGED <<call, claim>>
  <2>1. pass[p].renewals < MaxRenewals BY <1>2 DEF Renew, Blindly, Shape, TasksOK
  <2>2. Renewed(pass[p]) \in Pass
    <3> DEFINE q == pass[p]
               a == IF q.autopay = "off" THEN "on" ELSE q.autopay
               n == q.renewals + 1
    <3>1. a \in {"none", "on", "off"} BY <1>0 DEF Pass
    <3>2. n \in 0..MaxRenewals BY <1>0, <2>1 DEF Pass
    <3>3. Renewed(pass[p]) = [q EXCEPT !.status = "active", !.left = Washes, !.period = "in",
                                       !.renewals = n, !.autopay = a]
      BY DEF Renewed
    <3>4. q \in Pass BY <1>0
    <3> HIDE DEF q, a, n
    <3>5. [q EXCEPT !.status = "active", !.left = Washes, !.period = "in", !.renewals = n, !.autopay = a] \in Pass
      BY <3>1, <3>2, <3>4, RenewFields
    <3> QED BY <3>3, <3>5
  <2>3. task' \in [Sales -> [Kinds -> Pass \cup {NoRead}]] BY <1>0, <1>2, <1>k DEF Renew, Wrote
  <2> QED BY <1>0, <1>2, <2>2, <2>3 DEF Renew, Blindly, Shape, PassTypeOK
<1>3. ASSUME AutoOff(p) PROVE PassTypeOK' /\ UNCHANGED <<call, claim>>
  <2>1. TurnedOff(pass[p], task[p]["off"]) \in Pass BY <1>0 DEF TurnedOff, Off, Pass
  <2>3. task' \in [Sales -> [Kinds -> Pass \cup {NoRead}]] BY <1>0, <1>3, <1>k DEF AutoOff, Wrote
  <2> QED BY <1>0, <1>3, <2>1, <2>3 DEF AutoOff, Blindly, Shape, PassTypeOK
<1>4. ASSUME Upgrade(p) PROVE PassTypeOK' /\ UNCHANGED <<call, claim>>
  <2>1. [pass[p] EXCEPT !.autopay = "none"] \in Pass BY <1>0 DEF Pass
  <2>3. task' \in [Sales -> [Kinds -> Pass \cup {NoRead}]] BY <1>0, <1>4, <1>k DEF Upgrade, Wrote
  <2> QED BY <1>0, <1>4, <2>1, <2>3 DEF Upgrade, Shape, PassTypeOK, ghosts
<1> QED BY <1>1, <1>2, <1>3, <1>4 DEF AutoPayStep

LEMMA EndTypes ==
  ASSUME PassAssumption, Shape, NEW p \in Sales, EndStep(p)
  PROVE  PassTypeOK' /\ UNCHANGED call
<1>0. /\ pass \in [Sales -> Pass] /\ pass[p] \in Pass
      /\ task \in [Sales -> [Kinds -> Pass \cup {NoRead}]] /\ NotSold \in Pass /\ Free \in Claims
  BY Basics DEF Shape, PassTypeOK
<1>k. {"plan", "lapse", "renew", "off", "upgrade", "cancel", "release"} = Kinds BY DEF Kinds
<1>1. ASSUME StartCancel(p) PROVE PassTypeOK' /\ UNCHANGED call
  BY <1>0, <1>1, <1>k DEF StartCancel, Reads, Shape, PassTypeOK, ghosts
<1>2. ASSUME Cancel(p) PROVE PassTypeOK' /\ UNCHANGED call
  <2>1. [pass[p] EXCEPT !.status = "cancelled", !.autopay = Off(@)] \in Pass BY <1>0 DEF Off, Pass
  <2>3. task' \in [Sales -> [Kinds -> Pass \cup {NoRead}]]
    <3>1. [[task[p] EXCEPT !["cancel"] = NoRead] EXCEPT !["release"] = NotSold] \in [Kinds -> Pass \cup {NoRead}]
      BY <1>0, <1>k
    <3> QED BY <1>0, <1>2, <3>1 DEF Cancel
  <2> QED BY <1>0, <1>2, <2>1, <2>3 DEF Cancel, Blindly, Shape, PassTypeOK
<1>3. ASSUME ReleaseClaim(p) PROVE PassTypeOK' /\ UNCHANGED call
  <2>3. task' \in [Sales -> [Kinds -> Pass \cup {NoRead}]] BY <1>0, <1>3, <1>k DEF ReleaseClaim, Wrote
  <2> QED BY <1>0, <1>3, <2>3 DEF ReleaseClaim, Shape, PassTypeOK, ghosts
<1>4. ASSUME TaskLost(p) PROVE PassTypeOK' /\ UNCHANGED call
  BY <1>0, <1>4 DEF TaskLost, Wrote, Shape, PassTypeOK, ghosts
<1>5. ASSUME PeriodEnds(p) PROVE PassTypeOK' /\ UNCHANGED call
  <2>1. [pass[p] EXCEPT !.period = IF @ = "in" /\ pass[p].autopay = "on" THEN "grace" ELSE "past"] \in Pass
    BY <1>0 DEF Pass
  <2> QED BY <1>0, <1>5, <2>1 DEF PeriodEnds, Shape, PassTypeOK, ghosts
<1>6. ASSUME SweepEnded(p) PROVE PassTypeOK' /\ UNCHANGED call
  <2>1. [pass[p] EXCEPT !.status = "expired"] \in Pass BY <1>0 DEF Pass
  <2> QED BY <1>0, <1>6, <2>1 DEF SweepEnded, Shape, PassTypeOK, ghosts
<1> QED BY <1>1, <1>2, <1>3, <1>4, <1>5, <1>6 DEF EndStep

-----------------------------------------------------------------------------
(* The counters keep within their bounds. *)

LEMMA CallBounds ==
  ASSUME PassAssumption, Shape, PassTypeOK', NEW c \in Calls,
         ClaimStep(c) \/ (c \in Sales /\ SaleStep(c)) \/ (c \in Grants /\ GrantStep(c))
  PROVE  Shape'
<1>0. /\ pass \in [Sales -> Pass] /\ call \in [Calls -> Call] /\ Grants \subseteq Calls
      /\ MaxGrants \in Nat /\ MaxRenewals \in Nat
      /\ \A g \in Grants : InFlight(g) => call[g].pass \in Sales /\ call[g].end.grants < MaxGrants
  BY Basics DEF Shape, PassTypeOK, GrantsOK
<1>1. ASSUME NEW r, Goes(c, r) \/ Over(c, r) \/ (Begins(c, r) /\ r \in Call),
             c \in Grants /\ r.step \notin {"idle", "done", "dead"} => r.pass \in Sales /\ r.end.grants < MaxGrants
      PROVE  GrantsOK'
  <2>1. SUFFICES ASSUME NEW g \in Grants, InFlight(g)' PROVE (call[g].pass \in Sales /\ call[g].end.grants < MaxGrants)'
    BY DEF GrantsOK
  <2>2. ASSUME g = c PROVE (call[g].pass \in Sales /\ call[g].end.grants < MaxGrants)'
    <3>1. call'[c].step = r.step /\ call'[c].pass = r.pass /\ call'[c].end = r.end
      <4>1. ASSUME Begins(c, r), r \in Call PROVE call'[c].step = r.step /\ call'[c].pass = r.pass /\ call'[c].end = r.end
        <5> DEFINE b == \A e \in Calls : InFlight(e) => e = c
        <5>1. call'[c] = [r EXCEPT !.alone = b] BY <4>1 DEF Begins
        <5> HIDE DEF b
        <5> QED BY <4>1, <5>1 DEF Call
      <4> QED BY <1>0, <1>1, <4>1 DEF Goes, Over
    <3> QED BY <1>1, <2>1, <2>2, <3>1 DEF InFlight
  <2>3. ASSUME g # c PROVE (call[g].pass \in Sales /\ call[g].end.grants < MaxGrants)'
    <3>1. call'[g].step = call[g].step /\ call'[g].pass = call[g].pass /\ call'[g].end = call[g].end
      BY <1>0, <1>1, <2>3 DEF Goes, Over, Begins, Call
    <3> QED BY <1>0, <2>1, <3>1 DEF InFlight
  <2> QED BY <2>2, <2>3
<1>2. ASSUME UNCHANGED <<pass, task, riding>> PROVE TasksOK' BY <1>2 DEF Shape, TasksOK
<1>i. Idle.step = "idle" /\ [Idle EXCEPT !.step = "done"].step = "done"
      /\ \A x : [Idle EXCEPT !.step = "dead", !.others = x].step = "dead" BY DEF Idle
<1>c. \A s : [call[c] EXCEPT !.step = s].pass = call[c].pass /\ [call[c] EXCEPT !.step = s].end = call[c].end
  BY <1>0 DEF Call
<1>o. ASSUME NEW s, InFlight(c), Onward(c, s) PROVE GrantsOK'
  <2>1. [call[c] EXCEPT !.step = s].pass = call[c].pass /\ [call[c] EXCEPT !.step = s].end = call[c].end BY <1>c
  <2> QED BY <1>0, <1>1, <1>o, <2>1 DEF Onward
<1>d. ASSUME Done(c) \/ Refused(c) PROVE GrantsOK' BY <1>1, <1>d, <1>i DEF Done, Refused
<1>3. ASSUME ClaimStep(c) PROVE Shape'
  <2>0. InFlight(c) /\ UNCHANGED <<pass, task, riding>>
    BY <1>3 DEF ClaimStep, TryClaim, Conflict, JudgedStale, TakeOver, Bind, Kill, InFlight
  <2>1. ASSUME Taken(c) PROVE GrantsOK'
    <3> DEFINE r == [call[c] EXCEPT !.step = IF c \in Sales THEN "insert" ELSE "bind", !.retook = TRUE, !.seen = Free]
    <3>1. r.pass = call[c].pass /\ r.end = call[c].end BY <1>0 DEF Call
    <3>2. Goes(c, r) BY <2>1 DEF Taken
    <3> HIDE DEF r
    <3> QED BY <1>0, <1>1, <2>0, <3>1, <3>2
  <2>2. ASSUME Goes(c, [call[c] EXCEPT !.step = "judge", !.seen = claim]) PROVE GrantsOK'
    <3> DEFINE r == [call[c] EXCEPT !.step = "judge", !.seen = claim]
    <3>1. r.pass = call[c].pass /\ r.end = call[c].end BY <1>0 DEF Call
    <3> HIDE DEF r
    <3> QED BY <1>0, <1>1, <2>0, <2>2, <3>1 DEF r
  <2>3. ASSUME Kill(c) PROVE GrantsOK' BY <1>1, <1>i, <2>3 DEF Kill
  <2>4. Taken(c) \/ Goes(c, [call[c] EXCEPT !.step = "judge", !.seen = claim]) \/ Kill(c)
        \/ (\E s : Onward(c, s)) \/ Done(c) \/ Refused(c)
    BY <1>3 DEF ClaimStep, TryClaim, Conflict, JudgedStale, TakeOver, Bind, Loses
  <2>5. GrantsOK' BY <1>o, <1>d, <2>0, <2>1, <2>2, <2>3, <2>4
  <2> QED BY <1>2, <2>0, <2>5 DEF Shape
<1>4. ASSUME c \in Sales, SaleStep(c) PROVE Shape'
  <2>1. TasksOK'
    <3>1. ASSUME InsertPass(c) PROVE TasksOK'
      <4>1. pass'[c].renewals = 0 BY <1>0, <1>4, <3>1 DEF InsertPass, NotSold
      <4>2. \A p \in Sales : p # c => pass'[p] = pass[p] BY <1>0, <3>1 DEF InsertPass
      <4>3. \A p \in Sales : pass[p].renewals \in Nat BY <1>0 DEF Pass
      <4>4. \A p \in Sales : pass[p].renewals < MaxRenewals => pass'[p].renewals < MaxRenewals
        BY <1>0, <4>1, <4>2, <4>3
      <4> QED BY <3>1, <4>4 DEF InsertPass, Shape, TasksOK
    <3> QED BY <1>2, <1>4, <3>1 DEF SaleStep, StartSale, InsertFails
  <2>2. c \notin Grants BY <1>4 DEF PassAssumption
  <2>3. [Idle EXCEPT !.step = "claim"] \in Call BY Basics DEF Call, Steps
  <2>4. GrantsOK' BY <1>1, <1>4, <2>2, <2>3 DEF SaleStep, StartSale, InsertPass, InsertFails, Onward, Done
  <2> QED BY <2>1, <2>4 DEF Shape
<1>5. ASSUME c \in Grants, GrantStep(c) PROVE Shape'
  <2>1. ASSUME NEW r \in Call, NEW p \in Sales, Extendable(pass[p])
        PROVE  AsRead(r, p).pass \in Sales /\ AsRead(r, p).end.grants < MaxGrants
    BY <2>1 DEF AsRead, Extendable, Call, EndOf
  <2>2. ASSUME StartGrant(c) PROVE GrantsOK'
    <3>1. PICK p \in Sales : Extendable(pass[p]) /\ Begins(c, AsRead(Idle, p)) BY <2>2 DEF StartGrant
    <3>2. AsRead(Idle, p) \in Call BY Basics, AsReadType DEF Shape
    <3> QED BY Basics, <1>1, <2>1, <3>1, <3>2
  <2>3. ASSUME ReadAgain(c) PROVE GrantsOK'
    <3>1. call[c].pass \in Sales /\ call[c] \in Call BY <1>0, <1>5, <2>3 DEF ReadAgain, InFlight
    <3> QED BY <1>1, <1>d, <2>1, <2>3, <3>1 DEF ReadAgain
  <2>4. ASSUME CheckOther(c) \/ ConflictSeen(c) PROVE GrantsOK'
    BY <1>o, <1>d, <2>4 DEF CheckOther, ConflictSeen, InFlight
  <2>5. ASSUME Extend(c) PROVE GrantsOK' /\ TasksOK'
    <3>1. GrantsOK' BY <1>o, <1>d, <2>5 DEF Extend, InFlight
    <3>2. \A p \in Sales : pass'[p].renewals = pass[p].renewals
      <4> DEFINE p == call[c].pass
      <4>1. p \in Sales BY <1>0, <1>5, <2>5 DEF Extend, InFlight
      <4>2. Extended(pass[p]).renewals = pass[p].renewals BY <1>0, <4>1 DEF Extended, Pass
      <4>3. pass' = pass \/ pass' = [pass EXCEPT ![p] = Extended(pass[p])] BY <2>5 DEF Extend
      <4> HIDE DEF p
      <4> QED BY <1>0, <4>1, <4>2, <4>3
    <3> QED BY <2>5, <3>1, <3>2 DEF Extend, Shape, TasksOK
  <2>6. GrantsOK' BY <1>5, <2>2, <2>3, <2>4, <2>5 DEF GrantStep
  <2>7. TasksOK'
    BY <1>2, <1>5, <2>5 DEF GrantStep, StartGrant, ReadAgain, CheckOther, ConflictSeen
  <2> QED BY <2>6, <2>7 DEF Shape
<1> QED BY <1>3, <1>4, <1>5

-----------------------------------------------------------------------------
(* What a task of a pass, or time, does at most to the car: no pass is born, *)
(* none comes back unmarked, and only its own release frees the claim.       *)
Quiet ==
    /\ UNCHANGED call
    /\ \/ claim' = claim
       \/ \E r \in Sales : claim.pass = r /\ task[r]["release"] # NoRead /\ claim' = Free
    /\ \A q \in Sales :
          /\ Steady(q)' => Steady(q)
          /\ pass[q].status = "none"
               => pass'[q].status = "none" /\ q \notin revived' /\ \A k \in Kinds : task'[q][k] = NoRead
          /\ pass'[q].status = "none" => pass[q].status = "none"
          /\ Live(pass'[q]) => task'[q]["release"] = NoRead \/ task'[q]["release"] = task[q]["release"]

(* A read of a pass that is on sale, with room for what the task will count. *)
LEMMA ReadQuiet ==
  ASSUME PassAssumption, Shape, UnsoldOK, NEW p \in Sales, NEW k \in Kinds \ {"release"}, NEW ok,
         Reads(p, k, ok), pass[p].status # "none",
         k = "renew" => pass[p].renewals < MaxRenewals, k = "plan" => riding[p] < MaxRiding
  PROVE  Quiet /\ TasksOK'
<1>0. task \in [Sales -> [Kinds -> Pass \cup {NoRead}]] /\ {"renew", "plan", "release"} \subseteq Kinds
  BY DEF Shape, PassTypeOK, Kinds
<1>1. UNCHANGED <<pass, claim, call, riding, revived>> BY DEF Reads, ghosts
<1>2. \A q \in Sales : \A j \in Kinds : q # p \/ j # k => task'[q][j] = task[q][j] BY <1>0 DEF Reads
<1>3. Quiet
  <2>1. \A q \in Sales : Steady(q)' => Steady(q) BY <1>1 DEF Steady, Live
  <2>2. \A q \in Sales : pass[q].status = "none" => q \notin revived' /\ \A j \in Kinds : task'[q][j] = NoRead
    BY <1>1, <1>2 DEF UnsoldOK
  <2> QED BY <1>0, <1>1, <1>2, <2>1, <2>2 DEF Quiet
<1>4. TasksOK' BY <1>0, <1>1, <1>2 DEF Shape, TasksOK
<1> QED BY <1>3, <1>4

(* A write of pass p, sold before: what becomes of it, and of the tasks. *)
LEMMA WriteQuiet ==
  ASSUME PassAssumption, Shape, UnsoldOK, NEW p \in Sales, NEW q,
         pass[p].status # "none", q.status # "none",
         pass' = [pass EXCEPT ![p] = q],
         Live(q) /\ p \notin revived' => Live(pass[p]) /\ p \notin revived,
         revived' \in {revived, revived \cup {p}},
         UNCHANGED <<call, claim>>,
         \A j \in Kinds : \A r \in Sales :
            task'[r][j] = task[r][j] \/ (r = p /\ (task'[r][j] = NoRead \/ (j = "release" /\ ~Live(q)))),
         \A r \in Sales : r # p => riding'[r] = riding[r],
         q.renewals = pass[p].renewals \/ task'[p]["renew"] = NoRead,
         riding'[p] <= riding[p] \/ task'[p]["plan"] = NoRead,
         riding'[p] \in Int
  PROVE  Quiet /\ TasksOK'
<1>0. /\ task \in [Sales -> [Kinds -> Pass \cup {NoRead}]] /\ {"renew", "plan", "release"} \subseteq Kinds
      /\ pass \in [Sales -> Pass] /\ riding \in [Sales -> 0..MaxRiding] /\ MaxRiding \in Nat
  BY Basics DEF Shape, PassTypeOK, Kinds
<1>1. pass'[p] = q /\ \A r \in Sales : r # p => pass'[r] = pass[r] BY <1>0
<1>2. Quiet
  <2>1. ASSUME NEW r \in Sales PROVE Steady(r)' => Steady(r)
    <3>1. ASSUME r = p PROVE Steady(r)' => Steady(r) BY <1>1, <3>1 DEF Steady
    <3>2. ASSUME r # p PROVE Steady(r)' => Steady(r)
      <4>1. pass'[r] = pass[r] /\ (r \in revived' <=> r \in revived) BY <1>1, <3>2
      <4> QED BY <4>1 DEF Steady
    <3> QED BY <3>1, <3>2
  <2>2. ASSUME NEW r \in Sales, pass[r].status = "none"
        PROVE  pass'[r].status = "none" /\ r \notin revived' /\ \A k \in Kinds : task'[r][k] = NoRead
    BY <1>1, <2>2 DEF UnsoldOK
  <2>3. ASSUME NEW r \in Sales, pass'[r].status = "none" PROVE pass[r].status = "none" BY <1>1, <2>3
  <2>4. ASSUME NEW r \in Sales, Live(pass'[r])
        PROVE  task'[r]["release"] = NoRead \/ task'[r]["release"] = task[r]["release"]
    BY <1>0, <1>1, <2>4
  <2> QED BY <2>1, <2>2, <2>3, <2>4 DEF Quiet
<1>3. TasksOK'
  <2>1. ASSUME NEW r \in Sales, task'[r]["renew"] # NoRead PROVE pass'[r].renewals < MaxRenewals
    BY <1>0, <1>1, <2>1 DEF Shape, TasksOK
  <2>2. ASSUME NEW r \in Sales, task'[r]["plan"] # NoRead PROVE riding'[r] < MaxRiding
    <3>1. task[r]["plan"] # NoRead /\ riding[r] < MaxRiding BY <1>0, <2>2 DEF Shape, TasksOK
    <3>2. riding'[r] <= riding[r] BY <1>0, <2>2
    <3> QED BY <1>0, <3>1, <3>2
  <2> QED BY <2>1, <2>2 DEF TasksOK
<1> QED BY <1>2, <1>3

LEMMA Reading ==
  ASSUME PassAssumption, Shape, UnsoldOK, NEW p \in Sales,
         PlanWash(p) \/ FindEnded(p) \/ RenewalCharged(p) \/ TurnOff(p) \/ StartUpgrade(p) \/ StartCancel(p)
  PROVE  Quiet /\ TasksOK'
<1>1. {"plan", "lapse", "renew", "off", "upgrade", "cancel"} \subseteq Kinds \ {"release"} BY DEF Kinds
<1>2. ASSUME PlanWash(p) PROVE Quiet /\ TasksOK'
  <2> DEFINE ok == pass[p].status = "active" /\ pass[p].period = "in" /\ pass[p].left > 0
  <2>1. Reads(p, "plan", ok) /\ riding[p] < MaxRiding BY <1>2 DEF PlanWash
  <2>2. pass[p].status # "none" BY <2>1 DEF Reads
  <2> HIDE DEF ok
  <2> QED BY <1>1, <2>1, <2>2, ReadQuiet
<1>3. ASSUME FindEnded(p) PROVE Quiet /\ TasksOK'
  <2> DEFINE ok == pass[p].status = "active" /\ pass[p].period # "in"
  <2>1. Reads(p, "lapse", ok) /\ pass[p].status # "none" BY <1>3 DEF FindEnded, Reads
  <2> HIDE DEF ok
  <2> QED BY <1>1, <2>1, ReadQuiet
<1>4. ASSUME RenewalCharged(p) PROVE Quiet /\ TasksOK'
  <2> DEFINE ok == /\ pass[p].status \notin {"none", "cancelled"} /\ pass[p].autopay # "none"
                   /\ pass[p].renewals < MaxRenewals
  <2>1. Reads(p, "renew", ok) /\ pass[p].status # "none" /\ pass[p].renewals < MaxRenewals
    BY <1>4 DEF RenewalCharged, Reads
  <2> HIDE DEF ok
  <2> QED BY <1>1, <2>1, ReadQuiet
<1>5. ASSUME TurnOff(p) PROVE Quiet /\ TasksOK'
  <2> DEFINE ok == pass[p].status # "none" /\ pass[p].autopay \in {"on", "off"}
  <2>1. Reads(p, "off", ok) /\ pass[p].status # "none" BY <1>5 DEF TurnOff, Reads
  <2> HIDE DEF ok
  <2> QED BY <1>1, <2>1, ReadQuiet
<1>6. ASSUME StartUpgrade(p) PROVE Quiet /\ TasksOK'
  <2> DEFINE ok == pass[p].status = "active"
  <2>1. Reads(p, "upgrade", ok) /\ pass[p].status # "none" BY <1>6 DEF StartUpgrade, Reads
  <2> HIDE DEF ok
  <2> QED BY <1>1, <2>1, ReadQuiet
<1>7. ASSUME StartCancel(p) PROVE Quiet /\ TasksOK'
  <2> DEFINE ok == pass[p].status = "active" /\ pass[p].period = "in"
  <2>1. Reads(p, "cancel", ok) /\ pass[p].status # "none" BY <1>7 DEF StartCancel, Reads
  <2> HIDE DEF ok
  <2> QED BY <1>1, <2>1, ReadQuiet
<1> QED BY <1>2, <1>3, <1>4, <1>5, <1>6, <1>7

(* Which tasks a write ends. *)
LEMMA WroteOnly ==
  ASSUME PassTypeOK, NEW p \in Sales, NEW k \in Kinds, Wrote(p, k)
  PROVE  /\ \A j \in Kinds : \A r \in Sales : task'[r][j] = task[r][j] \/ (r = p /\ task'[r][j] = NoRead)
         /\ task'[p][k] = NoRead
BY DEF PassTypeOK, Wrote

LEMMA Writing ==
  ASSUME PassAssumption, Shape, UnsoldOK, NEW p \in Sales,
         CommitWash(p) \/ GiveBack(p) \/ Lapse(p) \/ Renew(p) \/ AutoOff(p) \/ Upgrade(p) \/ Cancel(p)
           \/ ReleaseClaim(p) \/ TaskLost(p) \/ PeriodEnds(p) \/ SweepEnded(p)
  PROVE  Quiet /\ TasksOK'
<1>0. /\ pass \in [Sales -> Pass] /\ pass[p] \in Pass /\ riding \in [Sales -> 0..MaxRiding] /\ riding[p] \in 0..MaxRiding
      /\ task \in [Sales -> [Kinds -> Pass \cup {NoRead}]] /\ MaxRiding \in Nat
      /\ {"plan", "lapse", "renew", "off", "upgrade", "cancel", "release"} = Kinds
      /\ \A k \in Kinds : task[p][k] # NoRead => pass[p].status # "none"
  BY Basics DEF Shape, PassTypeOK, Kinds, UnsoldOK
<1>s. ASSUME UNCHANGED <<pass, revived, riding, call, claim>>, NEW k \in Kinds, NEW r \in Sales, Wrote(r, k)
      PROVE  Quiet /\ TasksOK'
  <2>1. \A j \in Kinds : \A q \in Sales : task'[q][j] = task[q][j] \/ task'[q][j] = NoRead
    BY <1>s, WroteOnly DEF Shape
  <2>2. Quiet BY <1>0, <1>s, <2>1 DEF Quiet, UnsoldOK, Steady
  <2> QED BY <1>0, <1>s, <2>1, <2>2 DEF Shape, TasksOK
<1>1. ASSUME CommitWash(p) PROVE Quiet /\ TasksOK'
  <2>1. Wrote(p, "plan") /\ UNCHANGED <<claim, call, revived>> BY <1>1 DEF CommitWash
  <2>2. CASE pass[p].left > 0
    <3> DEFINE q == Spent(pass[p])
    <3>1. pass' = [pass EXCEPT ![p] = q] /\ riding' = [riding EXCEPT ![p] = riding[p] + 1] BY <1>1, <2>2 DEF CommitWash
    <3>2. q.status \in {pass[p].status, "expired"} /\ q.period = pass[p].period /\ q.autopay = pass[p].autopay
          /\ q.renewals = pass[p].renewals
      BY <1>0 DEF Spent, Pass
    <3>3. pass[p].status # "none" BY <1>0, <1>1 DEF CommitWash
    <3> HIDE DEF q
    <3>4. Live(q) => Live(pass[p]) BY <3>2 DEF Live
    <3>5. Live(q) /\ p \notin revived' => Live(pass[p]) /\ p \notin revived BY <2>1, <3>4
    <3>6. revived' \in {revived, revived \cup {p}} BY <2>1
    <3>7. \A j \in Kinds : \A r \in Sales :
            task'[r][j] = task[r][j] \/ (r = p /\ (task'[r][j] = NoRead \/ (j = "release" /\ ~Live(q))))
      BY <1>0, <2>1, WroteOnly DEF Shape
    <3>8. \A r \in Sales : r # p => riding'[r] = riding[r] BY <1>0, <3>1
    <3>9. task'[p]["plan"] = NoRead /\ riding'[p] \in Int BY <1>0, <2>1, <3>1, WroteOnly DEF Shape
    <3>a. q.status # "none" BY <3>2, <3>3
    <3> QED BY <2>1, <3>1, <3>2, <3>3, <3>5, <3>6, <3>7, <3>8, <3>9, <3>a, WriteQuiet
  <2>3. CASE ~(pass[p].left > 0)
    <3>1. UNCHANGED <<pass, riding>> BY <1>1, <2>3 DEF CommitWash
    <3> QED BY <1>0, <1>s, <2>1, <3>1
  <2> QED BY <2>2, <2>3
<1>2. ASSUME GiveBack(p) PROVE Quiet /\ TasksOK'
  <2> DEFINE q == GivenBack(pass[p])
  <2>1. /\ pass' = [pass EXCEPT ![p] = q] /\ riding' = [riding EXCEPT ![p] = riding[p] - 1] /\ pass'[p] = q
        /\ UNCHANGED <<claim, call, task>>
        /\ revived' = IF Live(q) /\ ~Live(pass[p]) THEN revived \cup {p} ELSE revived
    BY <1>0, <1>2 DEF GiveBack
  <2>2. q.renewals = pass[p].renewals /\ q.status = (IF pass[p].status = "expired" THEN "active" ELSE pass[p].status)
        /\ q.period = pass[p].period /\ q.autopay = pass[p].autopay
    BY <1>0 DEF GivenBack, Pass
  <2> HIDE DEF q
  <2>3. CASE pass[p].status # "none"
    <3>5. Live(q) /\ p \notin revived' => Live(pass[p]) /\ p \notin revived BY <2>1
    <3>6. revived' \in {revived, revived \cup {p}} BY <2>1
    <3>7. \A j \in Kinds : \A r \in Sales :
            task'[r][j] = task[r][j] \/ (r = p /\ (task'[r][j] = NoRead \/ (j = "release" /\ ~Live(q))))
      BY <2>1
    <3>8. (\A r \in Sales : r # p => riding'[r] = riding[r]) /\ riding'[p] <= riding[p] /\ riding'[p] \in Int BY <1>0, <2>1
    <3>9. q.status # "none" BY <2>2, <2>3
    <3> QED BY <2>1, <2>2, <2>3, <3>5, <3>6, <3>7, <3>8, <3>9, WriteQuiet
  <2>4. CASE pass[p].status = "none"
    <3>1. q.status = "none" /\ ~Live(q) BY <2>2, <2>4 DEF Live
    <3>2. \A r \in Sales : r # p => pass'[r] = pass[r] BY <1>0, <2>1
    <3>3. UNCHANGED revived BY <2>1, <3>1
    <3>4. Quiet
      <4>1. \A r \in Sales : Steady(r)' => Steady(r)
        <5>1. ASSUME NEW r \in Sales, r # p PROVE Steady(r)' => Steady(r) BY <3>2, <3>3, <5>1 DEF Steady
        <5>2. ~Steady(p)' BY <2>1, <3>1 DEF Steady
        <5> QED BY <5>1, <5>2
      <4> QED BY <2>1, <2>4, <3>1, <3>2, <3>3, <4>1 DEF Quiet, UnsoldOK
    <3>5. \A r \in Sales : pass'[r].renewals = pass[r].renewals /\ riding'[r] <= riding[r]
          /\ riding[r] \in Int /\ riding'[r] \in Int
      BY <1>0, <2>1, <2>2, <3>2
    <3>6. TasksOK' BY <1>0, <2>1, <3>5 DEF Shape, TasksOK
    <3> QED BY <3>4, <3>6
  <2> QED BY <2>3, <2>4
<1>3. ASSUME Lapse(p) PROVE Quiet /\ TasksOK'
  <2>1. Wrote(p, "lapse") /\ UNCHANGED <<claim, call, riding, revived>> BY <1>3 DEF Lapse, ghosts
  <2>2. CASE pass' = pass BY <1>0, <1>s, <2>1, <2>2
  <2>3. CASE pass' # pass
    <3> DEFINE q == [pass[p] EXCEPT !.status = "expired"]
    <3>1. pass' = [pass EXCEPT ![p] = q] BY <1>0, <1>3, <2>3 DEF Lapse
    <3>2. q.status = "expired" /\ q.renewals = pass[p].renewals BY <1>0 DEF Pass
    <3>3. pass[p].status # "none" BY <1>0, <1>3 DEF Lapse
    <3> HIDE DEF q
    <3>4. ~Live(q) BY <3>2 DEF Live
    <3>5. Live(q) /\ p \notin revived' => Live(pass[p]) /\ p \notin revived BY <3>4
    <3>6. revived' \in {revived, revived \cup {p}} BY <2>1
    <3>7. \A j \in Kinds : \A r \in Sales :
            task'[r][j] = task[r][j] \/ (r = p /\ (task'[r][j] = NoRead \/ (j = "release" /\ ~Live(q))))
      BY <1>0, <2>1, WroteOnly DEF Shape
    <3>8. (\A r \in Sales : r # p => riding'[r] = riding[r]) /\ riding'[p] <= riding[p] /\ riding'[p] \in Int BY <1>0, <2>1
    <3>9. q.status # "none" BY <3>2
    <3> QED BY <2>1, <3>1, <3>2, <3>3, <3>5, <3>6, <3>7, <3>8, <3>9, WriteQuiet
  <2> QED BY <2>2, <2>3
<1>4. ASSUME Renew(p) PROVE Quiet /\ TasksOK'
  <2> DEFINE q == Renewed(pass[p])
  <2>1. Wrote(p, "renew") /\ UNCHANGED <<claim, call, riding>> /\ pass[p].status # "none"
    BY <1>0, <1>4 DEF Renew, Blindly
  <2>2. pass' = [pass EXCEPT ![p] = q] /\ revived' = IF Live(q) /\ ~Live(pass[p]) THEN revived \cup {p} ELSE revived
    BY <1>4 DEF Renew, Blindly
  <2>3. q.status = "active" BY <1>0 DEF Renewed, Pass
  <2>4. task'[p]["renew"] = NoRead BY <1>0, <2>1, WroteOnly DEF Shape
  <2> HIDE DEF q
  <2>5. Live(q) /\ p \notin revived' => Live(pass[p]) /\ p \notin revived BY <2>2
  <2>6. revived' \in {revived, revived \cup {p}} BY <2>2
  <2>7. \A j \in Kinds : \A r \in Sales :
          task'[r][j] = task[r][j] \/ (r = p /\ (task'[r][j] = NoRead \/ (j = "release" /\ ~Live(q))))
    BY <1>0, <2>1, WroteOnly DEF Shape
  <2>8. (\A r \in Sales : r # p => riding'[r] = riding[r]) /\ riding'[p] <= riding[p] /\ riding'[p] \in Int BY <1>0, <2>1
  <2>9. q.status # "none" BY <2>3
  <2> QED BY <2>1, <2>2, <2>4, <2>5, <2>6, <2>7, <2>8, <2>9, WriteQuiet
<1>5. ASSUME AutoOff(p) PROVE Quiet /\ TasksOK'
  <2> DEFINE q == TurnedOff(pass[p], task[p]["off"])
  <2>1. Wrote(p, "off") /\ UNCHANGED <<claim, call, riding>> /\ pass[p].status # "none"
    BY <1>0, <1>5 DEF AutoOff, Blindly
  <2>2. pass' = [pass EXCEPT ![p] = q] /\ revived' = IF Live(q) /\ ~Live(pass[p]) THEN revived \cup {p} ELSE revived
    BY <1>5 DEF AutoOff, Blindly
  <2>3. q.status \in {pass[p].status, "expired"} /\ q.renewals = pass[p].renewals BY <1>0 DEF TurnedOff, Pass
  <2> HIDE DEF q
  <2>5. Live(q) /\ p \notin revived' => Live(pass[p]) /\ p \notin revived BY <2>2
  <2>6. revived' \in {revived, revived \cup {p}} BY <2>2
  <2>7. \A j \in Kinds : \A r \in Sales :
          task'[r][j] = task[r][j] \/ (r = p /\ (task'[r][j] = NoRead \/ (j = "release" /\ ~Live(q))))
    BY <1>0, <2>1, WroteOnly DEF Shape
  <2>8. (\A r \in Sales : r # p => riding'[r] = riding[r]) /\ riding'[p] <= riding[p] /\ riding'[p] \in Int BY <1>0, <2>1
  <2>9. q.status # "none" BY <2>1, <2>3
  <2> QED BY <2>1, <2>2, <2>3, <2>5, <2>6, <2>7, <2>8, <2>9, WriteQuiet
<1>6. ASSUME Upgrade(p) PROVE Quiet /\ TasksOK'
  <2>1. Wrote(p, "upgrade") /\ UNCHANGED <<claim, call, riding, revived>> BY <1>6 DEF Upgrade, ghosts
  <2>2. CASE pass' = pass BY <1>0, <1>s, <2>1, <2>2
  <2>3. CASE pass' # pass
    <3> DEFINE q == [pass[p] EXCEPT !.autopay = "none"]
    <3>1. pass' = [pass EXCEPT ![p] = q] BY <1>0, <1>6, <2>3 DEF Upgrade
    <3>2. q.status = pass[p].status /\ q.renewals = pass[p].renewals /\ q.period = pass[p].period /\ q.autopay = "none"
      BY <1>0 DEF Pass
    <3>3. pass[p].status # "none" BY <1>0, <1>6 DEF Upgrade
    <3> HIDE DEF q
    <3>4. Live(q) => Live(pass[p]) BY <3>2 DEF Live
    <3>5. Live(q) /\ p \notin revived' => Live(pass[p]) /\ p \notin revived BY <2>1, <3>4
    <3>6. revived' \in {revived, revived \cup {p}} BY <2>1
    <3>7. \A j \in Kinds : \A r \in Sales :
            task'[r][j] = task[r][j] \/ (r = p /\ (task'[r][j] = NoRead \/ (j = "release" /\ ~Live(q))))
      BY <1>0, <2>1, WroteOnly DEF Shape
    <3>8. (\A r \in Sales : r # p => riding'[r] = riding[r]) /\ riding'[p] <= riding[p] /\ riding'[p] \in Int BY <1>0, <2>1
    <3>9. q.status # "none" BY <3>2, <3>3
    <3> QED BY <2>1, <3>1, <3>2, <3>3, <3>5, <3>6, <3>7, <3>8, <3>9, WriteQuiet
  <2> QED BY <2>2, <2>3
<1>7. ASSUME Cancel(p) PROVE Quiet /\ TasksOK'
  <2> DEFINE q == [pass[p] EXCEPT !.status = "cancelled", !.autopay = Off(@)]
  <2>1. UNCHANGED <<claim, call, riding>> /\ pass[p].status # "none" BY <1>0, <1>7 DEF Cancel, Blindly
  <2>2. pass' = [pass EXCEPT ![p] = q] /\ revived' = IF Live(q) /\ ~Live(pass[p]) THEN revived \cup {p} ELSE revived
    BY <1>7 DEF Cancel, Blindly
  <2>3. q.status = "cancelled" /\ q.renewals = pass[p].renewals BY <1>0 DEF Pass
  <2>4. \A j \in Kinds : \A r \in Sales :
           task'[r][j] = task[r][j] \/ (r = p /\ (task'[r][j] = NoRead \/ j = "release"))
    BY <1>0, <1>7 DEF Cancel
  <2> HIDE DEF q
  <2>5. ~Live(q) BY <2>3 DEF Live
  <2>a. Live(q) /\ p \notin revived' => Live(pass[p]) /\ p \notin revived BY <2>5
  <2>6. revived' \in {revived, revived \cup {p}} BY <2>2
  <2>7. \A j \in Kinds : \A r \in Sales :
          task'[r][j] = task[r][j] \/ (r = p /\ (task'[r][j] = NoRead \/ (j = "release" /\ ~Live(q))))
    BY <2>4, <2>5
  <2>8. (\A r \in Sales : r # p => riding'[r] = riding[r]) /\ riding'[p] <= riding[p] /\ riding'[p] \in Int BY <1>0, <2>1
  <2>9. q.status # "none" BY <2>3
  <2> QED BY <2>1, <2>2, <2>3, <2>a, <2>6, <2>7, <2>8, <2>9, WriteQuiet
<1>8. ASSUME ReleaseClaim(p) PROVE Quiet /\ TasksOK'
  <2>1. /\ UNCHANGED <<pass, call, riding, revived>> /\ Wrote(p, "release") /\ task[p]["release"] # NoRead
        /\ claim' = claim \/ (claim.pass = p /\ claim' = Free)
    BY <1>8 DEF ReleaseClaim, ghosts
  <2>2. \A j \in Kinds : \A q \in Sales : task'[q][j] = task[q][j] \/ task'[q][j] = NoRead
    BY <1>0, <2>1, WroteOnly DEF Shape
  <2>3. Quiet BY <1>0, <2>1, <2>2 DEF Quiet, UnsoldOK, Steady
  <2> QED BY <1>0, <2>1, <2>2, <2>3 DEF Shape, TasksOK
<1>9. ASSUME TaskLost(p) PROVE Quiet /\ TasksOK' BY <1>0, <1>s, <1>9 DEF TaskLost, ghosts
<1>10. ASSUME PeriodEnds(p) PROVE Quiet /\ TasksOK'
  <2> DEFINE q == [pass[p] EXCEPT !.period = IF @ = "in" /\ pass[p].autopay = "on" THEN "grace" ELSE "past"]
  <2>1. pass' = [pass EXCEPT ![p] = q] /\ UNCHANGED <<claim, call, task, riding, revived>> /\ pass[p].status # "none"
        /\ pass[p].period # "past"
    BY <1>10 DEF PeriodEnds, ghosts
  <2>2. /\ q.status = pass[p].status /\ q.renewals = pass[p].renewals /\ q.autopay = pass[p].autopay
        /\ q.period = IF pass[p].period = "in" /\ pass[p].autopay = "on" THEN "grace" ELSE "past"
    BY <1>0 DEF Pass
  <2> HIDE DEF q
  <2>3. Live(q) => Live(pass[p]) BY <2>1, <2>2 DEF Live
  <2>5. Live(q) /\ p \notin revived' => Live(pass[p]) /\ p \notin revived BY <2>1, <2>3
  <2>6. revived' \in {revived, revived \cup {p}} BY <2>1
  <2>7. \A j \in Kinds : \A r \in Sales :
          task'[r][j] = task[r][j] \/ (r = p /\ (task'[r][j] = NoRead \/ (j = "release" /\ ~Live(q))))
    BY <2>1
  <2>8. (\A r \in Sales : r # p => riding'[r] = riding[r]) /\ riding'[p] <= riding[p] /\ riding'[p] \in Int BY <1>0, <2>1
  <2>9. q.status # "none" BY <2>1, <2>2
  <2> QED BY <2>1, <2>2, <2>5, <2>6, <2>7, <2>8, <2>9, WriteQuiet
<1>11. ASSUME SweepEnded(p) PROVE Quiet /\ TasksOK'
  <2> DEFINE q == [pass[p] EXCEPT !.status = "expired"]
  <2>1. pass' = [pass EXCEPT ![p] = q] /\ UNCHANGED <<claim, call, task, riding, revived>> /\ pass[p].status # "none"
    BY <1>11 DEF SweepEnded, ghosts
  <2>2. q.status = "expired" /\ q.renewals = pass[p].renewals BY <1>0 DEF Pass
  <2> HIDE DEF q
  <2>3. ~Live(q) BY <2>2 DEF Live
  <2>5. Live(q) /\ p \notin revived' => Live(pass[p]) /\ p \notin revived BY <2>3
  <2>6. revived' \in {revived, revived \cup {p}} BY <2>1
  <2>7. \A j \in Kinds : \A r \in Sales :
          task'[r][j] = task[r][j] \/ (r = p /\ (task'[r][j] = NoRead \/ (j = "release" /\ ~Live(q))))
    BY <2>1
  <2>8. (\A r \in Sales : r # p => riding'[r] = riding[r]) /\ riding'[p] <= riding[p] /\ riding'[p] \in Int BY <1>0, <2>1
  <2>9. q.status # "none" BY <2>2
  <2> QED BY <2>1, <2>2, <2>5, <2>6, <2>7, <2>8, <2>9, WriteQuiet
<1> QED BY <1>1, <1>2, <1>3, <1>4, <1>5, <1>6, <1>7, <1>8, <1>9, <1>10, <1>11

-----------------------------------------------------------------------------
(* The car keeps one claimed pass. *)

LEMMA QuietKeeps ==
  ASSUME PassAssumption, PassInv, Quiet, Shape'
  PROVE  PassInv'
<1>0. /\ call' = call /\ claim \in Claims /\ Free.pass = NoPass /\ Free.by = NoCall
      /\ (claim # Free => claim.by \in Calls)
      /\ NoCall \notin Calls /\ NoPass \notin Sales
      /\ Grants \subseteq Calls /\ "release" \in Kinds
      /\ \A p \in Sales : Own(p).pass = NoPass
  BY Basics DEF Quiet, PassInv, Shape, PassTypeOK, PassAssumption, Kinds, Own, Claims
<1>1. \A c \in Calls : /\ InFlight(c)' <=> InFlight(c)
                       /\ HasTaken(c)' <=> HasTaken(c)
                       /\ Bound(c)' <=> Bound(c)
  BY <1>0 DEF InFlight, HasTaken, Bound
<1>2. \A q \in Sales : /\ Steady(q)' => Steady(q)
                       /\ pass'[q].status = "none" <=> pass[q].status = "none"
  BY DEF Quiet
<1>c. claim' = claim \/ claim' = Free BY DEF Quiet
<1>3. CallsOK'
  <2>1. \A c \in Grants : InFlight(c) => call[c].pass \in Sales BY DEF PassInv, Shape, GrantsOK
  <2> QED BY <1>0, <1>1, <1>2, <2>1 DEF PassInv, CallsOK, CallOK
<1>4. UnsoldOK' BY <1>2 DEF Quiet, UnsoldOK
<1>5. Alone' BY <1>0, <1>1 DEF PassInv, Alone
<1>6. ClaimOK'
  <2>1. \A c \in Calls : call[c].step \in Holding => claim' = Own(c)
    <3>1. \A c \in Calls : Own(c).pass = NoPass BY DEF Own
    <3> QED BY <1>0, <3>1 DEF PassInv, ClaimOK, Quiet
  <2>3. (claim # Free => HasTaken(claim.by))' BY <1>0, <1>c DEF PassInv, ClaimOK, HasTaken
  <2>4. (claim.pass # NoPass => Bound(claim.by))' BY <1>0, <1>c DEF PassInv, ClaimOK, HasTaken, Bound
  <2> QED BY <1>0, <2>1, <2>3, <2>4 DEF ClaimOK, Own
<1>7. SeenOK'
  <2>1. SUFFICES ASSUME NEW c \in Calls, NEW k \in Claims, k = call[c].seen PROVE SeenBy(c, k)'
    BY <1>0 DEF SeenOK, PassInv, Shape, PassTypeOK, Call
  <2>2. SeenBy(c, k) BY <2>1 DEF PassInv, SeenOK
  <2>3. k # Free => k.by \in Calls BY <2>1 DEF Claims
  <2>5. (HasTaken(k.by) => HasTaken(k.by)') /\ (Bound(k.by) => Bound(k.by)')
    BY <1>0 DEF HasTaken, Bound
  <2>6. k # Free /\ k.by = claim'.by => k.pass = NoPass \/ k.pass = claim'.pass
    BY <1>0, <1>c, <2>2, <2>3 DEF SeenBy
  <2>7. (call[c].step = "judge" /\ k.pass = NoPass /\ claim'.by = k.by /\ claim'.pass # NoPass
              /\ call[k.by].step = "dead")
             => c \in call[k.by].others
    BY <1>0, <1>c, <2>2 DEF SeenBy
  <2> QED BY <1>0, <2>2, <2>5, <2>6, <2>7 DEF SeenBy
<1>8. LookersOK'
  <2>1. SUFFICES ASSUME NEW c \in Calls, NEW p \in Sales, Steady(p)' PROVE Looker(c, p)' BY DEF LookersOK
  <2>2. Steady(p) /\ Looker(c, p) /\ Live(pass'[p]) BY <1>2, <2>1 DEF PassInv, LookersOK, Steady
  <2>3. ASSUME call[c].step \in Looking PROVE claim' = claim /\ task'[p]["release"] = NoRead
    <3>1. Holds(p, c) /\ task[p]["release"] = NoRead BY <2>2, <2>3 DEF Looker
    <3>2. claim.pass \in {p, NoPass} BY <1>0, <3>1 DEF Holds
    <3>3. claim' = claim BY <1>0, <3>1, <3>2 DEF Quiet
    <3> QED BY <2>2, <3>1, <3>3 DEF Quiet
  <2>4. call[c].step \in Looking => Holds(p, c)' BY <1>0, <2>2, <2>3 DEF Looker, Holds, Own
  <2> QED BY <1>0, <1>1, <2>2, <2>3, <2>4 DEF Looker
<1>9. OneSteady' BY <1>2 DEF PassInv, OneSteady
<1> QED BY <1>3, <1>4, <1>5, <1>6, <1>7, <1>8, <1>9 DEF PassInv

(* What the others notice of a step of call c. *)
TheirsKept(c) ==
    \A d \in Calls \ {c} :
        /\ call'[d].step = call[d].step /\ call'[d].pass = call[d].pass /\ call'[d].seen = call[d].seen
        /\ call'[d].retook = call[d].retook /\ (call'[d].alone => call[d].alone)
        /\ \A e \in call[d].others \ {c} : e \in call'[d].others
        /\ call'[c].step \in {"idle", "done"} \/ call[d].others \subseteq call'[d].others

(* A step of call c which does not take, bind or free the claim. *)
Mild(c) ==
    /\ UNCHANGED <<claim, task>>
    /\ \A q \in Sales : pass'[q].status = "none" <=> pass[q].status = "none"
    /\ \A q \in Sales : pass'[q].status = "none" => q \notin revived'
    /\ call[c].step # "dead"
    /\ TheirsKept(c) /\ CallOK(c)'
    /\ InFlight(c)' /\ call'[c].alone => (InFlight(c) /\ call[c].alone) \/ \A d \in Calls \ {c} : ~InFlight(d)
    /\ InFlight(c)' => InFlight(c) \/ \A d \in Calls \ {c} : InFlight(d) => ~call'[d].alone
    /\ (HasTaken(c) => HasTaken(c)') /\ (Bound(c) => Bound(c)')
    /\ call'[c].step \in Holding => call[c].step \in Holding
    /\ call'[c].step = "dead" => \A d \in Calls \ {c} : InFlight(d) => d \in call'[c].others
    /\ call[c].step = "bind" => call'[c].step \in {"bind", "dead"}
    /\ SeenBy(c, call[c].seen)'

LEMMA MildCalls ==
  ASSUME PassAssumption, PassInv, Shape', NEW c \in Calls, Mild(c)
  PROVE  CallsOK' /\ UnsoldOK' /\ Alone' /\ ClaimOK' /\ SeenOK'
<1>0. /\ claim \in Claims /\ Free.pass = NoPass /\ Free.by = NoCall /\ NoCall \notin Calls
      /\ claim' = claim /\ task' = task
      /\ (claim # Free => claim.by \in Calls)
  BY Basics DEF PassInv, Shape, PassTypeOK, PassAssumption, Claims, Mild, TheirsKept
<1>1. \A d \in Calls \ {c} : /\ InFlight(d)' <=> InFlight(d)
                             /\ HasTaken(d)' <=> HasTaken(d)
                             /\ Bound(d)' <=> Bound(d)
  BY DEF Mild, TheirsKept, InFlight, HasTaken, Bound
<1>2. \A d \in Calls : (HasTaken(d) => HasTaken(d)') /\ (Bound(d) => Bound(d)') BY <1>1 DEF Mild, TheirsKept
<1>3. CallsOK'
  <2>1. \A d \in Grants : InFlight(d) => call[d].pass \in Sales BY DEF PassInv, Shape, GrantsOK
  <2>2. ASSUME NEW d \in Calls \ {c} PROVE CallOK(d)'
    BY <1>1, <2>1, <2>2 DEF PassInv, CallsOK, CallOK, Mild, TheirsKept
  <2> QED BY <2>2 DEF CallsOK, Mild, TheirsKept
<1>4. UnsoldOK' BY <1>0 DEF PassInv, UnsoldOK, Mild, TheirsKept
<1>5. Alone'
  <2>1. SUFFICES ASSUME NEW d \in Calls, NEW e \in Calls, InFlight(d)', call'[d].alone, InFlight(e)'
                 PROVE  d = e
    BY DEF Alone
  <2>2. CASE d # c /\ e # c BY <1>1, <2>1, <2>2 DEF PassInv, Alone, Mild, TheirsKept
  <2>3. CASE d = c /\ e # c BY <1>1, <2>1, <2>3 DEF PassInv, Alone, Mild, TheirsKept
  <2>4. CASE d # c /\ e = c BY <1>1, <2>1, <2>4 DEF PassInv, Alone, Mild, TheirsKept
  <2> QED BY <2>2, <2>3, <2>4
<1>6. ClaimOK'
  <2>1. \A d \in Calls : call'[d].step \in Holding => call[d].step \in Holding BY DEF Mild, TheirsKept
  <2>2. claim # Free => HasTaken(claim.by)' BY <1>0, <1>2 DEF PassInv, ClaimOK
  <2>3. claim.pass # NoPass => Bound(claim.by)' BY <1>0, <1>2 DEF PassInv, ClaimOK
  <2> QED BY <1>0, <2>1, <2>2, <2>3 DEF PassInv, ClaimOK, Own
<1>7. SeenOK'
  <2>1. SUFFICES ASSUME NEW d \in Calls \ {c}, NEW k \in Claims, k = call[d].seen PROVE SeenBy(d, k)'
    BY DEF SeenOK, PassInv, Shape, PassTypeOK, Call, Mild, TheirsKept
  <2>2. SeenBy(d, k) BY <2>1 DEF PassInv, SeenOK
  <2>3. k # Free => k.by \in Calls BY <2>1 DEF Claims
  <2>4. call'[d].step = call[d].step BY DEF Mild, TheirsKept
  <2>5. k # Free => (HasTaken(k.by) => HasTaken(k.by)') /\ (Bound(k.by) => Bound(k.by)') BY <1>2, <2>3
  <2>6. k.pass # NoPass => k # Free BY <1>0
  <2>7. (call[d].step = "judge" /\ k.pass = NoPass /\ claim.by = k.by /\ claim.pass # NoPass
              /\ call'[k.by].step = "dead")
             => d \in call'[k.by].others
    <3>1. SUFFICES ASSUME call[d].step = "judge", k.pass = NoPass, claim.by = k.by, claim.pass # NoPass,
                          call'[k.by].step = "dead"
                   PROVE  d \in call'[k.by].others
      OBVIOUS
    <3>2. k.by \in Calls BY <1>0, <3>1
    <3>3. InFlight(d) BY <3>1 DEF InFlight
    <3>4. CASE k.by = c BY <3>1, <3>3, <3>4 DEF Mild, TheirsKept
    <3>5. CASE k.by # c
      <4>1. d \in call[k.by].others BY <2>2, <3>1, <3>2, <3>5 DEF SeenBy, Mild, TheirsKept
      <4> QED BY <3>2, <3>5, <4>1 DEF Mild, TheirsKept
    <3> QED BY <3>4, <3>5
  <2> QED BY <1>0, <2>2, <2>4, <2>5, <2>6, <2>7 DEF SeenBy
<1> QED BY <1>3, <1>4, <1>5, <1>6, <1>7

LEMMA MildLookers ==
  ASSUME PassAssumption, PassInv, Shape', NEW c \in Calls, Mild(c),
         \A q \in Sales : Steady(q)' => Steady(q),
         \A q \in Sales : Steady(q) => Looker(c, q)'
  PROVE  PassInv'
<1>1. LookersOK'
  <2>1. SUFFICES ASSUME NEW d \in Calls \ {c}, NEW p \in Sales, Steady(p)' PROVE Looker(d, p)'
    BY DEF LookersOK
  <2>2. Looker(d, p) BY <2>1 DEF PassInv, LookersOK
  <2>3. /\ call'[d].step = call[d].step /\ call'[d].pass = call[d].pass /\ call'[d].seen = call[d].seen
        /\ call'[d].retook = call[d].retook /\ (call'[d].alone => call[d].alone)
        /\ claim' = claim /\ task' = task
    BY <2>1 DEF Mild, TheirsKept
  <2>4. call[d].step \in Looking => Holds(p, d)'
    <3>1. SUFFICES ASSUME call[d].step \in Looking PROVE Holds(p, d)' OBVIOUS
    <3>2. Holds(p, d) /\ InFlight(d) BY <2>2, <3>1 DEF Looker, InFlight, Looking
    <3>3. CASE p = c BY <2>1, <2>3, <3>2, <3>3 DEF Holds, Own, Mild, TheirsKept
    <3>4. CASE p # c
      <4>1. p \in Calls BY Basics
      <4> QED BY <2>1, <2>3, <3>2, <3>4, <4>1 DEF Holds, Own, Mild, TheirsKept
    <3> QED BY <3>3, <3>4
  <2> QED BY <2>2, <2>3, <2>4 DEF Looker, InFlight
<1>2. OneSteady' BY DEF PassInv, OneSteady
<1> QED BY <1>1, <1>2, MildCalls DEF PassInv

LEMMA Theirs ==
  ASSUME PassAssumption, PassTypeOK, NEW c \in Calls, NEW r \in Call,
         Goes(c, r) \/ (Over(c, r) /\ r.step \in {"idle", "done"}) \/ Begins(c, r)
  PROVE  /\ TheirsKept(c)
         /\ call'[c].step = r.step /\ call'[c].pass = r.pass /\ call'[c].seen = r.seen
         /\ call'[c].retook = r.retook /\ call'[c].others = r.others
         /\ ~Begins(c, r) => call'[c] = r
         /\ Begins(c, r) => /\ call'[c].alone => \A e \in Calls : InFlight(e) => e = c
                            /\ \A d \in Calls \ {c} : InFlight(d) => ~call'[d].alone
<1>0. call \in [Calls -> Call] BY DEF PassTypeOK
<1>1. CASE Goes(c, r) BY <1>0, <1>1 DEF Goes, TheirsKept, Begins, Call
<1>2. ASSUME Over(c, r), r.step \in {"idle", "done"}
      PROVE  TheirsKept(c) /\ call'[c] = r
  <2>1. call'[c] = r BY <1>2 DEF Over
  <2>2. ASSUME NEW d \in Calls \ {c} PROVE call'[d] = [call[d] EXCEPT !.others = call[d].others \ {c}]
    BY <1>2, <2>2 DEF Over
  <2>3. ASSUME NEW d \in Calls \ {c}
        PROVE  /\ call'[d].step = call[d].step /\ call'[d].pass = call[d].pass /\ call'[d].seen = call[d].seen
               /\ call'[d].retook = call[d].retook /\ call'[d].alone = call[d].alone
               /\ call'[d].others = call[d].others \ {c}
    <3> DEFINE o == call[d].others \ {c}
    <3>1. call'[d] = [call[d] EXCEPT !.others = o] BY <2>2
    <3> HIDE DEF o
    <3>2. /\ call'[d].step = call[d].step /\ call'[d].pass = call[d].pass /\ call'[d].seen = call[d].seen
          /\ call'[d].retook = call[d].retook /\ call'[d].alone = call[d].alone /\ call'[d].others = o
      BY <1>0, <3>1 DEF Call
    <3> QED BY <3>2 DEF o
  <2> QED BY <1>2, <2>1, <2>3 DEF TheirsKept
<1>3. CASE Begins(c, r)
  <2> DEFINE b == \A e \in Calls : InFlight(e) => e = c
  <2>1. call'[c] = [r EXCEPT !.alone = b] BY <1>3 DEF Begins
  <2>2. ASSUME NEW d \in Calls \ {c}
        PROVE  call'[d] = IF InFlight(d) THEN [call[d] EXCEPT !.alone = FALSE] ELSE call[d]
    BY <1>3, <2>2 DEF Begins
  <2>3. b \in BOOLEAN OBVIOUS
  <2>4. b => \A e \in Calls : InFlight(e) => e = c OBVIOUS
  <2> HIDE DEF b
  <2>5. call'[c].alone = b /\ call'[c].step = r.step /\ call'[c].pass = r.pass /\ call'[c].seen = r.seen
        /\ call'[c].retook = r.retook /\ call'[c].others = r.others
    BY <2>1 DEF Call
  <2>6. ASSUME NEW d \in Calls \ {c}
        PROVE  /\ call'[d].step = call[d].step /\ call'[d].pass = call[d].pass /\ call'[d].seen = call[d].seen
               /\ call'[d].retook = call[d].retook /\ call'[d].others = call[d].others
               /\ (call'[d].alone => call[d].alone) /\ (InFlight(d) => ~call'[d].alone)
    BY <1>0, <2>2 DEF Call
  <2>7. TheirsKept(c) BY <2>6 DEF TheirsKept
  <2> QED BY <1>3, <2>4, <2>5, <2>6, <2>7
<1>4. CASE Over(c, r) /\ r.step \in {"idle", "done"} /\ ~Begins(c, r) BY <1>2, <1>4
<1> QED BY <1>1, <1>3, <1>4

(* A call that does nothing yet, or no more, looks at nothing. *)
LEMMA IdleOK ==
  ASSUME PassAssumption
  PROVE  /\ Idle.step = "idle" /\ Idle.seen = Free /\ ~Idle.retook /\ ~Idle.alone /\ Idle.others = {}
         /\ [Idle EXCEPT !.step = "done"] \in Call /\ [Idle EXCEPT !.step = "done"].step = "done"
         /\ [Idle EXCEPT !.step = "done"].seen = Free /\ ~[Idle EXCEPT !.step = "done"].retook
         /\ [Idle EXCEPT !.step = "claim"] \in Call /\ [Idle EXCEPT !.step = "claim"].step = "claim"
         /\ [Idle EXCEPT !.step = "claim"].seen = Free /\ ~[Idle EXCEPT !.step = "claim"].retook
BY Basics DEF Idle, Call, Steps

(* Claim, passes and tasks stay as they are: what is left to show of a step. *)
LEMMA CallOnly ==
  ASSUME PassAssumption, PassInv, Shape', NEW c \in Calls,
         UNCHANGED <<pass, claim, task, revived>>, Mild(c),
         \A q \in Sales : Steady(q) => Looker(c, q)'
  PROVE  PassInv'
<1>1. \A q \in Sales : Steady(q)' => Steady(q) BY DEF Steady
<1> QED BY <1>1, MildLookers

LEMMA Refusal ==
  ASSUME PassAssumption, PassInv, Shape', NEW c \in Calls, InFlight(c), call[c].step \notin Holding,
         \/ Done(c)
         \/ Refused(c) /\ ~HasTaken(c) /\ (c \in Sales => pass[c].status = "none"),
         UNCHANGED <<pass, claim, task, revived>>
  PROVE  PassInv'
<1> DEFINE r == IF Done(c) THEN [Idle EXCEPT !.step = "done"] ELSE Idle
<1>0. PassTypeOK /\ Idle \in Call /\ Free.pass = NoPass BY Basics DEF PassInv, Shape
<1>1. r \in Call /\ r.seen = Free /\ ~r.retook /\ r.step \in {"idle", "done"} /\ Over(c, r)
      /\ (r.step = "idle" => ~HasTaken(c) /\ (c \in Sales => pass[c].status = "none"))
  BY <1>0, IdleOK DEF Refused, Done
<1> HIDE DEF r
<1>2. TheirsKept(c) /\ call'[c].step = r.step /\ call'[c].seen = Free /\ ~call'[c].retook
  BY <1>0, <1>1, Theirs DEF Begins
<1>3. ~InFlight(c)' BY <1>1, <1>2 DEF InFlight
<1>4. CallOK(c)' BY <1>1, <1>2, <1>3 DEF CallOK, Looking, Holding
<1>5. SeenBy(c, call[c].seen)' BY <1>0, <1>1, <1>2 DEF SeenBy
<1>6. (HasTaken(c) => HasTaken(c)') /\ (Bound(c) => Bound(c)') 
  BY <1>1, <1>2 DEF HasTaken, Bound, Holding
<1>7. Mild(c) BY <1>1, <1>2, <1>3, <1>4, <1>5, <1>6 DEF Mild, InFlight, Holding, PassInv, UnsoldOK
<1>8. \A q \in Sales : Looker(c, q)' BY <1>1, <1>2, <1>3 DEF Looker, Looking
<1> QED BY <1>7, <1>8, CallOnly

LEMMA Onwards ==
  ASSUME PassAssumption, PassInv, Shape', NEW c \in Calls, InFlight(c), NEW r \in Call, Goes(c, r),
         UNCHANGED <<pass, claim, task, revived>>,
         r.pass = call[c].pass, r.alone = call[c].alone, r.retook = call[c].retook,
         call[c].step \notin Holding, r.step \notin Holding \cup {"idle", "done", "dead"},
         r.step \in {"check", "conflict", "read", "write"} => c \in Grants,
         r.step \in {"check"} \cup Looking => ~r.retook,
         c \in Sales => pass[c].status = "none",
         HasTaken(c) => r.step \in {"read", "write"},
         SeenBy(c, r.seen)',
         \A q \in Sales : Steady(q) => Looker(c, q)'
  PROVE  PassInv'
<1>0. PassTypeOK /\ call'[c] = r /\ Sales \cap Grants = {}
  BY DEF PassInv, Shape, Goes, PassTypeOK, PassAssumption
<1>1. TheirsKept(c) BY <1>0, Theirs
<1>2. InFlight(c)' BY <1>0 DEF InFlight
<1>3. CallOK(c)' BY <1>0, <1>2 DEF CallOK, PassInv, CallsOK, Looking, Holding
<1>4. SeenBy(c, call[c].seen)' BY <1>0 DEF SeenBy
<1>5. (HasTaken(c) => HasTaken(c)') /\ (Bound(c) => Bound(c)')
  BY <1>0, <1>2 DEF HasTaken, Bound, Holding, InFlight
<1>6. Mild(c) BY <1>0, <1>1, <1>2, <1>3, <1>4, <1>5 DEF Mild, InFlight, Holding, PassInv, UnsoldOK
<1> QED BY <1>6, CallOnly

(* The claim is read, and found to be held. *)
LEMMA TriesInVain ==
  ASSUME PassAssumption, PassInv, Shape', NEW c \in Calls, TryClaim(c), claim # Free
  PROVE  PassInv'
<1>0. call[c] \in Call /\ claim \in Claims /\ Free.pass = NoPass BY Basics DEF PassInv, Shape, PassTypeOK
<1>b. [call[c] EXCEPT !.step = "judge", !.seen = claim] \in Call BY <1>0 DEF Call, Steps
<1>c. PICK r \in Call : r = [call[c] EXCEPT !.step = "judge", !.seen = claim] BY <1>b
<1>1. r.pass = call[c].pass /\ r.alone = call[c].alone /\ r.retook = call[c].retook
      /\ r.step = "judge" /\ r.seen = claim
  BY <1>0, <1>c DEF Call, Steps
<1>2. Goes(c, r) /\ UNCHANGED <<pass, claim, task, revived>> /\ call[c].step = "claim"
  BY <1>c DEF TryClaim, ghosts
<1>3. call'[c] = r BY <1>2 DEF Goes, PassInv, Shape, PassTypeOK
<1>4. InFlight(c) /\ ~HasTaken(c) /\ ~call[c].retook /\ (c \in Sales => pass[c].status = "none")
  BY <1>2 DEF InFlight, HasTaken, Holding, PassInv, CallsOK, CallOK, Looking
<1>5. claim.by \in Calls \ {c} BY <1>0, <1>4 DEF Claims, PassInv, ClaimOK
<1>6. HasTaken(claim.by) /\ (claim.pass # NoPass => Bound(claim.by)) BY DEF PassInv, ClaimOK
<1>a. \A d \in Calls \ {c} : call'[d] = call[d] BY <1>2 DEF Goes, PassInv, Shape, PassTypeOK
<1>7. call'[claim.by] = call[claim.by] BY <1>5, <1>a
<1>8. SeenBy(c, r.seen)' BY <1>1, <1>2, <1>3, <1>6, <1>7 DEF SeenBy, HasTaken, Bound
<1>9. \A q \in Sales : Steady(q) => Looker(c, q)'
  <2>1. SUFFICES ASSUME NEW q \in Sales, Steady(q) PROVE Looker(c, q)' OBVIOUS
  <2>2. Looker(c, q) BY <2>1 DEF PassInv, LookersOK
  <2>3. q # c BY <1>4, <2>1 DEF Steady, Live
  <2>4. q \in Calls /\ call'[q] = call[q] BY <1>a, <2>3, Basics
  <2>5. Holds(q, c) /\ task[q]["release"] = NoRead /\ (InFlight(c) /\ call[c].alone /\ c \in Grants => q = call[c].pass)
    BY <1>2, <2>2 DEF Looker, Looking
  <2>6. Holds(q, c)' /\ task'[q]["release"] = NoRead BY <1>2, <2>4, <2>5 DEF Holds, Own
  <2> QED BY <1>1, <1>3, <1>4, <2>5, <2>6 DEF Looker, Looking
<1> QED BY <1>1, <1>2, <1>4, <1>8, <1>9, Onwards DEF Looking, Holding

(* What a call has read of the claim keeps its meaning once it judges no more. *)
LEMMA SeenKept ==
  ASSUME PassAssumption, PassInv, NEW c \in Calls, InFlight(c), NEW r \in Call, Goes(c, r), UNCHANGED claim,
         r.seen = call[c].seen, r.retook = call[c].retook, r.step \notin {"judge", "take"},
         call[c].step \notin Holding, HasTaken(c) => r.step \in {"read", "write"}
  PROVE  SeenBy(c, r.seen)'
<1>0. Free.pass = NoPass BY Basics
<1>1. call'[c] = r /\ \A d \in Calls \ {c} : call'[d] = call[d] BY DEF Goes, PassInv, Shape, PassTypeOK
<1>2. PICK k \in Claims : k = r.seen BY DEF Call
<1>3. SeenBy(c, k) BY <1>2 DEF PassInv, SeenOK
<1>4. k # Free => (HasTaken(k.by) => HasTaken(k.by)') /\ (Bound(k.by) => Bound(k.by)')
  <2>1. SUFFICES ASSUME k # Free PROVE (HasTaken(k.by) => HasTaken(k.by)') /\ (Bound(k.by) => Bound(k.by)')
    OBVIOUS
  <2>2. CASE k.by = c BY <1>1, <2>2 DEF HasTaken, Bound, Holding, InFlight
  <2>3. CASE k.by # c
    <3>1. k.by \in Calls BY <1>2, <2>1 DEF Claims
    <3> QED BY <1>1, <2>3, <3>1 DEF HasTaken, Bound
  <2> QED BY <2>2, <2>3
<1>5. k.pass # NoPass => k # Free BY <1>0
<1>6. SeenBy(c, k)' BY <1>1, <1>3, <1>4, <1>5 DEF SeenBy
<1> QED BY <1>2, <1>6

LEMMA OnwardKeeps ==
  ASSUME PassAssumption, PassInv, Shape', NEW c \in Calls, InFlight(c), NEW s \in {"claim", "conflict", "read", "write"},
         Onward(c, s), UNCHANGED <<pass, claim, task, revived>>,
         call[c].step \notin Holding, c \in Sales => s = "claim" /\ pass[c].status = "none",
         HasTaken(c) => s \in {"read", "write"},
         s \in {"claim", "conflict"} => ~call[c].retook,
         s \in {"claim", "conflict"} => call[c].step \in Looking \/ \A q \in Sales : ~Steady(q)
  PROVE  PassInv'
<1>0. call[c] \in Call /\ Free.pass = NoPass /\ Grants \cup Sales = Calls /\ Sales \cap Grants = {}
  BY Basics DEF PassInv, Shape, PassTypeOK, Calls, PassAssumption
<1>b. [call[c] EXCEPT !.step = s] \in Call BY <1>0 DEF Call, Steps
<1>c. PICK r \in Call : r = [call[c] EXCEPT !.step = s] BY <1>b
<1>1. /\ r.pass = call[c].pass /\ r.alone = call[c].alone /\ r.retook = call[c].retook
      /\ r.step = s /\ r.seen = call[c].seen /\ Goes(c, r)
  BY <1>0, <1>c DEF Call, Steps, Onward
<1>2. call'[c] = r /\ \A d \in Calls \ {c} : call'[d] = call[d] BY <1>1 DEF Goes, PassInv, Shape, PassTypeOK
<1>3. SeenBy(c, r.seen)' BY <1>1, SeenKept
<1>4. \A q \in Sales : Steady(q) => Looker(c, q)'
  <2>1. SUFFICES ASSUME NEW q \in Sales, Steady(q) PROVE Looker(c, q)' OBVIOUS
  <2>2. Looker(c, q) BY <2>1 DEF PassInv, LookersOK
  <2>3. s \in Looking => call[c].step \in Looking BY <2>1 DEF Looking
  <2>4. s \in Looking => Holds(q, c)' /\ task'[q]["release"] = NoRead
    <3>1. SUFFICES ASSUME s \in Looking PROVE Holds(q, c)' /\ task'[q]["release"] = NoRead OBVIOUS
    <3>2. Holds(q, c) /\ task[q]["release"] = NoRead BY <2>2, <2>3, <3>1 DEF Looker
    <3>3. q # c
      <4>1. c \in Sales => pass[c].status = "none" OBVIOUS
      <4> QED BY <2>1, <4>1 DEF Steady, Live
    <3>4. q \in Calls BY <1>0
    <3> QED BY <1>2, <3>2, <3>3, <3>4 DEF Holds, Own
  <2>5. InFlight(c)' => InFlight(c) OBVIOUS
  <2> QED BY <1>1, <1>2, <2>2, <2>3, <2>4 DEF Looker
<1> QED BY <1>0, <1>1, <1>3, <1>4, Onwards DEF Looking, Holding

LEMMA StaleOK ==
  ASSUME PassAssumption, PassInv, Shape', NEW c \in Calls, JudgedStale(c)
  PROVE  PassInv'
<1>0. call[c] \in Call /\ Free.pass = NoPass /\ Sales \subseteq Calls BY Basics DEF PassInv, Shape, PassTypeOK
<1>b. [call[c] EXCEPT !.step = "take"] \in Call BY <1>0 DEF Call, Steps
<1>c. PICK r \in Call : r = [call[c] EXCEPT !.step = "take"] BY <1>b
<1>1. /\ r.pass = call[c].pass /\ r.alone = call[c].alone /\ r.retook = call[c].retook
      /\ r.step = "take" /\ r.seen = call[c].seen /\ Goes(c, r) /\ call[c].step = "judge"
      /\ UNCHANGED <<pass, claim, task, revived>> /\ ~HolderLive(call[c].seen)
  BY <1>0, <1>c DEF Call, Steps, Onward, JudgedStale, ghosts
<1>2. call'[c] = r /\ \A d \in Calls \ {c} : call'[d] = call[d] BY <1>1 DEF Goes, PassInv, Shape, PassTypeOK
<1>3. InFlight(c) /\ ~HasTaken(c) /\ ~call[c].retook /\ (c \in Sales => pass[c].status = "none")
  BY <1>1 DEF InFlight, HasTaken, Holding, PassInv, CallsOK, CallOK, Looking
<1>4. PICK k \in Claims : k = r.seen BY DEF Call
<1>5. SeenBy(c, k) /\ ~HolderLive(k) /\ k # Free BY <1>1, <1>4 DEF PassInv, SeenOK, SeenBy
<1>6. k.by \in Calls \ {c} /\ HasTaken(k.by)
  <2>1. k.by \in Calls BY <1>5 DEF Claims
  <2>2. HasTaken(k.by) BY <1>5 DEF SeenBy
  <2> QED BY <1>3, <2>1, <2>2
<1>7. k.pass = NoPass => call[k.by].step = "dead" /\ \A d \in call[k.by].others : ~InFlight(d)
  BY <1>5 DEF HolderLive
<1>8. Bound(k.by) BY <1>5, <1>6, <1>7 DEF SeenBy, Bound, Holding
<1>9. SeenBy(c, k)' BY <1>1, <1>2, <1>5, <1>6, <1>8 DEF SeenBy, HasTaken, Bound
<1>10. \A q \in Sales : Steady(q) => Looker(c, q)'
  <2>1. SUFFICES ASSUME NEW q \in Sales, Steady(q) PROVE Looker(c, q)' OBVIOUS
  <2>2. Looker(c, q) BY <2>1 DEF PassInv, LookersOK
  <2>3. q # c BY <1>3, <2>1 DEF Steady, Live
  <2>4. q \in Calls /\ call'[q] = call[q] BY <1>0, <1>2, <2>3
  <2>5. Holds(q, c) /\ task[q]["release"] = NoRead /\ (InFlight(c) /\ call[c].alone /\ c \in Grants => q = call[c].pass)
    BY <1>1, <2>2 DEF Looker, Looking
  <2>6. Holds(q, c)' /\ task'[q]["release"] = NoRead BY <1>1, <2>4, <2>5 DEF Holds, Own
  <2>7. k.by # claim.by
    <3>1. SUFFICES ASSUME k.by = claim.by PROVE FALSE OBVIOUS
    <3>2. CASE k.pass # NoPass
      <4>1. k.pass = claim.pass BY <1>5, <3>1, <3>2 DEF SeenBy
      <4>2. claim.pass = q BY <2>5, <3>2, <4>1 DEF Holds, Own
      <4>3. ~Live(pass[q]) BY <1>5, <3>2, <4>1, <4>2 DEF HolderLive
      <4> QED BY <2>1, <4>3 DEF Steady
    <3>3. CASE k.pass = NoPass
      <4>1. CASE claim.pass = q
        <5>1. claim.pass # NoPass BY <2>1, <4>1 DEF PassAssumption
        <5>2. c \in call[k.by].others BY <1>1, <1>5, <1>7, <3>1, <3>3, <5>1 DEF SeenBy
        <5> QED BY <1>3, <1>7, <3>3, <5>2
      <4>2. CASE claim.pass # q
        <5>1. k.by = q /\ (call[q].step = "bind" \/ (call[q].step = "dead" /\ c \in call[q].others))
          BY <2>5, <3>1, <4>2 DEF Holds, Own
        <5> QED BY <1>3, <1>7, <3>3, <5>1
      <4> QED BY <4>1, <4>2
    <3> QED BY <3>2, <3>3
  <2> QED BY <1>1, <1>2, <1>3, <1>4, <2>5, <2>6, <2>7 DEF Looker, Looking
<1>11. SeenBy(c, r.seen)' BY <1>4, <1>9
<1> QED BY <1>1, <1>3, <1>10, <1>11, Onwards DEF Looking, Holding

LEMMA ConflictOK ==
  ASSUME PassAssumption, PassInv, Shape', NEW c \in Calls, Conflict(c)
  PROVE  PassInv'
<1>1. /\ InFlight(c) /\ ~HasTaken(c) /\ ~call[c].retook /\ call[c].step \in Looking \ Holding
      /\ (c \in Sales => pass[c].status = "none") /\ UNCHANGED <<pass, claim, task, revived>>
  BY DEF Conflict, InFlight, HasTaken, Holding, PassInv, CallsOK, CallOK, Looking, ghosts
<1>2. CASE Refused(c) BY <1>1, <1>2, Refusal
<1>3. CASE ~Refused(c)
  <2>1. c \notin Sales /\ Onward(c, "conflict") BY <1>3 DEF Conflict, Loses
  <2> QED BY <1>1, <2>1, OnwardKeeps
<1> QED BY <1>2, <1>3

LEMMA TakesInVain ==
  ASSUME PassAssumption, PassInv, Shape', NEW c \in Calls, TakeOver(c), claim.by # call[c].seen.by
  PROVE  PassInv'
<1>1. /\ InFlight(c) /\ ~HasTaken(c) /\ ~call[c].retook /\ call[c].step \in Looking \ Holding
      /\ (c \in Sales => pass[c].status = "none") /\ UNCHANGED <<pass, claim, task, revived>>
      /\ Onward(c, "claim") \/ Refused(c) \/ (c \notin Sales /\ Onward(c, "conflict"))
  BY DEF TakeOver, Loses, InFlight, HasTaken, Holding, PassInv, CallsOK, CallOK, Looking, ghosts
<1>2. CASE Onward(c, "claim") BY <1>1, <1>2, OnwardKeeps
<1>3. CASE Refused(c) BY <1>1, <1>3, Refusal
<1>4. CASE c \notin Sales /\ Onward(c, "conflict") BY <1>1, <1>4, OnwardKeeps
<1> QED BY <1>1, <1>2, <1>3, <1>4

LEMMA KillOK ==
  ASSUME PassAssumption, PassInv, Shape', NEW c \in Calls, Kill(c)
  PROVE  PassInv'
<1> DEFINE o == {d \in Calls \ {c} : InFlight(d)}
           r == [Idle EXCEPT !.step = "dead", !.others = o]
<1>0. PassTypeOK /\ Idle \in Call /\ Free.pass = NoPass BY Basics DEF PassInv, Shape
<1>1. Goes(c, r) /\ UNCHANGED <<pass, claim, task, revived>> /\ InFlight(c) BY DEF Kill, ghosts
<1>2. \A d \in Calls \ {c} : InFlight(d) => d \in o OBVIOUS
<1>3. o \subseteq Calls OBVIOUS
<1> HIDE DEF o
<1>4. r \in Call /\ r.step = "dead" /\ r.seen = Free /\ r.others = o /\ ~r.retook
  BY <1>0, <1>3, IdleOK DEF Call, Steps
<1> HIDE DEF r
<1>5. call'[c] = r /\ TheirsKept(c)
  <2>1. call'[c] = r BY <1>0, <1>1 DEF Goes, PassTypeOK
  <2> QED BY <1>0, <1>1, <1>4, <2>1, Theirs
<1>6. ~InFlight(c)' BY <1>4, <1>5 DEF InFlight
<1>7. CallOK(c)' BY <1>4, <1>5, <1>6 DEF CallOK, Looking, Holding
<1>8. SeenBy(c, call[c].seen)' BY <1>0, <1>4, <1>5 DEF SeenBy
<1>9. HasTaken(c)' /\ Bound(c)' BY <1>4, <1>5 DEF HasTaken, Bound, Holding
<1>10. Mild(c) BY <1>1, <1>2, <1>4, <1>5, <1>6, <1>7, <1>8, <1>9 DEF Mild, InFlight, Holding, PassInv, UnsoldOK
<1>11. \A q \in Sales : Looker(c, q)' BY <1>4, <1>5, <1>6 DEF Looker, Looking
<1> QED BY <1>1, <1>10, <1>11, CallOnly

LEMMA Beginning ==
  ASSUME PassAssumption, PassInv, Shape', NEW c \in Calls, NEW r \in Call, Begins(c, r),
         call[c].step = "idle", UNCHANGED <<pass, claim, task, revived>>,
         r.seen = Free, ~r.retook,
         \/ c \in Sales /\ r.step = "claim"
         \/ c \in Grants /\ r.pass \in Sales /\ pass[r.pass].status # "none" /\ r.step \in {"write", "check"},
         r.step = "check" => ~Live(pass[r.pass]),
         r.step = "claim" => \A q \in Sales : ~Live(pass[q])
  PROVE  PassInv'
<1>0. PassTypeOK /\ Free.pass = NoPass /\ Sales \cap Grants = {} BY Basics DEF PassInv, Shape, PassAssumption
<1>1. /\ TheirsKept(c)
      /\ call'[c].step = r.step /\ call'[c].pass = r.pass /\ call'[c].seen = Free /\ ~call'[c].retook
      /\ call'[c].alone => \A e \in Calls : InFlight(e) => e = c
      /\ \A d \in Calls \ {c} : InFlight(d) => ~call'[d].alone
  BY <1>0, Theirs
<1>2. CallOK(c)' BY <1>0, <1>1 DEF CallOK, Looking, Holding, PassInv, CallsOK
<1>3. SeenBy(c, call[c].seen)' BY <1>0, <1>1 DEF SeenBy
<1>4. ~HasTaken(c) /\ ~Bound(c) BY DEF HasTaken, Bound, Holding
<1>5. Mild(c) BY <1>1, <1>2, <1>3, <1>4 DEF Mild, Holding, PassInv, UnsoldOK
<1>6. \A q \in Sales : Steady(q) => Looker(c, q)'
  <2>1. SUFFICES ASSUME NEW q \in Sales, Steady(q) PROVE Looker(c, q)' OBVIOUS
  <2> QED BY <1>0, <1>1, <2>1 DEF Looker, Looking, Steady
<1> QED BY <1>5, <1>6, CallOnly

LEMMA StartSaleOK ==
  ASSUME PassAssumption, PassInv, Shape', NEW c \in Sales, StartSale(c)
  PROVE  PassInv'
<1>1. PICK r \in Call : r = [Idle EXCEPT !.step = "claim"] BY IdleOK
<1>2. r.step = "claim" /\ r.seen = Free /\ ~r.retook /\ Begins(c, r) /\ c \in Calls
  BY <1>1, IdleOK, Basics DEF StartSale
<1> QED BY <1>2, Beginning DEF StartSale, ghosts

LEMMA ReadFields ==
  ASSUME PassAssumption, PassTypeOK, NEW r \in Call, NEW p \in Sales
  PROVE  /\ AsRead(r, p) \in Call /\ AsRead(r, p).pass = p
         /\ AsRead(r, p).seen = r.seen /\ AsRead(r, p).retook = r.retook /\ AsRead(r, p).alone = r.alone
         /\ AsRead(r, p).step = IF Live(pass[p]) THEN "write" ELSE "check"
<1>1. AsRead(r, p) \in Call BY AsReadType
<1> QED BY <1>1 DEF AsRead, Call

LEMMA StartGrantOK ==
  ASSUME PassAssumption, PassInv, Shape', NEW c \in Grants, StartGrant(c)
  PROVE  PassInv'
<1>1. PICK p \in Sales : Extendable(pass[p]) /\ Begins(c, AsRead(Idle, p)) BY DEF StartGrant
<1>0. PassTypeOK /\ Idle \in Call /\ c \in Calls BY Basics DEF PassInv, Shape
<1>2. PICK r \in Call : r = AsRead(Idle, p) BY <1>0, ReadFields
<1>3. /\ r.pass = p /\ r.seen = Free /\ ~r.retook /\ r.step = IF Live(pass[p]) THEN "write" ELSE "check"
      /\ pass[p].status # "none" /\ Begins(c, r)
  BY <1>0, <1>1, <1>2, ReadFields, IdleOK DEF Extendable
<1> QED BY <1>0, <1>3, Beginning DEF StartGrant, ghosts

LEMMA CheckOtherOK ==
  ASSUME PassAssumption, PassInv, Shape', NEW c \in Grants, CheckOther(c)
  PROVE  PassInv'
<1>1. /\ c \in Calls /\ c \notin Sales /\ InFlight(c) /\ ~HasTaken(c) /\ ~call[c].retook
      /\ call[c].step = "check" /\ call[c].step \notin Holding
      /\ UNCHANGED <<pass, claim, task, revived>>
  BY Basics DEF CheckOther, InFlight, HasTaken, Holding, PassInv, CallsOK, CallOK, ghosts, PassAssumption
<1>2. CASE Refused(c) BY <1>1, <1>2, Refusal
<1>3. CASE ~Refused(c)
  <2>1. Onward(c, "claim") /\ \A q \in Sales \ {call[c].pass} : ~Live(pass[q]) BY <1>3 DEF CheckOther
  <2>2. \A q \in Sales : ~Steady(q) BY <1>1, <2>1 DEF Steady, PassInv, LookersOK, Looker
  <2> QED BY <1>1, <2>1, <2>2, OnwardKeeps
<1> QED BY <1>2, <1>3

LEMMA ConflictSeenOK ==
  ASSUME PassAssumption, PassInv, Shape', NEW c \in Grants, ConflictSeen(c)
  PROVE  PassInv'
<1>1. /\ c \in Calls /\ c \notin Sales /\ InFlight(c) /\ ~HasTaken(c) /\ ~call[c].retook
      /\ call[c].step \in Looking /\ call[c].step \notin Holding
      /\ UNCHANGED <<pass, claim, task, revived>>
  BY Basics DEF ConflictSeen, InFlight, HasTaken, Holding, Looking, PassInv, CallsOK, CallOK, ghosts, PassAssumption
<1>2. Onward(c, "write") \/ Refused(c) \/ Onward(c, "claim") BY DEF ConflictSeen
<1>3. CASE Refused(c) BY <1>1, <1>3, Refusal
<1>4. CASE Onward(c, "write") BY <1>1, <1>4, OnwardKeeps
<1>5. CASE Onward(c, "claim") BY <1>1, <1>5, OnwardKeeps
<1> QED BY <1>2, <1>3, <1>4, <1>5

LEMMA ReadAgainOK ==
  ASSUME PassAssumption, PassInv, Shape', NEW c \in Grants, ReadAgain(c)
  PROVE  PassInv'
<1>1. /\ c \in Calls /\ c \notin Sales /\ InFlight(c) /\ call[c].step = "read" /\ call[c].step \notin Holding
      /\ UNCHANGED <<pass, claim, task, revived>>
  BY Basics DEF ReadAgain, InFlight, Holding, ghosts, PassAssumption
<1> DEFINE p == call[c].pass
<1>2. p \in Sales /\ call[c] \in Call /\ PassTypeOK BY <1>1 DEF PassInv, Shape, GrantsOK, PassTypeOK
<1>3. CASE Done(c) BY <1>1, <1>3, Refusal
<1>4. CASE ~Done(c)
  <2>1. Goes(c, AsRead(call[c], p)) /\ (Live(pass[p]) \/ ~call[c].retook) BY <1>4 DEF ReadAgain
  <2>2. PICK r \in Call : r = AsRead(call[c], p) BY <1>2, ReadFields
  <2>3. /\ r.pass = p /\ r.seen = call[c].seen /\ r.retook = call[c].retook /\ r.alone = call[c].alone
        /\ r.step = IF Live(pass[p]) THEN "write" ELSE "check"
    BY <1>2, <2>2, ReadFields
  <2>4. HasTaken(c) => r.step = "write" BY <1>1, <2>1, <2>3 DEF HasTaken, Holding
  <2>5. SeenBy(c, r.seen)' BY <1>1, <2>1, <2>2, <2>3, <2>4, SeenKept
  <2>6. call'[c] = r BY <1>1, <2>1, <2>2 DEF Goes, PassTypeOK, PassInv, Shape
  <2>7. \A q \in Sales : Steady(q) => Looker(c, q)'
    <3>1. SUFFICES ASSUME NEW q \in Sales, Steady(q) PROVE Looker(c, q)' OBVIOUS
    <3>2. Looker(c, q) BY <1>1, <3>1 DEF PassInv, LookersOK
    <3>3. r.step = "check" => q # p BY <2>3, <3>1 DEF Steady
    <3>4. InFlight(c) /\ call[c].alone /\ call[c].retook => q = p BY <3>2 DEF Looker
    <3> QED BY <1>1, <2>3, <2>6, <3>3, <3>4 DEF Looker, Looking
  <2> QED BY <1>1, <2>1, <2>2, <2>3, <2>4, <2>5, <2>7, Onwards DEF Looking, Holding
<1> QED BY <1>3, <1>4

(* The claim is taken, and no pass stands in the way. *)
LEMMA TakenOK ==
  ASSUME PassAssumption, PassInv, Shape', NEW c \in Calls, Taken(c), claim' = Own(c),
         UNCHANGED <<pass, task, revived>>, call[c].step \in Looking,
         \A q \in Sales : ~Steady(q), \A d \in Calls : call[d].step \notin Holding
  PROVE  PassInv'
<1>0. /\ call[c] \in Call /\ Free.pass = NoPass /\ Own(c) # Free /\ Own(c).by = c /\ Own(c).pass = NoPass
      /\ Sales \cap Grants = {} /\ Calls = Sales \cup Grants
  BY Basics DEF PassInv, Shape, PassTypeOK, PassAssumption, Calls
<1> DEFINE r == [call[c] EXCEPT !.step = IF c \in Sales THEN "insert" ELSE "bind", !.retook = TRUE, !.seen = Free]
<1>1. /\ r.step = (IF c \in Sales THEN "insert" ELSE "bind") /\ r.retook /\ r.seen = Free
      /\ r.pass = call[c].pass /\ r.alone = call[c].alone
  BY <1>0 DEF Call
<1>2. call'[c] = r /\ \A d \in Calls \ {c} : call'[d] = call[d]
  BY DEF Taken, Goes, PassInv, Shape, PassTypeOK
<1> HIDE DEF r
<1>3. /\ InFlight(c) /\ InFlight(c)' /\ ~HasTaken(c) /\ HasTaken(c)' /\ (c \in Sales => pass[c].status = "none")
  BY <1>1, <1>2 DEF Looking, InFlight, HasTaken, Holding, PassInv, CallsOK, CallOK
<1>4. \A d \in Calls : /\ InFlight(d)' <=> InFlight(d)
                       /\ HasTaken(d) => HasTaken(d)'
                       /\ Bound(d) => Bound(d)'
  BY <1>2, <1>3 DEF InFlight, HasTaken, Bound
<1>5. CallsOK'
  <2>1. \A d \in Grants : InFlight(d) => call[d].pass \in Sales BY DEF PassInv, Shape, GrantsOK
  <2>2. ASSUME NEW d \in Calls \ {c} PROVE CallOK(d)' BY <1>2, <1>4, <2>2 DEF PassInv, CallsOK, CallOK
  <2>3. CallOK(c)' BY <1>0, <1>1, <1>2, <1>3 DEF PassInv, CallsOK, CallOK, Looking, Holding
  <2> QED BY <2>2, <2>3 DEF CallsOK
<1>6. UnsoldOK' BY DEF PassInv, UnsoldOK
<1>7. Alone' BY <1>1, <1>2, <1>4 DEF PassInv, Alone
<1>8. ClaimOK' BY <1>0, <1>2, <1>3 DEF ClaimOK, Own
<1>9. SeenOK'
  <2>1. SUFFICES ASSUME NEW d \in Calls, NEW k \in Claims, k = call'[d].seen PROVE SeenBy(d, k)'
    <3>1. \A d \in Calls : call'[d].seen \in Claims BY DEF Shape, PassTypeOK, Call
    <3> QED BY <3>1 DEF SeenOK
  <2>2. CASE d = c BY <1>0, <1>1, <1>2, <2>1, <2>2 DEF SeenBy
  <2>3. CASE d # c
    <3>1. SeenBy(d, k) /\ call'[d] = call[d] BY <1>2, <2>1, <2>3 DEF PassInv, SeenOK
    <3>2. k # Free => k.by \in Calls \ {c} BY <1>3, <3>1 DEF Claims, SeenBy
    <3>3. k.pass # NoPass => k # Free BY <1>0
    <3>4. claim'.by = c /\ claim'.pass = NoPass BY <1>0
    <3> QED BY <1>4, <3>1, <3>2, <3>3, <3>4 DEF SeenBy
  <2> QED BY <2>2, <2>3
<1>10. \A q \in Sales : ~Steady(q)' BY DEF Steady
<1>11. LookersOK' /\ OneSteady' BY <1>10 DEF LookersOK, OneSteady
<1> QED BY <1>5, <1>6, <1>7, <1>8, <1>9, <1>11 DEF PassInv

LEMMA TryClaimOK ==
  ASSUME PassAssumption, PassInv, Shape', NEW c \in Calls, TryClaim(c)
  PROVE  PassInv'
<1>1. CASE claim # Free BY <1>1, TriesInVain
<1>2. CASE claim = Free
  <2>0. Free.pass = NoPass /\ NoPass \notin Sales /\ \A d \in Calls : Own(d) # Free BY Basics DEF PassAssumption
  <2>1. Taken(c) /\ claim' = Own(c) /\ UNCHANGED <<pass, task, revived>> /\ call[c].step \in Looking
    BY <1>2 DEF TryClaim, ghosts, Looking
  <2>2. \A q \in Sales : ~Steady(q)
    <3>1. SUFFICES ASSUME NEW q \in Sales, Steady(q) PROVE FALSE OBVIOUS
    <3>2. Holds(q, c) BY <2>1, <3>1 DEF PassInv, LookersOK, Looker
    <3>3. q \in Calls BY Basics
    <3> QED BY <1>2, <2>0, <3>1, <3>2, <3>3 DEF Holds
  <2>3. \A d \in Calls : call[d].step \notin Holding BY <1>2, <2>0 DEF PassInv, ClaimOK
  <2> QED BY <2>1, <2>2, <2>3, TakenOK
<1> QED BY <1>1, <1>2

LEMMA TakeOverOK ==
  ASSUME PassAssumption, PassInv, Shape', NEW c \in Calls, TakeOver(c)
  PROVE  PassInv'
<1>1. CASE claim.by # call[c].seen.by BY <1>1, TakesInVain
<1>2. CASE claim.by = call[c].seen.by
  <2>1. Taken(c) /\ claim' = Own(c) /\ UNCHANGED <<pass, task, revived>> /\ call[c].step = "take"
    BY <1>2 DEF TakeOver, ghosts
  <2>2. \A q \in Sales : ~Steady(q) BY <1>2, <2>1 DEF PassInv, LookersOK, Looker, Looking
  <2>3. \A d \in Calls : call[d].step \notin Holding
    <3>1. Bound(claim.by) BY <1>2, <2>1 DEF PassInv, SeenOK, SeenBy
    <3>2. \A d \in Calls : Own(d).by = d BY Basics
    <3> QED BY <3>1, <3>2 DEF PassInv, ClaimOK, Bound
  <2> QED BY <2>1, <2>2, <2>3, TakenOK DEF Looking
<1> QED BY <1>1, <1>2

LEMMA BindOK ==
  ASSUME PassAssumption, PassInv, Shape', NEW c \in Calls, Bind(c)
  PROVE  PassInv'
<1>0. /\ call[c] \in Call /\ PassTypeOK /\ Free.pass = NoPass /\ Own(c) # Free /\ Own(c).by = c /\ Own(c).pass = NoPass
      /\ Sales \cap Grants = {} /\ Calls = Sales \cup Grants /\ NoPass \notin Sales
      /\ \A d \in Calls : Own(d).by = d
  BY Basics DEF PassInv, Shape, PassTypeOK, PassAssumption, Calls
<1>1. call[c].step = "bind" /\ claim = Own(c) /\ InFlight(c) /\ call[c].retook /\ HasTaken(c)
      /\ UNCHANGED <<pass, task, revived>>
  BY DEF Bind, Holding, InFlight, HasTaken, PassInv, ClaimOK, CallsOK, CallOK, ghosts
<1> DEFINE s == IF c \in Sales THEN c ELSE call[c].pass
<1>2. s \in Sales BY <1>0, <1>1 DEF PassInv, Shape, GrantsOK
<1>3. claim' = [by |-> c, pass |-> s] BY <1>0, <1>1 DEF Bind, Own
<1>4. claim'.by = c /\ claim'.pass = s /\ s # NoPass BY <1>0, <1>2, <1>3
<1>5. PICK r \in Call : r = IF c \in Sales THEN [Idle EXCEPT !.step = "done"] ELSE [call[c] EXCEPT !.step = "write"]
  <2>1. [call[c] EXCEPT !.step = "write"] \in Call BY <1>0, StepType DEF Steps
  <2> QED BY <2>1, IdleOK
<1>6. /\ c \in Sales => r.step = "done" /\ ~r.retook /\ r.seen = Free
      /\ c \notin Sales => /\ r.step = "write" /\ r.retook /\ r.seen = call[c].seen
                           /\ r.pass = call[c].pass /\ r.alone = call[c].alone
  BY <1>0, <1>1, <1>5, IdleOK DEF Call
<1>7. Goes(c, r) \/ (Over(c, r) /\ r.step \in {"idle", "done"})
  BY <1>5, <1>6 DEF Bind, Done, Onward
<1>8. TheirsKept(c) /\ call'[c].step = r.step /\ call'[c].retook = r.retook /\ call'[c].seen = r.seen
      /\ call'[c].pass = r.pass /\ call'[c] = r
  <2>1. call'[c] = r BY <1>0, <1>7 DEF Goes, Over, PassTypeOK
  <2> QED BY <1>0, <1>7, <2>1, Theirs
<1>9. /\ HasTaken(c)' /\ Bound(c)'
      /\ \A d \in Calls \ {c} : /\ InFlight(d)' <=> InFlight(d)
                                /\ HasTaken(d)' <=> HasTaken(d)
                                /\ Bound(d)' <=> Bound(d)
  BY <1>6, <1>8 DEF HasTaken, Bound, InFlight, Holding, TheirsKept
<1>10. \A d \in Calls \ {c} : call[d].step \notin Holding /\ call'[d].step \notin Holding
  BY <1>0, <1>1, <1>8 DEF PassInv, ClaimOK, TheirsKept
<1>11. CallsOK'
  <2>1. \A d \in Grants : InFlight(d) => call[d].pass \in Sales BY DEF PassInv, Shape, GrantsOK
  <2>2. ASSUME NEW d \in Calls \ {c} PROVE CallOK(d)'
    BY <1>1, <1>8, <1>9, <2>1, <2>2 DEF PassInv, CallsOK, CallOK, TheirsKept
  <2>3. CallOK(c)' BY <1>0, <1>1, <1>6, <1>8 DEF PassInv, CallsOK, CallOK, Looking, Holding
  <2> QED BY <2>2, <2>3 DEF CallsOK
<1>12. UnsoldOK' BY <1>1 DEF PassInv, UnsoldOK
<1>13. Alone'
  <2>1. InFlight(c)' /\ call'[c].alone => call[c].alone BY <1>6, <1>8 DEF InFlight
  <2> QED BY <1>1, <1>8, <1>9, <2>1 DEF PassInv, Alone, TheirsKept
<1>14. ClaimOK'
  <2>1. call'[c].step \notin Holding BY <1>6, <1>8 DEF Holding
  <2> QED BY <1>4, <1>9, <1>10, <2>1 DEF ClaimOK
<1>15. SeenOK'
  <2>1. SUFFICES ASSUME NEW d \in Calls, NEW k \in Claims, k = call'[d].seen PROVE SeenBy(d, k)'
    <3>1. \A d \in Calls : call'[d].seen \in Claims BY DEF Shape, PassTypeOK, Call
    <3> QED BY <3>1 DEF SeenOK
  <2>2. k.pass # NoPass => k # Free BY <1>0
  <2>3. k # Free => k.by \in Calls BY DEF Claims
  <2>4. k = Free \/ k = call[d].seen BY <1>6, <1>8, <2>1 DEF TheirsKept
  <2>5. k # Free => SeenBy(d, k) BY <2>4 DEF PassInv, SeenOK
  <2>6. k # Free => (HasTaken(k.by) => HasTaken(k.by)') /\ (Bound(k.by) => Bound(k.by)') BY <1>9, <2>3
  <2>7. k # Free /\ k.by = c => k.pass = NoPass BY <1>0, <1>1, <2>5 DEF SeenBy
  <2>8. call'[c].step # "dead" BY <1>6, <1>8
  <2>9. call'[d].step \in {"judge", "take"} => k # Free
    BY <1>6, <1>8, <2>1 DEF TheirsKept, PassInv, SeenOK, SeenBy
  <2>10. call'[d].step = "take" => Bound(k.by)'
    BY <1>6, <1>8, <2>5, <2>6, <2>9 DEF TheirsKept, SeenBy
  <2> QED BY <1>4, <2>2, <2>5, <2>6, <2>7, <2>8, <2>9, <2>10 DEF SeenBy
<1>16. \A q \in Sales : Steady(q)' <=> Steady(q) BY <1>1 DEF Steady
<1>17. LookersOK'
  <2>1. SUFFICES ASSUME NEW d \in Calls, NEW p \in Sales, Steady(p) PROVE Looker(d, p)' BY <1>16 DEF LookersOK
  <2>2. Looker(d, p) BY <2>1 DEF PassInv, LookersOK
  <2>3. CASE d = c
    <3>1. InFlight(c) /\ call[c].alone /\ c \in Grants => p = call[c].pass BY <1>1, <2>2, <2>3 DEF Looker
    <3> QED BY <1>0, <1>1, <1>6, <1>8, <2>3, <3>1 DEF Looker, Looking, InFlight
  <2>4. CASE d # c
    <3>1. /\ call'[d].step = call[d].step /\ call'[d].pass = call[d].pass /\ call'[d].seen = call[d].seen
          /\ call'[d].retook = call[d].retook /\ (call'[d].alone => call[d].alone) /\ task' = task
      BY <1>1, <1>8, <2>4 DEF TheirsKept
    <3>2. call[d].step \in Looking => Holds(p, d)'
      <4>1. SUFFICES ASSUME call[d].step \in Looking PROVE Holds(p, d)' OBVIOUS
      <4>2. Holds(p, d) BY <2>2, <4>1 DEF Looker
      <4>3. p = c
        <5>1. p \in Calls BY <1>0
        <5> QED BY <1>0, <1>1, <4>2, <5>1 DEF Holds
      <4> QED BY <1>4, <4>3 DEF Holds
    <3>3. claim'.by = claim.by BY <1>0, <1>1, <1>4
    <3> QED BY <1>9, <2>2, <2>4, <3>1, <3>2, <3>3 DEF Looker
  <2> QED BY <2>3, <2>4
<1>18. OneSteady' BY <1>16 DEF PassInv, OneSteady
<1> QED BY <1>11, <1>12, <1>13, <1>14, <1>15, <1>17, <1>18 DEF PassInv

(* A new pass on a car nobody else is selling to. *)
LEMMA InsertOK ==
  ASSUME PassAssumption, PassInv, Shape', NEW c \in Sales, InsertPass(c)
  PROVE  PassInv'
<1>0. /\ c \in Calls /\ call[c] \in Call /\ PassTypeOK /\ Sales \cap Grants = {} /\ Grants \subseteq Calls
      /\ Own(c).pass = NoPass /\ Own(c).by = c /\ \A d \in Calls : Own(d).by = d
      /\ pass \in [Sales -> Pass] /\ c \notin Grants
  BY Basics DEF PassInv, Shape, PassTypeOK, PassAssumption
<1>1. /\ call[c].step = "insert" /\ claim = Own(c) /\ InFlight(c) /\ call[c].retook
      /\ UNCHANGED <<claim, task, revived>> /\ pass[c].status = "none" /\ ~Bound(c) /\ HasTaken(c)
  BY <1>0 DEF InsertPass, Holding, InFlight, HasTaken, Bound, PassInv, ClaimOK, CallsOK, CallOK, ghosts
<1>2. pass'[c].status = "active" /\ \A q \in Sales \ {c} : pass'[q] = pass[q]
  BY <1>0 DEF InsertPass, NotSold
<1>b. [call[c] EXCEPT !.step = "bind"] \in Call BY <1>0, StepType DEF Steps
<1>c. PICK r \in Call : r = [call[c] EXCEPT !.step = "bind"] BY <1>b
<1>3. /\ r.step = "bind" /\ r.retook = call[c].retook /\ r.seen = call[c].seen
      /\ r.alone = call[c].alone /\ r.pass = call[c].pass
  BY <1>0, <1>c DEF Call
<1>4. call'[c] = r /\ \A d \in Calls \ {c} : call'[d] = call[d]
  BY <1>0, <1>c DEF InsertPass, Onward, Goes, PassTypeOK
<1>5. \A d \in Calls : /\ InFlight(d)' <=> InFlight(d)
                       /\ HasTaken(d)' <=> HasTaken(d)
                       /\ Bound(d)' <=> Bound(d)
  BY <1>1, <1>3, <1>4 DEF InFlight, HasTaken, Bound, Holding
<1>6. \A d \in Calls \ {c} : call[d].step \notin Holding BY <1>0, <1>1 DEF PassInv, ClaimOK
<1>7. \A q \in Sales : ~Steady(q) BY <1>0, <1>1 DEF PassInv, LookersOK, Looker
<1>8. CallsOK'
  <2>1. \A d \in Grants : InFlight(d) => call[d].pass \in Sales BY DEF PassInv, Shape, GrantsOK
  <2>2. \A q \in Sales : pass[q].status # "none" => pass'[q].status # "none" BY <1>2
  <2>3. ASSUME NEW d \in Calls \ {c} PROVE CallOK(d)'
    BY <1>2, <1>4, <1>5, <2>1, <2>2, <2>3 DEF PassInv, CallsOK, CallOK
  <2>4. CallOK(c)' BY <1>0, <1>1, <1>3, <1>4 DEF CallOK, Looking, Holding
  <2> QED BY <2>3, <2>4 DEF CallsOK
<1>9. UnsoldOK' BY <1>1, <1>2 DEF PassInv, UnsoldOK
<1>10. Alone' BY <1>3, <1>4, <1>5 DEF PassInv, Alone
<1>11. ClaimOK'
  <2>1. claim'.by = c /\ claim'.pass = NoPass BY <1>0, <1>1
  <2>2. HasTaken(c)' BY <1>0, <1>1, <1>5
  <2>3. \A d \in Calls \ {c} : call'[d].step \notin Holding BY <1>4, <1>6
  <2> QED BY <1>1, <2>1, <2>2, <2>3 DEF ClaimOK, Own
<1>12. SeenOK'
  <2>1. SUFFICES ASSUME NEW d \in Calls, NEW k \in Claims, k = call'[d].seen PROVE SeenBy(d, k)'
    <3>1. \A d \in Calls : call'[d].seen \in Claims BY DEF Shape, PassTypeOK, Call
    <3> QED BY <3>1 DEF SeenOK
  <2>2. Free.pass = NoPass BY Basics
  <2>3. SeenBy(d, k) BY <1>3, <1>4, <2>1 DEF PassInv, SeenOK
  <2>4. (k # Free => k.by \in Calls) /\ (k.pass # NoPass => k # Free) BY <2>2 DEF Claims
  <2>5. call'[d].step \in {"judge", "take"} => call'[d].step = call[d].step BY <1>3, <1>4
  <2>6. claim'.pass = NoPass BY <1>0, <1>1
  <2>7. k # Free => (HasTaken(k.by) => HasTaken(k.by)') /\ (Bound(k.by) => Bound(k.by)') BY <1>5, <2>4
  <2> QED BY <1>1, <2>3, <2>4, <2>5, <2>6, <2>7 DEF SeenBy
<1>13. \A q \in Sales : Steady(q)' => q = c
  <2>1. ASSUME NEW q \in Sales \ {c} PROVE ~Steady(q)' BY <1>1, <1>2, <1>7, <2>1 DEF Steady
  <2> QED BY <2>1
<1>14. LookersOK'
  <2>1. SUFFICES ASSUME NEW d \in Calls PROVE Looker(d, c)' BY <1>13 DEF LookersOK
  <2>2. CASE d = c BY <1>0, <1>3, <1>4, <2>2 DEF Looker, Looking
  <2>3. CASE d # c
    <3>1. call'[d] = call[d] /\ call[d].step # "insert" BY <1>4, <1>6, <2>3 DEF Holding
    <3>2. call[d].step = "check" => c # call[d].pass
      BY <1>1, <2>1 DEF PassInv, CallsOK, CallOK, InFlight, Calls
    <3>3. call[d].step \in Looking => Holds(c, d)' BY <1>1, <1>3, <1>4 DEF Holds, Own
    <3>4. task'[c]["release"] = NoRead BY <1>1 DEF PassInv, UnsoldOK, Kinds
    <3>5. call[d].step = "take" => call[d].seen.by # c BY <1>1, <2>1 DEF PassInv, SeenOK, SeenBy
    <3>6. ~(InFlight(d) /\ call[d].alone /\ d \in Grants) BY <1>0, <1>1, <2>3 DEF PassInv, Alone
    <3> QED BY <1>0, <1>1, <1>5, <3>1, <3>2, <3>3, <3>4, <3>5, <3>6 DEF Looker
  <2> QED BY <2>2, <2>3
<1>15. OneSteady' BY <1>13 DEF OneSteady
<1> QED BY <1>8, <1>9, <1>10, <1>11, <1>12, <1>14, <1>15 DEF PassInv

LEMMA InsertFailsOK ==
  ASSUME PassAssumption, PassInv, Shape', NEW c \in Sales, InsertFails(c)
  PROVE  PassInv'
<1>0. /\ c \in Calls /\ call[c] \in Call /\ PassTypeOK /\ Sales \cap Grants = {} /\ Grants \subseteq Calls
      /\ Own(c).by = c /\ (\A d \in Calls : Own(d).by = d) /\ Free.by = NoCall /\ Free.pass = NoPass
      /\ NoCall \notin Calls
  BY Basics DEF PassInv, Shape, PassTypeOK, PassAssumption
<1>1. /\ call[c].step = "insert" /\ claim = Own(c) /\ UNCHANGED <<pass, task, revived>> /\ claim' = Free
  BY <1>0 DEF InsertFails, Holding, PassInv, ClaimOK, ghosts
<1> DEFINE r == [Idle EXCEPT !.step = "done"]
<1>2. r \in Call /\ r.step = "done" /\ r.seen = Free /\ ~r.retook BY IdleOK
<1>3. Over(c, r) BY DEF InsertFails, Done
<1> HIDE DEF r
<1>4. TheirsKept(c) /\ call'[c].step = "done" /\ call'[c].retook = r.retook /\ call'[c].seen = Free
  BY <1>0, <1>2, <1>3, Theirs
<1>5. /\ HasTaken(c)' /\ Bound(c)' /\ ~InFlight(c)'
      /\ \A d \in Calls \ {c} : /\ InFlight(d)' <=> InFlight(d)
                                /\ HasTaken(d)' <=> HasTaken(d)
                                /\ Bound(d)' <=> Bound(d)
  BY <1>4 DEF HasTaken, Bound, InFlight, Holding, TheirsKept
<1>6. \A d \in Calls \ {c} : call'[d].step \notin Holding BY <1>0, <1>1, <1>4 DEF PassInv, ClaimOK, TheirsKept
<1>7. \A q \in Sales : ~Steady(q)' /\ ~Steady(q) BY <1>0, <1>1 DEF PassInv, LookersOK, Looker, Steady
<1>8. CallsOK'
  <2>1. \A d \in Grants : InFlight(d) => call[d].pass \in Sales BY DEF PassInv, Shape, GrantsOK
  <2>2. ASSUME NEW d \in Calls \ {c} PROVE CallOK(d)'
    BY <1>1, <1>4, <1>5, <2>1, <2>2 DEF PassInv, CallsOK, CallOK, TheirsKept
  <2>3. CallOK(c)' BY <1>0, <1>2, <1>4, <1>5 DEF CallOK, Looking, Holding
  <2> QED BY <2>2, <2>3 DEF CallsOK
<1>9. UnsoldOK' BY <1>1 DEF PassInv, UnsoldOK
<1>10. Alone' BY <1>4, <1>5 DEF PassInv, Alone, TheirsKept
<1>11. ClaimOK' BY <1>0, <1>1, <1>4, <1>6 DEF ClaimOK, Holding
<1>12. SeenOK'
  <2>1. SUFFICES ASSUME NEW d \in Calls, NEW k \in Claims, k = call'[d].seen PROVE SeenBy(d, k)'
    <3>1. \A d \in Calls : call'[d].seen \in Claims BY DEF Shape, PassTypeOK, Call
    <3> QED BY <3>1 DEF SeenOK
  <2>2. (k # Free => k.by \in Calls) /\ (k.pass # NoPass => k # Free) BY <1>0 DEF Claims
  <2>3. CASE d = c BY <1>0, <1>1, <1>4, <2>1, <2>3 DEF SeenBy
  <2>4. CASE d # c
    <3>1. SeenBy(d, k) /\ call'[d].step = call[d].step BY <1>4, <2>1, <2>4 DEF PassInv, SeenOK, TheirsKept
    <3>2. k # Free => (HasTaken(k.by) => HasTaken(k.by)') /\ (Bound(k.by) => Bound(k.by)') BY <1>5, <2>2
    <3> QED BY <1>0, <1>1, <2>2, <3>1, <3>2 DEF SeenBy
  <2> QED BY <2>3, <2>4
<1>13. LookersOK' /\ OneSteady' BY <1>7 DEF LookersOK, OneSteady
<1> QED BY <1>8, <1>9, <1>10, <1>11, <1>12, <1>13 DEF PassInv

LEMMA ExtendOK ==
  ASSUME PassAssumption, PassInv, Shape', NEW c \in Grants, Extend(c)
  PROVE  PassInv'
<1>0. /\ c \in Calls /\ c \notin Sales /\ call[c] \in Call /\ PassTypeOK /\ pass \in [Sales -> Pass]
      /\ Free.pass = NoPass
  BY Basics DEF PassInv, Shape, PassTypeOK, PassAssumption
<1>1. call[c].step = "write" /\ InFlight(c) /\ call[c].step \notin Holding /\ UNCHANGED <<claim, task>>
  BY DEF Extend, InFlight, Holding
<1>2. PICK p \in Sales : p = call[c].pass BY <1>1 DEF PassInv, Shape, GrantsOK
<1>3. CASE ~MayExtend(pass[p], call[c].end)
  <2>1. Onward(c, "read") /\ UNCHANGED <<pass, revived>> BY <1>2, <1>3 DEF Extend
  <2> QED BY <1>0, <1>1, <2>1, OnwardKeeps
<1>4. CASE MayExtend(pass[p], call[c].end)
  <2>1. pass' = [pass EXCEPT ![p] = Extended(pass[p])] /\ revived' = RevivedBy(c) /\ Done(c)
    BY <1>2, <1>4 DEF Extend
  <2>2. pass'[p].status = "active" /\ pass[p].status # "none" /\ \A q \in Sales \ {p} : pass'[q] = pass[q]
    BY <1>0, <1>2, <1>4, <2>1 DEF Extended, Pass, MayExtend
  <2> DEFINE r == [Idle EXCEPT !.step = "done"]
  <2>3. r \in Call /\ r.step = "done" /\ r.seen = Free /\ ~r.retook BY IdleOK
  <2>4. Over(c, r) BY <2>1 DEF Done
  <2> HIDE DEF r
  <2>5. TheirsKept(c) /\ call'[c].step = "done" /\ ~call'[c].retook /\ call'[c].seen = Free
    BY <1>0, <2>3, <2>4, Theirs
  <2>6. ~InFlight(c)' /\ HasTaken(c)' /\ Bound(c)' BY <2>5 DEF InFlight, HasTaken, Bound, Holding
  <2>7. CallOK(c)' BY <1>0, <2>5, <2>6 DEF CallOK, Looking, Holding
  <2>8. SeenBy(c, call[c].seen)' BY <1>0, <2>5 DEF SeenBy
  <2>9. \A q \in Sales : /\ pass'[q].status = "none" <=> pass[q].status = "none"
                         /\ pass'[q].status = "none" => q \notin revived'
    BY <1>2, <2>1, <2>2 DEF RevivedBy, PassInv, UnsoldOK
  <2>10. Mild(c) BY <1>1, <2>5, <2>6, <2>7, <2>8, <2>9 DEF Mild, Holding
  <2>11. \A q \in Sales : Looker(c, q)' BY <2>5, <2>6 DEF Looker, Looking
  <2>12. CASE call[c].alone /\ call[c].retook
    <3>1. revived' = revived \ {p} BY <1>2, <2>1, <2>12 DEF RevivedBy
    <3>2. \A q \in Sales : Steady(q) => q = p
      BY <1>0, <1>1, <1>2, <2>12 DEF PassInv, LookersOK, Looker
    <3>3. \A q \in Sales : Steady(q)' => q = p
      <4>1. ASSUME NEW q \in Sales \ {p} PROVE ~Steady(q)' BY <2>2, <3>1, <3>2, <4>1 DEF Steady
      <4> QED BY <4>1
    <3>4. \A d \in Calls \ {c} : ~InFlight(d) BY <1>0, <1>1, <2>12 DEF PassInv, Alone
    <3>5. LookersOK'
      <4>1. ASSUME NEW d \in Calls \ {c}, NEW q \in Sales PROVE Looker(d, q)'
        <5>1. call'[d].step \in {"idle", "done", "dead"} BY <2>5, <3>4 DEF TheirsKept, InFlight
        <5> QED BY <5>1 DEF Looker, Looking, InFlight
      <4> QED BY <2>11, <4>1 DEF LookersOK
    <3>6. OneSteady' BY <3>3 DEF OneSteady
    <3> QED BY <1>0, <2>10, <3>5, <3>6, MildCalls DEF PassInv
  <2>13. CASE ~(call[c].alone /\ call[c].retook)
    <3>1. \A q \in Sales : Steady(q)' => Steady(q)
      <4>1. ASSUME NEW q \in Sales, q # p PROVE Steady(q)' => Steady(q)
        BY <1>2, <2>1, <2>2, <2>13, <4>1 DEF Steady, RevivedBy
      <4>2. Steady(p)' => Steady(p)
        <5>1. Live(pass[p]) => revived' = revived BY <1>2, <2>1, <2>13 DEF RevivedBy
        <5>2. ~Live(pass[p]) => p \in revived' BY <1>2, <2>1, <2>13 DEF RevivedBy
        <5> QED BY <5>1, <5>2 DEF Steady
      <4> QED BY <4>1, <4>2
    <3> QED BY <1>0, <2>10, <2>11, <3>1, MildLookers
  <2> QED BY <2>12, <2>13
<1> QED BY <1>3, <1>4

LEMMA InvInit == ASSUME PassAssumption, PassInit PROVE PassInv
<1>0. PassTypeOK /\ Free.pass = NoPass /\ Idle.step = "idle" /\ Idle.seen = Free /\ ~Idle.retook /\ NotSold.status = "none"
  BY TypeInit, Basics, IdleOK DEF NotSold
<1>1. \A c \in Calls : call[c] = Idle /\ call[c].step = "idle" BY <1>0 DEF PassInit
<1>2. \A c \in Calls : ~InFlight(c) BY <1>1 DEF InFlight
<1>3. claim = Free /\ \A p \in Sales : pass[p].status = "none" /\ p \notin revived /\ \A k \in Kinds : task[p][k] = NoRead
  BY <1>0 DEF PassInit
<1>4. \A p \in Sales : ~Steady(p) BY <1>3 DEF Steady, Live
<1>5. Shape
  <2>1. GrantsOK BY <1>2, Basics DEF GrantsOK
  <2>2. TasksOK BY <1>3 DEF TasksOK, Kinds
  <2> QED BY <1>0, <2>1, <2>2 DEF Shape
<1>6. CallsOK BY <1>0, <1>1, <1>2, <1>3 DEF CallsOK, CallOK, Looking, Holding
<1>7. UnsoldOK /\ Alone BY <1>2, <1>3 DEF UnsoldOK, Alone
<1>8. ClaimOK BY <1>0, <1>1, <1>3 DEF ClaimOK, Holding
<1>9. SeenOK BY <1>0, <1>1 DEF SeenOK, SeenBy
<1> QED BY <1>4, <1>5, <1>6, <1>7, <1>8, <1>9 DEF PassInv, LookersOK, OneSteady

LEMMA InvNext == ASSUME PassAssumption, PassInv, [PassNext]_vars PROVE PassInv'
<1>0. Shape /\ UnsoldOK /\ PassTypeOK /\ GrantsOK /\ Sales \subseteq Calls /\ Grants \subseteq Calls
  BY Basics DEF PassInv, Shape
<1>1. ASSUME NEW c \in Calls, ClaimStep(c) PROVE PassInv'
  <2>1. Shape' BY <1>0, <1>1, ClaimTypes, CallBounds
  <2> QED BY <1>1, <2>1, TryClaimOK, ConflictOK, StaleOK, TakeOverOK, BindOK, KillOK DEF ClaimStep
<1>2. ASSUME NEW c \in Sales, SaleStep(c) PROVE PassInv'
  <2>1. Shape' BY <1>0, <1>2, SaleTypes, CallBounds
  <2> QED BY <1>2, <2>1, StartSaleOK, InsertOK, InsertFailsOK DEF SaleStep
<1>3. ASSUME NEW c \in Grants, GrantStep(c) PROVE PassInv'
  <2>1. Shape' BY <1>0, <1>3, GrantTypes, CallBounds
  <2> QED BY <1>3, <2>1, StartGrantOK, ReadAgainOK, CheckOtherOK, ConflictSeenOK, ExtendOK DEF GrantStep
<1>4. ASSUME NEW p \in Sales, WashStep(p) \/ AutoPayStep(p) \/ EndStep(p) PROVE PassInv'
  <2>1. Quiet /\ TasksOK' BY <1>0, <1>4, Reading, Writing DEF WashStep, AutoPayStep, EndStep
  <2>2. PassTypeOK' BY <1>0, <1>4, WashTypes, AutoPayTypes, EndTypes
  <2>3. GrantsOK' BY <1>0, <2>1 DEF Quiet, GrantsOK, InFlight
  <2>4. Shape' BY <2>1, <2>2, <2>3 DEF Shape
  <2> QED BY <2>1, <2>4, QuietKeeps
<1>5. ASSUME UNCHANGED vars PROVE PassInv'
  <2>1. Shape' BY <1>0, <1>5 DEF vars, ghosts, Shape, PassTypeOK, GrantsOK, TasksOK, InFlight
  <2>2. Quiet BY <1>0, <1>5 DEF vars, ghosts, Quiet, UnsoldOK, Steady
  <2> QED BY <2>1, <2>2, QuietKeeps
<1> QED BY <1>1, <1>2, <1>3, <1>4, <1>5 DEF PassNext

THEOREM PassInvHolds == PassSpec => []PassInv
<1>1. PassInit => PassInv BY PassAssumption, InvInit
<1>2. PassInv /\ [PassNext]_vars => PassInv' BY PassAssumption, InvNext
<1> QED BY <1>1, <1>2, PTL DEF PassSpec

(* For any sales, extensions and plans, the passes, the claim and the calls  *)
(* keep their types: no pass has more washes than were sold, is extended     *)
(* beyond its cap, or has a task or a claim that is nobody's.                *)
THEOREM PassTyped == PassSpec => []PassTypeOK
<1>1. PassInv => PassTypeOK BY DEF PassInv, Shape
<1> QED BY <1>1, PassInvHolds, PTL

(* For any number of sales and extensions at once, killed anywhere: a car    *)
(* carries two live passes only when one of them was brought back without    *)
(* the car's claim.                                                          *)
THEOREM OnePassACar == PassSpec => []OneLivePass
<1>1. PassInv => OneLivePass BY DEF PassInv, OneSteady, OneLivePass, Steady
<1> QED BY <1>1, PassInvHolds, PTL

-----------------------------------------------------------------------------
(* What may become of a pass in one step, and of what its tasks have read.   *)

Fate(p) ==
    \/ pass'[p] = pass[p]
    \/ pass[p].status = "none" /\ pass'[p].status = "active"
    \/ pass[p].status \in {"active", "expired"} /\ pass'[p] = Extended(pass[p])
    \/ /\ pass'[p] = Spent(pass[p]) /\ pass[p].left > 0 /\ task[p]["plan"] # NoRead
       /\ pass[p].status = task[p]["plan"].status \/ p \in overwritten'
    \/ pass'[p] = GivenBack(pass[p])
    \/ /\ pass'[p] = [pass[p] EXCEPT !.status = "expired"] /\ pass[p].status = "active"
       /\ \/ pass[p].period # "in"
          \/ task[p]["lapse"] # NoRead /\ EndOf(pass[p]) = EndOf(task[p]["lapse"])
    \/ /\ pass'[p] = Renewed(pass[p]) /\ task[p]["renew"] # NoRead
       /\ pass[p] = task[p]["renew"] \/ p \in overwritten'
    \/ /\ pass'[p] = TurnedOff(pass[p], task[p]["off"])
       /\ pass[p] = task[p]["off"] \/ p \in overwritten'
    \/ \E a \in {"none", "on", "off"} : pass'[p] = [pass[p] EXCEPT !.autopay = a]
    \/ \E a \in {"none", "on", "off"} : pass'[p] = [pass[p] EXCEPT !.status = "cancelled", !.autopay = a]
    \/ \E w \in {"grace", "past"} : pass'[p] = [pass[p] EXCEPT !.period = w]

MayRead(k, q) ==
    /\ k = "plan" => q.status = "active"
    /\ k = "renew" => q.status # "cancelled"
    /\ k = "lapse" => q.period # "in"

TaskFate(p) ==
    \A k \in {"plan", "renew", "lapse"} :
        \/ task'[p][k] = NoRead \/ task'[p][k] = task[p][k]
        \/ task'[p][k] = pass[p] /\ pass'[p] = pass[p] /\ MayRead(k, pass[p])

LEMMA CallFates ==
  ASSUME PassAssumption, PassInv, NEW c \in Calls,
         ClaimStep(c) \/ (c \in Sales /\ SaleStep(c)) \/ (c \in Grants /\ GrantStep(c)),
         NEW p \in Sales
  PROVE  Fate(p) /\ TaskFate(p) /\ overwritten' = overwritten
<1>0. pass \in [Sales -> Pass] BY DEF PassInv, Shape, PassTypeOK
<1>1. UNCHANGED <<task, overwritten>>
  BY DEF ClaimStep, TryClaim, Conflict, JudgedStale, TakeOver, Bind, Kill, SaleStep, StartSale, InsertPass,
         InsertFails, GrantStep, StartGrant, ReadAgain, CheckOther, ConflictSeen, Extend, ghosts
<1>2. CASE pass' = pass BY <1>1, <1>2 DEF Fate, TaskFate
<1>3. ASSUME c \in Sales, InsertPass(c) PROVE Fate(p)
  <2>1. pass[c].status = "none" BY <1>3 DEF InsertPass, PassInv, CallsOK, CallOK
  <2>2. pass'[c].status = "active" /\ (p # c => pass'[p] = pass[p]) BY <1>0, <1>3 DEF InsertPass, NotSold
  <2> QED BY <2>1, <2>2 DEF Fate
<1>4. ASSUME c \in Grants, Extend(c) PROVE Fate(p)
  <2>1. PICK x \in Sales : x = call[c].pass BY <1>4 DEF Extend, InFlight, PassInv, Shape, GrantsOK
  <2>2. \/ pass' = pass
        \/ pass' = [pass EXCEPT ![x] = Extended(pass[x])] /\ pass[x].status \in {"active", "expired"}
    BY <1>4, <2>1 DEF Extend, MayExtend
  <2> QED BY <1>0, <2>1, <2>2 DEF Fate
<1>5. pass' = pass \/ (c \in Sales /\ InsertPass(c)) \/ (c \in Grants /\ Extend(c))
  BY DEF ClaimStep, TryClaim, Conflict, JudgedStale, TakeOver, Bind, Kill, SaleStep, StartSale,
         InsertFails, GrantStep, StartGrant, ReadAgain, CheckOther, ConflictSeen
<1>6. TaskFate(p) BY <1>1 DEF TaskFate
<1> QED BY <1>1, <1>2, <1>3, <1>4, <1>5, <1>6

LEMMA ReadFate ==
  ASSUME PassTypeOK, NEW x \in Sales, NEW k \in Kinds, NEW ok, Reads(x, k, ok), MayRead(k, pass[x]), NEW p \in Sales
  PROVE  Fate(p) /\ TaskFate(p) /\ overwritten' = overwritten
BY DEF PassTypeOK, Reads, Fate, TaskFate, ghosts

LEMMA WriteFate ==
  ASSUME NEW x \in Sales, Fate(x), \A r \in Sales \ {x} : pass'[r] = pass[r],
         \A j \in Kinds \ {"release"} : \A r \in Sales : task'[r][j] = task[r][j] \/ task'[r][j] = NoRead,
         NEW p \in Sales
  PROVE  Fate(p) /\ TaskFate(p)
<1>1. {"plan", "renew", "lapse"} \subseteq Kinds \ {"release"} BY DEF Kinds
<1>2. TaskFate(p) BY <1>1 DEF TaskFate
<1>3. p # x => Fate(p) BY DEF Fate
<1> QED BY <1>2, <1>3

LEMMA TaskFates ==
  ASSUME PassAssumption, PassInv, NEW x \in Sales, WashStep(x) \/ AutoPayStep(x) \/ EndStep(x), NEW p \in Sales
  PROVE  Fate(p) /\ TaskFate(p) /\ overwritten \subseteq overwritten'
<1>0. /\ PassTypeOK /\ pass \in [Sales -> Pass] /\ pass[x] \in Pass
      /\ {"plan", "lapse", "renew", "off", "upgrade", "cancel", "release"} = Kinds
  BY DEF PassInv, Shape, PassTypeOK, Kinds
<1>w. ASSUME NEW k \in Kinds, NEW r \in Sales, Wrote(r, k)
      PROVE  \A j \in Kinds \ {"release"} : \A s \in Sales : task'[s][j] = task[s][j] \/ task'[s][j] = NoRead
  BY <1>0, <1>w, WroteOnly
<1>1. CASE PlanWash(x) BY <1>0, <1>1, ReadFate DEF PlanWash, Reads, MayRead
<1>2. CASE FindEnded(x) BY <1>0, <1>2, ReadFate DEF FindEnded, Reads, MayRead
<1>3. CASE RenewalCharged(x) BY <1>0, <1>3, ReadFate DEF RenewalCharged, Reads, MayRead
<1>4. CASE TurnOff(x) BY <1>0, <1>4, ReadFate DEF TurnOff, Reads, MayRead
<1>5. CASE StartUpgrade(x) BY <1>0, <1>5, ReadFate DEF StartUpgrade, Reads, MayRead
<1>6. CASE StartCancel(x) BY <1>0, <1>6, ReadFate DEF StartCancel, Reads, MayRead
<1>7. ASSUME CommitWash(x) PROVE Fate(p) /\ TaskFate(p) /\ overwritten \subseteq overwritten'
  <2>1. pass' \in {pass, [pass EXCEPT ![x] = Spent(pass[x])]} /\ overwritten \subseteq overwritten' /\ Wrote(x, "plan")
    BY <1>7 DEF CommitWash
  <2>2. Fate(x)
    <3>1. CASE pass[x].left > 0
      <4>1. pass'[x] = Spent(pass[x]) /\ task[x]["plan"] # NoRead BY <1>0, <1>7, <3>1 DEF CommitWash
      <4>2. pass[x].status = task[x]["plan"].status \/ x \in overwritten' BY <1>7, <3>1 DEF CommitWash
      <4> QED BY <3>1, <4>1, <4>2 DEF Fate
    <3>2. CASE ~(pass[x].left > 0)
      <4>1. pass' = pass BY <1>7, <3>2 DEF CommitWash
      <4> QED BY <4>1 DEF Fate
    <3> QED BY <3>1, <3>2
  <2>y. \A r \in Sales \ {x} : pass'[r] = pass[r] BY <1>0, <2>1
  <2>z. \A j \in Kinds \ {"release"} : \A r \in Sales : task'[r][j] = task[r][j] \/ task'[r][j] = NoRead
    BY <1>0, <1>w, <2>1
  <2> QED BY <2>1, <2>2, <2>y, <2>z, WriteFate
<1>8. ASSUME GiveBack(x) PROVE Fate(p) /\ TaskFate(p) /\ overwritten \subseteq overwritten'
  <2>1. pass' = [pass EXCEPT ![x] = GivenBack(pass[x])] /\ UNCHANGED <<task, overwritten>> BY <1>8 DEF GiveBack
  <2>2. pass'[x] = GivenBack(pass[x]) BY <1>0, <2>1
  <2>3. Fate(x) BY <2>2 DEF Fate
  <2>y. \A r \in Sales \ {x} : pass'[r] = pass[r] BY <1>0, <2>1
  <2>z. \A j \in Kinds \ {"release"} : \A r \in Sales : task'[r][j] = task[r][j] \/ task'[r][j] = NoRead
    BY <1>0, <2>1
  <2> QED BY <2>1, <2>3, <2>y, <2>z, WriteFate
<1>9. ASSUME Lapse(x) PROVE Fate(p) /\ TaskFate(p) /\ overwritten \subseteq overwritten'
  <2>1. /\ pass' \in {pass, [pass EXCEPT ![x] = [pass[x] EXCEPT !.status = "expired"]]}
        /\ overwritten = overwritten' /\ Wrote(x, "lapse")
    BY <1>9 DEF Lapse, ghosts
  <2>2. Fate(x)
    <3>1. CASE pass' = pass BY <3>1 DEF Fate
    <3>2. CASE pass' # pass
      <4>1. /\ pass'[x] = [pass[x] EXCEPT !.status = "expired"] /\ pass[x].status = "active"
            /\ task[x]["lapse"] # NoRead /\ EndOf(pass[x]) = EndOf(task[x]["lapse"])
        BY <1>0, <1>9, <3>2 DEF Lapse
      <4> QED BY <4>1 DEF Fate
    <3> QED BY <3>1, <3>2
  <2>y. \A r \in Sales \ {x} : pass'[r] = pass[r] BY <1>0, <2>1
  <2>z. \A j \in Kinds \ {"release"} : \A r \in Sales : task'[r][j] = task[r][j] \/ task'[r][j] = NoRead
    BY <1>0, <1>w, <2>1
  <2> QED BY <2>1, <2>2, <2>y, <2>z, WriteFate
<1>10. ASSUME Renew(x) PROVE Fate(p) /\ TaskFate(p) /\ overwritten \subseteq overwritten'
  <2>1. /\ pass' = [pass EXCEPT ![x] = Renewed(pass[x])] /\ overwritten \subseteq overwritten' /\ Wrote(x, "renew")
        /\ task[x]["renew"] # NoRead /\ (pass[x] = task[x]["renew"] \/ x \in overwritten')
    BY <1>10 DEF Renew, Blindly
  <2>2. pass'[x] = Renewed(pass[x]) BY <1>0, <2>1
  <2>3. Fate(x) BY <2>1, <2>2 DEF Fate
  <2>y. \A r \in Sales \ {x} : pass'[r] = pass[r] BY <1>0, <2>1
  <2>z. \A j \in Kinds \ {"release"} : \A r \in Sales : task'[r][j] = task[r][j] \/ task'[r][j] = NoRead
    BY <1>0, <1>w, <2>1
  <2> QED BY <2>1, <2>3, <2>y, <2>z, WriteFate
<1>11. ASSUME AutoOff(x) PROVE Fate(p) /\ TaskFate(p) /\ overwritten \subseteq overwritten'
  <2>1. /\ pass' = [pass EXCEPT ![x] = TurnedOff(pass[x], task[x]["off"])] /\ overwritten \subseteq overwritten'
        /\ Wrote(x, "off") /\ (pass[x] = task[x]["off"] \/ x \in overwritten')
    BY <1>11 DEF AutoOff, Blindly
  <2>2. pass'[x] = TurnedOff(pass[x], task[x]["off"]) BY <1>0, <2>1
  <2>3. Fate(x) BY <2>1, <2>2 DEF Fate
  <2>y. \A r \in Sales \ {x} : pass'[r] = pass[r] BY <1>0, <2>1
  <2>z. \A j \in Kinds \ {"release"} : \A r \in Sales : task'[r][j] = task[r][j] \/ task'[r][j] = NoRead
    BY <1>0, <1>w, <2>1
  <2> QED BY <2>1, <2>3, <2>y, <2>z, WriteFate
<1>12. ASSUME Upgrade(x) PROVE Fate(p) /\ TaskFate(p) /\ overwritten \subseteq overwritten'
  <2>1. /\ pass' \in {pass, [pass EXCEPT ![x] = [pass[x] EXCEPT !.autopay = "none"]]}
        /\ overwritten = overwritten' /\ Wrote(x, "upgrade")
    BY <1>12 DEF Upgrade, ghosts
  <2>2. pass'[x] = pass[x] \/ pass'[x] = [pass[x] EXCEPT !.autopay = "none"] BY <1>0, <2>1
  <2>3. Fate(x) BY <2>2 DEF Fate
  <2>y. \A r \in Sales \ {x} : pass'[r] = pass[r] BY <1>0, <2>1
  <2>z. \A j \in Kinds \ {"release"} : \A r \in Sales : task'[r][j] = task[r][j] \/ task'[r][j] = NoRead
    BY <1>0, <1>w, <2>1
  <2> QED BY <2>1, <2>3, <2>y, <2>z, WriteFate
<1>13. ASSUME Cancel(x) PROVE Fate(p) /\ TaskFate(p) /\ overwritten \subseteq overwritten'
  <2> DEFINE a == Off(pass[x].autopay)
  <2>1. /\ pass' = [pass EXCEPT ![x] = [pass[x] EXCEPT !.status = "cancelled", !.autopay = a]]
        /\ overwritten \subseteq overwritten'
    BY <1>13 DEF Cancel, Blindly
  <2>2. \A j \in Kinds \ {"release"} : \A s \in Sales : task'[s][j] = task[s][j] \/ task'[s][j] = NoRead
    BY <1>0, <1>13 DEF Cancel, PassTypeOK
  <2>3. a \in {"none", "on", "off"} BY <1>0 DEF Off, Pass
  <2> HIDE DEF a
  <2>4. pass'[x] = [pass[x] EXCEPT !.status = "cancelled", !.autopay = a] BY <1>0, <2>1
  <2>5. Fate(x) BY <2>3, <2>4 DEF Fate
  <2>y. \A r \in Sales \ {x} : pass'[r] = pass[r] BY <1>0, <2>1
  <2>z. \A j \in Kinds \ {"release"} : \A r \in Sales : task'[r][j] = task[r][j] \/ task'[r][j] = NoRead
    BY <1>0, <2>2
  <2> QED BY <2>1, <2>2, <2>5, <2>y, <2>z, WriteFate
<1>14. ASSUME ReleaseClaim(x) PROVE Fate(p) /\ TaskFate(p) /\ overwritten \subseteq overwritten'
  <2>1. UNCHANGED <<pass, overwritten>> /\ Wrote(x, "release") BY <1>14 DEF ReleaseClaim, ghosts
  <2>2. Fate(x) BY <2>1 DEF Fate
  <2>y. \A r \in Sales \ {x} : pass'[r] = pass[r] BY <1>0, <2>1
  <2>z. \A j \in Kinds \ {"release"} : \A r \in Sales : task'[r][j] = task[r][j] \/ task'[r][j] = NoRead
    BY <1>0, <1>w, <2>1
  <2> QED BY <2>1, <2>2, <2>y, <2>z, WriteFate
<1>15. ASSUME TaskLost(x) PROVE Fate(p) /\ TaskFate(p) /\ overwritten \subseteq overwritten'
  <2>1. UNCHANGED <<pass, overwritten>> BY <1>15 DEF TaskLost, ghosts
  <2>2. PICK k \in Kinds : Wrote(x, k) BY <1>15 DEF TaskLost
  <2>3. Fate(x) BY <2>1 DEF Fate
  <2>y. \A r \in Sales \ {x} : pass'[r] = pass[r] BY <1>0, <2>1
  <2>z. \A j \in Kinds \ {"release"} : \A r \in Sales : task'[r][j] = task[r][j] \/ task'[r][j] = NoRead
    BY <1>0, <1>w, <2>2
  <2> QED BY <2>1, <2>2, <2>3, <2>y, <2>z, WriteFate
<1>16. ASSUME PeriodEnds(x) PROVE Fate(p) /\ TaskFate(p) /\ overwritten \subseteq overwritten'
  <2> DEFINE w == IF pass[x].period = "in" /\ pass[x].autopay = "on" THEN "grace" ELSE "past"
  <2>1. pass' = [pass EXCEPT ![x] = [pass[x] EXCEPT !.period = w]] /\ UNCHANGED <<task, overwritten>>
    BY <1>16 DEF PeriodEnds, ghosts
  <2>2. w \in {"grace", "past"} OBVIOUS
  <2> HIDE DEF w
  <2>3. pass'[x] = [pass[x] EXCEPT !.period = w] BY <1>0, <2>1
  <2>4. Fate(x) BY <2>2, <2>3 DEF Fate
  <2>y. \A r \in Sales \ {x} : pass'[r] = pass[r] BY <1>0, <2>1
  <2>z. \A j \in Kinds \ {"release"} : \A r \in Sales : task'[r][j] = task[r][j] \/ task'[r][j] = NoRead
    BY <1>0, <2>1
  <2> QED BY <2>1, <2>4, <2>y, <2>z, WriteFate
<1>17. ASSUME SweepEnded(x) PROVE Fate(p) /\ TaskFate(p) /\ overwritten \subseteq overwritten'
  <2>1. /\ pass' = [pass EXCEPT ![x] = [pass[x] EXCEPT !.status = "expired"]] /\ UNCHANGED <<task, overwritten>>
        /\ pass[x].status = "active" /\ pass[x].period # "in"
    BY <1>17 DEF SweepEnded, ghosts
  <2>2. pass'[x] = [pass[x] EXCEPT !.status = "expired"] BY <1>0, <2>1
  <2>3. Fate(x) BY <2>1, <2>2 DEF Fate
  <2>y. \A r \in Sales \ {x} : pass'[r] = pass[r] BY <1>0, <2>1
  <2>z. \A j \in Kinds \ {"release"} : \A r \in Sales : task'[r][j] = task[r][j] \/ task'[r][j] = NoRead
    BY <1>0, <2>1
  <2> QED BY <2>1, <2>3, <2>y, <2>z, WriteFate
<1> QED BY <1>1, <1>2, <1>3, <1>4, <1>5, <1>6, <1>7, <1>8, <1>9, <1>10, <1>11, <1>12, <1>13, <1>14, <1>15, <1>16, <1>17
        DEF WashStep, AutoPayStep, EndStep

(* What a task still holds of its pass is what let it start.                 *)
ReadsOK ==
    \A p \in Sales :
        /\ task[p]["plan"] # NoRead => task[p]["plan"].status = "active"
        /\ task[p]["renew"] # NoRead => task[p]["renew"].status # "cancelled"
        /\ task[p]["lapse"] # NoRead =>
              /\ task[p]["lapse"].grants <= pass[p].grants /\ task[p]["lapse"].renewals <= pass[p].renewals
              /\ EndOf(task[p]["lapse"]) = EndOf(pass[p]) => pass[p].period # "in"

Fates == \A p \in Sales : Fate(p) /\ TaskFate(p) /\ (p \in overwritten => p \in overwritten')

LEMMA StepFates == ASSUME PassAssumption, PassInv, [PassNext]_vars PROVE Fates
<1>1. ASSUME UNCHANGED vars PROVE Fates BY <1>1 DEF vars, ghosts, Fates, Fate, TaskFate
<1>2. ASSUME PassNext PROVE Fates
  <2>1. Sales \subseteq Calls /\ Grants \subseteq Calls BY Basics
  <2>2. ASSUME NEW p \in Sales PROVE Fate(p) /\ TaskFate(p) /\ overwritten \subseteq overwritten'
    <3>1. ASSUME NEW c \in Calls, ClaimStep(c) PROVE Fate(p) /\ TaskFate(p) /\ overwritten \subseteq overwritten'
      BY <3>1, CallFates
    <3>2. ASSUME NEW c \in Sales, SaleStep(c) PROVE Fate(p) /\ TaskFate(p) /\ overwritten \subseteq overwritten'
      BY <2>1, <3>2, CallFates
    <3>3. ASSUME NEW c \in Grants, GrantStep(c) PROVE Fate(p) /\ TaskFate(p) /\ overwritten \subseteq overwritten'
      BY <2>1, <3>3, CallFates
    <3>4. ASSUME NEW x \in Sales, WashStep(x) \/ AutoPayStep(x) \/ EndStep(x)
          PROVE  Fate(p) /\ TaskFate(p) /\ overwritten \subseteq overwritten'
      BY <3>4, TaskFates
    <3> QED BY <1>2, <3>1, <3>2, <3>3, <3>4 DEF PassNext
  <2> QED BY <2>2 DEF Fates
<1> QED BY <1>1, <1>2

(* An end that does not move is not passed twice. *)
LEMMA EndMoves ==
  ASSUME PassAssumption, PassTypeOK, NEW p \in Sales, Fate(p), pass[p].status # "none"
  PROVE  /\ pass[p].grants <= pass'[p].grants /\ pass[p].renewals <= pass'[p].renewals
         /\ EndOf(pass'[p]) = EndOf(pass[p]) /\ pass'[p].period = "in" => pass[p].period = "in"
<1> DEFINE q == pass[p]
<1>0. q \in Pass /\ q.grants \in Int /\ q.renewals \in Int BY DEF PassTypeOK, Pass
<1>1. ASSUME pass'[p].grants = q.grants, pass'[p].renewals = q.renewals, pass'[p].period \in {q.period, "grace", "past"}
      PROVE  /\ q.grants <= pass'[p].grants /\ q.renewals <= pass'[p].renewals
             /\ EndOf(pass'[p]) = EndOf(q) /\ pass'[p].period = "in" => q.period = "in"
  BY <1>0, <1>1
<1>2. ASSUME pass'[p] = Extended(q)
      PROVE  pass'[p].grants = q.grants + 1 /\ pass'[p].renewals = q.renewals
  BY <1>0, <1>2 DEF Extended, Pass
<1>3. ASSUME pass'[p] = Renewed(q)
      PROVE  pass'[p].grants = q.grants /\ pass'[p].renewals = q.renewals + 1
  BY <1>0, <1>3 DEF Renewed, Pass
<1>4. \/ pass'[p] = Extended(q) \/ pass'[p] = Renewed(q)
      \/ pass'[p].grants = q.grants /\ pass'[p].renewals = q.renewals /\ pass'[p].period \in {q.period, "grace", "past"}
  BY <1>0 DEF Fate, Spent, GivenBack, TurnedOff, Pass
<1> HIDE DEF q
<1> QED BY <1>0, <1>1, <1>2, <1>3, <1>4 DEF EndOf, q

LEMMA ReadsKept == ASSUME PassAssumption, PassInv, PassInv', ReadsOK, Fates PROVE ReadsOK'
<1>1. SUFFICES ASSUME NEW p \in Sales
      PROVE  /\ task'[p]["plan"] # NoRead => task'[p]["plan"].status = "active"
             /\ task'[p]["renew"] # NoRead => task'[p]["renew"].status # "cancelled"
             /\ task'[p]["lapse"] # NoRead =>
                   /\ task'[p]["lapse"].grants <= pass'[p].grants /\ task'[p]["lapse"].renewals <= pass'[p].renewals
                   /\ EndOf(task'[p]["lapse"]) = EndOf(pass'[p]) => pass'[p].period # "in"
  BY DEF ReadsOK
<1>0. /\ pass[p] \in Pass /\ pass'[p] \in Pass /\ Fate(p) /\ TaskFate(p) /\ PassTypeOK
      /\ \A k \in Kinds : task[p][k] \in Pass \cup {NoRead}
      /\ "lapse" \in Kinds
  BY DEF PassInv, Shape, PassTypeOK, Fates, Kinds
<1>2. task'[p]["plan"] # NoRead => task'[p]["plan"].status = "active" BY <1>0 DEF TaskFate, MayRead, ReadsOK
<1>3. task'[p]["renew"] # NoRead => task'[p]["renew"].status # "cancelled" BY <1>0 DEF TaskFate, MayRead, ReadsOK
<1>4. ASSUME task'[p]["lapse"] # NoRead
      PROVE  /\ task'[p]["lapse"].grants <= pass'[p].grants /\ task'[p]["lapse"].renewals <= pass'[p].renewals
             /\ EndOf(task'[p]["lapse"]) = EndOf(pass'[p]) => pass'[p].period # "in"
  <2>1. CASE task'[p]["lapse"] = task[p]["lapse"]
    <3> DEFINE t == task[p]["lapse"]
    <3>1. t \in Pass /\ t # NoRead /\ task'[p]["lapse"] = t BY <1>0, <1>4, <2>1
    <3>2. t.grants <= pass[p].grants /\ t.renewals <= pass[p].renewals
          /\ (EndOf(t) = EndOf(pass[p]) => pass[p].period # "in")
      BY <3>1 DEF ReadsOK
    <3>3. pass[p].status # "none" BY <1>0, <3>1 DEF PassInv, UnsoldOK
    <3>4. /\ pass[p].grants <= pass'[p].grants /\ pass[p].renewals <= pass'[p].renewals
          /\ (EndOf(pass'[p]) = EndOf(pass[p]) /\ pass'[p].period = "in" => pass[p].period = "in")
      BY <1>0, <3>3, EndMoves
    <3>5. /\ t.grants \in Int /\ t.renewals \in Int /\ pass[p].grants \in Int /\ pass[p].renewals \in Int
          /\ pass'[p].grants \in Int /\ pass'[p].renewals \in Int
      BY <1>0, <3>1 DEF Pass
    <3> HIDE DEF t
    <3> QED BY <3>1, <3>2, <3>4, <3>5 DEF EndOf
  <2>2. CASE task'[p]["lapse"] = pass[p] /\ pass'[p] = pass[p] /\ MayRead("lapse", pass[p])
    BY <1>0, <2>2 DEF MayRead, Pass
  <2> QED BY <1>0, <1>4, <2>1, <2>2 DEF TaskFate
<1> QED BY <1>2, <1>3, <1>4

LEMMA CancelKept ==
  ASSUME PassAssumption, PassInv, ReadsOK, Fates, NEW p \in Sales,
         pass[p].status = "cancelled", p \notin overwritten'
  PROVE  pass'[p].status = "cancelled"
<1>0. pass[p] \in Pass /\ Fate(p) BY DEF PassInv, Shape, PassTypeOK, Fates
<1>1. pass[p] # task[p]["renew"] \/ task[p]["renew"] = NoRead BY DEF ReadsOK
<1>2. pass[p].status # task[p]["plan"].status \/ task[p]["plan"] = NoRead BY DEF ReadsOK
<1>3. ASSUME pass'[p] = TurnedOff(pass[p], task[p]["off"]), pass[p] = task[p]["off"] PROVE pass'[p].status = "cancelled"
  BY <1>0, <1>3 DEF TurnedOff, Pass
<1>4. ASSUME pass'[p] = GivenBack(pass[p]) PROVE pass'[p].status = "cancelled" BY <1>0, <1>4 DEF GivenBack, Pass
<1>5. \/ pass'[p] = pass[p] \/ pass'[p] = GivenBack(pass[p])
      \/ pass'[p] = TurnedOff(pass[p], task[p]["off"]) /\ pass[p] = task[p]["off"]
      \/ \E a \in {"none", "on", "off"} : pass'[p] = [pass[p] EXCEPT !.autopay = a]
      \/ \E a \in {"none", "on", "off"} : pass'[p] = [pass[p] EXCEPT !.status = "cancelled", !.autopay = a]
      \/ \E w \in {"grace", "past"} : pass'[p] = [pass[p] EXCEPT !.period = w]
  BY <1>0, <1>1, <1>2 DEF Fate
<1> QED BY <1>0, <1>3, <1>4, <1>5 DEF Pass

LEMMA WashesKept ==
  ASSUME PassAssumption, PassInv, ReadsOK, WashesUsable, Fates
  PROVE  WashesUsable'
<1>1. SUFFICES ASSUME NEW p \in Sales, pass'[p].status = "expired", pass'[p].period = "in", p \notin overwritten'
               PROVE  pass'[p].left = 0
  BY DEF WashesUsable
<1>0. pass[p] \in Pass /\ Fate(p) /\ p \notin overwritten BY <1>1 DEF PassInv, Shape, PassTypeOK, Fates
<1>2. pass[p].status = "expired" /\ pass[p].period = "in" => pass[p].left = 0 BY <1>0 DEF WashesUsable
<1>3. ASSUME pass'[p] = Spent(pass[p]), pass[p].left > 0 PROVE pass'[p].left = 0
  <2>1. pass'[p].left = pass[p].left - 1 /\ pass'[p].period = pass[p].period BY <1>0, <1>3 DEF Spent, Pass
  <2>2. pass'[p].status = "expired" => pass[p].left = 1 \/ pass[p].status = "expired" BY <1>0, <1>3 DEF Spent, Pass
  <2>3. pass[p].left \in Nat BY <1>0 DEF Pass
  <2> QED BY <1>1, <1>2, <1>3, <2>1, <2>2, <2>3
<1>4. ASSUME pass'[p] = [pass[p] EXCEPT !.status = "expired"],
             pass[p].period # "in" \/ (task[p]["lapse"] # NoRead /\ EndOf(pass[p]) = EndOf(task[p]["lapse"]))
      PROVE  FALSE
  <2>1. pass'[p].period = pass[p].period BY <1>0, <1>4 DEF Pass
  <2> QED BY <1>1, <1>4, <2>1 DEF ReadsOK
<1>5. ASSUME pass'[p] = TurnedOff(pass[p], task[p]["off"]), pass[p] = task[p]["off"] PROVE pass'[p].left = 0
  <2>1. pass'[p].left = pass[p].left /\ pass'[p].period = pass[p].period BY <1>0, <1>5 DEF TurnedOff, Pass
  <2>2. pass'[p].status = IF pass[p].status = "active" /\ pass[p].left = 0 THEN "expired" ELSE pass[p].status
    BY <1>0, <1>5 DEF TurnedOff, Pass
  <2> QED BY <1>1, <1>2, <2>1, <2>2
<1>6. ASSUME pass'[p] = GivenBack(pass[p]) PROVE FALSE BY <1>0, <1>1, <1>6 DEF GivenBack, Pass
<1>7. ASSUME pass'[p] = Extended(pass[p]) \/ pass'[p] = Renewed(pass[p]) PROVE FALSE
  BY <1>0, <1>1, <1>7 DEF Extended, Renewed, Pass
<1>8. ASSUME NEW a \in {"none", "on", "off"}, pass'[p] = [pass[p] EXCEPT !.autopay = a] PROVE pass'[p].left = 0
  BY <1>0, <1>1, <1>2, <1>8 DEF Pass
<1>9. ASSUME NEW a \in {"none", "on", "off"}, pass'[p] = [pass[p] EXCEPT !.status = "cancelled", !.autopay = a] PROVE FALSE
  BY <1>0, <1>1, <1>9 DEF Pass
<1>10. ASSUME NEW w \in {"grace", "past"}, pass'[p] = [pass[p] EXCEPT !.period = w] PROVE FALSE
  BY <1>0, <1>1, <1>10 DEF Pass
<1> QED BY <1>0, <1>1, <1>2, <1>3, <1>4, <1>5, <1>6, <1>7, <1>8, <1>9, <1>10 DEF Fate

LEMMA ReadsInit == ASSUME PassInit PROVE ReadsOK /\ WashesUsable
BY DEF PassInit, ReadsOK, WashesUsable, Kinds, NotSold

THEOREM ReadsHold == PassSpec => [](PassInv /\ ReadsOK)
<1>1. PassInit => PassInv /\ ReadsOK BY PassAssumption, InvInit, ReadsInit
<1>2. PassInv /\ ReadsOK /\ [PassNext]_vars => (PassInv /\ ReadsOK)'
  BY PassAssumption, InvNext, StepFates, ReadsKept
<1> QED BY <1>1, <1>2, PTL DEF PassSpec

(* Washes inside their period are never left on an expired pass, however     *)
(* commits, refunds, lapses, extensions, renewals and the sweep interleave,  *)
(* unless a task overwrote the pass from an old read.                        *)
THEOREM WashesStayUsable == PassSpec => []WashesUsable
<1>1. PassInit => WashesUsable BY ReadsInit
<1>2. (PassInv /\ ReadsOK) /\ WashesUsable /\ [PassNext]_vars => WashesUsable'
  BY PassAssumption, StepFates, WashesKept
<1> QED BY <1>1, <1>2, ReadsHold, PTL DEF PassSpec

(* A cancelled pass stays cancelled, but for a task that overwrites it from  *)
(* an old read.                                                              *)
THEOREM CancelledForGood == PassSpec => CancelledStays
<1>1. (PassInv /\ ReadsOK) /\ [PassNext]_vars
        => [\A p \in Sales : pass[p].status = "cancelled" /\ p \notin overwritten'
                               => pass'[p].status = "cancelled"]_vars
  BY PassAssumption, StepFates, CancelKept
<1> QED BY <1>1, ReadsHold, PTL DEF PassSpec, CancelledStays
=============================================================================
