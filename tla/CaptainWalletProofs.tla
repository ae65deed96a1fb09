-------------------------- MODULE CaptainWalletProofs --------------------------
(***************************************************************************)
(* Proofs about CaptainWallet, for any captains, calls, prices and pay:    *)
(* type correctness, that the shares of a job add up to its price, that a  *)
(* withdrawal is taken from its wallet once, and what every wallet holds.  *)
(***************************************************************************)
EXTENDS CaptainWallet, TLAPS, FiniteSetTheorems, WellFoundedInduction

\* A call about the job has read one; a call about a request names it.
CallsFit ==
    \A a \in Calls :
        /\ call[a].op \in {"setoff", "release", "collect"} =>
             call[a].seen \in Job /\ call[a].by \in Captains /\ call[a].amount \in Nat
        /\ call[a].op = "release" => call[a].seen.status # "closed"
        /\ call[a].op = "setoff" => call[a].amount <= call[a].seen.earn
        /\ call[a].step \in {"claim", "money", "handback"} =>
             /\ call[a].w \in Withdrawals /\ call[a].from # "none" /\ call[a].to # "none"
             /\ call[a].op = "review"

Fits == WalletTypeOK /\ CallsFit

\* What SharesAddUp says, of any job.
Shared(j) ==
    /\ j.earn + j.platform = Total(j)
    /\ j.status # "closed" => j.earn + j.late = Pay[j.price]
    /\ j.status \in {"pending", "assigned"} => j.late = 0

LEMMA SharesAreShared == SharesAddUp <=> (~stale => Shared(job))
  BY DEF SharesAddUp, Shared

LEMMA QuietIsACall == Quiet \in Call /\ Quiet.op = "none" /\ Quiet.step = "idle"
  BY DEF Quiet, Call

\* A call that ends, and one that begins with a record that fits, leave the calls in order.
LEMMA OverFits == ASSUME Fits, NEW a \in Calls, Over(a) PROVE call' \in [Calls -> Call] /\ CallsFit'
  <1>. DEFINE q == Quiet
  <1>1. q \in Call /\ q.op = "none" /\ q.step = "idle"
    BY QuietIsACall
  <1>2. call' = [call EXCEPT ![a] = q]
    BY DEF Over
  <1>. HIDE DEF q
  <1>. QED BY <1>1, <1>2 DEF Fits, WalletTypeOK, CallsFit

LEMMA StartFits ==
  ASSUME Fits, NEW a \in Calls, NEW r \in Call, Starts(a, r),
         r.op \in {"setoff", "release", "collect"} => r.seen \in Job /\ r.by \in Captains /\ r.amount \in Nat,
         r.op = "release" => r.seen.status # "closed",
         r.op = "setoff" => r.amount <= r.seen.earn,
         r.step \in {"claim", "money", "handback"} =>
             r.w \in Withdrawals /\ r.from # "none" /\ r.to # "none" /\ r.op = "review"
  PROVE  call' \in [Calls -> Call] /\ CallsFit'
  BY DEF Starts, Fits, WalletTypeOK, CallsFit

LEMMA SameCalls == ASSUME Fits, UNCHANGED call PROVE call' \in [Calls -> Call] /\ CallsFit'
  BY DEF Fits, WalletTypeOK, CallsFit

\* A call that goes on to another step of its review.
LEMMA StepFits ==
  ASSUME Fits, NEW a \in Calls, NEW s \in {"money", "handback"}, call[a].step \in {"claim", "money"},
         call' = [call EXCEPT ![a].step = s]
  PROVE  call' \in [Calls -> Call] /\ CallsFit'
  <1>. DEFINE r == [call[a] EXCEPT !.step = s]
  <1>1. call[a] \in Call
    BY DEF Fits, WalletTypeOK
  <1>2. r \in Call /\ r.w = call[a].w /\ r.from = call[a].from /\ r.to = call[a].to /\ r.op = call[a].op
    BY <1>1 DEF Call
  <1>3. call' = [call EXCEPT ![a] = r]
    OBVIOUS
  <1>4. call[a].w \in Withdrawals /\ call[a].from # "none" /\ call[a].to # "none" /\ call[a].op = "review"
    BY DEF Fits, CallsFit
  <1>. HIDE DEF r
  <1>. QED BY <1>2, <1>3, <1>4 DEF Fits, WalletTypeOK, CallsFit

\* Settling touches no share.
LEMMA SettleKeeps ==
  ASSUME Fits, NEW j \in Job, Settle(j)
  PROVE  job' \in Job /\ wallet' \in [Captains -> Int] /\ (Shared(j) => Shared(job'))
  <1>1. CASE Exempt(j)
    BY <1>1 DEF Settle, Fits, WalletTypeOK
  <1>2. CASE ~Exempt(j)
    <2>. DEFINE t == Target(j)
    <2>1. t \in Int /\ j.settled \in Int /\ j.captain \in Captains
      BY <1>2 DEF Target, Exempt, Job
    <2>2. job' = [j EXCEPT !.settled = t] /\ wallet' = [wallet EXCEPT ![j.captain] = @ + t - j.settled]
      BY <1>2 DEF Settle
    <2>. HIDE DEF t
    <2>3. job' \in Job
      BY <2>1, <2>2 DEF Job
    <2>4. wallet' \in [Captains -> Int]
      BY <2>1, <2>2 DEF Fits, WalletTypeOK
    <2>5. Shared(j) => Shared(job')
      BY <2>2 DEF Shared, Total, Job
    <2>. QED BY <2>3, <2>4, <2>5
  <1>. QED BY <1>1, <1>2

LEMMA RepaidKeeps == ASSUME NEW j \in Job PROVE Repaid(j) \in Job /\ (Shared(j) => Shared(Repaid(j)))
  <1>. DEFINE n == Least(j.paid, Total(j))
  <1>0. j.price \in Nat /\ j.discount \in Nat /\ j.added \in Nat /\ j.paid \in Int
    BY WalletAssumption DEF Job
  <1>1. n \in Int
    <2>1. Total(j) \in Int
      BY <1>0 DEF Total
    <2>. QED BY <1>0, <2>1 DEF Least
  <1>2. Repaid(j) = [j EXCEPT !.paid = n]
    BY DEF Repaid
  <1>. HIDE DEF n
  <1>. QED BY <1>1, <1>2 DEF Job, Shared, Total

-----------------------------------------------------------------------------
LEMMA FitsInit == WalletInit => Fits /\ SharesAddUp
  <1>. SUFFICES ASSUME WalletInit PROVE Fits /\ SharesAddUp
    OBVIOUS
  <1>1. PICK p \in Prices :
          job = [status |-> "pending", captain |-> Nobody, price |-> p, discount |-> 0, added |-> 0,
                 paid |-> 0, earn |-> Pay[p], platform |-> p - Pay[p], late |-> 0, cash |-> 0, settled |-> 0]
    BY DEF WalletInit
  <1>2. p \in Nat /\ Pay[p] \in Nat /\ Opening \in Int /\ MaxChanges \in Nat
    BY WalletAssumption
  <1>3. job \in Job
    BY <1>1, <1>2 DEF Job, Open
  <1>4. Shared(job)
    BY <1>1, <1>2 DEF Shared, Total
  <1>5. request \in [Withdrawals -> Request] /\ debits \in [Withdrawals -> Int]
    BY DEF WalletInit, Request
  <1>6. call \in [Calls -> Call] /\ CallsFit
    <2>. DEFINE q == Quiet
    <2>1. q \in Call /\ q.op = "none" /\ q.step = "idle"
      BY QuietIsACall
    <2>2. call = [a \in Calls |-> q]
      BY DEF WalletInit
    <2>. HIDE DEF q
    <2>. QED BY <2>1, <2>2 DEF CallsFit
  <1>7. wallet \in [Captains -> Int] /\ hand \in [Captains -> Int]
    BY <1>2 DEF WalletInit
  <1>8. changes \in 0..MaxChanges
    BY <1>2 DEF WalletInit
  <1>9. stale \in BOOLEAN /\ handed \in BOOLEAN /\ muddled \subseteq Withdrawals
    BY Zenon DEF WalletInit
  <1>. QED BY <1>3, <1>4, <1>5, <1>6, <1>7, <1>8, <1>9, SharesAreShared DEF Fits, WalletTypeOK

-----------------------------------------------------------------------------
\* A step that leaves the withdrawals alone, and one that leaves the job alone.
LEMMA JobStepFits ==
  ASSUME Fits, UNCHANGED drawVars, job' \in Job, wallet' \in [Captains -> Int], hand' \in [Captains -> Int],
         call' \in [Calls -> Call], CallsFit', changes' \in 0..MaxChanges,
         stale' \in BOOLEAN, handed' \in BOOLEAN
  PROVE  Fits'
  BY DEF Fits, WalletTypeOK, drawVars

LEMMA DrawStepFits ==
  ASSUME Fits, SharesAddUp, UNCHANGED jobVars, wallet' \in [Captains -> Int],
         request' \in [Withdrawals -> Request], debits' \in [Withdrawals -> Int],
         muddled' \subseteq Withdrawals, call' \in [Calls -> Call], CallsFit'
  PROVE  Fits' /\ SharesAddUp'
  BY DEF Fits, WalletTypeOK, jobVars, SharesAddUp, Total

\* A step that leaves the withdrawals, the price and what was stale alone: a job j is written.
LEMMA WrittenFits ==
  ASSUME Fits, SharesAddUp, UNCHANGED <<changes, stale, drawVars, keys, wallet, hand, handed>>,
         job' \in Job, Shared(job) => Shared(job'), call' \in [Calls -> Call], CallsFit'
  PROVE  Fits' /\ SharesAddUp'
  <1>1. Fits'
    BY DEF Fits, WalletTypeOK, drawVars
  <1>2. SharesAddUp'
    BY SharesAreShared DEF SharesAddUp, Shared, Total
  <1>. QED BY <1>1, <1>2

\* A change of the price keeps the shares of whatever job it makes.
LEMMA ChangeFits ==
  ASSUME Fits, SharesAddUp, NEW j \in Job, Change(j), Shared(job) => Shared(j)
  PROVE  Fits' /\ SharesAddUp'
  <1>1. job' \in Job /\ (Shared(j) => Shared(job'))
    BY RepaidKeeps DEF Change
  <1>2. changes' \in 0..MaxChanges
    BY WalletAssumption DEF Change, Fits, WalletTypeOK
  <1>3. UNCHANGED <<stale, drawVars, call, wallet, hand, handed>>
    BY DEF Change, Unposted
  <1>4. call' \in [Calls -> Call] /\ CallsFit'
    BY <1>3, SameCalls
  <1>5. Fits'
    BY <1>1, <1>2, <1>3, <1>4, JobStepFits DEF Fits, WalletTypeOK
  <1>6. SharesAddUp'
    BY <1>1, <1>3, SharesAreShared DEF SharesAddUp, Shared, Total
  <1>. QED BY <1>5, <1>6

LEMMA PricedFits == ASSUME Fits, SharesAddUp, Priced PROVE Fits' /\ SharesAddUp'
  <1>. USE DEF Fits
  <1>0. job \in Job /\ Prices \subseteq Nat /\ Pay \in [Prices -> Nat] /\ Discounts \subseteq Nat /\ AddOns \subseteq Nat
    BY WalletAssumption DEF WalletTypeOK
  <1>1. ASSUME NEW d \in Discounts, SetDiscount(d) PROVE Fits' /\ SharesAddUp'
    <2>. DEFINE n == job.platform - (d - job.discount)
                j == [job EXCEPT !.discount = d, !.platform = n]
    <2>1. d \in Nat /\ n \in Int /\ job.discount \in Nat /\ job.platform \in Int
      BY <1>0 DEF Job
    <2>2. j \in Job
      BY <1>0, <2>1 DEF Job
    <2>3. Shared(job) => Shared(j)
      BY <1>0, <2>1 DEF Shared, Total, Job
    <2>4. Change(j)
      BY <1>1 DEF SetDiscount
    <2>. HIDE DEF j
    <2>. QED BY <2>2, <2>3, <2>4, ChangeFits
  <1>2. ASSUME NEW x \in AddOns, AddServices(x) PROVE Fits' /\ SharesAddUp'
    <2>. DEFINE n == job.added + x
                m == job.platform + x
                j == [job EXCEPT !.added = n, !.platform = m]
    <2>1. n \in Nat /\ m \in Int /\ x \in Nat
      BY <1>0 DEF Job
    <2>2. j \in Job
      <3>. HIDE DEF n, m
      <3>. QED BY <1>0, <2>1 DEF Job
    <2>3. Shared(job) => Shared(j)
      BY <1>0, <2>1 DEF Shared, Total, Job
    <2>4. Change(j)
      BY <1>2 DEF AddServices
    <2>. HIDE DEF j
    <2>. QED BY <2>2, <2>3, <2>4, ChangeFits
  <1>3. ASSUME NEW p \in Prices, Edit(p) PROVE Fits' /\ SharesAddUp'
    <2>. DEFINE least == Least(job.discount, p)
                i == [job EXCEPT !.price = p, !.discount = least]
                left == Total(i) - Pay[p]
                j == [i EXCEPT !.earn = Pay[p], !.platform = left]
    <2>1. p \in Nat /\ Pay[p] \in Nat /\ least \in Nat
      BY <1>0 DEF Least, Job
    <2>2. i \in Job /\ i.status = job.status /\ i.late = job.late /\ i.price = p
      <3>. HIDE DEF least
      <3>. QED BY <1>0, <2>1 DEF Job
    <2>3. Total(i) \in Int
      <3>1. i.price \in Nat /\ i.discount \in Nat /\ i.added \in Nat
        BY <2>1, <2>2 DEF Job
      <3>. QED BY <3>1 DEF Total
    <2>4. Change(j)
      BY <1>3 DEF Edit
    <2>5. job.status \in {"pending", "assigned"}
      BY <1>3 DEF Edit
    <2>. HIDE DEF i
    <2>6. left \in Int /\ left = Total(i) - Pay[p]
      BY <2>1, <2>3
    <2>7. Total(j) = Total(i)
      BY <2>2 DEF Total, Job
    <2>. HIDE DEF left
    <2>8. j \in Job /\ j.earn = Pay[p] /\ j.platform = left /\ j.late = job.late /\ j.price = p /\ j.status = job.status
      <3>1. left \in Int /\ Pay[p] \in Nat /\ i \in Job
        BY <2>1, <2>2, <2>6
      <3>. QED BY <2>2, <3>1 DEF Job
    <2>. HIDE DEF j
    <2>9. Shared(job) => Shared(j)
      BY <2>1, <2>3, <2>5, <2>6, <2>7, <2>8 DEF Shared
    <2>. QED BY <2>4, <2>8, <2>9, ChangeFits
  <1>. QED BY <1>1, <1>2, <1>3 DEF Priced

-----------------------------------------------------------------------------
\* A step that settles a job which keeps the shares.
LEMMA SettledFits ==
  ASSUME Fits, SharesAddUp, NEW j \in Job, Settle(j), Shared(job) => Shared(j), Aside,
         hand' \in [Captains -> Int], handed' \in BOOLEAN, call' \in [Calls -> Call], CallsFit'
  PROVE  Fits' /\ SharesAddUp'
  <1>1. job' \in Job /\ wallet' \in [Captains -> Int] /\ (Shared(j) => Shared(job'))
    BY SettleKeeps
  <1>2. UNCHANGED drawVars /\ changes' = changes /\ stale' = stale
    BY DEF Aside
  <1>3. Fits'
    BY <1>1, <1>2, JobStepFits DEF Fits, WalletTypeOK
  <1>4. SharesAddUp'
    BY <1>1, <1>2, SharesAreShared DEF SharesAddUp, Shared, Total
  <1>. QED BY <1>3, <1>4

\* What an administrator gives, and what a manager closes, is a job.
LEMMA GivenIsAJob ==
  ASSUME NEW j \in Job, NEW k \in Captains \cup {Nobody}, NEW n \in Int,
         NEW s \in Open \cup {"done", "closed", "cancelled"}
  PROVE  [j EXCEPT !.captain = k, !.settled = n, !.status = s] \in Job
  BY DEF Job

LEMMA ClosedIsAJob ==
  ASSUME NEW j \in Job, NEW n \in Int
  PROVE  [j EXCEPT !.status = "closed", !.captain = Nobody, !.earn = 0, !.platform = n, !.paid = n] \in Job
  <1>1. \A s \in Open \cup {"done", "closed", "cancelled"}, k \in Captains \cup {Nobody}, m \in Nat :
          [j EXCEPT !.status = s, !.captain = k, !.earn = m, !.platform = n, !.paid = n] \in Job
    BY DEF Job
  <1>2. "closed" \in Open \cup {"done", "closed", "cancelled"} /\ Nobody \in Captains \cup {Nobody} /\ 0 \in Nat
    OBVIOUS
  <1>. QED BY <1>1, <1>2, Zenon

LEMMA GivenFits ==
  ASSUME Fits, SharesAddUp, NEW k \in Captains \cup {Nobody}, AdminGive(k)
  PROVE  Fits' /\ SharesAddUp'
  <1>. DEFINE s == CASE k = Nobody /\ job.status = "assigned" -> "pending"
                     [] k # Nobody /\ job.status = "pending" -> "assigned"
                     [] OTHER -> job.status
              j == [job EXCEPT !.captain = k, !.settled = 0, !.status = s]
              t == Target(j)
              reversed == IF job.captain = Nobody THEN wallet
                          ELSE [wallet EXCEPT ![job.captain] = @ - job.settled]
  <1>1. job \in Job /\ wallet \in [Captains -> Int]
    BY DEF Fits, WalletTypeOK
  <1>2. s \in Open \cup {"done", "closed", "cancelled"}
    BY <1>1 DEF Job, Open
  <1>3. (s = "closed" <=> job.status = "closed")
        /\ (s \in {"pending", "assigned"} => job.status \in {"pending", "assigned"})
    BY <1>1 DEF Job, Open
  <1>4. j \in Job /\ (Shared(job) => Shared(j)) /\ j.captain = k
    <2>. HIDE DEF s
    <2>1. j \in Job /\ j.captain = k
      <3>1. j \in Job
        <4>1. 0 \in Int
          OBVIOUS
        <4>. QED BY <1>1, <1>2, <4>1, GivenIsAJob, Zenon
      <3>. QED BY <1>1, <3>1 DEF Job
    <2>2. /\ j.status = s /\ j.price = job.price /\ j.earn = job.earn
          /\ j.platform = job.platform /\ j.late = job.late
      BY <1>1 DEF Job
    <2>3. Total(j) = Total(job)
      BY <1>1 DEF Total, Job
    <2>. HIDE DEF j
    <2>4. Shared(job) => Shared(j)
      BY <1>3, <2>2, <2>3 DEF Shared
    <2>. QED BY <2>1, <2>4
  <1>5. reversed \in [Captains -> Int]
    BY <1>1 DEF Job
  <1>6. /\ Aside /\ UNCHANGED <<keys, hand, call>> /\ handed' = (handed \/ job.cash > 0)
        /\ IF Exempt(j) THEN job' = j /\ wallet' = reversed
           ELSE /\ job' = [j EXCEPT !.settled = t]
                /\ wallet' = [reversed EXCEPT ![k] = @ + t]
    BY DEF AdminGive
  <1>7. t \in Int
    <2>. HIDE DEF j
    <2>. QED BY <1>4 DEF Target, Job
  <1>8. job' \in Job /\ wallet' \in [Captains -> Int] /\ (Shared(j) => Shared(job'))
    <2>. HIDE DEF j, t, reversed
    <2>1. CASE Exempt(j)
      BY <1>4, <1>5, <1>6, <2>1
    <2>2. CASE ~Exempt(j)
      <3>1. k \in Captains
        BY <1>4, <2>2 DEF Exempt
      <3>2. job' = [j EXCEPT !.settled = t] /\ wallet' = [reversed EXCEPT ![k] = @ + t]
        BY <1>6, <2>2
      <3>3. job' \in Job
        BY <1>4, <1>7, <3>2 DEF Job
      <3>4. wallet' \in [Captains -> Int]
        BY <1>5, <1>7, <3>1, <3>2
      <3>5. Shared(j) => Shared(job')
        BY <1>4, <3>2 DEF Shared, Total, Job
      <3>. QED BY <3>3, <3>4, <3>5
    <2>. QED BY <2>1, <2>2
  <1>. HIDE DEF j, t, reversed
  <1>9. handed' \in BOOLEAN
    BY <1>6 DEF Fits, WalletTypeOK
  <1>10. call' \in [Calls -> Call] /\ CallsFit'
    BY <1>6, SameCalls
  <1>11. Fits'
    BY <1>6, <1>8, <1>9, <1>10, JobStepFits DEF Aside, Fits, WalletTypeOK
  <1>12. SharesAddUp'
    BY <1>4, <1>6, <1>8, SharesAreShared DEF Aside, SharesAddUp, Shared, Total
  <1>. QED BY <1>11, <1>12

LEMMA WorkedFits == ASSUME Fits, SharesAddUp, Worked PROVE Fits' /\ SharesAddUp'
  <1>0. job \in Job /\ Prices \subseteq Nat
    BY WalletAssumption DEF Fits, WalletTypeOK
  <1>1. ASSUME NEW k \in Captains, Assign(k) PROVE Fits' /\ SharesAddUp'
    <2>1. job' \in Job /\ (Shared(job) => Shared(job'))
      BY <1>0, <1>1 DEF Assign, Job, Open, Shared, Total
    <2>. QED BY <1>1, <2>1, SameCalls, WrittenFits DEF Assign, Unposted
  <1>2. ASSUME NEW k \in Captains \cup {Nobody}, AdminGive(k) PROVE Fits' /\ SharesAddUp'
    BY <1>2, GivenFits
  <1>3. CASE Begin
    <2>1. job' \in Job /\ (Shared(job) => Shared(job'))
      BY <1>0, <1>3 DEF Begin, Job, Open, Shared, Total
    <2>. QED BY <1>3, <2>1, SameCalls, WrittenFits DEF Begin, Unposted
  <1>4. CASE Complete
    <2>. DEFINE j == [job EXCEPT !.status = "done"]
    <2>1. j \in Job /\ (Shared(job) => Shared(j))
      BY <1>0, <1>4 DEF Complete, Job, Open, Shared, Total
    <2>2. Settle(j) /\ Aside /\ UNCHANGED <<hand, handed, call>>
      BY <1>4 DEF Complete
    <2>. HIDE DEF j
    <2>. QED BY <2>1, <2>2, SameCalls, SettledFits DEF Fits, WalletTypeOK
  <1>5. CASE Cancel
    <2>1. job' \in Job /\ (Shared(job) => Shared(job'))
      BY <1>0, <1>5 DEF Cancel, Job, Open, Shared, Total
    <2>. QED BY <1>5, <2>1, SameCalls, WrittenFits DEF Cancel, Unposted
  <1>6. CASE MarkDone
    <2>. DEFINE n == Total(job)
    <2>1. n \in Int
      <3>1. job.price \in Nat /\ job.discount \in Nat /\ job.added \in Nat
        BY <1>0 DEF Job
      <3>. QED BY <3>1 DEF Total
    <2>2. job' = [job EXCEPT !.status = "closed", !.captain = Nobody, !.earn = 0, !.platform = n, !.paid = n]
      BY <1>6 DEF MarkDone
    <2>3. Total(job') = n
      BY <1>0, <2>2 DEF Total, Job
    <2>. HIDE DEF n
    <2>4. job' \in Job
      BY <1>0, <2>1, <2>2, ClosedIsAJob
    <2>5. job'.earn = 0 /\ job'.platform = n /\ job'.status = "closed"
      BY <1>0, <2>2 DEF Job
    <2>6. Shared(job')
      BY <2>1, <2>3, <2>5 DEF Shared
    <2>. QED BY <1>6, <2>4, <2>6, SameCalls, WrittenFits DEF MarkDone, Unposted
  <1>7. CASE AdminReopen
    <2>. DEFINE j == [job EXCEPT !.status = "started"]
    <2>1. j \in Job /\ (Shared(job) => Shared(j))
      BY <1>0, <1>7 DEF AdminReopen, Job, Open, Shared, Total
    <2>2. Settle(j) /\ Aside /\ UNCHANGED <<hand, handed, call>>
      BY <1>7 DEF AdminReopen
    <2>. HIDE DEF j
    <2>. QED BY <2>1, <2>2, SameCalls, SettledFits DEF Fits, WalletTypeOK
  <1>8. CASE PayOnline
    <2>. DEFINE n == Total(job)
    <2>1. n \in Int
      <3>1. job.price \in Nat /\ job.discount \in Nat /\ job.added \in Nat
        BY <1>0 DEF Job
      <3>. QED BY <3>1 DEF Total
    <2>2. job' = [job EXCEPT !.paid = n]
      BY <1>8 DEF PayOnline
    <2>. HIDE DEF n
    <2>3. job' \in Job /\ (Shared(job) => Shared(job'))
      BY <1>0, <2>1, <2>2 DEF Job, Shared, Total
    <2>. QED BY <1>8, <2>3, SameCalls, WrittenFits DEF PayOnline, Aside, Unposted
  <1>. QED BY <1>1, <1>2, <1>3, <1>4, <1>5, <1>6, <1>7, <1>8 DEF Worked

-----------------------------------------------------------------------------
LEMMA PaidIsAJob ==
  ASSUME NEW j \in Job, NEW e \in Nat, NEW n \in Int, NEW l \in Nat
  PROVE  [j EXCEPT !.earn = e, !.platform = n, !.late = l] \in Job
  BY DEF Job

LEMMA MovedIsAJob ==
  ASSUME NEW j \in Job, NEW s \in Open \cup {"done", "closed", "cancelled"}, NEW l \in Nat
  PROVE  [j EXCEPT !.status = s, !.late = l] \in Job
  BY DEF Job

LEMMA LetGoIsAJob ==
  ASSUME NEW j \in Job, NEW s \in Open \cup {"done", "closed", "cancelled"}, NEW k \in Captains \cup {Nobody},
         NEW l \in Nat
  PROVE  [j EXCEPT !.status = s, !.captain = k, !.late = l] \in Job
  BY DEF Job

\* Going, or letting go, with new shares and a new penalty.
LEMMA SharesWritten ==
  ASSUME Fits, SharesAddUp, UNCHANGED <<changes, drawVars, keys, wallet, hand, handed>>,
         stale' \in BOOLEAN, job' \in Job, ~stale' => Shared(job'), call' \in [Calls -> Call], CallsFit'
  PROVE  Fits' /\ SharesAddUp'
  <1>1. Fits'
    BY DEF Fits, WalletTypeOK, drawVars
  <1>2. SharesAddUp'
    BY DEF SharesAddUp, Shared, Total
  <1>. QED BY <1>1, <1>2

LEMMA SetOffFits == ASSUME Fits, SharesAddUp, NEW a \in Calls, SetOff(a) PROVE Fits' /\ SharesAddUp'
  <1>. DEFINE seen == call[a].seen
              n == call[a].amount
              on == [job EXCEPT !.status = "heading", !.late = 0]
              far == Late(on, seen, n)
  <1>1. call' \in [Calls -> Call] /\ CallsFit' /\ UNCHANGED <<changes, drawVars, keys, wallet, hand, handed>>
    BY OverFits DEF SetOff, Unposted
  <1>2. seen \in Job /\ n \in Nat /\ n <= seen.earn /\ job \in Job /\ stale \in BOOLEAN
    BY DEF SetOff, Fits, CallsFit, WalletTypeOK
  <1>3. CASE ~(job.status = "assigned" /\ job.captain = call[a].by)
    <2>1. UNCHANGED <<job, stale>>
      BY <1>3 DEF SetOff
    <2>. QED BY <1>1, <1>2, <2>1, SharesWritten, SharesAreShared
  <1>4. CASE job.status = "assigned" /\ job.captain = call[a].by
    <2>1. /\ job' = IF n = 0 THEN on ELSE far
          /\ stale' = (stale \/ (n # 0 /\ SharesMoved(seen)))
      BY <1>4 DEF SetOff
    <2>2. on \in Job
      <3>1. "heading" \in Open \cup {"done", "closed", "cancelled"} /\ 0 \in Nat
        BY DEF Open
      <3>. QED BY <1>2, <3>1, MovedIsAJob, Zenon
    <2>3. /\ on.status = "heading" /\ on.price = job.price /\ on.earn = job.earn /\ on.platform = job.platform
          /\ on.late = 0 /\ Total(on) = Total(job)
      BY <1>2 DEF Job, Total
    <2>. HIDE DEF on, seen, n
    <2>4. far \in Job
      <3>1. seen.earn - n \in Nat /\ seen.platform + n \in Int
        BY <1>2 DEF Job
      <3>. QED BY <1>2, <2>2, <3>1, PaidIsAJob DEF Late
    <2>5. /\ far.status = "heading" /\ far.price = job.price /\ far.earn = seen.earn - n
          /\ far.platform = seen.platform + n /\ far.late = n /\ Total(far) = Total(job)
      BY <1>2, <2>2, <2>3 DEF Late, Job, Total
    <2>. HIDE DEF far
    <2>6. job.earn \in Int /\ job.platform \in Int
      BY <1>2 DEF Job
    <2>7. ~stale' => Shared(job')
      <3>. SUFFICES ASSUME ~stale' PROVE Shared(job')
        OBVIOUS
      <3>1. ~stale /\ (n = 0 \/ ~SharesMoved(seen))
        BY <2>1
      <3>2. Shared(job) /\ job.late = 0
        BY <1>4, <3>1, SharesAreShared DEF Shared
      <3>3. CASE n = 0
        BY <2>1, <2>3, <3>2, <3>3, <1>4 DEF Shared
      <3>4. CASE n # 0
        <4>1. job' = far /\ seen.earn = job.earn /\ seen.platform = job.platform
          BY <2>1, <3>1, <3>4 DEF SharesMoved
        <4>2. job.earn + job.platform = Total(job) /\ job.earn + job.late = Pay[job.price]
          BY <1>4, <3>2 DEF Shared
        <4>3. far.earn + far.platform = Total(far) /\ far.earn + far.late = Pay[far.price]
          BY <1>2, <2>5, <2>6, <3>2, <4>1, <4>2
        <4>. QED BY <2>5, <4>1, <4>3 DEF Shared
      <3>. QED BY <3>3, <3>4
    <2>8. job' \in Job
      BY <2>1, <2>2, <2>4
    <2>9. stale' \in BOOLEAN
      BY <1>2, <2>1, Zenon
    <2>. QED BY <1>1, <2>7, <2>8, <2>9, SharesWritten
  <1>. QED BY <1>3, <1>4

LEMMA ReleaseFits == ASSUME Fits, SharesAddUp, NEW a \in Calls, Release(a) PROVE Fits' /\ SharesAddUp'
  <1>. DEFINE seen == call[a].seen
              off == [job EXCEPT !.status = "pending", !.captain = Nobody, !.late = 0]
              full == Restored(off, seen)
  <1>1. call' \in [Calls -> Call] /\ CallsFit' /\ UNCHANGED <<changes, drawVars, keys, wallet, hand, handed>>
    BY OverFits DEF Release, Unposted
  <1>2. seen \in Job /\ seen.status # "closed" /\ job \in Job /\ stale \in BOOLEAN
    BY DEF Release, Fits, CallsFit, WalletTypeOK
  <1>3. CASE ~(job.status = seen.status /\ job.captain = call[a].by)
    <2>1. UNCHANGED <<job, stale>>
      BY <1>3 DEF Release
    <2>. QED BY <1>1, <1>2, <2>1, SharesWritten, SharesAreShared
  <1>4. CASE job.status = seen.status /\ job.captain = call[a].by
    <2>1. /\ job' = IF seen.late = 0 THEN off ELSE full
          /\ stale' = (stale \/ (seen.late # 0 /\ SharesMoved(seen)) \/ seen.late # job.late)
      BY <1>4 DEF Release
    <2>2. off \in Job
      <3>1. "pending" \in Open \cup {"done", "closed", "cancelled"} /\ 0 \in Nat /\ Nobody \in Captains \cup {Nobody}
        BY DEF Open
      <3>. QED BY <1>2, <3>1, LetGoIsAJob, Zenon
    <2>3. /\ off.status = "pending" /\ off.price = job.price /\ off.earn = job.earn /\ off.platform = job.platform
          /\ off.late = 0 /\ Total(off) = Total(job)
      BY <1>2 DEF Job, Total
    <2>. HIDE DEF off, seen
    <2>4. full \in Job
      <3>1. seen.earn + seen.late \in Nat /\ seen.platform - seen.late \in Int /\ 0 \in Nat
        BY <1>2 DEF Job
      <3>. QED BY <2>2, <3>1, PaidIsAJob, Zenon DEF Restored
    <2>5. /\ full.status = "pending" /\ full.price = job.price /\ full.earn = seen.earn + seen.late
          /\ full.platform = seen.platform - seen.late /\ full.late = 0 /\ Total(full) = Total(job)
      BY <1>2, <2>2, <2>3 DEF Restored, Job, Total
    <2>. HIDE DEF full
    <2>6. job.earn \in Int /\ job.platform \in Int /\ job.late \in Nat
      BY <1>2 DEF Job
    <2>7. ~stale' => Shared(job')
      <3>. SUFFICES ASSUME ~stale' PROVE Shared(job')
        OBVIOUS
      <3>1. ~stale /\ (seen.late = 0 \/ ~SharesMoved(seen)) /\ seen.late = job.late
        BY <2>1
      <3>2. Shared(job) /\ job.status # "closed"
        BY <1>2, <1>4, <3>1, SharesAreShared
      <3>3. job.earn + job.platform = Total(job) /\ job.earn + job.late = Pay[job.price]
        BY <3>2 DEF Shared
      <3>4. CASE seen.late = 0
        BY <2>1, <2>3, <2>6, <3>1, <3>3, <3>4 DEF Shared
      <3>5. CASE seen.late # 0
        <4>1. job' = full /\ seen.earn = job.earn /\ seen.platform = job.platform
          BY <2>1, <3>1, <3>5 DEF SharesMoved
        <4>2. full.earn + full.platform = Total(full) /\ full.earn + full.late = Pay[full.price]
          BY <2>5, <2>6, <3>1, <3>3, <4>1
        <4>. QED BY <2>5, <4>1, <4>2 DEF Shared
      <3>. QED BY <3>4, <3>5
    <2>8. job' \in Job
      BY <2>1, <2>2, <2>4
    <2>9. stale' \in BOOLEAN
      BY <1>2, <2>1, Zenon
    <2>. QED BY <1>1, <2>7, <2>8, <2>9, SharesWritten
  <1>. QED BY <1>3, <1>4

LEMMA CollectFits == ASSUME Fits, SharesAddUp, NEW a \in Calls, Collect(a) PROVE Fits' /\ SharesAddUp'
  <1>. DEFINE c == call[a]
              key == <<c.by, c.seen.paid, Total(c.seen)>>
              n == Least(Due(job), c.amount)
              m == job.cash + CashTaken(c.amount)
              p == job.paid + n
              j == [job EXCEPT !.paid = p, !.cash = m]
  <1>1. call' \in [Calls -> Call] /\ CallsFit' /\ Aside
    BY OverFits DEF Collect
  <1>2. c.by \in Captains /\ c.amount \in Nat /\ job \in Job /\ handed \in BOOLEAN
    BY DEF Collect, Fits, CallsFit, WalletTypeOK
  <1>3. CASE key \in keys
    <2>1. UNCHANGED <<job, keys, wallet, hand, handed>>
      BY <1>3 DEF Collect
    <2>. QED BY <1>1, <1>2, <2>1, WrittenFits DEF Aside
  <1>4. CASE key \notin keys
    <2>1. Due(job) \in Int
      <3>1. Total(job) \in Int /\ job.paid \in Int
        <4>1. job.price \in Nat /\ job.discount \in Nat /\ job.added \in Nat /\ job.paid \in Int
          BY <1>2, WalletAssumption DEF Job
        <4>. QED BY <4>1 DEF Total
      <3>. QED BY <3>1 DEF Due
    <2>2. n \in Int
      BY <1>2, <2>1 DEF Least
    <2>3. m \in Int /\ p \in Int
      <3>. HIDE DEF n
      <3>. QED BY <1>2, <2>2 DEF CashTaken, Job
    <2>4. /\ hand' = [hand EXCEPT ![c.by] = @ + c.amount]
          /\ handed' = (handed \/ job.captain # c.by)
          /\ Settle(j)
      BY <1>4 DEF Collect
    <2>5. j \in Job /\ (Shared(job) => Shared(j))
      <3>. HIDE DEF m, p
      <3>. QED BY <1>2, <2>3 DEF Job, Shared, Total
    <2>6. hand' \in [Captains -> Int]
      BY <1>2, <2>4 DEF Fits, WalletTypeOK
    <2>7. handed' \in BOOLEAN
      BY <1>2, <2>4, Zenon
    <2>. HIDE DEF j
    <2>. QED BY <1>1, <2>4, <2>5, <2>6, <2>7, SettledFits
  <1>. QED BY <1>3, <1>4

\* Calls that read, and the withdrawals.
LEMMA ReadsFit ==
  ASSUME Fits, SharesAddUp, NEW a \in Calls, NEW k \in Captains,
         (\E n \in 0..Penalty : ReadToSetOff(a, k, n)) \/ ReadToRelease(a, k) \/ ReadToCollect(a, k)
  PROVE  Fits' /\ SharesAddUp'
  <1>. USE DEF Fits
  <1>0. job \in Job
    BY DEF WalletTypeOK
  <1>1. ASSUME NEW n \in 0..Penalty, ReadToSetOff(a, k, n) PROVE Fits' /\ SharesAddUp'
    <2>. DEFINE m == Least(n, job.earn)
                r == Reading("setoff", k, m)
    <2>1. UNCHANGED <<jobVars, drawVars, wallet>> /\ Starts(a, r)
      BY <1>1 DEF ReadToSetOff
    <2>2. m \in Nat /\ m <= job.earn
      BY <1>0, <1>1 DEF Least, Job
    <2>. HIDE DEF m
    <2>3. /\ r \in Call /\ r.op = "setoff" /\ r.step = "write" /\ r.by = k /\ r.seen = job /\ r.amount = m
      BY <1>0, <2>2 DEF Reading, Call
    <2>. HIDE DEF r
    <2>4. call' \in [Calls -> Call] /\ CallsFit'
      BY <1>0, <2>1, <2>2, <2>3, StartFits
    <2>. QED BY <2>1, <2>4, WrittenFits, <1>0 DEF jobVars
  <1>2. CASE ReadToRelease(a, k)
    <2>. DEFINE r == Reading("release", k, 0)
    <2>1. UNCHANGED <<jobVars, drawVars, wallet>> /\ Starts(a, r) /\ job.status # "closed"
      BY <1>2 DEF ReadToRelease
    <2>2. /\ r \in Call /\ r.op = "release" /\ r.step = "write" /\ r.by = k /\ r.seen = job /\ r.amount = 0
      BY <1>0 DEF Reading, Call
    <2>. HIDE DEF r
    <2>3. call' \in [Calls -> Call] /\ CallsFit'
      BY <1>0, <2>1, <2>2, StartFits
    <2>. QED BY <2>1, <2>3, WrittenFits, <1>0 DEF jobVars
  <1>3. CASE ReadToCollect(a, k)
    <2>. DEFINE m == Due(job)
                r == Reading("collect", k, m)
    <2>1. UNCHANGED <<jobVars, drawVars, wallet>> /\ Starts(a, r) /\ m > 0
      BY <1>3 DEF ReadToCollect
    <2>2. m \in Nat
      <3>1. job.price \in Nat /\ job.discount \in Nat /\ job.added \in Nat /\ job.paid \in Int
        BY <1>0, WalletAssumption DEF Job
      <3>2. Total(job) \in Int
        BY <3>1 DEF Total
      <3>. QED BY <2>1, <3>1, <3>2 DEF Due
    <2>. HIDE DEF m
    <2>3. /\ r \in Call /\ r.op = "collect" /\ r.step = "write" /\ r.by = k /\ r.seen = job /\ r.amount = m
      BY <1>0, <2>2 DEF Reading, Call
    <2>. HIDE DEF r
    <2>4. call' \in [Calls -> Call] /\ CallsFit'
      BY <1>0, <2>1, <2>2, <2>3, StartFits
    <2>. QED BY <2>1, <2>4, WrittenFits, <1>0 DEF jobVars
  <1>. QED BY <1>1, <1>2, <1>3

LEMMA ReviewsFit ==
  ASSUME Fits, SharesAddUp, NEW a \in Calls, NEW w \in Withdrawals, NEW to \in {"approved", "rejected", "paid"},
         Review(a, w, to)
  PROVE  Fits' /\ SharesAddUp'
  <1>. DEFINE s == request[w].status
              r == [op |-> "review", step |-> "claim", by |-> Nobody, seen |-> Unseen, amount |-> 0,
                    w |-> w, from |-> s, to |-> to]
  <1>1. UNCHANGED <<jobVars, drawVars, wallet>> /\ Starts(a, r) /\ to \in Moves[s]
    BY DEF Review
  <1>2. s \in {"none", "pending", "approved", "rejected", "paid"}
    BY DEF Fits, WalletTypeOK, Request
  <1>3. s \in {"pending", "approved"}
    BY <1>1, <1>2 DEF Moves
  <1>. HIDE DEF s
  <1>4. r \in Call /\ r.op = "review" /\ r.step = "claim" /\ r.w = w /\ r.from = s /\ r.to = to
    BY <1>3 DEF Call
  <1>. HIDE DEF r
  <1>5. call' \in [Calls -> Call] /\ CallsFit'
    BY <1>1, <1>3, <1>4, StartFits
  <1>6. UNCHANGED <<changes, stale, drawVars, keys, wallet, hand, handed, job>>
    BY <1>1 DEF jobVars
  <1>. QED BY <1>5, <1>6, WrittenFits DEF Fits, WalletTypeOK

-----------------------------------------------------------------------------
LEMMA AskFits ==
  ASSUME Fits, SharesAddUp, NEW w \in Withdrawals, NEW k \in Captains, NEW n \in Amounts, Ask(w, k, n)
  PROVE  Fits' /\ SharesAddUp'
  <1>. DEFINE r == [status |-> "pending", captain |-> k, amount |-> n]
  <1>1. n \in Nat
    BY WalletAssumption
  <1>2. r \in Request
    BY <1>1 DEF Request
  <1>3. request' = [request EXCEPT ![w] = r] /\ UNCHANGED <<jobVars, wallet, debits, muddled, call>>
    BY DEF Ask
  <1>. HIDE DEF r
  <1>. QED BY <1>2, <1>3, SameCalls, DrawStepFits DEF Fits, WalletTypeOK

\* A call in the midst of a review goes on, ends or dies.
LEMMA ClaimFits == ASSUME Fits, SharesAddUp, NEW a \in Calls, Claim(a) PROVE Fits' /\ SharesAddUp'
  <1>1. call[a].step = "claim" /\ UNCHANGED <<jobVars, wallet, debits>>
    BY DEF Claim
  <1>2. call[a] \in Call /\ call[a].w \in Withdrawals /\ call[a].to # "none"
    BY <1>1 DEF Fits, WalletTypeOK, CallsFit
  <1>3. call[a].to \in {"approved", "rejected", "paid"}
    BY <1>2 DEF Call
  <1>4. call' \in [Calls -> Call] /\ CallsFit'
    <2>1. Over(a) \/ call' = [call EXCEPT ![a].step = "money"]
      BY DEF Claim
    <2>2. CASE Over(a)
      BY <2>2, OverFits
    <2>3. CASE call' = [call EXCEPT ![a].step = "money"]
      BY <1>1, <2>3, StepFits
    <2>. QED BY <2>1, <2>2, <2>3
  <1>5. request' \in [Withdrawals -> Request]
    <2>1. request' = request \/ request' = [request EXCEPT ![call[a].w].status = call[a].to]
      BY DEF Claim
    <2>. QED BY <1>2, <1>3, <2>1 DEF Fits, WalletTypeOK, Request
  <1>6. muddled' \subseteq Withdrawals
    BY <1>2 DEF Claim, Fits, WalletTypeOK
  <1>. QED BY <1>1, <1>4, <1>5, <1>6, DrawStepFits DEF Fits, WalletTypeOK

LEMMA MoneyTyped ==
  ASSUME Fits, NEW a \in Calls, MoneyMoves(call[a])
  PROVE  /\ wallet' \in [Captains -> Int] /\ debits' \in [Withdrawals -> Int]
         /\ call[a].step = "money" /\ call[a].w \in Withdrawals
  <1>. DEFINE w == call[a].w
              r == request[w]
              d == Drawn(call[a])
  <1>1. call[a].step = "money"
    BY DEF MoneyMoves
  <1>2. w \in Withdrawals
    BY <1>1 DEF Fits, CallsFit
  <1>3. r.amount \in Nat /\ d \in Int /\ d * r.amount \in Int
    <2>1. r \in Request /\ d \in Int
      BY <1>2 DEF Fits, WalletTypeOK, Drawn
    <2>2. r.amount \in Nat
      BY <2>1 DEF Request
    <2>. QED BY <2>1, <2>2
  <1>4. /\ wallet' = [wallet EXCEPT ![r.captain] = @ - d * r.amount]
        /\ debits' = [debits EXCEPT ![w] = @ + d]
    BY DEF MoneyMoves
  <1>. HIDE DEF d
  <1>5. wallet' \in [Captains -> Int]
    <2>. DEFINE m == d * r.amount
    <2>1. m \in Int
      BY <1>3
    <2>2. wallet' = [wallet EXCEPT ![r.captain] = @ - m]
      BY <1>4
    <2>. HIDE DEF m
    <2>3. \A k \in Captains : wallet[k] \in Int /\ wallet[k] - m \in Int
      BY <2>1 DEF Fits, WalletTypeOK
    <2>4. wallet \in [Captains -> Int]
      BY DEF Fits, WalletTypeOK
    <2>. HIDE DEF r
    <2>. QED BY <2>2, <2>3, <2>4
  <1>6. debits' \in [Withdrawals -> Int]
    BY <1>2, <1>3, <1>4 DEF Fits, WalletTypeOK
  <1>. QED BY <1>1, <1>2, <1>5, <1>6

LEMMA MoneyFits ==
  ASSUME Fits, SharesAddUp, NEW a \in Calls, Draw(a) \/ DrawFails(a) \/ RowFails(a)
  PROVE  Fits' /\ SharesAddUp'
  <1>1. CASE Draw(a)
    BY <1>1, MoneyTyped, OverFits, DrawStepFits DEF Draw, Fits, WalletTypeOK
  <1>2. CASE DrawFails(a)
    <2>1. call' \in [Calls -> Call] /\ CallsFit'
      BY <1>2, StepFits DEF DrawFails
    <2>. QED BY <1>2, <2>1, DrawStepFits DEF DrawFails, drawVars, Fits, WalletTypeOK
  <1>3. CASE RowFails(a)
    <2>1. call[a].step = "money" /\ call[a].w \in Withdrawals
          /\ wallet' \in [Captains -> Int] /\ debits' \in [Withdrawals -> Int]
      BY <1>3, MoneyTyped DEF RowFails
    <2>2. call' \in [Calls -> Call] /\ CallsFit'
      BY <1>3, <2>1, StepFits DEF RowFails
    <2>. QED BY <1>3, <2>1, <2>2, DrawStepFits DEF RowFails, Fits, WalletTypeOK
  <1>. QED BY <1>1, <1>2, <1>3

LEMMA HandBackFits == ASSUME Fits, SharesAddUp, NEW a \in Calls, HandBack(a) PROVE Fits' /\ SharesAddUp'
  <1>1. call[a].step = "handback" /\ UNCHANGED <<jobVars, wallet, debits>> /\ Over(a)
    BY DEF HandBack
  <1>2. call[a] \in Call /\ call[a].w \in Withdrawals /\ call[a].from # "none"
    BY <1>1 DEF Fits, WalletTypeOK, CallsFit
  <1>3. call[a].from \in {"pending", "approved"}
    BY <1>2 DEF Call
  <1>4. request' \in [Withdrawals -> Request]
    <2>1. request' = request \/ request' = [request EXCEPT ![call[a].w].status = call[a].from]
      BY DEF HandBack
    <2>. QED BY <1>2, <1>3, <2>1 DEF Fits, WalletTypeOK, Request
  <1>5. muddled' \subseteq Withdrawals
    BY <1>2 DEF HandBack, Fits, WalletTypeOK
  <1>. QED BY <1>1, <1>4, <1>5, OverFits, DrawStepFits DEF Fits, WalletTypeOK

LEMMA DiesFits == ASSUME Fits, SharesAddUp, NEW a \in Calls, Dies(a) PROVE Fits' /\ SharesAddUp'
  <1>1. Over(a) /\ UNCHANGED <<jobVars, wallet, request, debits>>
    BY DEF Dies
  <1>2. muddled' \subseteq Withdrawals
    BY DEF Dies, Fits, WalletTypeOK, CallsFit
  <1>. QED BY <1>1, <1>2, OverFits, DrawStepFits DEF Fits, WalletTypeOK

LEMMA FitsStep == ASSUME Fits, SharesAddUp, [WalletNext]_vars PROVE Fits' /\ SharesAddUp'
  <1>1. CASE UNCHANGED vars
    <2>1. UNCHANGED <<jobVars, drawVars, wallet, call>>
      BY <1>1 DEF vars
    <2>. QED BY <2>1, SameCalls, DrawStepFits DEF drawVars, Fits, WalletTypeOK
  <1>2. CASE Priced
    BY <1>2, PricedFits
  <1>3. CASE Worked
    BY <1>3, WorkedFits
  <1>4. ASSUME NEW w \in Withdrawals, NEW k \in Captains, NEW n \in Amounts, Ask(w, k, n)
        PROVE  Fits' /\ SharesAddUp'
    BY <1>4, AskFits
  <1>5. ASSUME NEW a \in Calls, Called(a) PROVE Fits' /\ SharesAddUp'
    <2>1. CASE \E k \in Captains : (\E n \in 0..Penalty : ReadToSetOff(a, k, n)) \/ ReadToRelease(a, k) \/ ReadToCollect(a, k)
      BY <2>1, ReadsFit
    <2>2. CASE SetOff(a) \/ Release(a) \/ Collect(a)
      BY <2>2, SetOffFits, ReleaseFits, CollectFits
    <2>3. CASE \E w \in Withdrawals : \E to \in {"approved", "rejected", "paid"} : Review(a, w, to)
      BY <2>3, ReviewsFit
    <2>4. CASE Claim(a) \/ Draw(a) \/ DrawFails(a) \/ RowFails(a) \/ HandBack(a) \/ Dies(a)
      BY <2>4, ClaimFits, MoneyFits, HandBackFits, DiesFits
    <2>. QED BY <1>5, <2>1, <2>2, <2>3, <2>4 DEF Called
  <1>. QED BY <1>1, <1>2, <1>3, <1>4, <1>5 DEF WalletNext

-----------------------------------------------------------------------------
\* A call between its claim on w and the end of it.
Busy(a, w) == call[a].w = w /\ call[a].step \in {"money", "handback"}

\* Such a call is alone, the request stands where it put it, and the money has not moved.
Alone(w) ==
    /\ \A a \in Calls : \A b \in Calls : Busy(a, w) /\ Busy(b, w) => a = b
    /\ \A a \in Calls : Busy(a, w) =>
         /\ MovesMoney(call[a]) /\ request[w].status = call[a].to
         /\ debits[w] = IF call[a].from = "approved" THEN 1 ELSE 0

Once(w) == (\A a \in Calls : ~Busy(a, w)) =>
             debits[w] = IF request[w].status \in {"approved", "paid"} THEN 1 ELSE 0

ClaimsAreMoves == \A a \in Calls : call[a].step = "claim" => call[a].to \in Moves[call[a].from]
DrawInv == ClaimsAreMoves /\ \A w \in Withdrawals : w \notin muddled => Alone(w) /\ Once(w)

LEMMA OnceMeansOnce == DrawInv => DebitedOnce
  BY DEF DrawInv, Once, Busy, DebitedOnce, UnderWay

LEMMA DrawInit == WalletInit => DrawInv
  BY QuietIsACall DEF WalletInit, DrawInv, ClaimsAreMoves, Alone, Once, Busy

\* A step of one call that is in no review's midst, before or after, and of no request.
LEMMA OtherCalls ==
  ASSUME Fits, DrawInv, NEW a \in Calls, UNCHANGED drawVars, \A b \in Calls : b # a => call'[b] = call[b],
         call[a].step \notin {"money", "handback"}, call'[a].step \notin {"money", "handback"},
         call'[a].step = "claim" => call'[a].to \in Moves[call'[a].from]
  PROVE  DrawInv'
  <1>1. \A w \in Withdrawals : \A b \in Calls : Busy(b, w)' <=> Busy(b, w)
    BY DEF Busy
  <1>2. \A w \in Withdrawals : \A b \in Calls : Busy(b, w) => b # a
    BY DEF Busy
  <1>3. ClaimsAreMoves'
    BY DEF DrawInv, ClaimsAreMoves, Moves
  <1>4. ASSUME NEW w \in Withdrawals, w \notin muddled PROVE Alone(w)' /\ Once(w)'
    <2>1. Alone(w) /\ Once(w) /\ UNCHANGED <<request, debits>>
      BY <1>4 DEF DrawInv, drawVars
    <2>2. Alone(w)'
      BY <1>1, <1>2, <2>1 DEF Alone, MovesMoney
    <2>3. Once(w)'
      BY <1>1, <2>1 DEF Once
    <2>. QED BY <2>2, <2>3
  <1>. QED BY <1>3, <1>4 DEF DrawInv, drawVars

LEMMA NoCalls == ASSUME DrawInv, UNCHANGED <<drawVars, call>> PROVE DrawInv'
  BY DEF DrawInv, ClaimsAreMoves, Moves, drawVars, Alone, Once, Busy, MovesMoney

LEMMA EndsQuiet ==
  ASSUME Fits, NEW a \in Calls, Over(a)
  PROVE  call'[a].step = "idle" /\ \A b \in Calls : b # a => call'[b] = call[b]
  BY DEF Over, Quiet, Fits, WalletTypeOK

LEMMA JobDraws ==
  ASSUME Fits, DrawInv, Priced \/ Worked \/ \E a \in Calls : SetOff(a) \/ Release(a) \/ Collect(a)
  PROVE  DrawInv'
  <1>1. CASE Priced
    BY <1>1, NoCalls DEF Priced, SetDiscount, AddServices, Edit, Change, drawVars
  <1>2. CASE Worked
    BY <1>2, NoCalls DEF Worked, Assign, AdminGive, Begin, Complete, Cancel, MarkDone, AdminReopen, PayOnline, Aside
  <1>3. ASSUME NEW a \in Calls, SetOff(a) \/ Release(a) \/ Collect(a) PROVE DrawInv'
    <2>1. call[a].op # "review" /\ Over(a) /\ UNCHANGED drawVars
      BY <1>3 DEF SetOff, Release, Collect, Aside
    <2>2. call[a].step \notin {"money", "handback"}
      BY <2>1 DEF Fits, CallsFit
    <2>. QED BY <2>1, <2>2, EndsQuiet, OtherCalls
  <1>. QED BY <1>1, <1>2, <1>3

LEMMA ReadDraws ==
  ASSUME Fits, DrawInv, NEW a \in Calls,
         \/ \E k \in Captains : (\E n \in 0..Penalty : ReadToSetOff(a, k, n)) \/ ReadToRelease(a, k) \/ ReadToCollect(a, k)
         \/ \E w \in Withdrawals : \E to \in {"approved", "rejected", "paid"} : Review(a, w, to)
  PROVE  DrawInv'
  <1>1. call[a].step = "idle" /\ UNCHANGED drawVars /\ \A b \in Calls : b # a => call'[b] = call[b]
    BY QuietIsACall DEF ReadToSetOff, ReadToRelease, ReadToCollect, Review, Starts, Fits, WalletTypeOK
  <1>2. call'[a].step \in {"write", "claim"} /\ (call'[a].step = "claim" => call'[a].to \in Moves[call'[a].from])
    <2>1. ASSUME NEW k \in Captains, (\E n \in 0..Penalty : ReadToSetOff(a, k, n)) \/ ReadToRelease(a, k) \/ ReadToCollect(a, k)
          PROVE  call'[a].step = "write"
      BY <2>1 DEF ReadToSetOff, ReadToRelease, ReadToCollect, Starts, Reading, Fits, WalletTypeOK
    <2>2. ASSUME NEW w \in Withdrawals, NEW to \in {"approved", "rejected", "paid"}, Review(a, w, to)
          PROVE  call'[a].step = "claim" /\ call'[a].to \in Moves[call'[a].from]
      <3>1. /\ call' = [call EXCEPT ![a] = [op |-> "review", step |-> "claim", by |-> Nobody, seen |-> Unseen,
                          amount |-> 0, w |-> w, from |-> request[w].status, to |-> to]]
            /\ to \in Moves[request[w].status]
        BY <2>2 DEF Review, Starts
      <3>. QED BY <3>1 DEF Fits, WalletTypeOK
    <2>. QED BY <2>1, <2>2
  <1>. QED BY <1>1, <1>2, OtherCalls

\* A step of call a in a review of u: the other requests are as they were.
LEMMA OtherRequests ==
  ASSUME Fits, DrawInv, NEW a \in Calls, NEW u \in Withdrawals,
         \A b \in Calls : b # a => call'[b] = call[b],
         call[a].w = u, call'[a].w \in {u, Nobody}, Nobody \notin Withdrawals, call'[a].step # "claim",
         \A w \in Withdrawals : w # u => request'[w] = request[w] /\ debits'[w] = debits[w],
         muddled \subseteq muddled',
         u \notin muddled' => Alone(u)' /\ Once(u)'
  PROVE  DrawInv'
  <1>1. ClaimsAreMoves'
    BY DEF DrawInv, ClaimsAreMoves, Moves
  <1>2. ASSUME NEW w \in Withdrawals, w # u, w \notin muddled' PROVE Alone(w)' /\ Once(w)'
    <2>1. Alone(w) /\ Once(w) /\ request'[w] = request[w] /\ debits'[w] = debits[w]
      BY <1>2 DEF DrawInv
    <2>2. \A b \in Calls : (Busy(b, w)' <=> Busy(b, w)) /\ (Busy(b, w) => call'[b] = call[b])
      BY <1>2 DEF Busy
    <2>3. Alone(w)'
      BY <2>1, <2>2 DEF Alone, MovesMoney
    <2>4. Once(w)'
      BY <2>1, <2>2 DEF Once
    <2>. QED BY <2>3, <2>4
  <1>. QED BY <1>1, <1>2 DEF DrawInv

\* Nobody else is in the midst of a review of u.
Sole(a, u) == \A b \in Calls : b # a => ~Busy(b, u)

LEMMA BusyIsSole ==
  ASSUME DrawInv, NEW a \in Calls, NEW u \in Withdrawals, u \notin muddled, Busy(a, u)
  PROVE  Sole(a, u) /\ Alone(u)
  BY DEF DrawInv, Alone, Sole

\* Once a's review of u has ended, u is as Once says if the amount fits its status.
LEMMA Ended ==
  ASSUME NEW a \in Calls, NEW u \in Withdrawals, Sole(a, u), \A b \in Calls : b # a => call'[b] = call[b],
         call'[a].step \notin {"money", "handback"},
         debits'[u] = IF request'[u].status \in {"approved", "paid"} THEN 1 ELSE 0
  PROVE  Alone(u)' /\ Once(u)'
  <1>1. \A b \in Calls : ~Busy(b, u)'
    BY DEF Busy, Sole
  <1>. QED BY <1>1 DEF Alone, Once

LEMMA ReviewDraws ==
  ASSUME Fits, DrawInv, Nobody \notin Withdrawals, NEW a \in Calls, NEW u \in Withdrawals, call[a].w = u,
         Claim(a) \/ Draw(a) \/ DrawFails(a) \/ RowFails(a) \/ HandBack(a)
  PROVE  DrawInv'
  <1>. DEFINE c == call[a]
  <1>0. call \in [Calls -> Call] /\ request \in [Withdrawals -> Request] /\ debits \in [Withdrawals -> Int]
    BY DEF Fits, WalletTypeOK
  <1>1. c.step \in {"claim", "money", "handback"}
    BY DEF Claim, Draw, DrawFails, RowFails, HandBack, MoneyMoves
  <1>2. \A b \in Calls : b # a => call'[b] = call[b]
    BY <1>0 DEF Claim, Draw, DrawFails, RowFails, HandBack, Over
  <1>3. call'[a].w \in {u, Nobody} /\ call'[a].step \in {"idle", "money", "handback"}
    <2>1. Over(a) \/ call' = [call EXCEPT ![a].step = "money"] \/ call' = [call EXCEPT ![a].step = "handback"]
      BY DEF Claim, Draw, DrawFails, RowFails, HandBack
    <2>. QED BY <1>0, <2>1 DEF Over, Quiet, Call
  <1>4. /\ \A w \in Withdrawals : w # u => request'[w] = request[w] /\ debits'[w] = debits[w]
        /\ muddled \subseteq muddled'
    BY <1>0 DEF Claim, Draw, DrawFails, RowFails, HandBack, MoneyMoves, drawVars
  <1>5. ASSUME u \notin muddled' PROVE Alone(u)' /\ Once(u)'
    <2>0. u \notin muddled
      BY <1>4, <1>5
    <2>a. Alone(u) /\ Once(u)
      BY <1>1, <2>0 DEF DrawInv
    <2>b. c.step \in {"money", "handback"} =>
            /\ Sole(a, u) /\ MovesMoney(c) /\ request[u].status = c.to
            /\ debits[u] = IF c.from = "approved" THEN 1 ELSE 0
      BY <1>1, <2>0, <2>a, BusyIsSole DEF Busy, Alone
    <2>1. CASE Claim(a)
      <3>1. c.step = "claim" /\ debits' = debits
        BY <2>1 DEF Claim
      <3>2. c.to \in Moves[c.from]
        BY <3>1 DEF DrawInv, ClaimsAreMoves
      <3>3. CASE ~Claimable(c)
        <4>1. Over(a) /\ request' = request
          BY <2>1, <3>3 DEF Claim
        <4>2. call'[a].step = "idle"
          BY <4>1, EndsQuiet
        <4>3. \A b \in Calls : (Busy(b, u)' <=> Busy(b, u)) /\ (Busy(b, u) => call'[b] = call[b])
          BY <1>2, <3>1, <4>2 DEF Busy
        <4>4. Alone(u)'
          BY <2>a, <3>1, <4>1, <4>3 DEF Alone, MovesMoney
        <4>5. Once(u)'
          BY <2>a, <3>1, <4>1, <4>3 DEF Once
        <4>. QED BY <4>4, <4>5
      <3>4. CASE Claimable(c)
        <4>1. /\ request' = [request EXCEPT ![u].status = c.to]
              /\ muddled' = IF UnderWay(u, Calls) THEN muddled \cup {u} ELSE muddled
              /\ IF MovesMoney(c) THEN call' = [call EXCEPT ![a].step = "money"] ELSE Over(a)
          BY <2>1, <3>4 DEF Claim
        <4>2. Sole(a, u) /\ (\A b \in Calls : ~Busy(b, u))
          BY <1>5, <4>1 DEF UnderWay, Sole, Busy
        <4>3. request'[u].status = c.to /\ request[u].status = c.from
          BY <1>0, <1>1, <3>4, <4>1 DEF Claimable, Request
        <4>4. debits[u] = IF c.from \in {"approved", "paid"} THEN 1 ELSE 0
          BY <2>a, <4>2, <4>3 DEF Once
        <4>5. c.from \in {"none", "pending", "approved"} /\ c.to \in {"none", "approved", "rejected", "paid"}
          BY <1>0 DEF Call
        <4>6. CASE MovesMoney(c)
          <5>1. call'[a].step = "money" /\ call'[a].w = u /\ call'[a].from = c.from /\ call'[a].to = c.to
            BY <1>0, <4>1, <4>6 DEF Call
          <5>2. \A b \in Calls : Busy(b, u)' <=> b = a
            BY <1>2, <4>2, <5>1 DEF Busy
          <5>3. MovesMoney(call[a])'
            BY <4>6, <5>1 DEF MovesMoney
          <5>4. debits'[u] = IF call'[a].from = "approved" THEN 1 ELSE 0
            BY <3>1, <4>4, <4>5, <5>1
          <5>. QED BY <4>3, <5>1, <5>2, <5>3, <5>4 DEF Alone, Once
        <4>7. CASE ~MovesMoney(c)
          <5>1. call'[a].step = "idle"
            BY <4>1, <4>7, EndsQuiet
          <5>2. debits'[u] = IF request'[u].status \in {"approved", "paid"} THEN 1 ELSE 0
            BY <3>1, <3>2, <4>3, <4>4, <4>5, <4>7 DEF Moves, MovesMoney
          <5>. QED BY <1>1, <1>2, <4>2, <5>1, <5>2, Ended
        <4>. QED BY <4>6, <4>7
      <3>. QED BY <3>3, <3>4
    <2>2. CASE Draw(a)
      <3>1. c.step = "money" /\ Over(a) /\ request' = request /\ debits' = [debits EXCEPT ![u] = @ + Drawn(c)]
        BY <2>2 DEF Draw, MoneyMoves
      <3>2. debits'[u] = debits[u] + Drawn(c)
        BY <1>0, <1>1, <3>1
      <3>3. call'[a].step = "idle"
        BY <3>1, EndsQuiet
      <3>4. debits'[u] = IF request'[u].status \in {"approved", "paid"} THEN 1 ELSE 0
        BY <2>b, <3>1, <3>2 DEF MovesMoney, Drawn
      <3>. QED BY <1>1, <1>2, <2>b, <3>1, <3>3, <3>4, Ended
    <2>3. CASE DrawFails(a)
      <3>1. c.step = "money" /\ request' = request /\ debits' = debits /\ call' = [call EXCEPT ![a].step = "handback"]
        BY <2>3 DEF DrawFails, drawVars
      <3>2. call'[a].step = "handback" /\ call'[a].w = u /\ call'[a].from = c.from /\ call'[a].to = c.to
        BY <1>0, <3>1 DEF Call
      <3>3. \A b \in Calls : Busy(b, u)' <=> b = a
        BY <1>2, <2>b, <3>1, <3>2 DEF Busy, Sole
      <3>4. MovesMoney(call[a])'
        BY <2>b, <3>1, <3>2 DEF MovesMoney
      <3>. QED BY <2>b, <3>1, <3>2, <3>3, <3>4 DEF Alone, Once
    <2>4. CASE RowFails(a)
      BY <1>5, <2>4 DEF RowFails
    <2>5. CASE HandBack(a)
      <3>1. c.step = "handback" /\ Over(a) /\ debits' = debits
        BY <2>5 DEF HandBack
      <3>2. request' = [request EXCEPT ![u].status = c.from]
        BY <1>5, <2>5, <2>b, <3>1 DEF HandBack
      <3>3. request'[u].status = c.from
        BY <1>0, <1>1, <3>2 DEF Request
      <3>4. call'[a].step = "idle"
        BY <3>1, EndsQuiet
      <3>5. debits'[u] = IF request'[u].status \in {"approved", "paid"} THEN 1 ELSE 0
        BY <2>b, <3>1, <3>3 DEF MovesMoney
      <3>. QED BY <1>1, <1>2, <2>b, <3>1, <3>4, <3>5, Ended
    <2>. QED BY <2>1, <2>2, <2>3, <2>4, <2>5
  <1>6. call'[a].step # "claim"
    BY <1>3
  <1>. QED BY <1>2, <1>3, <1>4, <1>5, <1>6, OtherRequests

LEMMA AskDraws ==
  ASSUME Fits, DrawInv, NEW u \in Withdrawals, NEW k \in Captains, NEW n \in Amounts, Ask(u, k, n)
  PROVE  DrawInv'
  <1>. DEFINE r == [status |-> "pending", captain |-> k, amount |-> n]
  <1>1. /\ request[u].status = "none" /\ request' = [request EXCEPT ![u] = r]
        /\ UNCHANGED <<debits, muddled, call>> /\ r.status = "pending"
    BY DEF Ask
  <1>. HIDE DEF r
  <1>2. request \in [Withdrawals -> Request]
    BY DEF Fits, WalletTypeOK
  <1>3. \A w \in Withdrawals : w # u => request'[w] = request[w]
    BY <1>1, <1>2
  <1>4. request'[u].status = "pending"
    BY <1>1, <1>2
  <1>5. \A w \in Withdrawals : \A a \in Calls : Busy(a, w)' <=> Busy(a, w)
    BY <1>1 DEF Busy
  <1>6. ASSUME NEW w \in Withdrawals, w \notin muddled PROVE Alone(w)' /\ Once(w)'
    <2>1. Alone(w) /\ Once(w)
      BY <1>6 DEF DrawInv
    <2>2. CASE w # u
      <3>1. Alone(w)'
        BY <1>1, <1>3, <1>5, <2>1, <2>2 DEF Alone, MovesMoney
      <3>2. Once(w)'
        BY <1>1, <1>3, <1>5, <2>1, <2>2 DEF Once
      <3>. QED BY <3>1, <3>2
    <2>3. CASE w = u
      <3>1. \A a \in Calls : ~Busy(a, w)
        BY <1>1, <2>1, <2>3 DEF Alone, MovesMoney
      <3>2. debits[w] = 0
        BY <1>1, <2>1, <2>3, <3>1 DEF Once
      <3>. QED BY <1>1, <1>4, <1>5, <2>3, <3>1, <3>2 DEF Alone, Once
    <2>. QED BY <2>2, <2>3
  <1>7. ClaimsAreMoves'
    BY <1>1 DEF DrawInv, ClaimsAreMoves, Moves
  <1>. QED BY <1>1, <1>6, <1>7 DEF DrawInv

LEMMA DiesDraws == ASSUME Fits, DrawInv, NEW a \in Calls, Dies(a) PROVE DrawInv'
  <1>1. Over(a) /\ UNCHANGED <<request, debits>>
    BY DEF Dies
  <1>2. call'[a].step = "idle" /\ \A b \in Calls : b # a => call'[b] = call[b]
    BY <1>1, EndsQuiet
  <1>3. CASE call[a].step \notin {"money", "handback"}
    <2>1. UNCHANGED drawVars
      BY <1>1, <1>3 DEF Dies, drawVars
    <2>. QED BY <1>2, <1>3, <2>1, OtherCalls
  <1>4. CASE call[a].step \in {"money", "handback"}
    <2>1. muddled' = muddled \cup {call[a].w}
      BY <1>4 DEF Dies
    <2>2. ClaimsAreMoves'
      BY <1>2 DEF DrawInv, ClaimsAreMoves, Moves
    <2>3. ASSUME NEW w \in Withdrawals, w \notin muddled' PROVE Alone(w)' /\ Once(w)'
      <3>1. Alone(w) /\ Once(w) /\ w # call[a].w
        BY <2>1, <2>3 DEF DrawInv
      <3>2. \A b \in Calls : (Busy(b, w)' <=> Busy(b, w)) /\ (Busy(b, w) => call'[b] = call[b])
        BY <1>2, <3>1 DEF Busy
      <3>3. Alone(w)'
        BY <1>1, <3>1, <3>2 DEF Alone, MovesMoney
      <3>4. Once(w)'
        BY <1>1, <3>1, <3>2 DEF Once
      <3>. QED BY <3>3, <3>4
    <2>. QED BY <2>2, <2>3 DEF DrawInv
  <1>. QED BY <1>3, <1>4

LEMMA DrawStep == ASSUME Fits, DrawInv, [WalletNext]_vars PROVE DrawInv'
  <1>1. CASE UNCHANGED vars
    BY <1>1, NoCalls DEF vars
  <1>2. CASE Priced \/ Worked
    BY <1>2, JobDraws
  <1>3. ASSUME NEW w \in Withdrawals, NEW k \in Captains, NEW n \in Amounts, Ask(w, k, n) PROVE DrawInv'
    BY <1>3, AskDraws
  <1>4. ASSUME NEW a \in Calls, Called(a) PROVE DrawInv'
    <2>1. CASE \/ \E k \in Captains : (\E n \in 0..Penalty : ReadToSetOff(a, k, n)) \/ ReadToRelease(a, k) \/ ReadToCollect(a, k)
               \/ \E w \in Withdrawals : \E to \in {"approved", "rejected", "paid"} : Review(a, w, to)
      BY <2>1, ReadDraws
    <2>2. CASE SetOff(a) \/ Release(a) \/ Collect(a)
      BY <2>2, JobDraws
    <2>3. CASE Claim(a) \/ Draw(a) \/ DrawFails(a) \/ RowFails(a) \/ HandBack(a)
      <3>1. call[a].step \in {"claim", "money", "handback"}
        BY <2>3 DEF Claim, Draw, DrawFails, RowFails, HandBack, MoneyMoves
      <3>2. call[a].w \in Withdrawals
        BY <3>1 DEF Fits, CallsFit
      <3>3. Nobody \notin Withdrawals
        BY WalletAssumption
      <3>. QED BY <2>3, <3>2, <3>3, ReviewDraws
    <2>4. CASE Dies(a)
      BY <2>4, DiesDraws
    <2>. QED BY <1>4, <2>1, <2>2, <2>3, <2>4 DEF Called
  <1>. QED BY <1>1, <1>2, <1>3, <1>4 DEF WalletNext

-----------------------------------------------------------------------------
(* Sums over a finite set. *)

\* The element a sum takes first.
Some(S) == CHOOSE x \in S : TRUE

\* g is the sum of f over every subset of W, an element at a time.
SumOf(g, f, W) ==
    g = [s \in SUBSET W |-> IF s = {} THEN 0
                            ELSE f[Some(s)] + g[s \ {Some(s)}]]

LEMMA SumStep ==
  ASSUME NEW f, NEW W, NEW g, SumOf(g, f, W), NEW S \in SUBSET W
  PROVE  /\ S = {} => g[S] = 0
         /\ S # {} => Some(S) \in S /\ g[S] = f[Some(S)] + g[S \ {Some(S)}]
  BY DEF SumOf, Some

\* Of a family of subsets of a finite set, one has no smaller one in the family.
LEMMA LeastSubset ==
  ASSUME NEW W, IsFiniteSet(W), NEW B \in SUBSET (SUBSET W), B # {}
  PROVE  \E T \in B : \A U \in SUBSET T : U # T => U \notin B
  <1>1. IsWellFoundedOn(StrictSubsetOrdering(W), SUBSET W)
    BY FS_StrictSubsetOrderingWellFounded, FS_FiniteSubsetsOfFinite
  <1>2. PICK T \in B : \A U \in B : <<U, T>> \notin StrictSubsetOrdering(W)
    BY <1>1, WFMin
  <1>3. ASSUME NEW U \in SUBSET T, U # T, U \in B PROVE FALSE
    <2>1. <<U, T>> \in StrictSubsetOrdering(W)
      BY <1>3 DEF StrictSubsetOrdering
    <2>. QED BY <1>2, <1>3, <2>1
  <1>. QED BY <1>3

\* Two sums of what agrees on S agree on S.
LEMMA SumsAgree ==
  ASSUME NEW V, NEW W, NEW S \in SUBSET V, S \in SUBSET W, IsFiniteSet(S),
         NEW f, NEW h, \A x \in S : f[x] = h[x],
         NEW g, SumOf(g, f, V), NEW i, SumOf(i, h, W)
  PROVE  g[S] = i[S]
  <1>. DEFINE B == {T \in SUBSET S : g[T] # i[T]}
  <1>. SUFFICES ASSUME B # {} PROVE FALSE
    OBVIOUS
  <1>1. PICK T \in B : \A U \in SUBSET T : U # T => U \notin B
    <2>. HIDE DEF B
    <2>1. B \in SUBSET (SUBSET S)
      BY DEF B
    <2>. QED BY <2>1, LeastSubset
  <1>2. T \in SUBSET S /\ T \in SUBSET V /\ T \in SUBSET W /\ g[T] # i[T]
    OBVIOUS
  <1>3. CASE T = {}
    <2>1. g[T] = 0
      BY <1>2, <1>3 DEF SumOf
    <2>2. i[T] = 0
      BY <1>2, <1>3, SumStep
    <2>. QED BY <1>2, <2>1, <2>2
  <1>4. CASE T # {}
    <2>. DEFINE x == Some(T)
    <2>1. x \in T /\ g[T] = f[x] + g[T \ {x}]
      BY <1>2, <1>4, SumStep
    <2>2. i[T] = h[x] + i[T \ {x}]
      BY <1>2, <1>4, SumStep
    <2>. HIDE DEF x
    <2>3. g[T \ {x}] = i[T \ {x}]
      BY <1>1, <1>2, <2>1
    <2>. QED BY <1>2, <2>1, <2>2, <2>3
  <1>. QED BY <1>3, <1>4

LEMMA SumIsInt ==
  ASSUME NEW W, IsFiniteSet(W), NEW f \in [W -> Int], NEW g, SumOf(g, f, W)
  PROVE  g \in [SUBSET W -> Int]
  <1>. DEFINE B == {T \in SUBSET W : g[T] \notin Int}
  <1>0. g = [T \in SUBSET W |-> g[T]]
    BY DEF SumOf
  <1>. SUFFICES ASSUME B # {} PROVE FALSE
    BY <1>0
  <1>1. PICK T \in B : \A U \in SUBSET T : U # T => U \notin B
    <2>. HIDE DEF B
    <2>1. B \in SUBSET (SUBSET W)
      BY DEF B
    <2>. QED BY <2>1, LeastSubset
  <1>2. T \in SUBSET W /\ g[T] \notin Int
    OBVIOUS
  <1>3. T # {}
    <2>1. T = {} => g[T] = 0
      BY <1>2, SumStep
    <2>. QED BY <1>2, <2>1
  <1>. DEFINE x == Some(T)
  <1>4. x \in T /\ g[T] = f[x] + g[T \ {x}]
    BY <1>2, <1>3, SumStep
  <1>. HIDE DEF x
  <1>5. g[T \ {x}] \in Int /\ f[x] \in Int
    BY <1>1, <1>2, <1>4
  <1>. QED BY <1>2, <1>4, <1>5

\* There is such a sum: the sums of the smaller sets put together.
LEMMA SumExists ==
  ASSUME NEW W, IsFiniteSet(W), NEW f
  PROVE  \E g : SumOf(g, f, W)
  <1>. DEFINE B == {T \in SUBSET W : ~ \E g : SumOf(g, f, T)}
  <1>. SUFFICES ASSUME B # {} PROVE FALSE
    OBVIOUS
  <1>1. PICK T \in B : \A U \in SUBSET T : U # T => U \notin B
    <2>. HIDE DEF B
    <2>1. B \in SUBSET (SUBSET W)
      BY DEF B
    <2>. QED BY <2>1, LeastSubset
  <1>2. T \in SUBSET W /\ \A g : ~SumOf(g, f, T)
    OBVIOUS
  <1>. DEFINE of == [U \in SUBSET T |-> CHOOSE g : SumOf(g, f, U)]
              y == Some(T)
              sum == [U \in SUBSET T |-> IF U # T THEN of[U][U]
                                         ELSE IF T = {} THEN 0 ELSE f[y] + of[T \ {y}][T \ {y}]]
  <1>3. \A U \in SUBSET T : U # T => SumOf(of[U], f, U)
    BY <1>1, <1>2
  <1>. HIDE DEF of, B
  <1>4. ASSUME NEW U \in SUBSET T
        PROVE  sum[U] = IF U = {} THEN 0 ELSE f[Some(U)] + sum[U \ {Some(U)}]
    <2>1. CASE U = T
      <3>1. T # {} => y \in T
        BY DEF Some
      <3>. HIDE DEF y
      <3>2. T # {} => sum[T \ {y}] = of[T \ {y}][T \ {y}]
        BY <3>1
      <3>3. sum[T] = IF T = {} THEN 0 ELSE f[y] + of[T \ {y}][T \ {y}]
        OBVIOUS
      <3>4. sum[T] = IF T = {} THEN 0 ELSE f[y] + sum[T \ {y}]
        BY <3>2, <3>3
      <3>. HIDE DEF sum
      <3>. QED BY <2>1, <3>4 DEF y
    <2>2. CASE U # T
      <3>. DEFINE x == Some(U)
      <3>1. sum[U] = of[U][U] /\ SumOf(of[U], f, U)
        BY <1>3, <2>2
      <3>2. CASE U = {}
        BY <3>1, <3>2, SumStep
      <3>3. CASE U # {}
        <4>1. x \in U /\ of[U][U] = f[x] + of[U][U \ {x}]
          BY <3>1, <3>3, SumStep
        <4>. HIDE DEF x
        <4>2. U \ {x} \in SUBSET T /\ U \ {x} # T
          BY <2>2, <4>1
        <4>3. sum[U \ {x}] = of[U \ {x}][U \ {x}] /\ SumOf(of[U \ {x}], f, U \ {x})
          BY <1>3, <4>2
        <4>4. IsFiniteSet(U \ {x})
          BY <1>2, <4>2, FS_Subset
        <4>. DEFINE R == U \ {x}
        <4>. HIDE DEF R, sum
        <4>5. of[U][R] = of[R][R]
          <5>1. R \in SUBSET U /\ R \in SUBSET R
            BY DEF R
          <5>2. IsFiniteSet(R) /\ SumOf(of[R], f, R)
            BY <4>3, <4>4 DEF R
          <5>. DEFINE a == of[U]
                      b == of[R]
          <5>3. SumOf(a, f, U) /\ SumOf(b, f, R)
            BY <3>1, <5>2
          <5>. HIDE DEF a, b
          <5>4. a[R] = b[R]
            BY <5>1, <5>2, <5>3, SumsAgree
          <5>. QED BY <5>4 DEF a, b
        <4>6. sum[U] = f[x] + sum[U \ {x}]
          BY <3>1, <4>1, <4>3, <4>5 DEF R
        <4>. QED BY <3>3, <4>6 DEF x
      <3>. QED BY <3>2, <3>3
    <2>. QED BY <2>1, <2>2
  <1>5. SumOf(sum, f, T)
    <2>1. sum = [U \in SUBSET T |-> sum[U]]
      OBVIOUS
    <2>. HIDE DEF sum
    <2>. QED BY <1>4, <2>1 DEF SumOf
  <1>. HIDE DEF sum
  <1>. QED BY <1>2, <1>5

\* Any element may be taken out first.
LEMMA SumTakesOut ==
  ASSUME NEW W, IsFiniteSet(W), NEW f \in [W -> Int], NEW g, SumOf(g, f, W),
         NEW S \in SUBSET W, NEW d \in S
  PROVE  g[S] = f[d] + g[S \ {d}]
  <1>. DEFINE B == {T \in SUBSET W : \E e \in T : g[T] # f[e] + g[T \ {e}]}
  <1>. SUFFICES ASSUME B # {} PROVE FALSE
    OBVIOUS
  <1>1. PICK T \in B : \A U \in SUBSET T : U # T => U \notin B
    <2>. HIDE DEF B
    <2>1. B \in SUBSET (SUBSET W)
      BY DEF B
    <2>. QED BY <2>1, LeastSubset
  <1>2. T \in SUBSET W
    OBVIOUS
  <1>3. PICK e \in T : g[T] # f[e] + g[T \ {e}]
    OBVIOUS
  <1>. DEFINE x == Some(T)
  <1>4. x \in T /\ g[T] = f[x] + g[T \ {x}]
    BY <1>2, <1>3, SumStep
  <1>. HIDE DEF x
  <1>5. x # e
    BY <1>3, <1>4
  <1>6. g[T \ {x}] = f[e] + g[(T \ {x}) \ {e}]
    BY <1>1, <1>2, <1>4, <1>5
  <1>7. g[T \ {e}] = f[x] + g[(T \ {e}) \ {x}]
    BY <1>1, <1>2, <1>4, <1>5
  <1>. DEFINE R == (T \ {x}) \ {e}
  <1>8. R = (T \ {e}) \ {x} /\ R \in SUBSET W
    BY <1>2
  <1>9. g[R] \in Int /\ f[x] \in Int /\ f[e] \in Int
    <2>1. g \in [SUBSET W -> Int]
      BY SumIsInt
    <2>. QED BY <1>2, <1>4, <1>8, <2>1
  <1>. HIDE DEF R, B
  <1>10. g[T \ {x}] = f[e] + g[R] /\ g[T \ {e}] = f[x] + g[R]
    BY <1>6, <1>7, <1>8 DEF R
  <1>. QED BY <1>3, <1>4, <1>9, <1>10


\* A sum over a subset is that of the whole, there.
LEMMA SumOfPart ==
  ASSUME NEW W, NEW S \in SUBSET W, IsFiniteSet(S), NEW f,
         NEW g, SumOf(g, f, W), NEW h, SumOf(h, f, S)
  PROVE  h[S] = g[S]
  <1>1. S \in SUBSET S /\ \A x \in S : f[x] = f[x]
    OBVIOUS
  <1>. QED BY <1>1, SumsAgree

\* Where two functions differ at u alone, so do their sums over sets that differ in u alone.
LEMMA SumsDiffer ==
  ASSUME NEW W, IsFiniteSet(W), NEW f \in [W -> Int], NEW h \in [W -> Int], NEW u \in W,
         \A w \in W : w # u => f[w] = h[w],
         NEW g, SumOf(g, f, W), NEW i, SumOf(i, h, W),
         NEW S \in SUBSET W, NEW T \in SUBSET W, S \ {u} = T \ {u}
  PROVE  /\ g[S] \in Int /\ i[T] \in Int
         /\ i[T] - (IF u \in T THEN h[u] ELSE 0) = g[S] - (IF u \in S THEN f[u] ELSE 0)
  <1>1. g \in [SUBSET W -> Int] /\ i \in [SUBSET W -> Int]
    BY SumIsInt
  <1>2. g[S] = (IF u \in S THEN f[u] ELSE 0) + g[S \ {u}]
    <2>1. CASE u \in S
      BY <2>1, SumTakesOut
    <2>2. CASE u \notin S
      <3>1. S \ {u} = S
        BY <2>2
      <3>2. g[S \ {u}] = g[S] /\ g[S] \in Int
        BY <1>1, <3>1
      <3>. QED BY <2>2, <3>2
    <2>. QED BY <2>1, <2>2
  <1>3. i[T] = (IF u \in T THEN h[u] ELSE 0) + i[T \ {u}]
    <2>1. CASE u \in T
      <3>1. i[T] = h[u] + i[T \ {u}]
        BY <2>1, SumTakesOut
      <3>. QED BY <2>1, <3>1
    <2>2. CASE u \notin T
      <3>1. T \ {u} = T /\ i[T] \in Int
        BY <1>1, <2>2
      <3>. QED BY <2>2, <3>1
    <2>. QED BY <2>1, <2>2
  <1>4. g[S \ {u}] = i[S \ {u}]
    <2>1. PICK R : R = S \ {u}
      OBVIOUS
    <2>2. R \in SUBSET W /\ IsFiniteSet(R) /\ \A w \in R : f[w] = h[w]
      BY <2>1, FS_Subset
    <2>3. g[R] = i[R]
      <3>1. \A p, q : (\A w \in R : p[w] = q[w]) /\ SumOf(g, p, W) /\ SumOf(i, q, W) => g[R] = i[R]
        <4>. SUFFICES ASSUME NEW p, NEW q, \A w \in R : p[w] = q[w], SumOf(g, p, W), SumOf(i, q, W)
                      PROVE  g[R] = i[R]
          OBVIOUS
        <4>. QED BY <2>2, SumsAgree
      <3>. QED BY <2>2, <3>1
    <2>. QED BY <2>1, <2>3
  <1>5. g[S] \in Int /\ i[T] \in Int /\ g[S \ {u}] \in Int /\ f[u] \in Int /\ h[u] \in Int
    BY <1>1
  <1>6. i[T] = (IF u \in T THEN h[u] ELSE 0) + g[S \ {u}]
    BY <1>3, <1>4
  <1>. QED BY <1>2, <1>5, <1>6

\* What withdrawals r, each taken as often as d says, have taken from k's wallet: by
\* one of them, and in all.
Share(d, r, k, w) == IF r[w].captain = k THEN d[w] * r[w].amount ELSE 0
OwnedBy(r, k) == {w \in Withdrawals : r[w].captain = k}
DrawnWith(d, r, k) == MapThenSumSet(LAMBDA w : d[w] * r[w].amount, OwnedBy(r, k))

LEMMA DrawnIsASum ==
  ASSUME NEW d, NEW r, NEW k, NEW f, \A w \in Withdrawals : f[w] = d[w] * r[w].amount,
         NEW g, SumOf(g, f, Withdrawals), IsFiniteSet(Withdrawals)
  PROVE  DrawnWith(d, r, k) = g[OwnedBy(r, k)]
  <1>. DEFINE S == OwnedBy(r, k)
              Eq(i) == i = [s \in SUBSET S |-> IF s = {} THEN 0
                                ELSE d[Some(s)] * r[Some(s)].amount + i[s \ {Some(s)}]]
              h == CHOOSE i : Eq(i)
  <1>1. DrawnWith(d, r, k) = h[S]
    BY DEF DrawnWith, MapThenSumSet, MapThenFoldSet, Some
  <1>2. S \in SUBSET Withdrawals /\ IsFiniteSet(S)
    BY FS_Subset DEF OwnedBy
  <1>. HIDE DEF S
  <1>3. ASSUME NEW i PROVE Eq(i) <=> SumOf(i, f, S)
    <2>1. \A s \in SUBSET S : s # {} => f[Some(s)] = d[Some(s)] * r[Some(s)].amount
      BY <1>2 DEF Some
    <2>2. [s \in SUBSET S |-> IF s = {} THEN 0 ELSE d[Some(s)] * r[Some(s)].amount + i[s \ {Some(s)}]]
          = [s \in SUBSET S |-> IF s = {} THEN 0 ELSE f[Some(s)] + i[s \ {Some(s)}]]
      BY <2>1
    <2>. QED BY <2>2 DEF SumOf
  <1>. HIDE DEF Eq
  <1>4. \E i : Eq(i)
    BY <1>2, <1>3, SumExists
  <1>5. SumOf(h, f, S)
    <2>1. Eq(h)
      BY <1>4
    <2>. HIDE DEF h
    <2>. QED BY <1>3, <2>1
  <1>. HIDE DEF h
  <1>6. h[S] = g[S]
    BY <1>2, <1>5, SumOfPart
  <1>. QED BY <1>1, <1>6 DEF S

\* Where the withdrawals differ in u alone, so does what they have taken.
LEMMA DrawnDiffers ==
  ASSUME NEW d \in [Withdrawals -> Int], NEW r \in [Withdrawals -> Request],
         NEW e \in [Withdrawals -> Int], NEW q \in [Withdrawals -> Request],
         NEW k, NEW u \in Withdrawals, IsFiniteSet(Withdrawals),
         \A w \in Withdrawals : w # u => e[w] = d[w] /\ q[w] = r[w]
  PROVE  /\ DrawnWith(d, r, k) \in Int /\ DrawnWith(e, q, k) \in Int
         /\ DrawnWith(e, q, k) - Share(e, q, k, u) = DrawnWith(d, r, k) - Share(d, r, k, u)
  <1>. DEFINE f == [w \in Withdrawals |-> d[w] * r[w].amount]
              h == [w \in Withdrawals |-> e[w] * q[w].amount]
              S == OwnedBy(r, k)
              T == OwnedBy(q, k)
  <1>1. f \in [Withdrawals -> Int] /\ h \in [Withdrawals -> Int]
    BY DEF Request
  <1>2. \A w \in Withdrawals : w # u => f[w] = h[w]
    OBVIOUS
  <1>3. /\ \A w \in Withdrawals : f[w] = d[w] * r[w].amount
        /\ \A w \in Withdrawals : h[w] = e[w] * q[w].amount
    OBVIOUS
  <1>4. S \in SUBSET Withdrawals /\ T \in SUBSET Withdrawals /\ S \ {u} = T \ {u}
    BY DEF OwnedBy
  <1>5. (u \in S <=> r[u].captain = k) /\ (u \in T <=> q[u].captain = k)
    BY DEF OwnedBy
  <1>6. PICK g : SumOf(g, f, Withdrawals)
    BY SumExists
  <1>7. PICK i : SumOf(i, h, Withdrawals)
    BY SumExists
  <1>. HIDE DEF f, h
  <1>8. DrawnWith(d, r, k) = g[S] /\ DrawnWith(e, q, k) = i[T]
    <2>1. DrawnWith(d, r, k) = g[S]
      BY <1>3, <1>6, DrawnIsASum
    <2>2. DrawnWith(e, q, k) = i[T]
      BY <1>3, <1>7, DrawnIsASum
    <2>. QED BY <2>1, <2>2
  <1>. HIDE DEF S, T
  <1>9. /\ g[S] \in Int /\ i[T] \in Int
        /\ i[T] - (IF u \in T THEN h[u] ELSE 0) = g[S] - (IF u \in S THEN f[u] ELSE 0)
    BY <1>1, <1>2, <1>4, <1>6, <1>7, SumsDiffer
  <1>10. Share(d, r, k, u) = (IF u \in S THEN f[u] ELSE 0) /\ Share(e, q, k, u) = (IF u \in T THEN h[u] ELSE 0)
    BY <1>3, <1>5 DEF Share
  <1>. QED BY <1>8, <1>9, <1>10

-----------------------------------------------------------------------------
(* What every wallet holds. *)

\* Cash is taken for a job that is done, whatever becomes of it later.
Cashable == {"done", "started", "cancelled"}

CallsInTime ==
    \A a \in Calls :
        /\ call[a].op = "collect" => job.status \in Cashable
        /\ call[a].op = "release" => call[a].seen.status \in {"assigned", "heading"}

\* A request nobody has filed is nobody's and has taken nothing; a review is of one that is filed.
Filed ==
    /\ \A w \in Withdrawals :
         IF request[w].status = "none" THEN request[w].amount = 0 /\ debits[w] = 0
         ELSE request[w].captain \in Captains
    /\ \A a \in Calls : call[a].step \in {"claim", "money", "handback"} => request[call[a].w].status # "none"

\* The job's cash and its posting: settled is what the job owes its captain, less his cash.
Booked(j) ==
    /\ j.cash >= 0 /\ (j.status \notin Cashable \/ j.captain = Nobody => j.cash = 0)
    /\ j.settled = IF j.captain = Nobody THEN 0 ELSE Target(j)

\* Captain k has in hand the cash of his job, and his wallet what it posted, less what he drew.
HandRight(k) == hand[k] = IF job.captain = k THEN job.cash ELSE 0
PostedTo(j, k) == IF j.captain = k THEN j.settled ELSE 0
WalletRight(k) == wallet[k] + DrawnBy(k) = Opening + PostedTo(job, k)
Right == Booked(job) /\ \A k \in Captains : HandRight(k) /\ WalletRight(k) /\ DrawnBy(k) \in Int

PostInv == CallsInTime /\ Filed /\ (~handed => Right)

LEMMA DrawnIs == \A k : DrawnBy(k) = DrawnWith(debits, request, k) /\ DrawnBy(k)' = DrawnWith(debits', request', k)
  BY DEF DrawnBy, DrawnWith, OwnedBy, MapThenSumSet, MapThenFoldSet

LEMMA DrawnSame == ASSUME UNCHANGED <<request, debits>>, NEW k PROVE DrawnBy(k)' = DrawnBy(k)
  <1>1. request' = request /\ debits' = debits
    OBVIOUS
  <1>. QED BY <1>1, DrawnIs

LEMMA PostsFollow == Fits /\ PostInv => WalletsFollowJobs
  <1>. SUFFICES ASSUME Fits, PostInv, ~handed, NEW k \in Captains
                PROVE  wallet[k] = Opening + (IF job.status = "done" /\ job.captain = k THEN job.earn ELSE 0)
                                     - hand[k] - DrawnBy(k)
    BY DEF WalletsFollowJobs
  <1>1. Booked(job) /\ HandRight(k) /\ WalletRight(k) /\ DrawnBy(k) \in Int
    BY DEF PostInv, Right
  <1>2. job \in Job /\ wallet[k] \in Int /\ Opening \in Int /\ k # Nobody
    BY WalletAssumption DEF Fits, WalletTypeOK
  <1>3. job.earn \in Int /\ job.cash \in Int /\ job.settled \in Int
    BY <1>2 DEF Job
  <1>4. CASE job.captain = k
    <2>1. job.settled = Target(job) /\ hand[k] = job.cash /\ wallet[k] + DrawnBy(k) = Opening + job.settled
      BY <1>1, <1>2, <1>4 DEF Booked, HandRight, WalletRight, PostedTo
    <2>. QED BY <1>1, <1>2, <1>3, <1>4, <2>1 DEF Target
  <1>5. CASE job.captain # k
    <2>1. hand[k] = 0 /\ wallet[k] + DrawnBy(k) = Opening + 0
      BY <1>1, <1>5 DEF HandRight, WalletRight, PostedTo
    <2>. QED BY <1>1, <1>2, <1>5, <2>1
  <1>. QED BY <1>4, <1>5

\* Nobody has asked yet: nothing is drawn.
LEMMA NothingDrawn ==
  ASSUME NEW d, NEW r, NEW k, \A w \in Withdrawals : r[w].captain # k PROVE DrawnWith(d, r, k) = 0
  <1>. DEFINE f == [w \in Withdrawals |-> d[w] * r[w].amount]
  <1>1. PICK g : SumOf(g, f, Withdrawals)
    BY WalletAssumption, SumExists
  <1>2. DrawnWith(d, r, k) = g[OwnedBy(r, k)]
    <2>1. \A w \in Withdrawals : f[w] = d[w] * r[w].amount
      OBVIOUS
    <2>. HIDE DEF f
    <2>. QED BY <1>1, <2>1, WalletAssumption, DrawnIsASum
  <1>3. OwnedBy(r, k) = {}
    BY DEF OwnedBy
  <1>. HIDE DEF f
  <1>4. g[{}] = 0
    BY <1>1 DEF SumOf
  <1>. QED BY <1>2, <1>3, <1>4

LEMMA PostInit == WalletInit => PostInv
  <1>. SUFFICES ASSUME WalletInit PROVE PostInv
    OBVIOUS
  <1>1. PICK p \in Prices :
          job = [status |-> "pending", captain |-> Nobody, price |-> p, discount |-> 0, added |-> 0,
                 paid |-> 0, earn |-> Pay[p], platform |-> p - Pay[p], late |-> 0, cash |-> 0, settled |-> 0]
    BY DEF WalletInit
  <1>2. \A a \in Calls : call[a].op = "none" /\ call[a].step = "idle"
    BY QuietIsACall DEF WalletInit
  <1>3. \A w \in Withdrawals : request[w].status = "none" /\ request[w].captain = Nobody
                               /\ request[w].amount = 0 /\ debits[w] = 0
    BY DEF WalletInit
  <1>4. CallsInTime /\ Filed
    BY <1>2, <1>3 DEF CallsInTime, Filed
  <1>5. Booked(job)
    BY <1>1 DEF Booked, Target
  <1>6. ASSUME NEW k \in Captains PROVE HandRight(k) /\ WalletRight(k) /\ DrawnBy(k) \in Int
    <2>1. k # Nobody /\ job.captain = Nobody /\ hand[k] = 0 /\ wallet[k] = Opening /\ Opening \in Int
      BY <1>1, WalletAssumption DEF WalletInit
    <2>2. DrawnBy(k) = 0
      BY <1>3, <2>1, DrawnIs, NothingDrawn
    <2>. QED BY <2>1, <2>2 DEF HandRight, WalletRight, PostedTo
  <1>. QED BY <1>4, <1>5, <1>6 DEF PostInv, Right

-----------------------------------------------------------------------------
\* The calls keep time: a job done, started again or cancelled does not go back to before.
Stays == job.status \in Cashable => job'.status \in Cashable

LEMMA CallsKeepTime ==
  ASSUME CallsInTime, Stays,
         \A a \in Calls : \/ call'[a] = call[a] \/ call'[a].op \notin {"collect", "release"}
                          \/ call'[a].op = "collect" /\ job'.status \in Cashable
                          \/ call'[a].op = "release" /\ call'[a].seen.status \in {"assigned", "heading"}
  PROVE  CallsInTime'
  BY DEF CallsInTime, Stays

\* A step that posts nothing: it leaves the job's cash and posting alone, and either the
\* captain and what he is owed as well, or the job is not yet, and not thereby, done.
Keeps(j, i) ==
    /\ i.cash = j.cash /\ i.settled = j.settled
    /\ j.status \in Cashable => i.status \in Cashable
    /\ \/ i.captain = j.captain /\ Target(i) = Target(j)
       \/ j.status \notin Cashable /\ i.status # "done"

LEMMA KeepsBooked ==
  ASSUME NEW j \in Job, NEW i \in Job, Booked(j), Keeps(j, i)
  PROVE  /\ Booked(i) /\ \A k \in Captains : PostedTo(i, k) = PostedTo(j, k)
         /\ \A k \in Captains : (IF i.captain = k THEN i.cash ELSE 0) = (IF j.captain = k THEN j.cash ELSE 0)
  <1>1. j.cash \in Int /\ j.settled \in Int /\ i.cash = j.cash /\ i.settled = j.settled
    BY DEF Keeps, Job
  <1>2. CASE i.captain = j.captain /\ Target(i) = Target(j)
    BY <1>1, <1>2 DEF Booked, Keeps, PostedTo
  <1>3. CASE j.status \notin Cashable /\ i.status # "done"
    <2>1. j.cash = 0 /\ j.status # "done" /\ Target(j) = 0 /\ j.settled = 0
      BY <1>3 DEF Booked, Target, Cashable
    <2>2. Target(i) = 0
      BY <1>1, <1>3, <2>1 DEF Target
    <2>. QED BY <1>1, <2>1, <2>2 DEF Booked, PostedTo
  <1>. QED BY <1>2, <1>3 DEF Keeps

LEMMA KeepsRight ==
  ASSUME Fits, Right, job' \in Job, Keeps(job, job'), UNCHANGED <<wallet, hand, request, debits>>
  PROVE  Right'
  <1>1. PICK i : i = job'
    OBVIOUS
  <1>2. job \in Job /\ i \in Job /\ Booked(job) /\ Keeps(job, i)
    BY <1>1 DEF Fits, WalletTypeOK, Right
  <1>3. /\ Booked(i) /\ \A k \in Captains : PostedTo(i, k) = PostedTo(job, k)
        /\ \A k \in Captains : (IF i.captain = k THEN i.cash ELSE 0) = (IF job.captain = k THEN job.cash ELSE 0)
    <2>1. \A j : j = job => /\ Booked(i) /\ \A k \in Captains : PostedTo(i, k) = PostedTo(j, k)
                            /\ \A k \in Captains : (IF i.captain = k THEN i.cash ELSE 0) = (IF j.captain = k THEN j.cash ELSE 0)
      BY <1>2, KeepsBooked
    <2>. QED BY <2>1
  <1>4. Booked(job')
    BY <1>1, <1>3
  <1>5. ASSUME NEW k \in Captains PROVE HandRight(k)' /\ WalletRight(k)' /\ DrawnBy(k)' \in Int
    <2>1. HandRight(k) /\ WalletRight(k) /\ DrawnBy(k) \in Int
      BY DEF Right
    <2>2. DrawnBy(k)' = DrawnBy(k)
      BY DrawnSame
    <2>3. HandRight(k)'
      BY <1>1, <1>3, <2>1 DEF HandRight
    <2>4. WalletRight(k)'
      <3>1. PostedTo(job', k) = PostedTo(job, k)
        BY <1>1, <1>3
      <3>. QED BY <2>1, <2>2, <3>1 DEF WalletRight
    <2>. QED BY <2>1, <2>2, <2>3, <2>4
  <1>. QED BY <1>4, <1>5 DEF Right

LEMMA FiledStays ==
  ASSUME Fits, Filed, UNCHANGED <<request, debits>>,
         \A a \in Calls : \/ call'[a].step \notin {"claim", "money", "handback"}
                          \/ call'[a].w = call[a].w /\ call[a].step \in {"claim", "money", "handback"}
                          \/ request[call'[a].w].status # "none"
  PROVE  Filed'
  BY DEF Filed

\* A step on the job alone, that posts nothing.
LEMMA KeepsPosts ==
  ASSUME Fits, PostInv, job' \in Job, Keeps(job, job'), handed' = handed, UNCHANGED <<drawVars, wallet, hand>>,
         UNCHANGED call \/ \E a \in Calls : Over(a)
  PROVE  PostInv'
  <1>1. \A b \in Calls : call'[b] = call[b] \/ (call'[b].op = "none" /\ call'[b].step = "idle")
    <2>1. CASE UNCHANGED call
      BY <2>1
    <2>2. ASSUME NEW a \in Calls, Over(a) PROVE <1>1
      <3>1. PICK q : q = Quiet
        OBVIOUS
      <3>2. q.op = "none" /\ q.step = "idle"
        BY <3>1, QuietIsACall
      <3>3. call' = [call EXCEPT ![a] = q]
        BY <2>2, <3>1 DEF Over
      <3>. QED BY <3>2, <3>3 DEF Fits, WalletTypeOK
    <2>. QED BY <2>1, <2>2
  <1>2. UNCHANGED <<request, debits>>
    BY DEF drawVars
  <1>3. CallsInTime'
    BY <1>1, CallsKeepTime DEF PostInv, Stays, Keeps
  <1>4. Filed'
    BY <1>1, <1>2, FiledStays DEF PostInv
  <1>5. ~handed' => Right'
    BY <1>2, KeepsRight DEF PostInv
  <1>. QED BY <1>3, <1>4, <1>5 DEF PostInv

LEMMA PricedPosts == ASSUME Fits, Fits', PostInv, Priced PROVE PostInv'
  <1>0. job \in Job /\ job' \in Job
    BY DEF Fits, WalletTypeOK
  <1>1. ASSUME NEW j, Change(j), \A n : Keeps(job, [j EXCEPT !.paid = n]), UNCHANGED <<drawVars, call>>
        PROVE  PostInv'
    <2>1. Keeps(job, job') /\ handed' = handed /\ UNCHANGED <<wallet, hand>>
      BY <1>1 DEF Change, Repaid, Unposted
    <2>. QED BY <1>0, <1>1, <2>1, KeepsPosts
  <1>2. ASSUME NEW d \in Discounts, SetDiscount(d) PROVE PostInv'
    <2>. DEFINE m == job.platform - (d - job.discount)
                j == [job EXCEPT !.discount = d, !.platform = m]
    <2>1. Change(j) /\ UNCHANGED <<drawVars, call>>
      BY <1>2 DEF SetDiscount, Change
    <2>. HIDE DEF m
    <2>2. \A n : Keeps(job, [j EXCEPT !.paid = n])
      BY <1>0 DEF Keeps, Target, Job
    <2>. QED BY <1>1, <2>1, <2>2
  <1>3. ASSUME NEW x \in AddOns, AddServices(x) PROVE PostInv'
    <2>. DEFINE m == job.platform + x
                l == job.added + x
                j == [job EXCEPT !.added = l, !.platform = m]
    <2>1. Change(j) /\ UNCHANGED <<drawVars, call>>
      BY <1>3 DEF AddServices, Change
    <2>. HIDE DEF m, l
    <2>2. \A n : Keeps(job, [j EXCEPT !.paid = n])
      BY <1>0 DEF Keeps, Target, Job
    <2>. QED BY <1>1, <2>1, <2>2
  <1>4. ASSUME NEW p \in Prices, Edit(p) PROVE PostInv'
    <2>. DEFINE i == [job EXCEPT !.price = p, !.discount = Least(@, p)]
                m == Total(i) - Pay[p]
                l == Least(job.discount, p)
                e == Pay[p]
                j == [[job EXCEPT !.price = p, !.discount = l] EXCEPT !.earn = e, !.platform = m]
    <2>1. Change(j) /\ UNCHANGED <<drawVars, call>> /\ job.status \in {"pending", "assigned"}
      BY <1>4 DEF Edit, Change
    <2>. HIDE DEF m, l, e
    <2>2. \A n : Keeps(job, [j EXCEPT !.paid = n])
      BY <1>0, <2>1 DEF Keeps, Target, Job, Cashable
    <2>. QED BY <1>1, <2>1, <2>2
  <1>. QED BY <1>2, <1>3, <1>4 DEF Priced

LEMMA WorkKeeps ==
  ASSUME Fits, Fits', PostInv,
         (\E k \in Captains : Assign(k)) \/ Begin \/ Cancel \/ MarkDone \/ PayOnline
  PROVE  PostInv'
  <1>0. job \in Job /\ job' \in Job
    BY DEF Fits, WalletTypeOK
  <1>1. handed' = handed /\ UNCHANGED <<drawVars, wallet, hand, call>>
    BY DEF Assign, Begin, Cancel, MarkDone, PayOnline, Unposted, Aside
  <1>2. Keeps(job, job')
    <2>1. CASE \E k \in Captains : Assign(k)
      BY <1>0, <2>1 DEF Assign, Keeps, Target, Job, Cashable
    <2>2. CASE Begin
      BY <1>0, <2>2 DEF Begin, Keeps, Target, Job, Cashable
    <2>3. CASE Cancel
      BY <1>0, <2>3 DEF Cancel, Keeps, Target, Job, Cashable, Open
    <2>4. CASE MarkDone
      <3>. DEFINE n == Total(job)
      <3>1. /\ job.status \in {"pending", "assigned"}
            /\ job' = [job EXCEPT !.status = "closed", !.captain = Nobody, !.earn = 0, !.platform = n, !.paid = n]
        BY <2>4 DEF MarkDone
      <3>. HIDE DEF n
      <3>. QED BY <1>0, <3>1 DEF Keeps, Job, Cashable
    <2>5. CASE PayOnline
      <3>. DEFINE n == Total(job)
      <3>1. job' = [job EXCEPT !.paid = n]
        BY <2>5 DEF PayOnline
      <3>. HIDE DEF n
      <3>. QED BY <1>0, <3>1 DEF Keeps, Target, Job
    <2>. QED BY <2>1, <2>2, <2>3, <2>4, <2>5
  <1>. QED BY <1>0, <1>1, <1>2, KeepsPosts

\* Setting off, and being let go, is before any cash.
LEMMA SetOffKeeps == ASSUME Fits, Fits', PostInv, NEW a \in Calls, SetOff(a) \/ Release(a) PROVE PostInv'
  <1>0. job \in Job /\ job' \in Job
    BY DEF Fits, WalletTypeOK
  <1>1. handed' = handed /\ UNCHANGED <<drawVars, wallet, hand>> /\ Over(a)
    BY DEF SetOff, Release, Unposted
  <1>2. CASE job' = job
    <2>1. Keeps(job, job')
      BY <1>2 DEF Keeps
    <2>. QED BY <1>0, <1>1, <2>1, KeepsPosts
  <1>3. CASE SetOff(a) /\ job' # job
    <2>. DEFINE on == [job EXCEPT !.status = "heading", !.late = 0]
                c == call[a]
    <2>1. job.status = "assigned" /\ job' = IF c.amount = 0 THEN on ELSE Late(on, c.seen, c.amount)
      BY <1>3 DEF SetOff
    <2>. HIDE DEF c
    <2>2. Keeps(job, job')
      BY <1>0, <2>1 DEF Keeps, Job, Late, Cashable
    <2>. QED BY <1>0, <1>1, <2>2, KeepsPosts
  <1>4. CASE Release(a) /\ job' # job
    <2>. DEFINE off == [job EXCEPT !.status = "pending", !.captain = Nobody, !.late = 0]
                seen == call[a].seen
    <2>1. job.status = seen.status /\ job' = IF seen.late = 0 THEN off ELSE Restored(off, seen)
      BY <1>4 DEF Release
    <2>2. seen.status \in {"assigned", "heading"}
      BY <1>4 DEF Release, PostInv, CallsInTime
    <2>. HIDE DEF seen
    <2>3. Keeps(job, job')
      BY <1>0, <2>1, <2>2 DEF Keeps, Job, Restored, Cashable
    <2>. QED BY <1>0, <1>1, <2>3, KeepsPosts
  <1>. QED BY <1>2, <1>3, <1>4

-----------------------------------------------------------------------------
\* Settling brings the posting to what the job, with n more in cash, owes its captain.
LEMMA SettleRight ==
  ASSUME Fits, Right, NEW j \in Job, Settle(j), UNCHANGED <<request, debits>>, NEW n \in Nat,
         job.captain \in Captains, j.captain = job.captain, j.settled = job.settled,
         j.cash = job.cash + n, j.status \in Cashable,
         hand' = [hand EXCEPT ![job.captain] = @ + n]
  PROVE  Right' /\ job'.status = j.status
  <1>. DEFINE t == Target(j)
              c == job.captain
  <1>1. j.cash \in Int /\ j.settled \in Int /\ t \in Int /\ job.cash \in Int
    BY DEF Target, Job, Fits, WalletTypeOK
  <1>2. c # Nobody /\ ~Exempt(j)
    BY WalletAssumption DEF Exempt, Cashable
  <1>3. job' = [j EXCEPT !.settled = t] /\ wallet' = [wallet EXCEPT ![c] = @ + t - j.settled]
    BY <1>2 DEF Settle
  <1>. HIDE DEF t
  <1>4. job'.cash = j.cash /\ job'.captain = c /\ job'.settled = t /\ job'.status = j.status /\ job'.earn = j.earn
    BY <1>3 DEF Job
  <1>5. Booked(job')
    <2>1. job.cash >= 0
      BY DEF Right, Booked
    <2>2. Target(job') = t
      BY <1>4 DEF Target, t
    <2>. QED BY <1>1, <1>2, <1>4, <2>1, <2>2 DEF Booked
  <1>6. ASSUME NEW k \in Captains PROVE HandRight(k)' /\ WalletRight(k)' /\ DrawnBy(k)' \in Int
    <2>1. HandRight(k) /\ WalletRight(k) /\ DrawnBy(k) \in Int
      BY DEF Right
    <2>2. DrawnBy(k)' = DrawnBy(k)
      BY DrawnSame
    <2>3. hand \in [Captains -> Int] /\ wallet \in [Captains -> Int] /\ Opening \in Int
      BY WalletAssumption DEF Fits, WalletTypeOK
    <2>4. HandRight(k)'
      BY <1>1, <1>4, <2>1, <2>3 DEF HandRight
    <2>5. WalletRight(k)'
      <3>1. CASE k = c
        <4>1. wallet'[k] = wallet[k] + t - job.settled /\ wallet[k] \in Int /\ wallet[k] + DrawnBy(k) = Opening + job.settled
          BY <1>3, <2>1, <2>3, <3>1 DEF WalletRight, PostedTo
        <4>2. wallet'[k] + DrawnBy(k) = Opening + t
          BY <1>1, <2>1, <2>3, <4>1
        <4>. QED BY <1>4, <2>2, <3>1, <4>2 DEF WalletRight, PostedTo
      <3>2. CASE k # c
        <4>1. wallet'[k] = wallet[k]
          BY <1>3, <2>3, <3>2
        <4>. QED BY <1>4, <2>1, <2>2, <3>2, <4>1 DEF WalletRight, PostedTo
      <3>. QED BY <3>1, <3>2
    <2>. QED BY <2>1, <2>2, <2>4, <2>5
  <1>. QED BY <1>4, <1>5, <1>6 DEF Right

\* Whatever is settled, or exempt, the job keeps the status it was given.
LEMMA SettledStatus == ASSUME NEW j \in Job, Settle(j) PROVE job'.status = j.status
  BY DEF Settle, Job

LEMMA FinishPosts == ASSUME Fits, Fits', PostInv, Complete \/ AdminReopen PROVE PostInv'
  <1>. DEFINE s == IF Complete THEN "done" ELSE "started"
  <1>0. job \in Job /\ hand \in [Captains -> Int]
    BY DEF Fits, WalletTypeOK
  <1>1. PICK j : j = [job EXCEPT !.status = s]
    OBVIOUS
  <1>2. /\ job.status \in Cashable /\ job.captain # Nobody
        /\ Settle([job EXCEPT !.status = s]) /\ UNCHANGED <<drawVars, hand, handed, call>>
    BY DEF Complete, AdminReopen, Aside, Cashable
  <1>3. s \in Cashable
    BY DEF Cashable
  <1>. HIDE DEF s
  <1>4. j \in Job /\ j.captain = job.captain /\ j.settled = job.settled /\ j.cash = job.cash + 0 /\ j.status = s
    BY <1>0, <1>1, <1>3 DEF Job, Cashable, Open
  <1>5. job.captain \in Captains /\ hand' = [hand EXCEPT ![job.captain] = @ + 0]
    BY <1>0, <1>2 DEF Job
  <1>6. Settle(j)
    BY <1>1, <1>2
  <1>7. job'.status = s
    BY <1>4, <1>6, SettledStatus
  <1>8. CallsInTime'
    BY <1>2, <1>3, <1>7, CallsKeepTime DEF PostInv, Stays
  <1>9. Filed'
    BY <1>2, FiledStays DEF PostInv, drawVars
  <1>10. ~handed' => Right'
    BY <1>2, <1>3, <1>4, <1>5, <1>6, SettleRight DEF PostInv, drawVars
  <1>. QED BY <1>8, <1>9, <1>10 DEF PostInv

\* A call that is over says nothing of a job or of a request.
LEMMA OverIsQuiet ==
  ASSUME Fits, NEW a \in Calls, Over(a)
  PROVE  /\ call'[a].op = "none" /\ call'[a].step = "idle"
         /\ \A b \in Calls : b # a => call'[b] = call[b]
  <1>1. PICK q : q = Quiet
    OBVIOUS
  <1>2. q.op = "none" /\ q.step = "idle"
    BY <1>1, QuietIsACall
  <1>3. call' = [call EXCEPT ![a] = q]
    BY <1>1 DEF Over
  <1>. QED BY <1>2, <1>3 DEF Fits, WalletTypeOK

LEMMA CollectPosts == ASSUME Fits, Fits', PostInv, NEW a \in Calls, Collect(a) PROVE PostInv'
  <1>. DEFINE c == call[a]
              key == <<c.by, c.seen.paid, Total(c.seen)>>
              p == job.paid + Least(Due(job), c.amount)
  <1>0. job \in Job /\ job' \in Job /\ hand \in [Captains -> Int]
    BY DEF Fits, WalletTypeOK
  <1>1. c.op = "collect" /\ Over(a) /\ UNCHANGED drawVars
    BY DEF Collect, Aside
  <1>2. c.by \in Captains /\ c.amount \in Nat /\ job.status \in Cashable
    BY <1>1 DEF Fits, CallsFit, PostInv, CallsInTime
  <1>3. CASE key \in keys
    <2>1. UNCHANGED <<job, wallet, hand, handed>>
      BY <1>3 DEF Collect
    <2>2. Keeps(job, job')
      BY <2>1 DEF Keeps
    <2>. QED BY <1>0, <1>1, <2>1, <2>2, KeepsPosts
  <1>4. CASE key \notin keys
    <2>. DEFINE n == job.cash + c.amount
    <2>1. /\ hand' = [hand EXCEPT ![c.by] = @ + c.amount]
          /\ handed' = (handed \/ job.captain # c.by)
          /\ Settle([job EXCEPT !.paid = p, !.cash = n])
      BY <1>4 DEF Collect, CashTaken
    <2>2. p \in Int /\ n \in Int
      <3>1. Due(job) \in Int /\ job.paid \in Int /\ job.cash \in Int
        <4>1. job.price \in Nat /\ job.discount \in Nat /\ job.added \in Nat /\ job.paid \in Int /\ job.cash \in Int
          BY <1>0, WalletAssumption DEF Job
        <4>2. Total(job) \in Int
          BY <4>1 DEF Total
        <4>. QED BY <4>1, <4>2 DEF Due
      <3>. QED BY <1>2, <3>1 DEF Least
    <2>. HIDE DEF p
    <2>3. PICK j : j = [job EXCEPT !.paid = p, !.cash = n]
      OBVIOUS
    <2>4. /\ j \in Job /\ j.captain = job.captain /\ j.settled = job.settled
          /\ j.cash = job.cash + c.amount /\ j.status = job.status
      <3>. HIDE DEF n
      <3>1. j \in Job /\ j.captain = job.captain /\ j.settled = job.settled /\ j.cash = n /\ j.status = job.status
        BY <1>0, <2>2, <2>3 DEF Job
      <3>. QED BY <3>1 DEF n
    <2>5. Settle(j)
      BY <2>1, <2>3
    <2>6. job'.status = job.status
      BY <2>4, <2>5, SettledStatus
    <2>7. CallsInTime'
      BY <1>1, <2>6, OverIsQuiet, CallsKeepTime DEF PostInv, Stays
    <2>8. Filed'
      BY <1>1, OverIsQuiet, FiledStays DEF PostInv, drawVars
    <2>9. ~handed' => Right'
      <3>. SUFFICES ASSUME ~handed' PROVE Right'
        OBVIOUS
      <3>1. Right /\ job.captain = c.by
        BY <2>1 DEF PostInv
      <3>. HIDE DEF n
      <3>. QED BY <1>1, <1>2, <2>1, <2>4, <2>5, <3>1, SettleRight DEF drawVars
    <2>. QED BY <2>7, <2>8, <2>9 DEF PostInv
  <1>. QED BY <1>3, <1>4

\* What an administrator gives away for nothing leaves its captain's wallet, and posts to the next.
LEMMA GivePosts ==
  ASSUME Fits, Fits', PostInv, NEW k \in Captains \cup {Nobody}, AdminGive(k) PROVE PostInv'
  <1>. DEFINE s == CASE k = Nobody /\ job.status = "assigned" -> "pending"
                     [] k # Nobody /\ job.status = "pending" -> "assigned"
                     [] OTHER -> job.status
              reversed == IF job.captain = Nobody THEN wallet
                          ELSE [wallet EXCEPT ![job.captain] = @ - job.settled]
  <1>0. job \in Job /\ job' \in Job /\ wallet \in [Captains -> Int] /\ Nobody \notin Captains /\ Opening \in Int
    BY WalletAssumption DEF Fits, WalletTypeOK
  <1>1. PICK j : j = [job EXCEPT !.captain = k, !.settled = 0, !.status = s]
    OBVIOUS
  <1>2. /\ job.status # "cancelled" /\ k # job.captain /\ handed' = (handed \/ job.cash > 0)
        /\ IF Exempt(j) THEN job' = j /\ wallet' = reversed
           ELSE /\ job' = [j EXCEPT !.settled = Target(j)]
                /\ wallet' = [reversed EXCEPT ![k] = @ + Target(j)]
        /\ UNCHANGED <<drawVars, hand, call>>
    BY <1>1 DEF AdminGive, Aside
  <1>3. s \in Open \cup {"done", "closed", "cancelled"} /\ (job.status \in Cashable => s = job.status)
        /\ (s = "closed" <=> job.status = "closed")
    BY <1>0 DEF Job, Open, Cashable
  <1>. HIDE DEF s
  <1>4. j.captain = k /\ j.settled = 0 /\ j.status = s /\ j.cash = job.cash /\ j.earn = job.earn /\ j \in Job
    <2>1. j \in Job
      <3>1. 0 \in Int
        OBVIOUS
      <3>. QED BY <1>0, <1>1, <1>3, <3>1, GivenIsAJob, Zenon
    <2>. QED BY <1>0, <1>1, <2>1 DEF Job
  <1>5. job'.status = s /\ job'.captain = k /\ job'.cash = job.cash /\ job'.earn = job.earn
    BY <1>2, <1>4 DEF Job
  <1>6. CallsInTime'
    BY <1>2, <1>3, <1>5, CallsKeepTime DEF PostInv, Stays
  <1>7. Filed'
    BY <1>2, FiledStays DEF PostInv, drawVars
  <1>8. ASSUME ~handed' PROVE Right'
    <2>. DEFINE t == Target(j)
    <2>1. Right /\ Booked(job) /\ job.cash = 0
      <3>1. ~handed /\ ~(job.cash > 0)
        BY <1>2, <1>8, Zenon
      <3>2. Right /\ Booked(job)
        BY <3>1 DEF PostInv, Right
      <3>3. job.cash \in Int
        BY <1>0 DEF Job
      <3>. QED BY <3>1, <3>2, <3>3 DEF Booked
    <2>2. t \in Int /\ Target(job') = t
      BY <1>0, <1>4, <1>5 DEF Target, Job
    <2>3. Exempt(j) => t = 0 \/ k = Nobody
      BY <1>4, <2>1 DEF Exempt, Target
    <2>. HIDE DEF t
    <2>4. job'.settled = IF Exempt(j) THEN 0 ELSE t
      BY <1>2, <1>4 DEF Job, t
    <2>5. Booked(job')
      <3>1. ~Exempt(j) => k # Nobody
        BY <1>4 DEF Exempt
      <3>2. job'.settled = IF k = Nobody THEN 0 ELSE t
        BY <2>3, <2>4, <3>1
      <3>. QED BY <1>5, <2>1, <2>2, <3>2 DEF Booked
    <2>6. ASSUME NEW x \in Captains PROVE HandRight(x)' /\ WalletRight(x)' /\ DrawnBy(x)' \in Int
      <3>1. HandRight(x) /\ WalletRight(x) /\ DrawnBy(x) \in Int /\ wallet[x] \in Int
        BY <1>0, <2>1 DEF Right
      <3>2. DrawnBy(x)' = DrawnBy(x)
        BY <1>2, DrawnSame DEF drawVars
      <3>3. HandRight(x)'
        BY <1>2, <1>5, <2>1, <3>1 DEF HandRight
      <3>4. reversed[x] = wallet[x] - PostedTo(job, x) /\ PostedTo(job, x) \in Int
        BY <1>0, <3>1 DEF PostedTo, Job
      <3>5. wallet'[x] = reversed[x] + IF k = x /\ ~Exempt(j) THEN t ELSE 0
        <4>1. reversed \in [Captains -> Int]
          BY <1>0 DEF Job
        <4>. HIDE DEF reversed
        <4>2. CASE Exempt(j)
          BY <1>2, <4>1, <4>2
        <4>3. CASE ~Exempt(j)
          <5>1. wallet' = [reversed EXCEPT ![k] = @ + t]
            BY <1>2, <4>3 DEF t
          <5>. QED BY <2>2, <4>1, <4>3, <5>1
        <4>. QED BY <4>2, <4>3
      <3>6. PostedTo(job', x) = IF k = x /\ ~Exempt(j) THEN t ELSE 0
        BY <1>5, <2>4 DEF PostedTo
      <3>7. WalletRight(x)'
        <4>. HIDE DEF reversed
        <4>1. PostedTo(job', x) \in Int /\ wallet'[x] = wallet[x] - PostedTo(job, x) + PostedTo(job', x)
          BY <2>2, <3>4, <3>5, <3>6
        <4>. QED BY <1>0, <3>1, <3>2, <3>4, <4>1 DEF WalletRight
      <3>. QED BY <3>1, <3>2, <3>3, <3>7
    <2>. QED BY <2>5, <2>6 DEF Right
  <1>. QED BY <1>6, <1>7, <1>8 DEF PostInv

-----------------------------------------------------------------------------
\* A step on withdrawal u alone moves no money where its share of every wallet stays.
LEMMA DrawnRight ==
  ASSUME Fits, Fits', Right, UNCHANGED jobVars, NEW u \in Withdrawals,
         \A w \in Withdrawals : w # u => debits'[w] = debits[w] /\ request'[w] = request[w],
         \A k \in Captains : wallet'[k] + Share(debits', request', k, u) = wallet[k] + Share(debits, request, k, u),
         \A k \in Captains : Share(debits', request', k, u) \in Int /\ Share(debits, request, k, u) \in Int
  PROVE  Right'
  <1>1. job' = job /\ hand' = hand
    BY DEF jobVars
  <1>2. Booked(job')
    BY <1>1 DEF Right
  <1>3. ASSUME NEW k \in Captains PROVE HandRight(k)' /\ WalletRight(k)' /\ DrawnBy(k)' \in Int
    <2>1. HandRight(k) /\ WalletRight(k)
      BY DEF Right
    <2>2. HandRight(k)'
      BY <1>1, <2>1 DEF HandRight
    <2>3. PICK d, e, r, q : d = debits /\ e = debits' /\ r = request /\ q = request'
      OBVIOUS
    <2>4. /\ d \in [Withdrawals -> Int] /\ r \in [Withdrawals -> Request]
          /\ e \in [Withdrawals -> Int] /\ q \in [Withdrawals -> Request]
          /\ wallet[k] \in Int /\ wallet'[k] \in Int
      BY <2>3 DEF Fits, WalletTypeOK
    <2>5. /\ DrawnWith(d, r, k) \in Int /\ DrawnWith(e, q, k) \in Int
          /\ DrawnWith(e, q, k) - Share(e, q, k, u) = DrawnWith(d, r, k) - Share(d, r, k, u)
      BY <2>3, <2>4, WalletAssumption, DrawnDiffers
    <2>6. DrawnBy(k) = DrawnWith(d, r, k) /\ DrawnBy(k)' = DrawnWith(e, q, k)
      BY <2>3, DrawnIs
    <2>7. /\ wallet'[k] + Share(e, q, k, u) = wallet[k] + Share(d, r, k, u)
          /\ Share(e, q, k, u) \in Int /\ Share(d, r, k, u) \in Int
      BY <2>3
    <2>8. wallet'[k] + DrawnBy(k)' = wallet[k] + DrawnBy(k)
      <3>1. \A p, i, s, t, v, z \in Int : i - t = p - s /\ z + t = v + s => z + i = v + p
        OBVIOUS
      <3>2. wallet'[k] + DrawnWith(e, q, k) = wallet[k] + DrawnWith(d, r, k)
        BY <2>4, <2>5, <2>7, <3>1
      <3>. QED BY <2>6, <3>2
    <2>9. WalletRight(k)'
      BY <1>1, <2>1, <2>8 DEF WalletRight
    <2>. QED BY <2>2, <2>5, <2>6, <2>9
  <1>. QED BY <1>2, <1>3 DEF Right

\* Nor does one on no withdrawal.
LEMMA QuietRight == ASSUME Right, UNCHANGED <<jobVars, wallet, request, debits>> PROVE Right'
  <1>1. job' = job /\ hand' = hand /\ wallet' = wallet /\ UNCHANGED <<request, debits>>
    BY DEF jobVars
  <1>2. ASSUME NEW k \in Captains PROVE HandRight(k)' /\ WalletRight(k)' /\ DrawnBy(k)' \in Int
    BY <1>1, DrawnSame DEF Right, HandRight, WalletRight
  <1>. QED BY <1>1, <1>2 DEF Right

LEMMA AskPosts ==
  ASSUME Fits, Fits', PostInv, NEW u \in Withdrawals, NEW k \in Captains, NEW n \in Amounts, Ask(u, k, n)
  PROVE  PostInv'
  <1>1. /\ request[u].status = "none" /\ UNCHANGED <<jobVars, wallet, debits, call>>
        /\ request' = [request EXCEPT ![u] = [status |-> "pending", captain |-> k, amount |-> n]]
    BY DEF Ask
  <1>2. debits[u] = 0 /\ request[u].amount = 0
    BY <1>1 DEF PostInv, Filed
  <1>3. request \in [Withdrawals -> Request] /\ n \in Nat
    BY WalletAssumption DEF Fits, WalletTypeOK
  <1>4. /\ request'[u].status = "pending" /\ request'[u].captain = k /\ request'[u].amount = n
        /\ \A w \in Withdrawals : w # u => request'[w] = request[w]
    BY <1>1, <1>3
  <1>5. CallsInTime'
    BY <1>1, CallsKeepTime DEF PostInv, Stays, jobVars
  <1>6. Filed'
    BY <1>1, <1>4 DEF PostInv, Filed
  <1>7. ~handed' => Right'
    <2>1. handed' = handed
      BY <1>1 DEF jobVars
    <2>2. \A x \in Captains : Share(debits, request, x, u) = 0 /\ Share(debits', request', x, u) = 0
      BY <1>1, <1>2, <1>3, <1>4 DEF Share
    <2>3. \A x \in Captains : wallet'[x] + Share(debits', request', x, u) = wallet[x] + Share(debits, request, x, u)
      BY <1>1, <2>2
    <2>4. \A w \in Withdrawals : w # u => debits'[w] = debits[w] /\ request'[w] = request[w]
      BY <1>1, <1>4
    <2>5. \A x \in Captains : Share(debits', request', x, u) \in Int /\ Share(debits, request, x, u) \in Int
      BY <2>2
    <2>6. UNCHANGED jobVars
      BY <1>1
    <2>7. Right => Right'
      BY <2>3, <2>4, <2>5, <2>6, DrawnRight
    <2>. QED BY <2>1, <2>7 DEF PostInv
  <1>. QED BY <1>5, <1>6, <1>7 DEF PostInv

\* A call takes a step, and the job's money is out of it.
LEMMA AsidePosts ==
  ASSUME Fits, PostInv, UNCHANGED <<jobVars, wallet, request, debits>>,
         \A a \in Calls : call'[a] = call[a]
           \/ /\ call'[a].op = "collect" => job.status \in Cashable
              /\ call'[a].op = "release" => call'[a].seen.status \in {"assigned", "heading"}
              /\ call'[a].step \in {"claim", "money", "handback"} => request[call'[a].w].status # "none"
  PROVE  PostInv'
  <1>1. job' = job /\ handed' = handed /\ UNCHANGED <<request, debits>>
    BY DEF jobVars
  <1>2. CallsInTime'
    BY <1>1 DEF PostInv, CallsInTime
  <1>3. Filed'
    BY <1>1 DEF PostInv, Filed
  <1>. QED BY <1>1, <1>2, <1>3, QuietRight DEF PostInv

LEMMA ReadsPost ==
  ASSUME Fits, PostInv, NEW a \in Calls,
         \/ \E k \in Captains : (\E n \in 0..Penalty : ReadToSetOff(a, k, n)) \/ ReadToRelease(a, k) \/ ReadToCollect(a, k)
         \/ \E w \in Withdrawals : \E to \in {"approved", "rejected", "paid"} : Review(a, w, to)
  PROVE  PostInv'
  <1>1. UNCHANGED <<jobVars, wallet, request, debits>>
    BY DEF ReadToSetOff, ReadToRelease, ReadToCollect, Review, drawVars
  <1>2. \A b \in Calls : b # a => call'[b] = call[b]
    BY DEF ReadToSetOff, ReadToRelease, ReadToCollect, Review, Starts, Fits, WalletTypeOK
  <1>3. /\ call'[a].op = "collect" => job.status \in Cashable
        /\ call'[a].op = "release" => call'[a].seen.status \in {"assigned", "heading"}
        /\ call'[a].step \in {"claim", "money", "handback"} => request[call'[a].w].status # "none"
    <2>0. call \in [Calls -> Call]
      BY DEF Fits, WalletTypeOK
    <2>1. ASSUME NEW k \in Captains, NEW n \in 0..Penalty, ReadToSetOff(a, k, n) PROVE <1>3
      BY <2>0, <2>1 DEF ReadToSetOff, Starts, Reading
    <2>2. ASSUME NEW k \in Captains, ReadToRelease(a, k) PROVE <1>3
      BY <2>0, <2>2 DEF ReadToRelease, Starts, Reading
    <2>3. ASSUME NEW k \in Captains, ReadToCollect(a, k) PROVE <1>3
      BY <2>0, <2>3 DEF ReadToCollect, Starts, Reading, Cashable
    <2>4. ASSUME NEW w \in Withdrawals, NEW to \in {"approved", "rejected", "paid"}, Review(a, w, to) PROVE <1>3
      <3>1. request[w].status # "none"
        <4>1. request[w].status \in {"none", "pending", "approved", "rejected", "paid"}
          BY DEF Fits, WalletTypeOK, Request
        <4>. QED BY <2>4, <4>1 DEF Review, Moves
      <3>. QED BY <2>0, <2>4, <3>1 DEF Review, Starts
    <2>. QED BY <2>1, <2>2, <2>3, <2>4
  <1>. QED BY <1>1, <1>2, <1>3, AsidePosts

LEMMA DiesPosts == ASSUME Fits, PostInv, NEW a \in Calls, DrawFails(a) \/ Dies(a) PROVE PostInv'
  <1>1. UNCHANGED <<jobVars, wallet, request, debits>>
    BY DEF DrawFails, Dies, drawVars
  <1>2. CASE Over(a)
    <2>1. call'[a].op = "none" /\ call'[a].step = "idle" /\ \A b \in Calls : b # a => call'[b] = call[b]
      BY <1>2, OverIsQuiet
    <2>. QED BY <1>1, <2>1, AsidePosts
  <1>3. CASE call[a].step = "money" /\ call' = [call EXCEPT ![a].step = "handback"]
    <2>1. \A b \in Calls : b # a => call'[b] = call[b]
      BY <1>3 DEF Fits, WalletTypeOK
    <2>2. call[a].op = "review" /\ request[call[a].w].status # "none"
      BY <1>3 DEF Fits, CallsFit, PostInv, Filed
    <2>3. call'[a].op = call[a].op /\ call'[a].w = call[a].w
      BY <1>3 DEF Fits, WalletTypeOK, Call
    <2>. QED BY <1>1, <2>1, <2>2, <2>3, AsidePosts
  <1>. QED BY <1>2, <1>3 DEF DrawFails, Dies

\* A call on the withdrawal u that is no longer about the job.
LEMMA ReviewFiles ==
  ASSUME Fits, PostInv, NEW a \in Calls, call[a].step \in {"claim", "money", "handback"}, UNCHANGED jobVars,
         Over(a) \/ (\E s \in {"money", "handback"} : call' = [call EXCEPT ![a].step = s]),
         NEW u, u = call[a].w,
         request'[u].status # "none", request'[u].captain = request[u].captain,
         \A w \in Withdrawals : w # u => debits'[w] = debits[w] /\ request'[w] = request[w]
  PROVE  CallsInTime' /\ Filed'
  <1>1. call[a].op = "review" /\ u \in Withdrawals /\ request[u].status # "none"
    BY DEF Fits, CallsFit, PostInv, Filed
  <1>2. /\ \A b \in Calls : b # a => call'[b] = call[b]
        /\ call'[a].op \notin {"collect", "release"}
        /\ call'[a].step \in {"claim", "money", "handback"} => call'[a].w = u
    <2>1. CASE Over(a)
      BY <2>1, OverIsQuiet
    <2>2. ASSUME NEW s \in {"money", "handback"}, call' = [call EXCEPT ![a].step = s] PROVE <1>2
      BY <1>1, <2>2 DEF Fits, WalletTypeOK, Call
    <2>. QED BY <2>1, <2>2
  <1>3. CallsInTime'
    BY <1>2, CallsKeepTime DEF PostInv, Stays, jobVars
  <1>4. Filed'
    BY <1>1, <1>2 DEF PostInv, Filed, Fits, CallsFit
  <1>. QED BY <1>3, <1>4

\* A claim, and its being handed back, changes what the request is called.
LEMMA ClaimPosts == ASSUME Fits, Fits', PostInv, NEW a \in Calls, Claim(a) \/ HandBack(a) PROVE PostInv'
  <1>. DEFINE u == call[a].w
  <1>0. call[a].step \in {"claim", "money", "handback"}
    BY DEF Claim, HandBack
  <1>1. UNCHANGED <<jobVars, wallet, debits>>
    BY DEF Claim, HandBack
  <1>2. Over(a) \/ (\E s \in {"money", "handback"} : call' = [call EXCEPT ![a].step = s])
    BY DEF Claim, HandBack
  <1>3. u \in Withdrawals /\ call[a].from # "none" /\ call[a].to # "none" /\ request[u].status # "none"
    BY <1>0 DEF Fits, CallsFit, PostInv, Filed
  <1>4. request' = request \/ \E s \in {call[a].from, call[a].to} : request' = [request EXCEPT ![u].status = s]
    BY DEF Claim, HandBack
  <1>. HIDE DEF u
  <1>5. /\ request'[u].status # "none" /\ request'[u].captain = request[u].captain /\ request'[u].amount = request[u].amount
        /\ \A w \in Withdrawals : w # u => request'[w] = request[w]
    BY <1>3, <1>4 DEF Fits, WalletTypeOK, Request
  <1>6. CallsInTime' /\ Filed'
    BY <1>0, <1>1, <1>2, <1>5, ReviewFiles DEF u
  <1>7. ~handed' => Right'
    <2>1. \A k \in Captains : Share(debits', request', k, u) = Share(debits, request, k, u)
      BY <1>1, <1>5 DEF Share
    <2>2. \A k \in Captains : Share(debits, request, k, u) \in Int
      BY <1>3 DEF Share, Fits, WalletTypeOK, Request
    <2>3. Right => Right'
      <3>1. \A k \in Captains : wallet'[k] + Share(debits', request', k, u) = wallet[k] + Share(debits, request, k, u)
        BY <1>1, <2>1
      <3>2. \A w \in Withdrawals : w # u => debits'[w] = debits[w] /\ request'[w] = request[w]
        BY <1>1, <1>5
      <3>3. \A k \in Captains : Share(debits', request', k, u) \in Int /\ Share(debits, request, k, u) \in Int
        BY <2>1, <2>2
      <3>4. UNCHANGED jobVars
        BY <1>1
      <3>. QED BY <1>3, <3>1, <3>2, <3>3, <3>4, DrawnRight
    <2>. QED BY <1>1, <2>3 DEF PostInv, jobVars
  <1>. QED BY <1>6, <1>7 DEF PostInv

\* What leaves the wallet is what the request has then taken.
LEMMA MoneyPosts == ASSUME Fits, Fits', PostInv, NEW a \in Calls, Draw(a) \/ RowFails(a) PROVE PostInv'
  <1>. DEFINE u == call[a].w
              d == Drawn(call[a])
              m == d * request[u].amount
  <1>0. MoneyMoves(call[a]) /\ call[a].step \in {"claim", "money", "handback"}
    BY DEF Draw, RowFails, MoneyMoves
  <1>1. UNCHANGED <<jobVars, request>>
    BY DEF Draw, RowFails
  <1>2. Over(a) \/ (\E s \in {"money", "handback"} : call' = [call EXCEPT ![a].step = s])
    BY DEF Draw, RowFails
  <1>3. u \in Withdrawals /\ request[u].status # "none" /\ request[u].captain \in Captains
    <2>1. u \in Withdrawals /\ request[u].status # "none"
      BY <1>0 DEF Fits, CallsFit, PostInv, Filed
    <2>. QED BY <2>1 DEF PostInv, Filed
  <1>4. /\ wallet' = [wallet EXCEPT ![request[u].captain] = @ - m]
        /\ debits' = [debits EXCEPT ![u] = @ + d]
    BY <1>0 DEF MoneyMoves
  <1>5. d \in Int /\ request[u].amount \in Int /\ debits[u] \in Int
    BY <1>3 DEF Drawn, Fits, WalletTypeOK, Request
  <1>. HIDE DEF u, d
  <1>6. m \in Int /\ debits[u] * request[u].amount \in Int
        /\ (debits[u] + d) * request[u].amount = debits[u] * request[u].amount + m
    BY <1>5
  <1>7. debits'[u] = debits[u] + d /\ \A w \in Withdrawals : w # u => debits'[w] = debits[w]
    BY <1>3, <1>4 DEF Fits, WalletTypeOK
  <1>8. CallsInTime' /\ Filed'
    BY <1>0, <1>1, <1>2, <1>3, <1>7, ReviewFiles DEF u
  <1>. HIDE DEF m
  <1>9. ~handed' => Right'
    <2>1. ASSUME NEW k \in Captains
          PROVE  /\ Share(debits', request', k, u) \in Int /\ Share(debits, request, k, u) \in Int
                 /\ wallet'[k] + Share(debits', request', k, u) = wallet[k] + Share(debits, request, k, u)
      <3>1. wallet \in [Captains -> Int] /\ request' = request
        BY <1>1 DEF Fits, WalletTypeOK
      <3>2. CASE request[u].captain = k
        <4>1. wallet'[k] = wallet[k] - m /\ wallet[k] \in Int
          BY <1>4, <1>6, <3>1, <3>2
        <4>2. Share(debits', request', k, u) = debits[u] * request[u].amount + m
          BY <1>6, <1>7, <3>1, <3>2 DEF Share
        <4>3. Share(debits, request, k, u) = debits[u] * request[u].amount
          BY <3>2 DEF Share
        <4>. QED BY <1>6, <4>1, <4>2, <4>3
      <3>3. CASE request[u].captain # k
        BY <1>4, <3>1, <3>3 DEF Share
      <3>. QED BY <3>2, <3>3
    <2>2. Right => Right'
      <3>1. \A w \in Withdrawals : w # u => debits'[w] = debits[w] /\ request'[w] = request[w]
        BY <1>1, <1>7
      <3>2. UNCHANGED jobVars
        BY <1>1
      <3>. QED BY <1>3, <2>1, <3>1, <3>2, DrawnRight
    <2>. QED BY <1>1, <2>2 DEF PostInv, jobVars
  <1>. QED BY <1>8, <1>9 DEF PostInv

LEMMA PostStep == ASSUME Fits, SharesAddUp, PostInv, [WalletNext]_vars PROVE PostInv'
  <1>0. Fits'
    BY FitsStep
  <1>1. CASE UNCHANGED vars
    <2>1. UNCHANGED <<jobVars, wallet, request, debits>> /\ call' = call
      BY <1>1 DEF vars, drawVars
    <2>. QED BY <2>1, AsidePosts
  <1>2. CASE Priced
    BY <1>0, <1>2, PricedPosts
  <1>3. CASE Worked
    BY <1>0, <1>3, WorkKeeps, FinishPosts, GivePosts DEF Worked
  <1>4. ASSUME NEW w \in Withdrawals, NEW k \in Captains, NEW n \in Amounts, Ask(w, k, n) PROVE PostInv'
    BY <1>0, <1>4, AskPosts
  <1>5. ASSUME NEW a \in Calls, Called(a) PROVE PostInv'
    <2>1. CASE \/ \E k \in Captains : (\E n \in 0..Penalty : ReadToSetOff(a, k, n)) \/ ReadToRelease(a, k) \/ ReadToCollect(a, k)
               \/ \E w \in Withdrawals : \E to \in {"approved", "rejected", "paid"} : Review(a, w, to)
      BY <2>1, ReadsPost
    <2>2. CASE SetOff(a) \/ Release(a) \/ Collect(a)
      BY <1>0, <2>2, SetOffKeeps, CollectPosts
    <2>3. CASE Claim(a) \/ HandBack(a) \/ Draw(a) \/ RowFails(a)
      BY <1>0, <2>3, ClaimPosts, MoneyPosts
    <2>4. CASE DrawFails(a) \/ Dies(a)
      BY <2>4, DiesPosts
    <2>. QED BY <1>5, <2>1, <2>2, <2>3, <2>4 DEF Called
  <1>. QED BY <1>1, <1>2, <1>3, <1>4, <1>5 DEF WalletNext

-----------------------------------------------------------------------------
\* The job, the wallets, the requests and the calls keep their types, for any
\* captains, calls, prices and pay.
THEOREM WalletTyped == WalletSpec => []WalletTypeOK
  <1>1. Fits /\ SharesAddUp => WalletTypeOK
    BY DEF Fits
  <1>. QED BY <1>1, FitsInit, FitsStep, PTL DEF WalletSpec

\* What the captain and the platform get of a job adds up to its price, and he is
\* short of his pay by his penalty alone, but for shares written from a stale read
\* (start_heading, captain_cancel).
THEOREM SharesAlwaysAddUp == WalletSpec => []SharesAddUp
  BY FitsInit, FitsStep, PTL DEF WalletSpec

\* A request stands approved or paid when it was taken from the wallet once, and
\* otherwise not at all, however many review it at once, but for those `muddled`.
THEOREM DrawnOnce == WalletSpec => []DebitedOnce
  <1>1. WalletInit => Fits /\ SharesAddUp /\ DrawInv
    BY FitsInit, DrawInit
  <1>2. Fits /\ SharesAddUp /\ DrawInv /\ [WalletNext]_vars => Fits' /\ SharesAddUp' /\ DrawInv'
    BY FitsStep, DrawStep
  <1>3. Fits /\ SharesAddUp /\ DrawInv => DebitedOnce
    BY OnceMeansOnce
  <1>. QED BY <1>1, <1>2, <1>3, PTL DEF WalletSpec

\* Every captain's wallet holds what the job earned whoever finished it, less the cash he
\* took and what he has drawn, however often a collection is repeated, a job reopened or a
\* payout retried (settle_captain_wallet, captain_collect_cash, review_withdrawal),
\* unless cash was taken for a job that was given away.
THEOREM WalletsAreRight == WalletSpec => []WalletsFollowJobs
  <1>1. WalletInit => Fits /\ SharesAddUp /\ PostInv
    BY FitsInit, PostInit
  <1>2. Fits /\ SharesAddUp /\ PostInv /\ [WalletNext]_vars => Fits' /\ SharesAddUp' /\ PostInv'
    BY FitsStep, PostStep
  <1>3. Fits /\ SharesAddUp /\ PostInv => WalletsFollowJobs
    BY PostsFollow
  <1>. QED BY <1>1, <1>2, <1>3, PTL DEF WalletSpec

=============================================================================
