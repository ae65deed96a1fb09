------------------------- MODULE ReminderLoopProofs -------------------------
(***************************************************************************)
(* Proofs about ReminderLoop, for any instances, rows, sweeps and times:   *)
(* if the database answers within what the sweep timeout leaves of the     *)
(* lease, two instances never sweep at once and no row is told twice       *)
(* behind the loop's back.                                                 *)
(***************************************************************************)
EXTENDS ReminderLoop, TLAPS

\* Outside a sweep, and inside one past its renewal.
Outside == {"asleep", "claim", "claimed", "denied", "gone", "next"}
Inside == {"read", "each", "send", "mark"}

\* Who sweeps renewed the lease when its sweep was about to start, and who is
\* about to start one has just renewed it.
Covered ==
  /\ \A p \in Procs : run[p].step \in Outside => run[p].running = FALSE
  /\ \A p \in Procs : run[p].step \in Inside => run[p].running = TRUE
  /\ \A p \in Procs : run[p].step = "held" => holder = p /\ left + run[p].age >= LeaseTime
  /\ \A p \in Procs : run[p].running = TRUE =>
        holder = p /\ left + run[p].sweepAge + MaxDelay >= LeaseTime

\* What a sweep has read and not marked is still due, and a message sent for a
\* row still due is about to be marked or was cut off.
Told ==
  /\ \A p \in Procs : run[p].todo \cup run[p].row \subseteq due
  /\ \A p \in Procs : run[p].todo \cap run[p].row = {}
  /\ \A p \in Procs : run[p].running = FALSE => run[p].todo = {} /\ run[p].row = {}
  /\ \A p \in Procs : run[p].step \in {"read", "each"} => run[p].row = {}
  /\ \A i \in sent \cap due : i \in cutOff \/ \E p \in Procs : run[p].step = "mark" /\ i \in run[p].row
  /\ again \subseteq cutOff

LoopInv == LoopTypeOK /\ Covered

USE DEF lease, work, Goes, AFault, LongExpired

-----------------------------------------------------------------------------
LEMMA TypeInit == ASSUME LoopAssumption, LoopInit PROVE LoopTypeOK
<1>1. Asleep(0, FALSE, FALSE) \in Loop
  <2>1. 0 \in 0..MaxDelay /\ 0 \in 0..PauseTime /\ 0 \in 0..PassBudget + 1 /\ 0 \in 0..LastSweep
        /\ 0 \in 0..SweepTimeout /\ 0 \in 0..ItemRenew
    BY DEF LoopAssumption
  <2> QED BY <2>1 DEF Asleep, Loop, Steps
<1>2. 0 \in 0..MaxFaults /\ LongExpired \in LongExpired..LeaseTime BY DEF LoopAssumption
<1> QED BY <1>1, <1>2 DEF LoopInit, LoopTypeOK

LEMMA AsleepType ==
  ASSUME LoopAssumption, NEW time \in 0..PauseTime, NEW e \in BOOLEAN, NEW s \in BOOLEAN
  PROVE  Asleep(time, e, s) \in Loop
<1>1. 0 \in 0..MaxDelay /\ 0 \in 0..PassBudget + 1 /\ 0 \in 0..LastSweep /\ 0 \in 0..SweepTimeout /\ 0 \in 0..ItemRenew
  BY DEF LoopAssumption
<1> QED BY <1>1 DEF Asleep, Loop, Steps

LEMMA SweepOverType == ASSUME LoopAssumption, NEW r \in Loop PROVE SweepOver(r) \in Loop
<1>1. 0 \in 0..MaxDelay /\ 0 \in 0..SweepTimeout BY DEF LoopAssumption
<1> QED BY <1>1 DEF SweepOver, Loop, Steps

\* A fault counted stays within the bound.
LEMMA FaultCounted == ASSUME LoopAssumption, LoopTypeOK, AFault PROVE faults' \in 0..MaxFaults
BY DEF LoopAssumption, LoopTypeOK

\* Each action leaves every loop in a state of its type.
LEMMA LeaseTypes ==
  ASSUME LoopAssumption, LoopTypeOK, NEW p \in Procs, LeaseStep(p)
  PROVE LoopTypeOK'
<1>0. run[p] \in Loop /\ LeaseTime \in Nat /\ MaxDelay \in Nat /\ Skew \in Nat /\ RetryTime \in 0..PauseTime
      /\ PauseTime \in 0..PauseTime /\ 0 \in 0..PauseTime
  BY DEF LoopTypeOK, LoopAssumption
<1>1. CASE Wake(p)
  BY <1>0, <1>1 DEF Wake, LoopTypeOK, Loop, Steps, Waiting
<1>2. CASE Claim(p)
  <2>1. PICK skew \in -Skew..Skew :
          IF holder = p \/ Expired(p, skew)
            THEN /\ holder' = p /\ left' = LeaseTime - run[p].age
                 /\ Goes(p, [run[p] EXCEPT !.step = "claimed"])
            ELSE /\ Goes(p, [run[p] EXCEPT !.step = "denied"])
                 /\ UNCHANGED lease
    BY <1>2 DEF Claim
  <2>2. UNCHANGED <<work, faults>> BY <1>2 DEF Claim
  <2>3. run[p].age \in 0..MaxDelay BY <1>0 DEF Loop
  <2>4. LeaseTime - run[p].age \in LongExpired..LeaseTime BY <1>0, <2>3
  <2> QED
    BY <1>0, <2>1, <2>2, <2>4 DEF LoopTypeOK, Loop, Steps, Waiting
<1>3. CASE ClaimAnswered(p)
  <2>1. run[p].stopping \in BOOLEAN BY <1>0 DEF Loop
  <2>2. Asleep(0, TRUE, run[p].stopping) \in Loop BY <1>0, <2>1, AsleepType
  <2>3. [Asleep(0, TRUE, run[p].stopping) EXCEPT !.step = "next"] \in Loop BY <2>2 DEF Loop, Steps
  <2>4. Asleep(RetryTime, FALSE, run[p].stopping) \in Loop BY <1>0, <2>1, AsleepType
  <2> QED BY <1>3, <2>3, <2>4 DEF ClaimAnswered, LoopTypeOK
<1>4. CASE Renew(p)
  <2>1. run[p].age \in 0..MaxDelay BY <1>0 DEF Loop
  <2>2. LeaseTime - run[p].age \in LongExpired..LeaseTime BY <1>0, <2>1
  <2> QED
    BY <1>0, <1>4, <2>2 DEF Renew, LoopTypeOK, Loop, Steps, Waiting
<1>5. CASE RenewAnswered(p)
  <2>1. run[p].stopping \in BOOLEAN /\ run[p].elected \in BOOLEAN BY <1>0 DEF Loop
  <2>2. Asleep(PauseTime, run[p].elected, run[p].stopping) \in Loop BY <1>0, <2>1, AsleepType
  <2>3. 0 \in 0..MaxDelay /\ 0 \in 0..ItemRenew /\ 0 \in 0..SweepTimeout BY DEF LoopAssumption
  <2>4. [run[p] EXCEPT !.step = "send", !.age = 0, !.renewAge = 0] \in Loop BY <1>0, <2>3 DEF Loop, Steps
  <2>5. [run[p] EXCEPT !.step = "read", !.age = 0, !.renewAge = 0, !.running = TRUE, !.sweepAge = 0] \in Loop
    BY <1>0, <2>3 DEF Loop, Steps
  <2> QED BY <1>5, <2>2, <2>4, <2>5 DEF RenewAnswered, LoopTypeOK
<1> QED BY <1>1, <1>2, <1>3, <1>4, <1>5 DEF LeaseStep

LEMMA SweepTypes ==
  ASSUME LoopAssumption, LoopTypeOK, NEW p \in Procs, SweepStep(p)
  PROVE LoopTypeOK'
<1>0. run[p] \in Loop /\ PauseTime \in Nat
  BY DEF LoopTypeOK, LoopAssumption
<1>1. CASE NextSweep(p)
  <2>1. run[p].sweep \in 0..LastSweep /\ LastSweep \in Nat BY <1>0 DEF Loop, LoopAssumption
  <2>2. CASE PassOver(run[p]) \/ run[p].sweep = LastSweep
    <3>1. run[p].stopping \in BOOLEAN /\ run[p].elected \in BOOLEAN BY <1>0 DEF Loop
    <3>2. Asleep(PauseTime, run[p].elected, run[p].stopping) \in Loop BY <1>0, <3>1, AsleepType
    <3> QED BY <1>1, <2>2, <3>2 DEF NextSweep, LoopTypeOK
  <2>3. CASE ~(PassOver(run[p]) \/ run[p].sweep = LastSweep)
    <3>1. run[p].sweep + 1 \in 0..LastSweep BY <2>1, <2>3
    <3> QED BY <1>0, <1>1, <2>3, <3>1 DEF NextSweep, LoopTypeOK, Loop, Steps, Waiting
  <2> QED BY <2>2, <2>3
<1>2. CASE ReadDue(p)
  BY <1>0, <1>2 DEF ReadDue, LoopTypeOK, Loop, Steps
<1>3. CASE NextRow(p)
  <2>1. run[p].stopping \in BOOLEAN /\ run[p].elected \in BOOLEAN /\ run[p].todo \subseteq Rows BY <1>0 DEF Loop
  <2>2. Asleep(PauseTime, run[p].elected, run[p].stopping) \in Loop BY <1>0, <2>1, AsleepType
  <2>3. SweepOver(run[p]) \in Loop BY <1>0, SweepOverType
  <2>4. ASSUME NEW i \in run[p].todo, NEW step \in {"renew", "send"}
        PROVE  [run[p] EXCEPT !.step = step, !.todo = @ \ {i}, !.row = {i}] \in Loop
    BY <1>0, <2>1 DEF Loop, Steps, Waiting
  <2> QED BY <1>3, <2>2, <2>3, <2>4 DEF NextRow, LoopTypeOK
<1>4. CASE Send(p)
  BY <1>0, <1>4 DEF Send, LoopTypeOK, Loop, Steps
<1>5. CASE Mark(p)
  BY <1>0, <1>5 DEF Mark, LoopTypeOK, Loop, Steps
<1>6. CASE TimedOut(p)
  <2>1. SweepOver(run[p]) \in Loop BY <1>0, SweepOverType
  <2>2. CutOff(run[p]) \subseteq Rows BY <1>0 DEF CutOff, Loop
  <2> QED BY <1>6, <2>1, <2>2 DEF TimedOut, LoopTypeOK
<1> QED BY <1>1, <1>2, <1>3, <1>4, <1>5, <1>6 DEF SweepStep

LEMMA FaultTypes ==
  ASSUME LoopAssumption, LoopTypeOK, NEW p \in Procs, Comes(p) \/ Fault(p)
  PROVE LoopTypeOK'
<1>0. run[p] \in Loop /\ 0 \in 0..PauseTime /\ LeaseTime \in Nat /\ MaxDelay \in Nat /\ Skew \in Nat /\ MaxFaults \in Nat
  BY DEF LoopTypeOK, LoopAssumption
<1>1. CASE LoopEnds(p)
  BY <1>0, <1>1 DEF LoopEnds, LoopTypeOK, Loop, Steps
<1>2. CASE Start(p)
  BY <1>0, <1>2 DEF Start, LoopTypeOK, Loop, Steps, Asleep, LoopAssumption
<1>3. CASE CallFails(p)
  BY <1>0, <1>3 DEF CallFails, LoopTypeOK, Loop, Steps, Waiting
<1>4. CASE SweepFails(p)
  BY <1>0, <1>4, SweepOverType, FaultCounted DEF SweepFails, LoopTypeOK
<1>5. CASE RowFails(p)
  <2>1. CutOff(run[p]) \subseteq Rows BY <1>0 DEF CutOff, Loop
  <2>2. [run[p] EXCEPT !.step = "each", !.row = {}] \in Loop BY <1>0 DEF Loop, Steps
  <2>3. faults' \in 0..MaxFaults BY <1>5, FaultCounted DEF RowFails
  <2> QED BY <1>5, <2>1, <2>2, <2>3 DEF RowFails, LoopTypeOK
<1>6. CASE Shutdown(p)
  <2>1. [run[p] EXCEPT !.stopping = TRUE] \in Loop BY <1>0 DEF Loop
  <2>2. faults' \in 0..MaxFaults BY <1>6, FaultCounted DEF Shutdown
  <2> QED BY <1>6, <2>1, <2>2 DEF Shutdown, LoopTypeOK
<1>7. CASE Kill(p)
  <2>1. Asleep(0, FALSE, FALSE) \in Loop BY <1>0, AsleepType
  <2>2. [Asleep(0, FALSE, FALSE) EXCEPT !.step = "gone"] \in Loop BY <2>1 DEF Loop, Steps
  <2>3. CutOff(run[p]) \subseteq Rows BY <1>0 DEF CutOff, Loop
  <2>4. faults' \in 0..MaxFaults BY <1>7, FaultCounted DEF Kill
  <2> QED BY <1>7, <2>2, <2>3, <2>4 DEF Kill, LoopTypeOK
<1> QED BY <1>1, <1>2, <1>3, <1>4, <1>5, <1>6, <1>7 DEF Comes, Fault

LEMMA TickTypes == ASSUME LoopAssumption, LoopTypeOK, Tick PROVE LoopTypeOK'
<1>0. LeaseTime \in Nat /\ MaxDelay \in Nat /\ Skew \in Nat /\ PauseTime \in Nat /\ PassBudget \in Nat
      /\ SweepTimeout \in Nat /\ ItemRenew \in Nat
  BY DEF LoopAssumption
<1>1. ASSUME NEW p \in Procs PROVE Older(run[p]) \in Loop
  <2>1. run[p] \in Loop /\ MayWait(run[p]) BY DEF Tick, LoopTypeOK
  <2>2. /\ run[p].wait \in 0..PauseTime /\ run[p].age \in 0..MaxDelay
        /\ run[p].passAge \in 0..PassBudget + 1 /\ run[p].sweepAge \in 0..SweepTimeout
        /\ run[p].renewAge \in 0..ItemRenew
    BY <2>1 DEF Loop
  <2>3. (IF run[p].wait > 0 THEN run[p].wait - 1 ELSE 0) \in 0..PauseTime BY <1>0, <2>2
  <2>4. (IF run[p].step \in Waiting THEN run[p].age + 1 ELSE run[p].age) \in 0..MaxDelay
    BY <1>0, <2>1, <2>2 DEF MayWait
  <2>5. AtMost(run[p].passAge + 1, PassBudget + 1) \in 0..PassBudget + 1 BY <1>0, <2>2 DEF AtMost
  <2>6. (IF run[p].running THEN run[p].sweepAge + 1 ELSE run[p].sweepAge) \in 0..SweepTimeout
    BY <1>0, <2>1, <2>2 DEF MayWait
  <2>7. AtMost(run[p].renewAge + 1, ItemRenew) \in 0..ItemRenew BY <1>0, <2>2 DEF AtMost
  <2> QED BY <2>1, <2>3, <2>4, <2>5, <2>6, <2>7 DEF Older, Loop
<1>2. run' \in [Procs -> Loop] BY <1>1 DEF Tick
<1>3. left' \in LongExpired..LeaseTime BY <1>0 DEF Tick, LoopTypeOK
<1> QED BY <1>2, <1>3 DEF Tick, LoopTypeOK

LEMMA TypeStep == ASSUME LoopAssumption, LoopTypeOK, [LoopNext]_vars PROVE LoopTypeOK'
<1>1. ASSUME NEW i \in Rows, FallsDue(i) PROVE LoopTypeOK'
  BY <1>1 DEF FallsDue, LoopTypeOK
<1>2. CASE UNCHANGED vars BY <1>2 DEF vars, LoopTypeOK
<1> QED BY <1>1, <1>2, LeaseTypes, SweepTypes, FaultTypes, TickTypes DEF LoopNext

\* Type correctness of the loop's state: no timer leaves its range.
THEOREM LoopTyped == LoopSpec => []LoopTypeOK
<1>1. LoopInit => LoopTypeOK BY LoopAssumption, TypeInit
<1>2. LoopTypeOK /\ [LoopNext]_vars => LoopTypeOK' BY LoopAssumption, TypeStep
<1> QED BY <1>1, <1>2, PTL DEF LoopSpec

-----------------------------------------------------------------------------
LEMMA Times ==
  ASSUME LoopAssumption, LoopTypeOK
  PROVE  /\ left \in Int /\ LeaseTime \in Nat /\ MaxDelay \in Nat /\ Skew \in Nat /\ SweepTimeout \in Nat
         /\ \A p \in Procs : /\ run[p].age \in 0..MaxDelay
                             /\ run[p].sweepAge \in 0..SweepTimeout
                             /\ run[p].running \in BOOLEAN
BY DEF LoopAssumption, LoopTypeOK, Loop

\* Who is covered holds a lease with more left than any clock can hide.
LEMMA CoveredIsLive ==
  ASSUME LoopAssumption, AnswersInTime, LoopTypeOK, Covered,
         NEW p \in Procs, run[p].step = "held" \/ run[p].running = TRUE
  PROVE  holder = p /\ left > Skew
<1>1. /\ left \in Int /\ LeaseTime \in Nat /\ MaxDelay \in Nat /\ Skew \in Nat /\ SweepTimeout \in Nat
      /\ run[p].age \in 0..MaxDelay /\ run[p].sweepAge \in 0..SweepTimeout
  BY Times
<1>2. CASE run[p].step = "held"
  <2>1. holder = p /\ left + run[p].age >= LeaseTime BY <1>2 DEF Covered
  <2> QED BY <1>1, <2>1 DEF AnswersInTime
<1>3. CASE run[p].running = TRUE
  <2>1. holder = p /\ left + run[p].sweepAge + MaxDelay >= LeaseTime BY <1>3 DEF Covered
  <2> QED BY <1>1, <2>1 DEF AnswersInTime
<1> QED BY <1>2, <1>3

\* One loop moves: everybody else stays covered if the lease of who is covered
\* is left alone.
LEMMA CoveredFrame ==
  ASSUME LoopAssumption, LoopTypeOK, LoopTypeOK', Covered, NEW p \in Procs, NEW r, Goes(p, r),
         r.step \in Outside => r.running = FALSE,
         r.step \in Inside => r.running = TRUE,
         r.step = "held" => holder' = p /\ left' + r.age >= LeaseTime,
         r.running = TRUE => holder' = p /\ left' + r.sweepAge + MaxDelay >= LeaseTime,
         \A q \in Procs \ {p} : run[q].step = "held" \/ run[q].running = TRUE => UNCHANGED lease
  PROVE  Covered'
<1>1. run'[p] = r BY DEF LoopTypeOK
<1>2. \A q \in Procs \ {p} : run'[q] = run[q] BY DEF LoopTypeOK
<1>3. ASSUME NEW q \in Procs \ {p} PROVE
        /\ run'[q].step \in Outside => run'[q].running = FALSE
        /\ run'[q].step \in Inside => run'[q].running = TRUE
        /\ run'[q].step = "held" => holder' = q /\ left' + run'[q].age >= LeaseTime
        /\ run'[q].running = TRUE => holder' = q /\ left' + run'[q].sweepAge + MaxDelay >= LeaseTime
  BY <1>2, <1>3 DEF Covered
<1> QED BY <1>1, <1>3 DEF Covered

LEMMA CoveredLease ==
  ASSUME LoopAssumption, AnswersInTime, LoopTypeOK, LoopTypeOK', Covered, NEW p \in Procs, LeaseStep(p)
  PROVE  Covered'
<1>0. /\ left \in Int /\ LeaseTime \in Nat /\ MaxDelay \in Nat /\ Skew \in Nat /\ SweepTimeout \in Nat
      /\ run[p].age \in 0..MaxDelay /\ run[p].sweepAge \in 0..SweepTimeout /\ run[p] \in Loop
  BY Times DEF LoopTypeOK
<1>1. CASE Wake(p)
  <2> DEFINE r == [run[p] EXCEPT !.step = "claim"]
  <2>1. r.step = "claim" /\ r.running = run[p].running BY <1>0 DEF Loop
  <2>2. r.running = FALSE BY <1>1, <2>1 DEF Wake, Covered, Outside
  <2>3. Goes(p, r) /\ UNCHANGED lease BY <1>1 DEF Wake
  <2> HIDE DEF r
  <2> QED BY <2>1, <2>2, <2>3, CoveredFrame DEF Outside, Inside
<1>2. CASE Claim(p)
  <2>1. PICK skew \in -Skew..Skew :
          IF holder = p \/ Expired(p, skew)
            THEN /\ holder' = p /\ left' = LeaseTime - run[p].age
                 /\ Goes(p, [run[p] EXCEPT !.step = "claimed"])
            ELSE /\ Goes(p, [run[p] EXCEPT !.step = "denied"])
                 /\ UNCHANGED lease
    BY <1>2 DEF Claim
  <2>2. run[p].running = FALSE BY <1>2 DEF Claim, Covered, Outside
  <2>3. PICK step \in {"claimed", "denied"} : Goes(p, [run[p] EXCEPT !.step = step]) BY <2>1
  <2> DEFINE r == [run[p] EXCEPT !.step = step]
  <2>4. r.step = step /\ r.running = FALSE BY <1>0, <2>2 DEF Loop
  <2>5. ASSUME NEW q \in Procs \ {p}, run[q].step = "held" \/ run[q].running = TRUE PROVE UNCHANGED lease
    <3>1. holder = q /\ left > Skew BY <2>5, CoveredIsLive
    <3>2. ~Expired(p, skew) BY <1>0, <3>1 DEF Expired
    <3> QED BY <2>1, <3>1, <3>2
  <2> HIDE DEF r
  <2>6. Goes(p, r) BY <2>3 DEF r
  <2> QED BY <2>4, <2>5, <2>6, CoveredFrame DEF Outside, Inside
<1>3. CASE ClaimAnswered(p)
  <2> DEFINE r == IF run[p].step = "claimed"
                    THEN [Asleep(0, TRUE, run[p].stopping) EXCEPT !.step = "next"]
                    ELSE Asleep(RetryTime, FALSE, run[p].stopping)
  <2>1. r.step \in {"next", "asleep"} /\ r.running = FALSE BY DEF Asleep
  <2>2. Goes(p, r) /\ UNCHANGED lease BY <1>3 DEF ClaimAnswered
  <2> HIDE DEF r
  <2> QED BY <2>1, <2>2, CoveredFrame DEF Outside, Inside
<1>4. CASE Renew(p)
  <2>1. CASE holder = p
    <3> DEFINE r == [run[p] EXCEPT !.step = "held"]
    <3>1. r.step = "held" /\ r.running = run[p].running /\ r.age = run[p].age /\ r.sweepAge = run[p].sweepAge
      BY <1>0 DEF Loop
    <3>2. Goes(p, r) /\ left' = LeaseTime - run[p].age /\ holder' = p BY <1>4, <2>1 DEF Renew
    <3>3. ASSUME NEW q \in Procs \ {p}, run[q].step = "held" \/ run[q].running = TRUE PROVE FALSE
      BY <2>1, <3>3, CoveredIsLive
    <3> HIDE DEF r
    <3>4. left' + r.age >= LeaseTime /\ left' + r.sweepAge + MaxDelay >= LeaseTime BY <1>0, <3>1, <3>2
    <3> QED BY <3>1, <3>2, <3>3, <3>4, CoveredFrame DEF Outside, Inside
  <2>2. CASE holder # p
    <3> DEFINE r == [run[p] EXCEPT !.step = "lost"]
    <3>1. r.step = "lost" /\ r.running = run[p].running BY <1>0 DEF Loop
    <3>2. Goes(p, r) /\ UNCHANGED lease BY <1>4, <2>2 DEF Renew
    <3>3. run[p].running # TRUE BY <2>2 DEF Covered
    <3> HIDE DEF r
    <3> QED BY <3>1, <3>2, <3>3, CoveredFrame DEF Outside, Inside
  <2> QED BY <2>1, <2>2
<1>5. CASE RenewAnswered(p)
  <2>0. UNCHANGED lease BY <1>5 DEF RenewAnswered
  <2>1. CASE run[p].step = "lost"
    <3> DEFINE r == Asleep(PauseTime, run[p].elected, run[p].stopping)
    <3>1. r.step = "asleep" /\ r.running = FALSE BY DEF Asleep
    <3>2. Goes(p, r) BY <1>5, <2>1 DEF RenewAnswered
    <3> HIDE DEF r
    <3> QED BY <2>0, <3>1, <3>2, CoveredFrame DEF Outside, Inside
  <2>2. CASE run[p].step # "lost" /\ run[p].running
    <3> DEFINE r == [run[p] EXCEPT !.step = "send", !.age = 0, !.renewAge = 0]
    <3>1. r.step = "send" /\ r.running = TRUE /\ r.sweepAge = run[p].sweepAge BY <1>0, <2>2, Times DEF Loop
    <3>2. Goes(p, r) BY <1>5, <2>2 DEF RenewAnswered
    <3>3. run[p].running = TRUE BY <2>2, Times
    <3>4. holder = p /\ left + run[p].sweepAge + MaxDelay >= LeaseTime BY <3>3 DEF Covered
    <3> HIDE DEF r
    <3> QED BY <2>0, <3>1, <3>2, <3>4, CoveredFrame DEF Outside, Inside
  <2>3. CASE run[p].step # "lost" /\ ~run[p].running
    <3> DEFINE r == [run[p] EXCEPT !.step = "read", !.age = 0, !.renewAge = 0, !.running = TRUE, !.sweepAge = 0]
    <3>1. r.step = "read" /\ r.running = TRUE /\ r.sweepAge = 0 BY <1>0 DEF Loop
    <3>2. Goes(p, r) BY <1>5, <2>3 DEF RenewAnswered
    <3>3. run[p].step = "held" BY <1>5, <2>3 DEF RenewAnswered
    <3>4. holder = p /\ left + run[p].age >= LeaseTime BY <3>3 DEF Covered
    <3>5. left' + r.sweepAge + MaxDelay >= LeaseTime BY <1>0, <2>0, <3>1, <3>4
    <3> HIDE DEF r
    <3> QED BY <2>0, <3>1, <3>2, <3>4, <3>5, CoveredFrame DEF Outside, Inside
  <2> QED BY <2>1, <2>2, <2>3
<1> QED BY <1>1, <1>2, <1>3, <1>4, <1>5 DEF LeaseStep

\* A step that neither renews nor starts a sweep.
LEMMA CoveredSame ==
  ASSUME LoopAssumption, LoopTypeOK, LoopTypeOK', Covered, NEW p \in Procs, NEW r, Goes(p, r), UNCHANGED lease,
         r.step # "held",
         r.step \in Outside => r.running = FALSE,
         r.step \in Inside => r.running = TRUE,
         r.running = TRUE => run[p].running = TRUE /\ r.sweepAge = run[p].sweepAge
  PROVE  Covered'
<1>1. r.running = TRUE => holder' = p /\ left' + r.sweepAge + MaxDelay >= LeaseTime BY DEF Covered
<1> QED BY <1>1, CoveredFrame

LEMMA AsleepFields ==
  ASSUME NEW time, NEW e, NEW s
  PROVE  Asleep(time, e, s).step = "asleep" /\ Asleep(time, e, s).running = FALSE
BY DEF Asleep

LEMMA SweepOverFields ==
  ASSUME NEW r \in Loop PROVE SweepOver(r).step = "next" /\ SweepOver(r).running = FALSE
BY DEF SweepOver, Loop

LEMMA CoveredSweep ==
  ASSUME LoopAssumption, LoopTypeOK, LoopTypeOK', Covered, NEW p \in Procs, SweepStep(p)
  PROVE  Covered'
<1>0. run[p] \in Loop BY DEF LoopTypeOK
<1>1. CASE NextSweep(p)
  <2>0. UNCHANGED lease /\ run[p].running = FALSE BY <1>1 DEF NextSweep, Covered, Outside
  <2>1. CASE PassOver(run[p]) \/ run[p].sweep = LastSweep
    <3>1. Goes(p, Asleep(PauseTime, run[p].elected, run[p].stopping)) BY <1>1, <2>1 DEF NextSweep
    <3> QED BY <2>0, <3>1, AsleepFields, CoveredSame DEF Inside
  <2>2. CASE ~(PassOver(run[p]) \/ run[p].sweep = LastSweep)
    <3> DEFINE r == [run[p] EXCEPT !.step = "renew", !.sweep = @ + 1]
    <3>1. r.step = "renew" /\ r.running = FALSE BY <1>0, <2>0 DEF Loop
    <3>2. Goes(p, r) BY <1>1, <2>2 DEF NextSweep
    <3> HIDE DEF r
    <3> QED BY <2>0, <3>1, <3>2, CoveredSame DEF Inside, Outside
  <2> QED BY <2>1, <2>2
<1>2. CASE ReadDue(p)
  <2> DEFINE r == [run[p] EXCEPT !.step = "each", !.todo = {i \in due : SweepOf[i] = run[p].sweep}]
  <2>1. r.step = "each" /\ r.running = run[p].running /\ r.sweepAge = run[p].sweepAge BY <1>0 DEF Loop
  <2>2. Goes(p, r) /\ UNCHANGED lease BY <1>2 DEF ReadDue
  <2>3. run[p].running = TRUE BY <1>2 DEF ReadDue, Covered, Inside
  <2> HIDE DEF r
  <2> QED BY <2>1, <2>2, <2>3, CoveredSame DEF Inside, Outside
<1>3. CASE NextRow(p)
  <2>0. UNCHANGED lease /\ run[p].running = TRUE BY <1>3 DEF NextRow, Covered, Inside
  <2>1. CASE Goes(p, SweepOver(run[p])) BY <1>0, <2>0, <2>1, SweepOverFields, CoveredSame DEF Inside
  <2>2. CASE Goes(p, Asleep(PauseTime, run[p].elected, run[p].stopping))
    BY <2>0, <2>2, AsleepFields, CoveredSame DEF Inside
  <2>3. ASSUME NEW i \in run[p].todo, NEW step \in {"renew", "send"},
               Goes(p, [run[p] EXCEPT !.step = step, !.todo = @ \ {i}, !.row = {i}])
        PROVE  Covered'
    <3> DEFINE r == [run[p] EXCEPT !.step = step, !.todo = @ \ {i}, !.row = {i}]
    <3>1. r.step = step /\ r.running = TRUE /\ r.sweepAge = run[p].sweepAge BY <1>0, <2>0 DEF Loop
    <3>2. Goes(p, r) BY <2>3
    <3> HIDE DEF r
    <3> QED BY <2>0, <3>1, <3>2, CoveredSame DEF Inside, Outside
  <2> QED BY <1>3, <2>1, <2>2, <2>3 DEF NextRow
<1>4. CASE Send(p)
  <2> DEFINE r == [run[p] EXCEPT !.step = "mark"]
  <2>1. r.step = "mark" /\ r.running = run[p].running /\ r.sweepAge = run[p].sweepAge BY <1>0 DEF Loop
  <2>2. Goes(p, r) /\ UNCHANGED lease BY <1>4 DEF Send
  <2>3. run[p].running = TRUE BY <1>4 DEF Send, Covered, Inside
  <2> HIDE DEF r
  <2> QED BY <2>1, <2>2, <2>3, CoveredSame DEF Inside, Outside
<1>5. CASE Mark(p)
  <2> DEFINE r == [run[p] EXCEPT !.step = "each", !.row = {}]
  <2>1. r.step = "each" /\ r.running = run[p].running /\ r.sweepAge = run[p].sweepAge BY <1>0 DEF Loop
  <2>2. Goes(p, r) /\ UNCHANGED lease BY <1>5 DEF Mark
  <2>3. run[p].running = TRUE BY <1>5 DEF Mark, Covered, Inside
  <2> HIDE DEF r
  <2> QED BY <2>1, <2>2, <2>3, CoveredSame DEF Inside, Outside
<1>6. CASE TimedOut(p)
  BY <1>0, <1>6, SweepOverFields, CoveredSame DEF TimedOut, Inside
<1> QED BY <1>1, <1>2, <1>3, <1>4, <1>5, <1>6 DEF SweepStep

LEMMA CoveredFault ==
  ASSUME LoopAssumption, AnswersInTime, LoopTypeOK, LoopTypeOK', Covered, NEW p \in Procs, Comes(p) \/ Fault(p)
  PROVE  Covered'
<1>0. run[p] \in Loop BY DEF LoopTypeOK
<1>1. CASE LoopEnds(p)
  <2> DEFINE r == [run[p] EXCEPT !.step = "gone"]
  <2>0. r.step = "gone" /\ r.running = run[p].running BY <1>0 DEF Loop
  <2>1. Goes(p, r) BY <1>1 DEF LoopEnds
  <2>2. run[p].running = FALSE BY <1>1 DEF LoopEnds, Covered, Outside
  <2>3. ASSUME NEW q \in Procs \ {p}, run[q].step = "held" \/ run[q].running = TRUE PROVE UNCHANGED lease
    <3>1. holder = q BY <2>3, CoveredIsLive
    <3> QED BY <1>1, <3>1 DEF LoopEnds
  <2> HIDE DEF r
  <2> QED BY <2>0, <2>1, <2>2, <2>3, CoveredFrame DEF Inside, Outside
<1>2. CASE Start(p)
  <2> DEFINE r == Asleep(0, FALSE, FALSE)
  <2>0. r.step = "asleep" /\ r.running = FALSE BY AsleepFields
  <2>1. Goes(p, r) BY <1>2 DEF Start
  <2>2. ASSUME NEW q \in Procs \ {p}, run[q].step = "held" \/ run[q].running = TRUE PROVE UNCHANGED lease
    <3>1. holder = q BY <2>2, CoveredIsLive
    <3> QED BY <1>2, <3>1 DEF Start
  <2> HIDE DEF r
  <2> QED BY <2>0, <2>1, <2>2, CoveredFrame DEF Inside, Outside
<1>3. CASE CallFails(p)
  <2>1. PICK step \in {"denied", "lost"} :
          Goes(p, [run[p] EXCEPT !.step = step]) /\ (step = "denied" => run[p].step \in {"claim", "claimed"})
    BY <1>0, <1>3 DEF CallFails, Loop
  <2>2. run[p].step \in {"claim", "claimed"} => run[p].running = FALSE BY DEF Covered, Outside
  <2>3. UNCHANGED lease BY <1>3 DEF CallFails
  <2> DEFINE r == [run[p] EXCEPT !.step = step]
  <2>4. r.step = step /\ r.running = run[p].running /\ r.sweepAge = run[p].sweepAge BY <1>0 DEF Loop
  <2>5. Goes(p, r) BY <2>1
  <2> HIDE DEF r
  <2> QED BY <2>1, <2>2, <2>3, <2>4, <2>5, CoveredSame DEF Inside, Outside
<1>4. CASE SweepFails(p)
  BY <1>0, <1>4, SweepOverFields, CoveredSame DEF SweepFails, Inside
<1>5. CASE RowFails(p)
  <2> DEFINE r == [run[p] EXCEPT !.step = "each", !.row = {}]
  <2>1. r.step = "each" /\ r.running = run[p].running /\ r.sweepAge = run[p].sweepAge BY <1>0 DEF Loop
  <2>2. Goes(p, r) /\ UNCHANGED lease BY <1>5 DEF RowFails
  <2>3. run[p].running = TRUE BY <1>5 DEF RowFails, Covered, Inside
  <2> HIDE DEF r
  <2> QED BY <2>1, <2>2, <2>3, CoveredSame DEF Inside, Outside
<1>6. CASE Shutdown(p)
  <2> DEFINE r == [run[p] EXCEPT !.stopping = TRUE]
  <2>1. r.step = run[p].step /\ r.running = run[p].running /\ r.sweepAge = run[p].sweepAge /\ r.age = run[p].age
    BY <1>0 DEF Loop
  <2>2. Goes(p, r) /\ UNCHANGED lease BY <1>6 DEF Shutdown
  <2> HIDE DEF r
  <2>3. /\ r.step \in Outside => r.running = FALSE
        /\ r.step \in Inside => r.running = TRUE
        /\ r.step = "held" => holder' = p /\ left' + r.age >= LeaseTime
        /\ r.running = TRUE => holder' = p /\ left' + r.sweepAge + MaxDelay >= LeaseTime
    BY <2>1, <2>2 DEF Covered
  <2> QED BY <2>2, <2>3, CoveredFrame
<1>7. CASE Kill(p)
  <2> DEFINE r == [Asleep(0, FALSE, FALSE) EXCEPT !.step = "gone"]
  <2>1. r.step = "gone" /\ r.running = FALSE BY DEF Asleep
  <2>2. Goes(p, r) /\ UNCHANGED lease BY <1>7 DEF Kill
  <2> HIDE DEF r
  <2> QED BY <2>1, <2>2, CoveredSame DEF Inside, Outside
<1> QED BY <1>1, <1>2, <1>3, <1>4, <1>5, <1>6, <1>7 DEF Comes, Fault

\* The fields of a loop that time leaves alone or moves by one.
LEMMA OlderFields ==
  ASSUME NEW r \in Loop
  PROVE  /\ Older(r).step = r.step /\ Older(r).running = r.running
         /\ Older(r).todo = r.todo /\ Older(r).row = r.row
         /\ r.step = "held" => Older(r).age = r.age + 1
         /\ r.running = TRUE => Older(r).sweepAge = r.sweepAge + 1
BY DEF Older, Loop, Waiting

LEMMA CoveredTick ==
  ASSUME LoopAssumption, AnswersInTime, LoopTypeOK, LoopTypeOK', Covered, Tick
  PROVE  Covered'
<1>1. ASSUME NEW q \in Procs PROVE
        /\ run'[q].step \in Outside => run'[q].running = FALSE
        /\ run'[q].step \in Inside => run'[q].running = TRUE
        /\ run'[q].step = "held" => holder' = q /\ left' + run'[q].age >= LeaseTime
        /\ run'[q].running = TRUE => holder' = q /\ left' + run'[q].sweepAge + MaxDelay >= LeaseTime
  <2>1. run[q] \in Loop /\ run'[q] = Older(run[q]) /\ holder' = holder BY DEF Tick, LoopTypeOK
  <2>2. /\ run'[q].step = run[q].step /\ run'[q].running = run[q].running
        /\ run[q].step = "held" => run'[q].age = run[q].age + 1
        /\ run[q].running = TRUE => run'[q].sweepAge = run[q].sweepAge + 1
    BY <2>1, OlderFields
  <2>3. /\ left \in Int /\ LeaseTime \in Nat /\ MaxDelay \in Nat /\ Skew \in Nat
        /\ run[q].age \in 0..MaxDelay /\ run[q].sweepAge \in 0..SweepTimeout /\ SweepTimeout \in Nat
    BY Times
  <2>4. left' >= left - 1 BY <2>3 DEF Tick
  <2>4a. left' \in Int BY <2>3 DEF Tick
  <2>5. run[q].step = "held" => holder = q /\ left + run[q].age >= LeaseTime BY DEF Covered
  <2>6. run[q].running = TRUE => holder = q /\ left + run[q].sweepAge + MaxDelay >= LeaseTime BY DEF Covered
  <2>7. run'[q].step = "held" => left' + run'[q].age >= LeaseTime BY <2>2, <2>3, <2>4, <2>4a, <2>5
  <2>8. run'[q].running = TRUE => left' + run'[q].sweepAge + MaxDelay >= LeaseTime BY <2>2, <2>3, <2>4, <2>4a, <2>6
  <2>9. /\ run'[q].step \in Outside => run'[q].running = FALSE
        /\ run'[q].step \in Inside => run'[q].running = TRUE
    BY <2>2 DEF Covered
  <2> QED BY <2>1, <2>2, <2>5, <2>6, <2>7, <2>8, <2>9
<1> QED BY <1>1 DEF Covered

LEMMA CoveredKept == ASSUME Covered, UNCHANGED <<holder, left, run>> PROVE Covered'
BY DEF Covered

LEMMA LoopInvStep ==
  ASSUME LoopAssumption, AnswersInTime, LoopInv, [LoopNext]_vars
  PROVE  LoopInv'
<1>1. LoopTypeOK' BY TypeStep DEF LoopInv
<1>2. ASSUME NEW i \in Rows, FallsDue(i) PROVE Covered'
  <2>1. UNCHANGED <<holder, left, run>> BY <1>2 DEF FallsDue
  <2> QED BY <2>1, CoveredKept DEF LoopInv
<1>3. ASSUME UNCHANGED vars PROVE Covered'
  <2>1. UNCHANGED <<holder, left, run>> BY <1>3 DEF vars
  <2> QED BY <2>1, CoveredKept DEF LoopInv
<1> QED
  BY <1>1, <1>2, <1>3, CoveredLease, CoveredSweep, CoveredFault, CoveredTick DEF LoopNext, LoopInv

LEMMA LoopInvInit == ASSUME LoopAssumption, LoopInit PROVE LoopInv
<1>0. Asleep(0, FALSE, FALSE).step = "asleep" /\ Asleep(0, FALSE, FALSE).running = FALSE BY AsleepFields
<1>1. \A p \in Procs : run[p].step = "asleep" /\ run[p].running = FALSE BY <1>0 DEF LoopInit
<1>2. Covered BY <1>1 DEF Covered, Inside
<1> QED BY <1>2, TypeInit DEF LoopInv

LEMMA AlwaysCovered == ASSUME AnswersInTime PROVE LoopSpec => []LoopInv
<1>1. LoopInit => LoopInv BY LoopAssumption, LoopInvInit
<1>2. LoopInv /\ [LoopNext]_vars => LoopInv' BY LoopAssumption, LoopInvStep
<1> QED BY <1>1, <1>2, PTL DEF LoopSpec

LEMMA CoveredAlone == ASSUME LoopTypeOK, Covered PROVE OneSweeper
BY DEF LoopTypeOK, Loop, Covered, OneSweeper

\* Two instances never sweep at once, if the database answers a renewal within
\* what the sweep timeout and the clocks leave of the lease.
THEOREM SweepsAlone == ASSUME AnswersInTime PROVE LoopSpec => []OneSweeper
<1>1. LoopInv => OneSweeper BY CoveredAlone DEF LoopInv
<1>2. LoopSpec => []LoopInv BY AlwaysCovered
<1> QED BY <1>1, <1>2, PTL

-----------------------------------------------------------------------------
LEMMA ToldInit == ASSUME LoopInit PROVE Told
<1>0. Asleep(0, FALSE, FALSE).step = "asleep" /\ Asleep(0, FALSE, FALSE).todo = {} /\ Asleep(0, FALSE, FALSE).row = {}
  BY DEF Asleep
<1> QED BY <1>0 DEF LoopInit, Told

\* A loop moves and tells nobody: what it has in hand is what it had or less,
\* and the row it leaves unmarked is noted.
LEMMA ToldFrame ==
  ASSUME LoopTypeOK, Told, NEW p \in Procs, NEW r, Goes(p, r), UNCHANGED <<due, sent, again>>,
         r.todo \cup r.row \subseteq run[p].todo \cup run[p].row,
         r.todo \cap r.row = {},
         r.running = FALSE => r.todo = {} /\ r.row = {},
         r.step \in {"read", "each"} => r.row = {},
         cutOff \subseteq cutOff',
         run[p].step = "mark" => run[p].row \subseteq cutOff' \/ (r.step = "mark" /\ r.row = run[p].row)
  PROVE  Told'
<1>1. run'[p] = r /\ \A q \in Procs \ {p} : run'[q] = run[q] BY DEF LoopTypeOK
<1>2. ASSUME NEW i \in sent \cap due PROVE i \in cutOff' \/ \E q \in Procs : run'[q].step = "mark" /\ i \in run'[q].row
  <2>1. CASE i \in cutOff BY <2>1
  <2>2. CASE \E q \in Procs : run[q].step = "mark" /\ i \in run[q].row
    <3>1. PICK q \in Procs : run[q].step = "mark" /\ i \in run[q].row BY <2>2
    <3>2. CASE q = p BY <1>1, <3>1, <3>2
    <3>3. CASE q # p BY <1>1, <3>1, <3>3
    <3> QED BY <3>2, <3>3
  <2> QED BY <2>1, <2>2 DEF Told
<1>3. ASSUME NEW q \in Procs PROVE
        /\ run'[q].todo \cup run'[q].row \subseteq due'
        /\ run'[q].todo \cap run'[q].row = {}
        /\ run'[q].running = FALSE => run'[q].todo = {} /\ run'[q].row = {}
        /\ run'[q].step \in {"read", "each"} => run'[q].row = {}
  <2>1. CASE q = p BY <1>1, <2>1 DEF Told
  <2>2. CASE q # p BY <1>1, <2>2 DEF Told
  <2> QED BY <2>1, <2>2
<1> QED BY <1>2, <1>3 DEF Told

LEMMA AsleepTells ==
  ASSUME NEW time, NEW e, NEW s
  PROVE  LET r == Asleep(time, e, s) IN r.step = "asleep" /\ r.todo = {} /\ r.row = {}
BY DEF Asleep

LEMMA SweepOverTells ==
  ASSUME NEW r \in Loop PROVE SweepOver(r).step = "next" /\ SweepOver(r).todo = {} /\ SweepOver(r).row = {}
BY DEF SweepOver, Loop

LEMMA ToldLease ==
  ASSUME LoopTypeOK, Told, NEW p \in Procs, LeaseStep(p)
  PROVE  Told'
<1>0. run[p] \in Loop BY DEF LoopTypeOK
<1>1. ASSUME NEW step \in Steps \ {"mark", "read", "each"}, Goes(p, [run[p] EXCEPT !.step = step]), UNCHANGED work,
             run[p].step # "mark"
      PROVE  Told'
  <2> DEFINE r == [run[p] EXCEPT !.step = step]
  <2>1. r.step = step /\ r.todo = run[p].todo /\ r.row = run[p].row /\ r.running = run[p].running BY <1>0 DEF Loop
  <2>2. Goes(p, r) BY <1>1
  <2> HIDE DEF r
  <2>3. r.todo \cap r.row = {} /\ (r.running = FALSE => r.todo = {} /\ r.row = {}) BY <2>1 DEF Told
  <2> QED BY <1>1, <2>1, <2>2, <2>3, ToldFrame
<1>2. CASE Wake(p) BY <1>1, <1>2 DEF Wake, Steps, Waiting
<1>3. CASE Claim(p)
  <2>1. PICK step \in {"claimed", "denied"} : Goes(p, [run[p] EXCEPT !.step = step]) BY <1>3 DEF Claim
  <2> QED BY <1>1, <1>3, <2>1 DEF Claim, Steps, Waiting
<1>4. CASE ClaimAnswered(p)
  <2> DEFINE r == IF run[p].step = "claimed"
                    THEN [Asleep(0, TRUE, run[p].stopping) EXCEPT !.step = "next"]
                    ELSE Asleep(RetryTime, FALSE, run[p].stopping)
  <2>1. r.step \in {"next", "asleep"} /\ r.todo = {} /\ r.row = {} BY DEF Asleep
  <2>2. Goes(p, r) /\ UNCHANGED work /\ run[p].step # "mark" BY <1>4 DEF ClaimAnswered
  <2> HIDE DEF r
  <2> QED BY <2>1, <2>2, ToldFrame
<1>5. CASE Renew(p)
  <2>1. PICK step \in {"held", "lost"} : Goes(p, [run[p] EXCEPT !.step = step]) BY <1>5 DEF Renew
  <2> QED BY <1>1, <1>5, <2>1 DEF Renew, Steps, Waiting
<1>6. CASE RenewAnswered(p)
  <2>0. UNCHANGED work /\ run[p].step # "mark" BY <1>6 DEF RenewAnswered
  <2>1. CASE run[p].step = "lost"
    <3> DEFINE r == Asleep(PauseTime, run[p].elected, run[p].stopping)
    <3>1. r.step = "asleep" /\ r.todo = {} /\ r.row = {} BY AsleepTells
    <3>2. Goes(p, r) BY <1>6, <2>1 DEF RenewAnswered
    <3> HIDE DEF r
    <3> QED BY <2>0, <3>1, <3>2, ToldFrame
  <2>2. CASE run[p].step # "lost" /\ run[p].running
    <3> DEFINE r == [run[p] EXCEPT !.step = "send", !.age = 0, !.renewAge = 0]
    <3>1. r.step = "send" /\ r.todo = run[p].todo /\ r.row = run[p].row /\ r.running = run[p].running
      BY <1>0 DEF Loop
    <3>2. Goes(p, r) BY <1>6, <2>2 DEF RenewAnswered
    <3> HIDE DEF r
    <3>3. r.todo \cap r.row = {} /\ (r.running = FALSE => r.todo = {} /\ r.row = {}) BY <3>1 DEF Told
    <3> QED BY <2>0, <3>1, <3>2, <3>3, ToldFrame
  <2>3. CASE run[p].step # "lost" /\ ~run[p].running
    <3> DEFINE r == [run[p] EXCEPT !.step = "read", !.age = 0, !.renewAge = 0, !.running = TRUE, !.sweepAge = 0]
    <3>1. r.step = "read" /\ r.todo = run[p].todo /\ r.row = run[p].row /\ r.running = TRUE BY <1>0 DEF Loop
    <3>2. Goes(p, r) BY <1>6, <2>3 DEF RenewAnswered
    <3> HIDE DEF r
    <3>3. run[p].running = FALSE BY <1>0, <2>3 DEF Loop
    <3>4. r.todo = {} /\ r.row = {} BY <3>1, <3>3 DEF Told
    <3> QED BY <2>0, <3>1, <3>2, <3>4, ToldFrame
  <2> QED BY <2>1, <2>2, <2>3
<1> QED BY <1>2, <1>3, <1>4, <1>5, <1>6 DEF LeaseStep

LEMMA ToldSweep ==
  ASSUME LoopTypeOK, Covered, Told, NEW p \in Procs, SweepStep(p)
  PROVE  Told'
<1>0. run[p] \in Loop BY DEF LoopTypeOK
<1>1. ASSUME UNCHANGED work, run[p].step # "mark", Goes(p, Asleep(PauseTime, run[p].elected, run[p].stopping))
      PROVE  Told'
  <2> DEFINE r == Asleep(PauseTime, run[p].elected, run[p].stopping)
  <2>1. r.step = "asleep" /\ r.todo = {} /\ r.row = {} BY AsleepTells
  <2>2. Goes(p, r) BY <1>1
  <2> HIDE DEF r
  <2> QED BY <1>1, <2>1, <2>2, ToldFrame
<1>2. ASSUME UNCHANGED <<due, sent, again>>, cutOff' = cutOff \cup CutOff(run[p]), Goes(p, SweepOver(run[p]))
      PROVE  Told'
  BY <1>0, <1>2, SweepOverTells, ToldFrame DEF CutOff
<1>3. CASE NextSweep(p)
  <2>0. UNCHANGED work /\ run[p].step # "mark" /\ run[p].running = FALSE BY <1>3 DEF NextSweep, Covered, Outside
  <2>1. CASE PassOver(run[p]) \/ run[p].sweep = LastSweep BY <1>1, <1>3, <2>0, <2>1 DEF NextSweep
  <2>2. CASE ~(PassOver(run[p]) \/ run[p].sweep = LastSweep)
    <3> DEFINE r == [run[p] EXCEPT !.step = "renew", !.sweep = @ + 1]
    <3>1. r.step = "renew" /\ r.todo = run[p].todo /\ r.row = run[p].row /\ r.running = FALSE BY <1>0, <2>0 DEF Loop
    <3>2. Goes(p, r) BY <1>3, <2>2 DEF NextSweep
    <3> HIDE DEF r
    <3>3. r.todo = {} /\ r.row = {} BY <2>0, <3>1 DEF Told
    <3> QED BY <2>0, <3>1, <3>2, <3>3, ToldFrame
  <2> QED BY <2>1, <2>2
<1>4. CASE ReadDue(p)
  <2> DEFINE r == [run[p] EXCEPT !.step = "each", !.todo = {i \in due : SweepOf[i] = run[p].sweep}]
  <2>1. r.step = "each" /\ r.running = run[p].running /\ r.todo \subseteq due /\ r.row = run[p].row BY <1>0 DEF Loop
  <2>2. Goes(p, r) /\ UNCHANGED work BY <1>4 DEF ReadDue
  <2>3. run[p].running = TRUE BY <1>4 DEF ReadDue, Covered, Inside
  <2> HIDE DEF r
  <2>4. r.row = {} /\ run[p].step # "mark" BY <1>4, <2>1 DEF ReadDue, Told
  <2>5. run'[p] = r /\ \A q \in Procs \ {p} : run'[q] = run[q] BY <2>2 DEF LoopTypeOK
  <2>6. ASSUME NEW q \in Procs PROVE
          /\ run'[q].todo \cup run'[q].row \subseteq due'
          /\ run'[q].todo \cap run'[q].row = {}
          /\ run'[q].running = FALSE => run'[q].todo = {} /\ run'[q].row = {}
          /\ run'[q].step \in {"read", "each"} => run'[q].row = {}
    <3>1. CASE q = p BY <2>1, <2>2, <2>3, <2>4, <2>5, <3>1
    <3>2. CASE q # p BY <2>2, <2>5, <3>2 DEF Told
    <3> QED BY <3>1, <3>2
  <2>7. ASSUME NEW i \in sent \cap due PROVE i \in cutOff \/ \E q \in Procs : run'[q].step = "mark" /\ i \in run'[q].row
    <3>1. i \in cutOff \/ \E q \in Procs : run[q].step = "mark" /\ i \in run[q].row BY <2>7 DEF Told
    <3> QED BY <2>4, <2>5, <3>1
  <2> QED BY <2>2, <2>6, <2>7 DEF Told
<1>5. CASE NextRow(p)
  <2>0. UNCHANGED work /\ run[p].step = "each" BY <1>5 DEF NextRow
  <2>1. CASE Goes(p, SweepOver(run[p]))
    <3>1. CutOff(run[p]) = {} BY <2>0 DEF CutOff
    <3> QED BY <1>2, <2>0, <2>1, <3>1
  <2>2. CASE Goes(p, Asleep(PauseTime, run[p].elected, run[p].stopping)) BY <1>1, <2>0, <2>2
  <2>3. ASSUME NEW i \in run[p].todo, NEW step \in {"renew", "send"},
               Goes(p, [run[p] EXCEPT !.step = step, !.todo = @ \ {i}, !.row = {i}])
        PROVE  Told'
    <3> DEFINE r == [run[p] EXCEPT !.step = step, !.todo = @ \ {i}, !.row = {i}]
    <3>1. r.step = step /\ r.running = run[p].running /\ r.todo = run[p].todo \ {i} /\ r.row = {i} BY <1>0 DEF Loop
    <3>2. Goes(p, r) BY <2>3
    <3> HIDE DEF r
    <3>3. r.running # FALSE BY <2>3, <3>1 DEF Told
    <3>4. r.todo \cup r.row \subseteq run[p].todo \cup run[p].row /\ r.todo \cap r.row = {} BY <2>3, <3>1
    <3>5. UNCHANGED <<due, sent, again>> /\ cutOff \subseteq cutOff' BY <2>0
    <3> QED BY <2>0, <3>1, <3>2, <3>3, <3>4, <3>5, ToldFrame
  <2> QED BY <1>5, <2>1, <2>2, <2>3 DEF NextRow
<1>6. CASE TimedOut(p) BY <1>2, <1>6 DEF TimedOut
<1>7. CASE Send(p)
  <2>1. run[p].running = TRUE BY <1>7 DEF Send, Covered, Inside
  <2>2. ASSUME NEW i \in sent \cap run[p].row PROVE i \in cutOff
    <3>1. i \in due BY <2>2 DEF Told
    <3>2. ASSUME NEW q \in Procs, run[q].step = "mark" PROVE FALSE
      <4>1. run[q].running = TRUE BY <3>2 DEF Covered, Inside
      <4>2. q = p BY <2>1, <4>1, CoveredAlone DEF OneSweeper
      <4> QED BY <1>7, <3>2, <4>2 DEF Send
    <3> QED BY <2>2, <3>1, <3>2 DEF Told
  <2> DEFINE r == [run[p] EXCEPT !.step = "mark"]
  <2>3. r.step = "mark" /\ r.running = run[p].running /\ r.todo = run[p].todo /\ r.row = run[p].row BY <1>0 DEF Loop
  <2>4. /\ Goes(p, r) /\ sent' = sent \cup run[p].row /\ again' = again \cup (sent \cap run[p].row)
        /\ UNCHANGED <<due, cutOff>>
    BY <1>7 DEF Send
  <2> HIDE DEF r
  <2>5. run'[p] = r /\ \A q \in Procs \ {p} : run'[q] = run[q] BY <2>4 DEF LoopTypeOK
  <2>6. again' \subseteq cutOff' BY <2>2, <2>4 DEF Told
  <2>7. ASSUME NEW i \in sent' \cap due' PROVE i \in cutOff' \/ \E q \in Procs : run'[q].step = "mark" /\ i \in run'[q].row
    <3>1. CASE i \in run[p].row BY <2>3, <2>5, <3>1
    <3>2. CASE i \in sent /\ i \notin run[p].row
      <4>1. i \in cutOff \/ \E q \in Procs : run[q].step = "mark" /\ i \in run[q].row BY <2>4, <2>7, <3>2 DEF Told
      <4>2. ASSUME NEW q \in Procs, run[q].step = "mark", i \in run[q].row PROVE q # p BY <3>2, <4>2
      <4> QED BY <2>4, <2>5, <4>1, <4>2
    <3> QED BY <2>4, <2>7, <3>1, <3>2
  <2>8. ASSUME NEW q \in Procs PROVE
          /\ run'[q].todo \cup run'[q].row \subseteq due'
          /\ run'[q].todo \cap run'[q].row = {}
          /\ run'[q].running = FALSE => run'[q].todo = {} /\ run'[q].row = {}
          /\ run'[q].step \in {"read", "each"} => run'[q].row = {}
    <3>1. CASE q = p BY <2>1, <2>3, <2>4, <2>5, <3>1 DEF Told
    <3>2. CASE q # p BY <2>4, <2>5, <3>2 DEF Told
    <3> QED BY <3>1, <3>2
  <2> QED BY <2>6, <2>7, <2>8 DEF Told
<1>8. CASE Mark(p)
  <2> DEFINE r == [run[p] EXCEPT !.step = "each", !.row = {}]
  <2>1. r.step = "each" /\ r.running = run[p].running /\ r.todo = run[p].todo /\ r.row = {} BY <1>0 DEF Loop
  <2>2. Goes(p, r) /\ due' = due \ run[p].row /\ UNCHANGED <<sent, again, cutOff>> /\ run[p].step = "mark" BY <1>8 DEF Mark
  <2> HIDE DEF r
  <2>3. run'[p] = r /\ \A q \in Procs \ {p} : run'[q] = run[q] BY <2>2 DEF LoopTypeOK
  <2>4. run[p].running = TRUE BY <2>2 DEF Covered, Inside
  <2>5. \A q \in Procs \ {p} : run[q].running = FALSE BY <2>4, CoveredAlone, LoopAssumption, Times DEF OneSweeper
  <2>6. ASSUME NEW i \in sent' \cap due' PROVE i \in cutOff' \/ \E q \in Procs : run'[q].step = "mark" /\ i \in run'[q].row
    <3>1. i \in cutOff \/ \E q \in Procs : run[q].step = "mark" /\ i \in run[q].row BY <2>2, <2>6 DEF Told
    <3>2. ASSUME NEW q \in Procs, run[q].step = "mark", i \in run[q].row PROVE q # p BY <2>2, <2>6, <3>2
    <3> QED BY <2>2, <2>3, <3>1, <3>2
  <2>7. ASSUME NEW q \in Procs PROVE
          /\ run'[q].todo \cup run'[q].row \subseteq due'
          /\ run'[q].todo \cap run'[q].row = {}
          /\ run'[q].running = FALSE => run'[q].todo = {} /\ run'[q].row = {}
          /\ run'[q].step \in {"read", "each"} => run'[q].row = {}
    <3>1. CASE q = p BY <2>1, <2>2, <2>3, <2>4, <3>1 DEF Told
    <3>2. CASE q # p BY <2>3, <2>5, <3>2 DEF Told
    <3> QED BY <3>1, <3>2
  <2> QED BY <2>2, <2>6, <2>7 DEF Told
<1> QED BY <1>3, <1>4, <1>5, <1>6, <1>7, <1>8 DEF SweepStep

LEMMA ToldFault ==
  ASSUME LoopTypeOK, Covered, Told, NEW p \in Procs, Comes(p) \/ Fault(p)
  PROVE  Told'
<1>0. run[p] \in Loop BY DEF LoopTypeOK
<1>1. ASSUME NEW step \in {"gone", "denied", "lost"}, Goes(p, [run[p] EXCEPT !.step = step]), UNCHANGED work,
             run[p].step # "mark"
      PROVE  Told'
  <2> DEFINE r == [run[p] EXCEPT !.step = step]
  <2>1. r.step = step /\ r.todo = run[p].todo /\ r.row = run[p].row /\ r.running = run[p].running BY <1>0 DEF Loop
  <2>2. Goes(p, r) BY <1>1
  <2> HIDE DEF r
  <2>3. r.todo \cap r.row = {} /\ (r.running = FALSE => r.todo = {} /\ r.row = {}) BY <2>1 DEF Told
  <2> QED BY <1>1, <2>1, <2>2, <2>3, ToldFrame
<1>2. CASE LoopEnds(p) BY <1>1, <1>2 DEF LoopEnds
<1>3. CASE Start(p)
  <2> DEFINE r == Asleep(0, FALSE, FALSE)
  <2>1. r.step = "asleep" /\ r.todo = {} /\ r.row = {} BY AsleepTells
  <2>2. Goes(p, r) /\ UNCHANGED work /\ run[p].step # "mark" BY <1>3 DEF Start
  <2> HIDE DEF r
  <2> QED BY <2>1, <2>2, ToldFrame
<1>4. CASE CallFails(p)
  <2>1. PICK step \in {"denied", "lost"} : Goes(p, [run[p] EXCEPT !.step = step]) BY <1>0, <1>4 DEF CallFails, Loop
  <2> QED BY <1>1, <1>4, <2>1 DEF CallFails
<1>5. CASE SweepFails(p)
  <2>1. run[p].step # "mark" BY <1>5 DEF SweepFails
  <2> QED BY <1>0, <1>5, <2>1, SweepOverTells, ToldFrame DEF SweepFails
<1>6. CASE RowFails(p)
  <2> DEFINE r == [run[p] EXCEPT !.step = "each", !.row = {}]
  <2>1. r.step = "each" /\ r.todo = run[p].todo /\ r.row = {} /\ r.running = run[p].running BY <1>0 DEF Loop
  <2>2. Goes(p, r) /\ UNCHANGED <<due, sent, again>> /\ cutOff' = cutOff \cup CutOff(run[p]) BY <1>6 DEF RowFails
  <2> HIDE DEF r
  <2>3. r.running = FALSE => r.todo = {} BY <2>1 DEF Told
  <2>4. run[p].step = "mark" => run[p].row \subseteq cutOff' BY <2>2 DEF CutOff
  <2> QED BY <2>1, <2>2, <2>3, <2>4, ToldFrame
<1>7. CASE Shutdown(p)
  <2> DEFINE r == [run[p] EXCEPT !.stopping = TRUE]
  <2>1. r.step = run[p].step /\ r.todo = run[p].todo /\ r.row = run[p].row /\ r.running = run[p].running BY <1>0 DEF Loop
  <2>2. Goes(p, r) /\ UNCHANGED work BY <1>7 DEF Shutdown
  <2> HIDE DEF r
  <2>3. /\ r.todo \cap r.row = {} /\ (r.running = FALSE => r.todo = {} /\ r.row = {})
        /\ r.step \in {"read", "each"} => r.row = {}
    BY <2>1 DEF Told
  <2> QED BY <2>1, <2>2, <2>3, ToldFrame
<1>8. CASE Kill(p)
  <2> DEFINE r == [Asleep(0, FALSE, FALSE) EXCEPT !.step = "gone"]
  <2>1. r.step = "gone" /\ r.todo = {} /\ r.row = {} BY DEF Asleep
  <2>2. Goes(p, r) /\ UNCHANGED <<due, sent, again>> /\ cutOff' = cutOff \cup CutOff(run[p]) BY <1>8 DEF Kill
  <2> HIDE DEF r
  <2>3. run[p].step = "mark" => run[p].row \subseteq cutOff' BY <2>2 DEF CutOff
  <2> QED BY <2>1, <2>2, <2>3, ToldFrame
<1> QED BY <1>2, <1>3, <1>4, <1>5, <1>6, <1>7, <1>8 DEF Comes, Fault

LEMMA ToldRest ==
  ASSUME LoopTypeOK, Told, Tick \/ UNCHANGED vars \/ \E i \in Rows : FallsDue(i)
  PROVE  Told'
<1>1. UNCHANGED <<sent, again, cutOff>> /\ due \subseteq due' /\ due' \cap sent = due \cap sent
  BY DEF Tick, vars, FallsDue
<1>2. ASSUME NEW p \in Procs PROVE
        /\ run'[p].step = run[p].step /\ run'[p].running = run[p].running
        /\ run'[p].todo = run[p].todo /\ run'[p].row = run[p].row
  <2>1. CASE Tick
    <3>1. run[p] \in Loop /\ run'[p] = Older(run[p]) BY <2>1 DEF Tick, LoopTypeOK
    <3> QED BY <3>1, OlderFields
  <2>2. CASE UNCHANGED vars \/ \E i \in Rows : FallsDue(i) BY <2>2 DEF vars, FallsDue
  <2> QED BY <2>1, <2>2
<1>3. ASSUME NEW p \in Procs PROVE
        /\ run'[p].todo \cup run'[p].row \subseteq due'
        /\ run'[p].todo \cap run'[p].row = {}
        /\ run'[p].running = FALSE => run'[p].todo = {} /\ run'[p].row = {}
        /\ run'[p].step \in {"read", "each"} => run'[p].row = {}
  BY <1>1, <1>2 DEF Told
<1>4. ASSUME NEW i \in sent' \cap due' PROVE i \in cutOff' \/ \E p \in Procs : run'[p].step = "mark" /\ i \in run'[p].row
  <2>1. i \in cutOff \/ \E p \in Procs : run[p].step = "mark" /\ i \in run[p].row BY <1>1, <1>4 DEF Told
  <2> QED BY <1>1, <1>2, <2>1
<1> QED BY <1>1, <1>3, <1>4 DEF Told

LEMMA ToldStep == ASSUME LoopInv, Told, [LoopNext]_vars PROVE Told'
BY ToldLease, ToldSweep, ToldFault, ToldRest DEF LoopInv, LoopNext

\* A row's message is repeated only when its sender was stopped between the
\* message and the mark, if the database answers in time.
THEOREM ToldOnce == ASSUME AnswersInTime PROVE LoopSpec => []HeardOnce
<1>1. LoopInit => Told BY ToldInit
<1>2. LoopInv /\ Told /\ [LoopNext]_vars => Told' BY ToldStep
<1>3. Told => HeardOnce BY DEF Told, HeardOnce
<1>4. LoopSpec => []LoopInv BY AlwaysCovered
<1> QED BY <1>1, <1>2, <1>3, <1>4, PTL DEF LoopSpec
=============================================================================
