---------------------------- MODULE ReminderLoop ----------------------------
(***************************************************************************)
(* The worker's minute loop (main.py): of all instances the one holding    *)
(* the lease runs a pass of sweeps, renewing the lease before each sweep   *)
(* and between the rows of a long one.  A sweep sends a message for every  *)
(* row that is due and marks the row afterwards.                           *)
(*                                                                         *)
(* Time is a step of its own (Tick) and is kept as ages and time left, so  *)
(* nothing grows without end.  A call of the database that reads or writes *)
(* the lease is two steps, its effect and its answer: what it writes was   *)
(* computed when it was sent.                                              *)
(***************************************************************************)
EXTENDS Integers, FiniteSets

CONSTANTS
    Procs,         \* instances of the worker
    NoOne,         \* a holder that is no live instance
    Rows,          \* rows a sweep has to send a message for
    SweepOf,       \* the sweep each row belongs to
    LastSweep,     \* sweeps are 1..LastSweep, in the order of a pass
    LeaseTime, PassBudget, SweepBudget, SweepTimeout, ItemRenew,
    PauseTime,     \* the sleep after a pass
    RetryTime,     \* the sleep after a lease that was not ours
    MaxDelay,      \* the longest the database takes to answer
    Skew,          \* the most two instances' clocks differ
    MaxFaults      \* bound: instances stopped or killed, calls and rows that fail

ASSUME LoopAssumption ==
    /\ NoOne \notin Procs
    /\ LastSweep \in Nat \ {0} /\ SweepOf \in [Rows -> 1..LastSweep]
    /\ {LeaseTime, PassBudget, SweepBudget, SweepTimeout, ItemRenew, PauseTime, RetryTime,
        MaxDelay, Skew, MaxFaults} \subseteq Nat
    /\ SweepTimeout > 0 /\ PauseTime >= RetryTime

(* The comment at _SWEEP_TIMEOUT_SECONDS: a sweep is cut off while the lease is *)
(* still ours.  That takes an answer of the database within what is left of it. *)
AnswersInTime == SweepTimeout + MaxDelay + Skew < LeaseTime

VARIABLES
    holder,    \* locks.reminder_loop: whose it is
    left,      \* how long until its expires_at; negative once that is past
    run,       \* where each instance's loop is
    due,       \* rows due and not marked
    sent,      \* rows a message was sent for
    again,     \* rows it was sent for more than once
    cutOff,    \* rows whose sender was stopped or failed between message and mark
    faults

lease == <<holder, left>>
work == <<due, sent, again, cutOff>>
vars == <<holder, left, run, due, sent, again, cutOff, faults>>

Waiting == {"claim", "claimed", "denied", "renew", "held", "lost"}
Steps == Waiting \cup {"asleep", "next", "read", "each", "send", "mark", "gone"}

(* A loop: its step; wait, how long it sleeps on; age, how long its call of  *)
(* the lease is under way; the pass, the sweep and the renewal it is in, by  *)
(* age; todo and row, what the sweep read and is at; elected, whether its    *)
(* last claim succeeded (held); stopping, whether shutdown has begun.        *)
Loop == [step : Steps, wait : 0..PauseTime, age : 0..MaxDelay,
         passAge : 0..PassBudget + 1, sweep : 0..LastSweep, running : BOOLEAN,
         sweepAge : 0..SweepTimeout, renewAge : 0..ItemRenew, todo : SUBSET Rows,
         row : SUBSET Rows, elected : BOOLEAN, stopping : BOOLEAN]

Asleep(time, elected, stopping) ==
    [step |-> "asleep", wait |-> time, age |-> 0, passAge |-> 0, sweep |-> 0, running |-> FALSE,
     sweepAge |-> 0, renewAge |-> 0, todo |-> {}, row |-> {},
     elected |-> elected, stopping |-> stopping]

(* Expired longer than any clock or delay can hide. *)
LongExpired == -(MaxDelay + Skew + 1)

LoopTypeOK ==
    /\ holder \in Procs \cup {NoOne}
    /\ left \in LongExpired..LeaseTime
    /\ run \in [Procs -> Loop]
    /\ due \subseteq Rows /\ sent \subseteq Rows /\ again \subseteq sent /\ cutOff \subseteq Rows
    /\ faults \in 0..MaxFaults

Goes(p, r) == run' = [run EXCEPT ![p] = r]

AFault == faults < MaxFaults /\ faults' = faults + 1

-----------------------------------------------------------------------------
(* The lease. *)

(* The loop wakes up and claims: _reminder_loop, _claim_lease.  *)
Wake(p) ==
    /\ run[p].step = "asleep" /\ run[p].wait = 0 /\ ~run[p].stopping
    /\ Goes(p, [run[p] EXCEPT !.step = "claim"])
    /\ UNCHANGED <<lease, work, faults>>

(* Mutant: only the holder of a lease that lives renews it: nobody ever claims. *)
ExpiredNever(p, skew) == FALSE

(* The claim takes its own lease or one that had expired when it was sent, by *)
(* the claimer's clock.                                                       *)
Expired(p, skew) == left + run[p].age < skew

Claim(p) ==
    /\ run[p].step = "claim"
    /\ \E skew \in -Skew..Skew :
          IF holder = p \/ Expired(p, skew)
            THEN /\ holder' = p /\ left' = LeaseTime - run[p].age
                 /\ Goes(p, [run[p] EXCEPT !.step = "claimed"])
            ELSE /\ Goes(p, [run[p] EXCEPT !.step = "denied"])
                 /\ UNCHANGED lease
    /\ UNCHANGED <<work, faults>>

ClaimAnswered(p) ==
    LET r == run[p] IN
    /\ r.step \in {"claimed", "denied"}
    /\ Goes(p, IF r.step = "claimed"
                 THEN [Asleep(0, TRUE, r.stopping) EXCEPT !.step = "next"]
                 ELSE Asleep(RetryTime, FALSE, r.stopping))
    /\ UNCHANGED <<lease, work, faults>>

(* _renew_lease: the holder extends, whether or not the lease expired. *)
Renew(p) ==
    /\ run[p].step = "renew"
    /\ IF holder = p
         THEN /\ left' = LeaseTime - run[p].age
              /\ Goes(p, [run[p] EXCEPT !.step = "held"])
         ELSE /\ Goes(p, [run[p] EXCEPT !.step = "lost"])
              /\ UNCHANGED left
    /\ UNCHANGED <<holder, work, faults>>

(* The database fails: not ours, whatever was written. *)
CallFails(p) ==
    LET r == run[p] IN
    /\ r.step \in {"claim", "claimed", "renew", "held"}
    /\ AFault
    /\ Goes(p, [r EXCEPT !.step = IF @ \in {"claim", "claimed"} THEN "denied" ELSE "lost"])
    /\ UNCHANGED <<lease, work>>

(* The checkpoint goes on: into the sweep, or to the row it was for. *)
RenewAnswered(p) ==
    LET r == run[p] IN
    /\ r.step \in {"held", "lost"}
    /\ Goes(p, IF r.step = "lost" THEN Asleep(PauseTime, r.elected, r.stopping)
               ELSE IF r.running THEN [r EXCEPT !.step = "send", !.age = 0, !.renewAge = 0]
               ELSE [r EXCEPT !.step = "read", !.age = 0, !.renewAge = 0,
                              !.running = TRUE, !.sweepAge = 0])
    /\ UNCHANGED <<lease, work, faults>>

-----------------------------------------------------------------------------
(* A pass. *)

PassOver(r) == r.stopping \/ r.passAge > PassBudget

(* The sweep's end, however it came: _SweepPass.run goes on to the next one. *)
SweepOver(r) ==
    [r EXCEPT !.step = "next", !.age = 0, !.running = FALSE, !.sweepAge = 0, !.todo = {}, !.row = {}]

(* Mutant: a sweep starts under the lease of the one before. *)
NextSweepUnrenewed(p) ==
    LET r == run[p] IN
    /\ r.step = "next"
    /\ Goes(p, IF PassOver(r) \/ r.sweep = LastSweep
                 THEN Asleep(PauseTime, r.elected, r.stopping)
                 ELSE IF r.sweep = 0 THEN [r EXCEPT !.step = "renew", !.sweep = @ + 1]
                 ELSE [r EXCEPT !.step = "read", !.sweep = @ + 1, !.running = TRUE])
    /\ UNCHANGED <<lease, work, faults>>

(* run: the checkpoint before a sweep always renews. *)
NextSweep(p) ==
    LET r == run[p] IN
    /\ r.step = "next"
    /\ Goes(p, IF PassOver(r) \/ r.sweep = LastSweep
                 THEN Asleep(PauseTime, r.elected, r.stopping)
                 ELSE [r EXCEPT !.step = "renew", !.sweep = @ + 1])
    /\ UNCHANGED <<lease, work, faults>>

ReadDue(p) ==
    /\ run[p].step = "read"
    /\ Goes(p, [run[p] EXCEPT !.step = "each", !.todo = {i \in due : SweepOf[i] = run[p].sweep}])
    /\ UNCHANGED <<lease, work, faults>>

(* each: a checkpoint, then the row. *)
NextRow(p) ==
    LET r == run[p] IN
    /\ r.step = "each"
    /\ IF r.todo = {} THEN Goes(p, SweepOver(r))
       ELSE IF PassOver(r) THEN Goes(p, Asleep(PauseTime, r.elected, r.stopping))
       ELSE IF r.sweepAge > SweepBudget THEN Goes(p, SweepOver(r))
       ELSE \E i \in r.todo :
               Goes(p, [r EXCEPT !.step = IF r.renewAge >= ItemRenew THEN "renew" ELSE "send",
                                 !.todo = @ \ {i}, !.row = {i}])
    /\ UNCHANGED <<lease, work, faults>>

(* The message goes out, then the row is marked; a row that fails is skipped. *)
Send(p) ==
    LET r == run[p] IN
    /\ r.step = "send"
    /\ sent' = sent \cup r.row
    /\ again' = again \cup (sent \cap r.row)
    /\ Goes(p, [r EXCEPT !.step = "mark"])
    /\ UNCHANGED <<lease, due, cutOff, faults>>

(* Mutant: the note that a message was sent is lost. *)
MarkNothing(p) ==
    /\ run[p].step = "mark"
    /\ Goes(p, [run[p] EXCEPT !.step = "each", !.row = {}])
    /\ UNCHANGED <<lease, work, faults>>

Mark(p) ==
    LET r == run[p] IN
    /\ r.step = "mark"
    /\ due' = due \ r.row
    /\ Goes(p, [r EXCEPT !.step = "each", !.row = {}])
    /\ UNCHANGED <<lease, sent, again, cutOff, faults>>

CutOff(r) == IF r.step = "mark" THEN r.row ELSE {}

RowFails(p) ==
    LET r == run[p] IN
    /\ r.step \in {"send", "mark"}
    /\ AFault
    /\ cutOff' = cutOff \cup CutOff(r)
    /\ Goes(p, [r EXCEPT !.step = "each", !.row = {}])
    /\ UNCHANGED <<lease, due, sent, again>>

(* A sweep that fails is logged, the pass goes on. *)
SweepFails(p) ==
    /\ run[p].step = "read"
    /\ AFault
    /\ Goes(p, SweepOver(run[p]))
    /\ UNCHANGED <<lease, work>>

(* The hard timeout of one sweep. *)
TimedOut(p) ==
    LET r == run[p] IN
    /\ r.running /\ r.sweepAge = SweepTimeout
    /\ cutOff' = cutOff \cup CutOff(r)
    /\ Goes(p, SweepOver(r))
    /\ UNCHANGED <<lease, due, sent, again, faults>>

-----------------------------------------------------------------------------
(* Instances come and go. *)

Shutdown(p) ==
    /\ run[p].step # "gone" /\ ~run[p].stopping
    /\ AFault
    /\ Goes(p, [run[p] EXCEPT !.stopping = TRUE])
    /\ UNCHANGED <<lease, work>>

(* The loop ends: _release_lease lets another instance take over at once. *)
LoopEnds(p) ==
    LET r == run[p] IN
    /\ r.step = "asleep" /\ r.stopping
    /\ left' = IF r.elected /\ holder = p THEN 0 ELSE left
    /\ Goes(p, [r EXCEPT !.step = "gone"])
    /\ UNCHANGED <<holder, work, faults>>

Kill(p) ==
    /\ run[p].step # "gone"
    /\ AFault
    /\ cutOff' = cutOff \cup CutOff(run[p])
    /\ Goes(p, [Asleep(0, FALSE, FALSE) EXCEPT !.step = "gone"])
    /\ UNCHANGED <<lease, due, sent, again>>

(* A new instance has a holder id of its own. *)
Start(p) ==
    /\ run[p].step = "gone"
    /\ holder' = IF holder = p THEN NoOne ELSE holder
    /\ Goes(p, Asleep(0, FALSE, FALSE))
    /\ UNCHANGED <<left, work, faults>>

FallsDue(i) ==
    /\ i \notin due /\ i \notin sent
    /\ due' = due \cup {i}
    /\ UNCHANGED <<lease, run, sent, again, cutOff, faults>>

-----------------------------------------------------------------------------
(* Time. *)

AtMost(n, bound) == IF n < bound THEN n ELSE bound

Older(r) ==
    [r EXCEPT !.wait = IF @ > 0 THEN @ - 1 ELSE 0,
              !.age = IF r.step \in Waiting THEN @ + 1 ELSE @,
              !.passAge = IF r.sweep > 0 THEN AtMost(@ + 1, PassBudget + 1) ELSE @,
              !.sweepAge = IF r.running THEN @ + 1 ELSE @,
              !.renewAge = IF r.sweep > 0 THEN AtMost(@ + 1, ItemRenew) ELSE @]

(* The database answers in time, a sweep is cut off in time, and what has no  *)
(* await takes none.                                                          *)
MayWait(r) ==
    /\ r.step \in Waiting => r.age < MaxDelay
    /\ r.running => r.sweepAge < SweepTimeout
    /\ r.step \notin {"next", "each"}

Tick ==
    /\ \A p \in Procs : MayWait(run[p])
    /\ left' = IF left > LongExpired THEN left - 1 ELSE left
    /\ run' = [p \in Procs |-> Older(run[p])]
    /\ UNCHANGED <<holder, work, faults>>

-----------------------------------------------------------------------------
LoopInit ==
    /\ holder = NoOne /\ left = LongExpired
    /\ run = [p \in Procs |-> Asleep(0, FALSE, FALSE)]
    /\ due = {} /\ sent = {} /\ again = {} /\ cutOff = {} /\ faults = 0

LeaseStep(p) == Wake(p) \/ Claim(p) \/ ClaimAnswered(p) \/ Renew(p) \/ RenewAnswered(p)
SweepStep(p) == NextSweep(p) \/ ReadDue(p) \/ NextRow(p) \/ Send(p) \/ Mark(p) \/ TimedOut(p)
Comes(p) == LoopEnds(p) \/ Start(p)
Fault(p) == CallFails(p) \/ SweepFails(p) \/ RowFails(p) \/ Shutdown(p) \/ Kill(p)

LoopNext ==
    \/ \E p \in Procs : LeaseStep(p) \/ SweepStep(p) \/ Comes(p) \/ Fault(p)
    \/ \E i \in Rows : FallsDue(i)
    \/ Tick

LoopSpec == LoopInit /\ [][LoopNext]_vars

(* Time passes, a loop that runs goes on, and somebody starts a new instance *)
(* for one that ended.                                                       *)
Fairness ==
    /\ WF_vars(Tick)
    /\ \A p \in Procs : WF_vars(LeaseStep(p) \/ SweepStep(p) \/ Comes(p))

LoopLiveSpec == LoopSpec /\ Fairness

-----------------------------------------------------------------------------
(* PROPERTIES *)

(* Two instances are never inside a sweep at once, however slow the database *)
(* answers within MaxDelay and whoever is killed: no customer hears twice.   *)
OneSweeper == \A p, q \in Procs : run[p].running /\ run[q].running => p = q

(* A row's message is repeated only if its sender was stopped or failed      *)
(* between the message and the mark: overlapping or stale passes never do.   *)
HeardOnce == again \subseteq cutOff

(* The sweeps never stop for good: the lease of an instance that was killed  *)
(* lapses and another takes over.                                            *)
AlwaysSwept == []<>(\E p \in Procs : run[p].running)
=============================================================================
