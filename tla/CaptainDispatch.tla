-------------------------- MODULE CaptainDispatch --------------------------
(***************************************************************************)
(* Who drives to which job (booking_service.py).  Managers give the cars   *)
(* of a visit to a captain, one transaction per car and all of them or     *)
(* none; take them over in person; mark them done.  Captains head out and  *)
(* release.  Visits move and are cancelled, captains are suspended,        *)
(* meanwhile.  Each await of a call is a step.                             *)
(***************************************************************************)
EXTENDS Integers, FiniteSets

CONSTANTS
    Cars,                \* bookings, numbered in working order
    Visits, VisitOf,     \* the visit of each car
    Captains, Manager,   \* who may hold a job
    Times,               \* slots; two jobs of one captain clash at equal times
    Calls,               \* calls that take several steps
    MaxMoves,            \* bound: reschedules
    Nobody, NoTime, Unseen

ASSUME DispatchAssumption ==
    /\ Cars \subseteq Nat /\ Cars # {} /\ VisitOf \in [Cars -> Visits]
    /\ Manager \notin Captains /\ Nobody \notin Captains \cup {Manager}
    /\ NoTime \notin Times /\ MaxMoves \in Nat

VARIABLES
    job,         \* the dispatch fields of each booking
    fit,         \* captains in good standing at the bookings' center
    call,        \* where each call is and what it has read
    moves,
    handedBack,  \* cars a captain holds because an assignment was undone
    crossed      \* visits two calls were on at once, or one broke off on

vars == <<job, fit, call, moves, handedBack, crossed>>

Statuses == {"pending", "rescheduled", "assigned", "on_the_way", "started", "completed", "cancelled"}
Staff == Captains \cup {Manager}
Job == [status : Statuses, captain : Staff \cup {Nobody}, slot : Times,
        start : Times \cup {NoTime}, self : BOOLEAN]

Kinds == {"none", "group", "self", "release", "head", "done"}
Call == [kind : Kinds, step : {"idle", "check", "write", "undo", "siblings", "over", "dead"},
         lead : Cars, by : Staff, seen : [Cars -> Job \cup {Unseen}], todo : SUBSET Cars,
         moved : SUBSET Cars, others : SUBSET Cars]

DispatchTypeOK ==
    /\ job \in [Cars -> Job] /\ fit \in [Captains -> BOOLEAN] /\ call \in [Calls -> Call]
    /\ moves \in 0..MaxMoves /\ handedBack \subseteq Cars /\ crossed \subseteq Visits

Waiting == {"pending", "rescheduled"}
Live == {"assigned", "on_the_way", "started"}
Over == {"completed", "cancelled"}

First(S) == CHOOSE c \in S : \A d \in S : c <= d
Visit(c) == {d \in Cars : VisitOf[d] = VisitOf[c]}

InFlight(a) == call[a].step \notin {"idle", "over", "dead"}

-----------------------------------------------------------------------------
(* Calls. *)

(* A call reads a visit: from here on what others write to it is noted. *)
Begins(a, kind, c, k, step, S) ==
    /\ call[a].step = "idle"
    /\ call' = [call EXCEPT ![a] =
          [kind |-> kind, step |-> step, lead |-> c, by |-> k,
           seen |-> [d \in Cars |-> IF d \in Visit(c) THEN job[d] ELSE Unseen],
           todo |-> S, moved |-> {}, others |-> {}]]
    /\ crossed' = IF \E e \in Calls \ {a} : InFlight(e) /\ VisitOf[call[e].lead] = VisitOf[c]
                    THEN crossed \cup {VisitOf[c]} ELSE crossed

Noted(S) ==
    [e \in Calls |->
        IF call[e].kind = "group" /\ InFlight(e)
          THEN [call[e] EXCEPT !.others = @ \cup (S \cap Visit(call[e].lead))] ELSE call[e]]

Goes(a, r) == call' = [call EXCEPT ![a] = r]

(* Nothing is remembered of a call that is not under way. *)
Quiet(step) ==
    [kind |-> "none", step |-> step, lead |-> First(Cars), by |-> Manager,
     seen |-> [c \in Cars |-> Unseen], todo |-> {}, moved |-> {}, others |-> {}]

(* Call a writes car c and goes on as r. *)
Writes(a, c, j, r) ==
    /\ job' = [job EXCEPT ![c] = j]
    /\ call' = [Noted({c}) EXCEPT ![a] = r]
    /\ handedBack' = IF j.status \in {"on_the_way", "started"} THEN handedBack ELSE handedBack \ {c}

Without(a, c) == [call[a] EXCEPT !.todo = @ \ {c}]
Skips(a, c) == Goes(a, Without(a, c)) /\ UNCHANGED <<job, handedBack>>

Ends(a) ==
    /\ call[a].step \in {"write", "undo"} /\ call[a].todo = {}
    /\ Goes(a, Quiet("over"))
    /\ UNCHANGED <<job, fit, moves, handedBack, crossed>>

(* The process dies. *)
Dies(a) ==
    /\ InFlight(a)
    /\ Goes(a, Quiet("dead"))
    /\ crossed' = crossed \cup {VisitOf[call[a].lead]}
    /\ UNCHANGED <<job, fit, moves, handedBack>>

-----------------------------------------------------------------------------
(* assign_captain_to_group; a booking on its own is a visit of one car. *)

Grouped(c) == Visit(c) # {c}

(* Cars with nobody first, then those of another captain. *)
Fresh(S, j) == {c \in S : j[c].status \in Waiting}
Mismatched(S, j, k) == {c \in S : j[c].status = "assigned" /\ (Grouped(c) => j[c].captain # k)}

StartGroup(a) ==
    /\ \E c \in Cars, k \in Captains :
          LET S == Fresh(Visit(c), job) \cup Mismatched(Visit(c), job, k) IN
          /\ c = First(Visit(c)) /\ S # {} /\ fit[k]
          /\ Begins(a, "group", c, k, "check", S)
    /\ UNCHANGED <<job, fit, moves, handedBack>>

(* _captain_conflict, over find_active_for_captain: his jobs of other visits. *)
Clashes(k, c, t) ==
    \E d \in Cars \ Visit(c) : job[d].status \in Live /\ job[d].captain = k /\ job[d].start = t

(* _precheck_group_conflicts: a dry run, nothing written yet. *)
Precheck(a) ==
    LET r == call[a] IN
    /\ r.kind = "group" /\ r.step = "check"
    /\ IF \E c \in r.todo : Clashes(r.by, c, r.seen[c].slot)
         THEN Goes(a, Quiet("over"))
         ELSE Goes(a, [r EXCEPT !.step = "write"])
    /\ UNCHANGED <<job, fit, moves, handedBack, crossed>>

Turn(a) ==
    LET fresh == Fresh(call[a].todo, call[a].seen)
    IN First(IF fresh # {} THEN fresh ELSE call[a].todo)

(* assign_captain takes a waiting car; reassign_captain a pending or an      *)
(* assigned one.                                                             *)
MayBeGiven(a, c) ==
    IF call[a].seen[c].status \in Waiting
      THEN job[c].status \in Waiting ELSE job[c].status \in {"pending", "assigned"}

(* Mutant: the conflict is looked for in the dry run alone. *)
MayTakeUnchecked(a, c) == MayBeGiven(a, c) /\ fit[call[a].by]

(* Mutant: the captain's standing is that of the first read. *)
MayTakeAsRead(a, c) == MayBeGiven(a, c) /\ ~Clashes(call[a].by, c, job[c].slot)

(* Inside the transaction, serialized on the captain's row. *)
MayTake(a, c) ==
    /\ MayBeGiven(a, c) /\ fit[call[a].by]
    /\ ~Clashes(call[a].by, c, job[c].slot)

(* _do_assign leaves self_assigned, _do_reassign clears it. *)
Given(a, c) ==
    [job[c] EXCEPT !.status = "assigned", !.captain = call[a].by, !.start = job[c].slot,
                   !.self = @ /\ call[a].seen[c].status \in Waiting]

GiveCar(a) ==
    LET c == Turn(a) IN
    /\ call[a].kind = "group" /\ call[a].step = "write" /\ call[a].todo # {}
    /\ MayTake(a, c)
    /\ Writes(a, c, Given(a, c), [Without(a, c) EXCEPT !.moved = @ \cup {c}])
    /\ UNCHANGED <<fit, moves, crossed>>

(* The transaction committed, the rest of assign_captain raised: the car is  *)
(* not among those to be put back.                                           *)
GivenThenFails(a) ==
    LET c == Turn(a) IN
    /\ call[a].kind = "group" /\ call[a].step = "write" /\ call[a].todo # {}
    /\ MayTake(a, c)
    /\ Writes(a, c, Given(a, c),
              [call[a] EXCEPT !.step = "undo", !.todo = call[a].moved, !.others = @ \cup {c}])
    /\ crossed' = crossed \cup {VisitOf[c]}
    /\ UNCHANGED <<fit, moves>>

(* A car is refused: by the above, or for his leave, his wallet, the hour.   *)
Refused(a) ==
    /\ call[a].kind = "group" /\ call[a].step = "write" /\ call[a].todo # {}
    /\ Goes(a, [call[a] EXCEPT !.step = "undo", !.todo = call[a].moved])
    /\ UNCHANGED <<job, fit, moves, handedBack, crossed>>

(* Mutant: the slot's start is not among the fields put back. *)
PutBackSomeFields(a, c) ==
    [call[a].seen[c] EXCEPT !.slot = job[c].slot, !.start = job[c].start]

(* _ASSIGNMENT_FIELDS, from the snapshot. *)
PutBack(a, c) == [call[a].seen[c] EXCEPT !.slot = job[c].slot]

(* Mutant: put back whatever the captain has made of it since. *)
StillOursAtWork(a, c) == job[c].captain = call[a].by /\ job[c].status \in Live

StillOurs(a, c) == job[c].captain = call[a].by /\ job[c].status = "assigned"

(* _undo_group_assignment: no check, no transaction. *)
Undo(a) ==
    /\ call[a].step = "undo" /\ call[a].todo # {}
    /\ LET c == Turn(a)
           j == PutBack(a, c) IN
       IF StillOurs(a, c)
         THEN /\ job' = [job EXCEPT ![c] = j]
              /\ call' = [Noted({c}) EXCEPT ![a] = Without(a, c)]
              /\ handedBack' = IF j.status = "assigned" THEN handedBack \cup {c} ELSE handedBack \ {c}
         ELSE Skips(a, c)
    /\ UNCHANGED <<fit, moves, crossed>>

-----------------------------------------------------------------------------
(* The other calls: each car by a write guarded on what was read.  The car   *)
(* that was tapped goes first where it decides the call.                     *)

NotHeaded == Waiting \cup {"assigned"}

Next1(a) == IF call[a].lead \in call[a].todo THEN call[a].lead ELSE First(call[a].todo)

At(a, kind) == call[a].kind = kind /\ call[a].step = "write" /\ call[a].todo # {}

(* The guard failed: the tapped car refuses the call, another is left out. *)
Lost(a, c) ==
    /\ Goes(a, IF c = call[a].lead THEN Quiet("over") ELSE Without(a, c))
    /\ UNCHANGED <<job, handedBack>>

(* Mutant: the tapped car alone. *)
ClaimableAlone(c) == {d \in {c} : job[d].status \in NotHeaded}

(* What nobody has headed for, of the whole visit. *)
Claimable(c) == {d \in Visit(c) : job[d].status \in NotHeaded}

(* self_assign: no check of schedule or standing, they are a captain's. *)
StartSelf(a) ==
    /\ \E c \in Cars :
          /\ c = First(Visit(c)) /\ Claimable(c) # {}
          /\ Begins(a, "self", c, Manager, "write", Claimable(c))
    /\ UNCHANGED <<job, fit, moves, handedBack>>

(* Mutant: guarded on status and captain, not on the slot. *)
AsWasUnslotted(a, c) ==
    job[c].status = call[a].seen[c].status /\ job[c].captain = call[a].seen[c].captain

AsWas(a, c) ==
    /\ job[c].status = call[a].seen[c].status /\ job[c].captain = call[a].seen[c].captain
    /\ job[c].slot = call[a].seen[c].slot

ClaimCar(a) ==
    LET c == First(call[a].todo) IN
    /\ At(a, "self")
    /\ IF AsWas(a, c)
         THEN Writes(a, c, [job[c] EXCEPT !.status = "assigned", !.captain = Manager,
                                          !.start = call[a].seen[c].slot, !.self = TRUE], Without(a, c))
         ELSE Skips(a, c)
    /\ UNCHANGED <<fit, moves, crossed>>

(* captain_cancel. *)
Releasable(c, k) == job[c].status \in {"assigned", "on_the_way"} /\ job[c].captain = k

StartRelease(a) ==
    /\ \E c \in Cars, k \in Captains :
          /\ Releasable(c, k) /\ fit[k]
          /\ Begins(a, "release", c, k, "write", {d \in Visit(c) : Releasable(d, k)})
    /\ UNCHANGED <<job, fit, moves, handedBack>>

ReleaseCar(a) ==
    LET c == Next1(a) IN
    /\ At(a, "release")
    /\ IF job[c].status = call[a].seen[c].status /\ job[c].captain = call[a].by
         THEN Writes(a, c, [job[c] EXCEPT !.status = "pending", !.captain = Nobody], Without(a, c))
         ELSE Lost(a, c)
    /\ UNCHANGED <<fit, moves, crossed>>

(* start_heading: his car, then, read after it, his others of the visit. *)
MayHead(c, k) == job[c].status = "assigned" /\ job[c].captain = k

StartHeading(a) ==
    /\ \E c \in Cars, k \in Captains :
          MayHead(c, k) /\ fit[k] /\ Begins(a, "head", c, k, "write", {c})
    /\ UNCHANGED <<job, fit, moves, handedBack>>

HeadCar(a) ==
    LET c == Next1(a) IN
    /\ At(a, "head")
    /\ IF MayHead(c, call[a].by)
         THEN Writes(a, c, [job[c] EXCEPT !.status = "on_the_way"],
                     IF c = call[a].lead THEN [Without(a, c) EXCEPT !.step = "siblings"] ELSE Without(a, c))
         ELSE Lost(a, c)
    /\ UNCHANGED <<fit, moves, crossed>>

ReadSiblings(a) ==
    LET c == call[a].lead IN
    /\ call[a].kind = "head" /\ call[a].step = "siblings"
    /\ Goes(a, [call[a] EXCEPT !.step = "write", !.todo = {d \in Visit(c) \ {c} : MayHead(d, call[a].by)}])
    /\ UNCHANGED <<job, fit, moves, handedBack, crossed>>

(* manager_mark_done, one _close_as_manager_done per car. *)
StartDone(a) ==
    /\ \E c \in Cars :
          /\ job[c].status \in NotHeaded
          /\ \A d \in Visit(c) : job[d].status \in NotHeaded \cup Over
          /\ Begins(a, "done", c, Manager, "write", Claimable(c))
    /\ UNCHANGED <<job, fit, moves, handedBack>>

(* Mutant: closed whatever it has become. *)
MayCloseAny(c) == TRUE

MayClose(c) == job[c].status \in NotHeaded

CloseCar(a) ==
    LET c == Next1(a) IN
    /\ At(a, "done")
    /\ IF MayClose(c)
         THEN Writes(a, c, [job[c] EXCEPT !.status = "completed", !.captain = Nobody, !.start = NoTime],
                     Without(a, c))
         ELSE Lost(a, c)
    /\ UNCHANGED <<fit, moves, crossed>>

-----------------------------------------------------------------------------
(* What takes one step. *)

Moves(S, j) ==
    /\ job' = [c \in Cars |-> IF c \in S THEN j[c] ELSE job[c]]
    /\ call' = Noted(S)
    /\ handedBack' = {c \in handedBack : c \in S => j[c].status \in Live}
    /\ UNCHANGED <<fit, crossed>>

(* capture_before_photo, capture_after_photo_and_complete. *)
StartService(c) ==
    /\ job[c].status = "on_the_way"
    /\ Moves({c}, [job EXCEPT ![c].status = "started"]) /\ UNCHANGED moves

CompleteService(c) ==
    /\ job[c].status = "started"
    /\ Moves({c}, [job EXCEPT ![c].status = "completed"]) /\ UNCHANGED moves

(* cancel_booking, cancel_booking_group; the customer only while no car of   *)
(* the visit is headed for.                                                  *)
Cancel(S) ==
    /\ \A c \in S : job[c].status \notin Over
    /\ Moves(S, [c \in Cars |-> [job[c] EXCEPT !.status = "cancelled"]])
    /\ UNCHANGED moves

LetGo(j, t) ==
    [j EXCEPT !.status = "rescheduled", !.captain = Nobody, !.slot = t, !.start = NoTime, !.self = FALSE]

(* reschedule_booking, and an edit of the time: the captain is let go. *)
Reschedule(c, t) ==
    LET S == {d \in Visit(c) : job[d].status \notin Over} IN
    /\ S # {} /\ \A d \in S : job[d].status \in NotHeaded
    /\ moves < MaxMoves /\ moves' = moves + 1
    /\ Moves(S, [d \in Cars |-> LetGo(job[d], t)])

(* Mutant: the live work is not looked at. *)
MayLeaveAnyway(k) == TRUE

(* ensure_captain_can_leave_roster, in the transaction that writes his row. *)
MayLeave(k) == \A c \in Cars : job[c].captain = k => job[c].status \notin Live

(* _write_guarded: suspended, or moved to another center. *)
Suspend(k) ==
    /\ fit[k] /\ MayLeave(k)
    /\ fit' = [fit EXCEPT ![k] = FALSE]
    /\ UNCHANGED <<job, call, moves, handedBack, crossed>>

Reinstate(k) ==
    /\ ~fit[k]
    /\ fit' = [fit EXCEPT ![k] = TRUE]
    /\ UNCHANGED <<job, call, moves, handedBack, crossed>>

-----------------------------------------------------------------------------
(* Every visit waits, or is one captain's; no two at one time are the same's. *)
NewJob(t) == [status |-> "pending", captain |-> Nobody, slot |-> t, start |-> NoTime, self |-> FALSE]
HisJob(t, k) == [NewJob(t) EXCEPT !.status = "assigned", !.captain = k, !.start = t]

DispatchInit ==
    /\ \E t \in [Visits -> Times], k \in [Visits -> Captains \cup {Nobody}] :
          /\ \A v, w \in Visits : v # w /\ k[v] = k[w] /\ t[v] = t[w] => k[v] = Nobody
          /\ job = [c \in Cars |-> LET v == VisitOf[c] IN
                                   IF k[v] = Nobody THEN NewJob(t[v]) ELSE HisJob(t[v], k[v])]
    /\ fit = [k \in Captains |-> TRUE]
    /\ call = [a \in Calls |-> Quiet("idle")]
    /\ moves = 0 /\ handedBack = {} /\ crossed = {}

GroupStep(a) ==
    StartGroup(a) \/ Precheck(a) \/ GiveCar(a) \/ GivenThenFails(a) \/ Refused(a) \/ Undo(a)
ManagerStep(a) == StartSelf(a) \/ ClaimCar(a) \/ StartDone(a) \/ CloseCar(a)
CaptainStep(a) ==
    StartRelease(a) \/ ReleaseCar(a) \/ StartHeading(a) \/ HeadCar(a) \/ ReadSiblings(a)

DispatchNext ==
    \/ \E a \in Calls : GroupStep(a) \/ ManagerStep(a) \/ CaptainStep(a) \/ Ends(a) \/ Dies(a)
    \/ \E c \in Cars :
          \/ StartService(c) \/ CompleteService(c)
          \/ \E S \in {{c}, {d \in Visit(c) : job[d].status \notin Over}} : Cancel(S)
          \/ \E t \in Times : Reschedule(c, t)
    \/ \E k \in Captains : Suspend(k) \/ Reinstate(k)

DispatchSpec == DispatchInit /\ [][DispatchNext]_vars

-----------------------------------------------------------------------------
(* PROPERTIES *)

(* A captain never holds two jobs of different visits at one time, whatever  *)
(* the managers assign, reassign, move and undo at once - unless one of them *)
(* came back to him because the rest of its visit could not be given to      *)
(* another (the undo of assign_captain_to_group checks nothing).             *)
NeverDoubleBooked ==
    \A c, d \in Cars \ handedBack :
        /\ VisitOf[c] # VisitOf[d] /\ job[c].status \in Live /\ job[d].status \in Live
        /\ job[c].captain = job[d].captain /\ job[c].captain \in Captains
        => job[c].start # job[d].start

(* Nobody suspended or moved away holds a job, however the assignment and    *)
(* the suspension fall, unless it came back to him by an undo.               *)
HoldersFit ==
    \A c \in Cars \ handedBack :
        job[c].status \in Live /\ job[c].captain \in Captains => fit[job[c].captain]

(* A live job is anchored at its own slot: no claim from a read before a     *)
(* reschedule brings the old time back.                                      *)
StartFollowsSlot ==
    \A c \in Cars \ handedBack : job[c].status \in Live => job[c].start = job[c].slot

(* The lateness sweep spares self-assigned jobs: exactly the manager's own   *)
(* must be marked, through every hand-over and undo.                         *)
SelfMeansManager ==
    \A c \in Cars : job[c].status \in Live => (job[c].self <=> job[c].captain = Manager)

(* The cars of a visit that wait for a captain to head out wait for the same *)
(* one, when no call is on the visit - unless two calls were at once, or one *)
(* broke off.                                                                *)
OneTrip ==
    \A v \in Visits \ crossed :
        (\A a \in Calls : InFlight(a) => VisitOf[call[a].lead] # v) =>
            \A c, d \in Cars : /\ VisitOf[c] = v /\ VisitOf[d] = v
                               /\ job[c].status = "assigned" /\ job[d].status = "assigned"
                               => job[c].captain = job[d].captain

(* A group assignment gives the captain every car, or leaves every car as it *)
(* was, but for the cars others wrote meanwhile.                             *)
AllOrNothing ==
    [][\A a \in Calls :
          call[a].kind = "group" /\ call'[a].step = "over" /\ call[a].step \in {"write", "undo"} =>
            \A c \in Visit(call[a].lead) \ call[a].others :
                IF call[a].step = "undo" \/ call[a].seen[c].status \notin NotHeaded
                  THEN job[c] = call[a].seen[c]
                  ELSE job[c].status = "assigned" /\ job[c].captain = call[a].by]_vars

(* A captain on the way or at work keeps the job until he finishes it, gives *)
(* it back or it is cancelled: no claim, hand-over, undo or close made from  *)
(* an older read takes it from him.                                          *)
NotYanked ==
    [][\A c \in Cars :
          /\ job[c].status \in {"on_the_way", "started"} /\ job'[c] # job[c]
          => \/ job'[c].captain = job[c].captain /\ job'[c].status \in {"started", "completed", "cancelled"}
             \/ /\ job'[c].status = "pending" /\ job'[c].captain = Nobody
                /\ \E a \in Calls : call[a].kind = "release" /\ call[a].by = job[c].captain]_vars

(* Every status moves along the map of transitions, stale reads or not. *)
Map == INSTANCE JobStatus WITH status <- [c \in Cars |-> job[c].status]
FollowsMap == Map!Spec
=============================================================================
