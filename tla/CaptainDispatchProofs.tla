----------------------- MODULE CaptainDispatchProofs -----------------------
(***************************************************************************)
(* Theorems about CaptainDispatch, for any cars, visits, captains, times,  *)
(* calls and number of moves.                                              *)
(***************************************************************************)
EXTENDS CaptainDispatch, WellFoundedInduction, TLAPS

(* A job nobody has taken is not marked as the manager's; one that is held   *)
(* is marked exactly when the manager holds it.                              *)
JobOK(j) ==
    /\ j.status \in Waiting => ~j.self
    /\ j.status \in Live => (j.self <=> j.captain = Manager)

JobsOK == \A c \in Cars : JobOK(job[c])

(* What a call has read of the cars it has still to write, or has written.   *)
ReadStatus(kind) == IF kind = "release" THEN {"assigned", "on_the_way"} ELSE NotHeaded

CallOK(r) ==
    /\ r.kind \in {"group", "release", "head"} => r.by \in Captains
    /\ r.step = "undo" => r.kind = "group"
    /\ \A c \in r.todo \cup r.moved :
          r.kind \in {"group", "self", "release"} =>
             r.seen[c] \in Job /\ JobOK(r.seen[c]) /\ r.seen[c].status \in ReadStatus(r.kind)

CallsOK == \A a \in Calls : CallOK(call[a])

DispatchBase == DispatchTypeOK /\ JobsOK /\ CallsOK

(* What may become of a car in one step: it is nobody's, it came back by an  *)
(* undo, it is the manager's, it is held as before, or it was just given to  *)
(* a captain who is fit and has nothing else then.                           *)
Just(c) ==
    LET k == job'[c].captain IN
    /\ job'[c].start = job'[c].slot /\ k \in Captains /\ fit'[k]
    /\ \A d \in Cars \ Visit(c) :
          job'[d].status \in Live /\ job'[d].captain = k => job'[d].start # job'[c].start

Kept(c) ==
    /\ c \notin handedBack /\ job[c].status \in Live /\ job'[c].captain = job[c].captain
    /\ job'[c].slot = job[c].slot /\ job'[c].start = job[c].start

Tame(c) ==
    \/ job'[c].status \notin Live
    \/ c \in handedBack'
    \/ job'[c].captain = Manager /\ job'[c].start = job'[c].slot
    \/ Kept(c)
    \/ Just(c)

Onward(c) == job'[c].status = job[c].status \/ job'[c].status \in Map!Allowed[job[c].status]

Left(c) ==
    job[c].status \in {"on_the_way", "started"} /\ job'[c] # job[c] =>
       \/ job'[c].captain = job[c].captain /\ job'[c].status \in {"started", "completed", "cancelled"}
       \/ /\ job'[c].status = "pending" /\ job'[c].captain = Nobody
          /\ \E a \in Calls : call[a].kind = "release" /\ call[a].by = job[c].captain

Fate(c) == Tame(c) /\ JobOK(job'[c]) /\ Onward(c) /\ Left(c)
Fates == \A c \in Cars : Fate(c)

(* Who loses his standing holds nothing.                                     *)
Standing ==
    \A k \in Captains : fit[k] /\ ~fit'[k] =>
        \A c \in Cars : job'[c] = job[c] /\ (job[c].captain = k => job[c].status \notin Live)

Effect == DispatchTypeOK' /\ CallsOK' /\ Fates /\ Standing

-----------------------------------------------------------------------------
(* Facts about the data. *)

LEMMA FirstIn == ASSUME NEW S \in SUBSET Nat, S # {} PROVE First(S) \in S
<1> DEFINE R == {ss \in Nat \X Nat : ss[1] < ss[2]}
<1>1. IsWellFoundedOn(R, Nat)
  BY NatLessThanWellFounded DEF OpToRel
<1>2. \E x \in S : \A y \in S : <<y, x>> \notin R
  <2> HIDE DEF R
  <2> QED BY <1>1, WFMin
<1>3. \A x \in S, y \in S : <<y, x>> \notin R => x <= y
  OBVIOUS
<1>4. \E x \in S : \A d \in S : x <= d
  BY <1>2, <1>3
<1> QED BY <1>4 DEF First

LEMMA FirstCar == ASSUME DispatchAssumption, NEW S \in SUBSET Cars, S # {} PROVE First(S) \in S
BY FirstIn DEF DispatchAssumption

LEMMA VisitCars == ASSUME NEW c \in Cars PROVE Visit(c) \in SUBSET Cars /\ c \in Visit(c)
BY DEF Visit

LEMMA TransitionMap ==
    /\ {"assigned", "cancelled", "completed"} \subseteq Map!Allowed["pending"]
    /\ "rescheduled" \in Map!Allowed["pending"]
    /\ {"assigned", "cancelled", "completed"} \subseteq Map!Allowed["rescheduled"]
    /\ {"on_the_way", "pending", "cancelled", "rescheduled", "completed"} \subseteq Map!Allowed["assigned"]
    /\ {"started", "pending", "cancelled"} \subseteq Map!Allowed["on_the_way"]
    /\ {"completed", "cancelled"} \subseteq Map!Allowed["started"]
BY DEF Map!Allowed, Map!Statuses

LEMMA QuietOK ==
    ASSUME DispatchAssumption, NEW step \in {"idle", "over", "dead"}
    PROVE  Quiet(step) \in Call /\ CallOK(Quiet(step))
<1>1. First(Cars) \in Cars
  BY FirstCar DEF DispatchAssumption
<1>2. Quiet(step) \in Call
  BY <1>1 DEF Quiet, Call, Kinds, Staff
<1> QED BY <1>2 DEF Quiet, CallOK

(* A call that goes on with no more cars than before.                        *)
LEMMA Smaller ==
    ASSUME NEW r \in Call, NEW q \in Call, CallOK(r),
           q.kind = r.kind, q.by = r.by, q.seen = r.seen, q.step = "undo" => q.kind = "group",
           q.todo \cup q.moved \subseteq r.todo \cup r.moved
    PROVE  CallOK(q)
BY DEF CallOK

LEMMA NotedFields ==
    ASSUME DispatchTypeOK, NEW S \in SUBSET Cars
    PROVE  /\ Noted(S) \in [Calls -> Call]
           /\ \A e \in Calls :
                 /\ Noted(S)[e].kind = call[e].kind /\ Noted(S)[e].step = call[e].step
                 /\ Noted(S)[e].lead = call[e].lead /\ Noted(S)[e].by = call[e].by
                 /\ Noted(S)[e].seen = call[e].seen /\ Noted(S)[e].todo = call[e].todo
                 /\ Noted(S)[e].moved = call[e].moved
                 /\ Noted(S)[e].others \in {call[e].others, call[e].others \cup (S \cap Visit(call[e].lead))}
<1> SUFFICES ASSUME NEW e \in Calls
             PROVE  /\ Noted(S)[e] \in Call
                    /\ Noted(S)[e].kind = call[e].kind /\ Noted(S)[e].step = call[e].step
                    /\ Noted(S)[e].lead = call[e].lead /\ Noted(S)[e].by = call[e].by
                    /\ Noted(S)[e].seen = call[e].seen /\ Noted(S)[e].todo = call[e].todo
                    /\ Noted(S)[e].moved = call[e].moved
                    /\ Noted(S)[e].others \in {call[e].others, call[e].others \cup (S \cap Visit(call[e].lead))}
  BY DEF Noted
<1> DEFINE r == call[e]
           o == r.others \cup (S \cap Visit(r.lead))
<1>1. r \in Call /\ o \in SUBSET Cars
  BY DEF DispatchTypeOK, Call
<1>2. Noted(S)[e] = r \/ Noted(S)[e] = [r EXCEPT !.others = o]
  BY DEF Noted
<1> HIDE DEF r, o
<1>3. [r EXCEPT !.others = o] \in Call
  BY <1>1 DEF Call
<1>4. LET q == [r EXCEPT !.others = o]
      IN  /\ q.kind = r.kind /\ q.step = r.step /\ q.lead = r.lead /\ q.by = r.by /\ q.seen = r.seen
          /\ q.todo = r.todo /\ q.moved = r.moved /\ q.others = o
  BY <1>1 DEF Call
<1> QED BY <1>1, <1>2, <1>3, <1>4 DEF r, o

LEMMA NotedOK ==
    ASSUME DispatchBase, NEW S \in SUBSET Cars
    PROVE  \A e \in Calls : Noted(S)[e] \in Call /\ CallOK(Noted(S)[e])
<1>1. \A e \in Calls : Noted(S)[e] \in Call /\ call[e] \in Call /\ CallOK(call[e])
  BY NotedFields DEF DispatchBase, CallsOK, DispatchTypeOK
<1> QED BY <1>1, NotedFields, Smaller DEF DispatchBase, CallOK
-----------------------------------------------------------------------------
(* What the actions make of a call's record. *)

LEMMA RestOK ==
    ASSUME DispatchBase, NEW a \in Calls, NEW c \in Cars, NEW q, q = Without(a, c)
    PROVE  /\ q \in Call /\ CallOK(q)
           /\ q.kind = call[a].kind /\ q.step = call[a].step /\ q.lead = call[a].lead /\ q.by = call[a].by
           /\ q.seen = call[a].seen /\ q.todo = call[a].todo \ {c} /\ q.moved = call[a].moved
           /\ q.others = call[a].others
<1> DEFINE r == call[a]
<1>1. r \in Call /\ CallOK(r)
  BY DEF DispatchBase, DispatchTypeOK, CallsOK
<1>2. q = [r EXCEPT !.todo = @ \ {c}]
  BY DEF Without
<1> HIDE DEF r
<1>3. /\ q \in Call /\ q.kind = r.kind /\ q.step = r.step /\ q.lead = r.lead /\ q.by = r.by
      /\ q.seen = r.seen /\ q.todo = r.todo \ {c} /\ q.moved = r.moved /\ q.others = r.others
  BY <1>1, <1>2 DEF Call
<1>4. CallOK(q)
  BY <1>1, <1>3 DEF CallOK
<1> QED BY <1>3, <1>4 DEF r

LEMMA StepOK ==
    ASSUME DispatchBase, NEW a \in Calls, NEW s \in {"write", "siblings"}, NEW q,
           q = [call[a] EXCEPT !.step = s]
    PROVE  /\ q \in Call /\ CallOK(q)
           /\ q.kind = call[a].kind /\ q.step = s /\ q.lead = call[a].lead /\ q.by = call[a].by
           /\ q.seen = call[a].seen /\ q.todo = call[a].todo /\ q.moved = call[a].moved
           /\ q.others = call[a].others
<1> DEFINE r == call[a]
<1>1. r \in Call /\ CallOK(r)
  BY DEF DispatchBase, DispatchTypeOK, CallsOK
<1>2. q = [r EXCEPT !.step = s]
  OBVIOUS
<1> HIDE DEF r
<1>3. /\ q \in Call /\ q.kind = r.kind /\ q.step = s /\ q.lead = r.lead /\ q.by = r.by
      /\ q.seen = r.seen /\ q.todo = r.todo /\ q.moved = r.moved /\ q.others = r.others
  BY <1>1, <1>2 DEF Call
<1>4. CallOK(q)
  BY <1>1, <1>3 DEF CallOK
<1> QED BY <1>3, <1>4 DEF r

(* A car given away; an assignment that turns back.                          *)
Moved(a, c) == [Without(a, c) EXCEPT !.moved = @ \cup {c}]
BackOut(a, o) == [call[a] EXCEPT !.step = "undo", !.todo = call[a].moved, !.others = o]

LEMMA MovedOK ==
    ASSUME DispatchBase, NEW a \in Calls, NEW c \in call[a].todo, NEW q, q = Moved(a, c)
    PROVE  /\ q \in Call /\ CallOK(q)
           /\ q.kind = call[a].kind /\ q.step = call[a].step /\ q.lead = call[a].lead /\ q.by = call[a].by
           /\ q.seen = call[a].seen /\ q.todo = call[a].todo \ {c} /\ q.moved = call[a].moved \cup {c}
           /\ q.others = call[a].others
<1> DEFINE r == call[a]
           w == Without(a, c)
<1>0. c \in Cars /\ r \in Call /\ CallOK(r)
  BY DEF DispatchBase, DispatchTypeOK, CallsOK, Call
<1>1. /\ w \in Call /\ w.kind = r.kind /\ w.step = r.step /\ w.lead = r.lead /\ w.by = r.by
      /\ w.seen = r.seen /\ w.todo = r.todo \ {c} /\ w.moved = r.moved /\ w.others = r.others
  BY <1>0, RestOK
<1>2. q = [w EXCEPT !.moved = @ \cup {c}] /\ c \in r.todo
  BY DEF Moved
<1> HIDE DEF r, w
<1>3. /\ q \in Call /\ q.kind = w.kind /\ q.step = w.step /\ q.lead = w.lead /\ q.by = w.by
      /\ q.seen = w.seen /\ q.todo = w.todo /\ q.moved = w.moved \cup {c} /\ q.others = w.others
  <2>1. w.moved \cup {c} \in SUBSET Cars
    BY <1>0, <1>1 DEF Call
  <2> QED BY <1>1, <1>2, <2>1 DEF Call
<1>4. CallOK(q)
  <2>1. q.todo \cup q.moved \subseteq r.todo \cup r.moved
    BY <1>1, <1>2, <1>3
  <2>2. r.step = "undo" => r.kind = "group"
    BY <1>0 DEF CallOK
  <2>3. q.kind = r.kind /\ q.by = r.by /\ q.seen = r.seen /\ q.step = r.step
    BY <1>1, <1>3
  <2>4. r \in Call /\ q \in Call /\ CallOK(r)
    BY <1>0, <1>3
  <2> QED BY <2>1, <2>2, <2>3, <2>4 DEF CallOK
<1> QED BY <1>1, <1>3, <1>4 DEF r

LEMMA BackOutOK ==
    ASSUME DispatchBase, NEW a \in Calls, call[a].kind = "group", NEW o \in SUBSET Cars, NEW q,
           q = BackOut(a, o)
    PROVE  /\ q \in Call /\ CallOK(q)
           /\ q.kind = call[a].kind /\ q.step = "undo" /\ q.lead = call[a].lead /\ q.by = call[a].by
           /\ q.seen = call[a].seen /\ q.todo = call[a].moved /\ q.moved = call[a].moved
           /\ q.others = o
<1> DEFINE r == call[a]
<1>1. r \in Call /\ CallOK(r)
  BY DEF DispatchBase, DispatchTypeOK, CallsOK
<1>2. q = [r EXCEPT !.step = "undo", !.todo = r.moved, !.others = o] /\ r.kind = "group"
  BY DEF BackOut
<1> HIDE DEF r
<1>3. /\ q \in Call /\ q.kind = r.kind /\ q.step = "undo" /\ q.lead = r.lead /\ q.by = r.by
      /\ q.seen = r.seen /\ q.todo = r.moved /\ q.moved = r.moved /\ q.others = o
  BY <1>1, <1>2 DEF Call
<1>4. CallOK(q)
  BY <1>1, <1>2, <1>3, Smaller
<1> QED BY <1>3, <1>4 DEF r

(* What the tapped car decides. *)
LEMMA LostOK ==
    ASSUME DispatchAssumption, DispatchBase, NEW a \in Calls, NEW c \in Cars
    PROVE  LET q == IF c = call[a].lead THEN Quiet("over") ELSE Without(a, c) IN q \in Call /\ CallOK(q)
BY QuietOK, RestOK

-----------------------------------------------------------------------------
(* What a step makes of the cars it does not write, and of the other calls.  *)

LEMMA UntouchedFate ==
    ASSUME DispatchBase, NEW d \in Cars, job'[d] = job[d], d \in handedBack => d \in handedBack'
    PROVE  Fate(d)
<1>1. JobOK(job'[d])
  BY DEF DispatchBase, JobsOK
<1>2. Tame(d)
  BY DEF Tame, Kept
<1> QED BY <1>1, <1>2 DEF Fate, Onward, Left

LEMMA Untouched ==
    ASSUME DispatchBase, UNCHANGED <<job, handedBack>>
    PROVE  Fates
BY UntouchedFate DEF Fates

LEMMA OneCallOK ==
    ASSUME DispatchBase, NEW a \in Calls, NEW r \in Call, CallOK(r),
           \/ call' = [call EXCEPT ![a] = r]
           \/ \E S \in SUBSET Cars : call' = [Noted(S) EXCEPT ![a] = r]
    PROVE  call' \in [Calls -> Call] /\ CallsOK'
<1>1. CASE call' = [call EXCEPT ![a] = r]
  BY <1>1 DEF DispatchBase, DispatchTypeOK, CallsOK
<1>2. ASSUME NEW S \in SUBSET Cars, call' = [Noted(S) EXCEPT ![a] = r]
      PROVE  call' \in [Calls -> Call] /\ CallsOK'
  <2>1. Noted(S) \in [Calls -> Call] /\ \A e \in Calls : CallOK(Noted(S)[e])
    BY NotedFields, NotedOK DEF DispatchBase
  <2>2. \A e \in Calls : call'[e] = IF e = a THEN r ELSE Noted(S)[e]
    BY <1>2, <2>1
  <2> QED BY <1>2, <2>1, <2>2 DEF CallsOK
<1> QED BY <1>1, <1>2

LEMMA FitKept == ASSUME UNCHANGED fit PROVE Standing
BY DEF Standing

(* A step of call a that writes nothing.                                     *)
LEMMA Going ==
    ASSUME DispatchBase, NEW a \in Calls, NEW r \in Call, CallOK(r), Goes(a, r),
           UNCHANGED <<job, fit, moves, handedBack>>, crossed' \subseteq Visits
    PROVE  Effect
<1>1. call' \in [Calls -> Call] /\ CallsOK'
  BY OneCallOK DEF Goes
<1>2. DispatchTypeOK'
  BY <1>1 DEF DispatchBase, DispatchTypeOK
<1> QED BY <1>1, <1>2, Untouched, FitKept DEF Effect

(* A step of call a that writes car c. *)
LEMMA WritingOne ==
    ASSUME DispatchBase, NEW a \in Calls, NEW c \in Cars, NEW j \in Job, NEW r \in Call, CallOK(r),
           job' = [job EXCEPT ![c] = j], call' = [Noted({c}) EXCEPT ![a] = r],
           handedBack' \subseteq Cars, handedBack \ {c} \subseteq handedBack',
           UNCHANGED <<fit, moves>>, crossed' \subseteq Visits,
           Fate(c)
    PROVE  Effect
<1>1. call' \in [Calls -> Call] /\ CallsOK'
  BY OneCallOK
<1>2. job' \in [Cars -> Job] /\ \A d \in Cars : d # c => job'[d] = job[d]
  BY DEF DispatchBase, DispatchTypeOK
<1>3. DispatchTypeOK'
  BY <1>1, <1>2 DEF DispatchBase, DispatchTypeOK
<1>4. ASSUME NEW d \in Cars PROVE Fate(d)
  <2>1. CASE d = c
    BY <2>1
  <2>2. CASE d # c
    BY <1>2, <2>2, UntouchedFate
  <2> QED BY <2>1, <2>2
<1> QED BY <1>1, <1>3, <1>4, FitKept DEF Effect, Fates

LEMMA Writing ==
    ASSUME DispatchBase, NEW a \in Calls, NEW c \in Cars, NEW j \in Job, NEW r \in Call, CallOK(r),
           Writes(a, c, j, r), UNCHANGED <<fit, moves>>, crossed' \subseteq Visits,
           Fate(c)
    PROVE  Effect
<1>1. /\ job' = [job EXCEPT ![c] = j] /\ call' = [Noted({c}) EXCEPT ![a] = r]
      /\ handedBack' \subseteq Cars /\ handedBack \ {c} \subseteq handedBack'
  BY DEF Writes, DispatchBase, DispatchTypeOK
<1> QED BY <1>1, WritingOne

-----------------------------------------------------------------------------
(* Each action. *)

(* What a call knows when it has read the visit of car c. *)
Reading(kind, step, c, k, S) ==
    [kind |-> kind, step |-> step, lead |-> c, by |-> k,
     seen |-> [d \in Cars |-> IF d \in Visit(c) THEN job[d] ELSE Unseen],
     todo |-> S, moved |-> {}, others |-> {}]

LEMMA BeginFields ==
    ASSUME DispatchTypeOK, NEW kind \in Kinds, NEW c \in Cars, NEW k \in Staff,
           NEW step \in {"check", "write"}, NEW S \in SUBSET Cars, NEW r, r = Reading(kind, step, c, k, S)
    PROVE  /\ r \in Call /\ r.kind = kind /\ r.step = step /\ r.by = k /\ r.todo = S /\ r.moved = {}
           /\ \A d \in Visit(c) : r.seen[d] = job[d]
<1>1. [d \in Cars |-> IF d \in Visit(c) THEN job[d] ELSE Unseen] \in [Cars -> Job \cup {Unseen}]
  BY DEF DispatchTypeOK
<1>2. \A d \in Visit(c) : r.seen[d] = job[d]
  BY DEF Visit, Reading
<1> QED BY <1>1, <1>2 DEF Call, Reading

LEMMA Beginning ==
    ASSUME DispatchAssumption, DispatchBase, NEW a \in Calls, NEW kind \in Kinds, NEW c \in Cars,
           NEW k \in Staff, NEW step \in {"check", "write"}, NEW S \in SUBSET Visit(c),
           kind \in {"group", "release", "head"} => k \in Captains,
           \A d \in S : kind \in {"group", "self", "release"} => job[d].status \in ReadStatus(kind),
           Begins(a, kind, c, k, step, S), UNCHANGED <<job, fit, moves, handedBack>>
    PROVE  Effect
<1> DEFINE r == Reading(kind, step, c, k, S)
<1>1. S \in SUBSET Cars /\ \A d \in S : d \in Visit(c)
  BY DEF Visit
<1>2. /\ r \in Call /\ r.kind = kind /\ r.step = step /\ r.by = k /\ r.todo = S /\ r.moved = {}
      /\ \A d \in Visit(c) : r.seen[d] = job[d]
  <2>1. DispatchTypeOK
    BY DEF DispatchBase
  <2> QED BY <1>1, <2>1, BeginFields
<1>3. call' = [call EXCEPT ![a] = r] /\ crossed' \subseteq Visits
  <2>1. VisitOf[c] \in Visits
    BY DEF DispatchAssumption
  <2> QED BY <2>1 DEF Begins, DispatchBase, DispatchTypeOK, Reading
<1> HIDE DEF r
<1>4. \A d \in S : job[d] \in Job /\ JobOK(job[d])
  BY <1>1 DEF DispatchBase, DispatchTypeOK, JobsOK
<1>5. CallOK(r)
  BY <1>1, <1>2, <1>4 DEF CallOK
<1> QED BY <1>2, <1>3, <1>5, Going DEF Goes

LEMMA StartGroupOK ==
    ASSUME DispatchAssumption, DispatchBase, NEW a \in Calls, StartGroup(a) PROVE Effect
<1>1. PICK c \in Cars, k \in Captains :
         Begins(a, "group", c, k, "check", Fresh(Visit(c), job) \cup Mismatched(Visit(c), job, k))
  BY DEF StartGroup
<1>2. UNCHANGED <<job, fit, moves, handedBack>>
  BY DEF StartGroup
<1> DEFINE S == Fresh(Visit(c), job) \cup Mismatched(Visit(c), job, k)
<1>3. S \in SUBSET Visit(c) /\ \A d \in S : job[d].status \in NotHeaded
  BY DEF Fresh, Mismatched, NotHeaded
<1>4. k \in Staff /\ "group" \in Kinds
  BY DEF Staff, Kinds
<1> HIDE DEF S
<1> QED BY <1>1, <1>2, <1>3, <1>4, Beginning DEF S, ReadStatus

LEMMA StartSelfOK ==
    ASSUME DispatchAssumption, DispatchBase, NEW a \in Calls, StartSelf(a) PROVE Effect
<1>1. PICK c \in Cars : Begins(a, "self", c, Manager, "write", Claimable(c))
  BY DEF StartSelf
<1>2. UNCHANGED <<job, fit, moves, handedBack>>
  BY DEF StartSelf
<1>3. Claimable(c) \in SUBSET Visit(c) /\ \A d \in Claimable(c) : job[d].status \in NotHeaded
  BY DEF Claimable
<1>4. Manager \in Staff /\ "self" \in Kinds
  BY DEF Staff, Kinds
<1> QED BY <1>1, <1>2, <1>3, <1>4, Beginning DEF ReadStatus

LEMMA StartDoneOK ==
    ASSUME DispatchAssumption, DispatchBase, NEW a \in Calls, StartDone(a) PROVE Effect
<1>1. PICK c \in Cars : Begins(a, "done", c, Manager, "write", Claimable(c))
  BY DEF StartDone
<1>2. UNCHANGED <<job, fit, moves, handedBack>>
  BY DEF StartDone
<1>3. Claimable(c) \in SUBSET Visit(c)
  BY DEF Claimable
<1>4. Manager \in Staff /\ "done" \in Kinds
  BY DEF Staff, Kinds
<1> QED BY <1>1, <1>2, <1>3, <1>4, Beginning

LEMMA StartReleaseOK ==
    ASSUME DispatchAssumption, DispatchBase, NEW a \in Calls, StartRelease(a) PROVE Effect
<1>1. PICK c \in Cars, k \in Captains :
         Begins(a, "release", c, k, "write", {d \in Visit(c) : Releasable(d, k)})
  BY DEF StartRelease
<1>2. UNCHANGED <<job, fit, moves, handedBack>>
  BY DEF StartRelease
<1> DEFINE S == {d \in Visit(c) : Releasable(d, k)}
<1>3. S \in SUBSET Visit(c) /\ \A d \in S : job[d].status \in {"assigned", "on_the_way"}
  BY DEF Releasable
<1>4. k \in Staff /\ "release" \in Kinds
  BY DEF Staff, Kinds
<1> HIDE DEF S
<1> QED BY <1>1, <1>2, <1>3, <1>4, Beginning DEF S, ReadStatus

LEMMA StartHeadingOK ==
    ASSUME DispatchAssumption, DispatchBase, NEW a \in Calls, StartHeading(a) PROVE Effect
<1>1. PICK c \in Cars, k \in Captains : Begins(a, "head", c, k, "write", {c})
  BY DEF StartHeading
<1>2. UNCHANGED <<job, fit, moves, handedBack>>
  BY DEF StartHeading
<1>3. {c} \in SUBSET Visit(c)
  BY VisitCars
<1>4. k \in Staff /\ "head" \in Kinds
  BY DEF Staff, Kinds
<1> QED BY <1>1, <1>2, <1>3, <1>4, Beginning
LEMMA PrecheckOK ==
    ASSUME DispatchAssumption, DispatchBase, NEW a \in Calls, Precheck(a) PROVE Effect
<1>1. UNCHANGED <<job, fit, moves, handedBack>> /\ crossed' \subseteq Visits
  BY DEF Precheck, DispatchBase, DispatchTypeOK
<1>2. Quiet("over") \in Call /\ CallOK(Quiet("over"))
  BY QuietOK
<1>3. [call[a] EXCEPT !.step = "write"] \in Call /\ CallOK([call[a] EXCEPT !.step = "write"])
  BY StepOK
<1>4. Goes(a, Quiet("over")) \/ Goes(a, [call[a] EXCEPT !.step = "write"])
  BY DEF Precheck
<1> QED BY <1>1, <1>2, <1>3, <1>4, Going

LEMMA RefusedOK ==
    ASSUME DispatchAssumption, DispatchBase, NEW a \in Calls, Refused(a) PROVE Effect
<1>1. UNCHANGED <<job, fit, moves, handedBack>> /\ crossed' \subseteq Visits /\ call[a].kind = "group"
  BY DEF Refused, DispatchBase, DispatchTypeOK
<1> DEFINE q == [call[a] EXCEPT !.step = "undo", !.todo = call[a].moved]
<1>2. call[a] \in Call /\ call[a].others \in SUBSET Cars
  BY DEF DispatchBase, DispatchTypeOK, Call
<1>3. q = BackOut(a, call[a].others)
  BY <1>2 DEF Call, BackOut
<1>4. Goes(a, q)
  BY DEF Refused
<1> HIDE DEF q
<1>5. q \in Call /\ CallOK(q)
  BY <1>1, <1>2, <1>3, BackOutOK
<1> QED BY <1>1, <1>4, <1>5, Going

LEMMA EndsOK ==
    ASSUME DispatchAssumption, DispatchBase, NEW a \in Calls, Ends(a) \/ Dies(a) PROVE Effect
<1>1. UNCHANGED <<job, fit, moves, handedBack>> /\ (Goes(a, Quiet("over")) \/ Goes(a, Quiet("dead")))
  BY DEF Ends, Dies
<1>2. crossed' \subseteq Visits
  <2>1. VisitOf[call[a].lead] \in Visits
    BY DEF DispatchAssumption, DispatchBase, DispatchTypeOK, Call
  <2> QED BY <2>1 DEF Ends, Dies, DispatchBase, DispatchTypeOK
<1> QED BY <1>1, <1>2, QuietOK, Going

LEMMA ReadSiblingsOK ==
    ASSUME DispatchAssumption, DispatchBase, NEW a \in Calls, ReadSiblings(a) PROVE Effect
<1> DEFINE r == call[a]
           S == {d \in Visit(r.lead) \ {r.lead} : MayHead(d, r.by)}
           q == [r EXCEPT !.step = "write", !.todo = S]
<1>1. UNCHANGED <<job, fit, moves, handedBack>> /\ crossed' \subseteq Visits /\ Goes(a, q)
  BY DEF ReadSiblings, DispatchBase, DispatchTypeOK
<1>2. r \in Call /\ CallOK(r) /\ r.kind = "head" /\ S \in SUBSET Cars
  BY DEF ReadSiblings, DispatchBase, DispatchTypeOK, CallsOK, Visit
<1>3. q = [r EXCEPT !.step = "write", !.todo = S]
  OBVIOUS
<1> HIDE DEF r, S, q
<1>4. q \in Call /\ q.kind = "head" /\ q.step = "write" /\ q.by = r.by
  BY <1>2, <1>3 DEF Call
<1>5. CallOK(q)
  BY <1>2, <1>4 DEF CallOK
<1> QED BY <1>1, <1>4, <1>5, Going

(* The car whose turn it is. *)
LEMMA TurnIn ==
    ASSUME DispatchAssumption, DispatchBase, NEW a \in Calls, call[a].todo # {}
    PROVE  Turn(a) \in call[a].todo /\ Next1(a) \in call[a].todo /\ First(call[a].todo) \in call[a].todo
           /\ call[a].todo \subseteq Cars
<1>1. call[a].todo \in SUBSET Cars
  BY DEF DispatchBase, DispatchTypeOK, Call
<1>2. Fresh(call[a].todo, call[a].seen) \in SUBSET call[a].todo
  BY DEF Fresh
<1>3. First(call[a].todo) \in call[a].todo
  BY <1>1, FirstCar
<1>4. Fresh(call[a].todo, call[a].seen) # {} =>
        First(Fresh(call[a].todo, call[a].seen)) \in Fresh(call[a].todo, call[a].seen)
  BY <1>1, <1>2, FirstCar
<1> QED BY <1>1, <1>2, <1>3, <1>4 DEF Turn, Next1

(* A car that is given to a captain. *)
LEMMA GivingOK ==
    ASSUME DispatchAssumption, DispatchBase, NEW a \in Calls, call[a].kind = "group",
           NEW c \in call[a].todo, MayTake(a, c), NEW r \in Call, CallOK(r),
           Writes(a, c, Given(a, c), r), UNCHANGED <<fit, moves>>, crossed' \subseteq Visits
    PROVE  Effect
<1> DEFINE k == call[a].by
           b == job[c].self /\ call[a].seen[c].status \in Waiting
           q == Given(a, c)
<1>0. DispatchTypeOK /\ JobsOK /\ call[a] \in Call /\ CallOK(call[a])
  BY DEF DispatchBase, DispatchTypeOK, CallsOK
<1>1. c \in Cars /\ k \in Captains /\ k # Manager /\ k # Nobody
  BY <1>0 DEF CallOK, Call, DispatchAssumption
<1>2. job[c] \in Job /\ JobOK(job[c]) /\ job[c].slot \in Times
  BY <1>0, <1>1 DEF DispatchTypeOK, JobsOK, Job
<1>3. b = FALSE
  BY <1>2 DEF MayTake, MayBeGiven, JobOK, Job
<1>4. /\ q \in Job /\ q.status = "assigned" /\ q.captain = k /\ q.slot = job[c].slot
      /\ q.start = job[c].slot /\ q.self = FALSE
  <2>1. q = [job[c] EXCEPT !.status = "assigned", !.captain = k, !.start = job[c].slot, !.self = b]
    BY DEF Given
  <2>2. k \in Staff
    BY <1>1 DEF Staff
  <2> DEFINE j == job[c]
  <2>3. j \in Job /\ j.slot \in Times /\ b \in BOOLEAN
        /\ q = [j EXCEPT !.status = "assigned", !.captain = k, !.start = j.slot, !.self = b]
    BY <1>2, <1>3, <2>1
  <2> HIDE DEF q, b, k, j
  <2>4. /\ q \in Job /\ q.status = "assigned" /\ q.captain = k /\ q.slot = j.slot
        /\ q.start = j.slot /\ q.self = b
    BY <2>2, <2>3 DEF Job, Statuses
  <2> QED BY <1>3, <2>4 DEF j
<1>5. job' = [job EXCEPT ![c] = q] /\ fit' = fit
  BY DEF Writes
<1>6. job[c].status \in {"pending", "rescheduled", "assigned"} /\ fit[k] /\ ~Clashes(k, c, job[c].slot)
  BY DEF MayTake, MayBeGiven, Waiting
<1> HIDE DEF q, b, k
<1>7. job'[c] = q /\ \A d \in Cars : d # c => job'[d] = job[d]
  BY <1>0, <1>1, <1>5 DEF DispatchTypeOK
<1>8. Just(c)
  <2>1. c \in Visit(c)
    BY <1>1, VisitCars
  <2>2. \A d \in Cars \ Visit(c) : job[d].status \in Live /\ job[d].captain = k => job[d].start # job[c].slot
    BY <1>6 DEF Clashes
  <2> QED BY <1>1, <1>4, <1>5, <1>6, <1>7, <2>1, <2>2 DEF Just
<1>9. Fate(c)
  <2>1. JobOK(q)
    BY <1>1, <1>4 DEF JobOK, Waiting, Live
  <2> QED BY <1>4, <1>6, <1>7, <1>8, <2>1, TransitionMap DEF Fate, Tame, Onward, Left
<1>10. Writes(a, c, q, r)
  BY DEF q
<1> QED BY <1>1, <1>4, <1>9, <1>10, Writing

LEMMA GiveCarOK ==
    ASSUME DispatchAssumption, DispatchBase, NEW a \in Calls, GiveCar(a) PROVE Effect
<1> DEFINE c == Turn(a)
           q == Moved(a, c)
<1>1. /\ call[a].kind = "group" /\ MayTake(a, c) /\ Writes(a, c, Given(a, c), q)
      /\ UNCHANGED <<fit, moves>> /\ crossed' \subseteq Visits /\ call[a].todo # {}
  BY DEF GiveCar, Moved, DispatchBase, DispatchTypeOK
<1>2. c \in call[a].todo
  BY <1>1, TurnIn
<1>3. q \in Call /\ CallOK(q)
  BY <1>2, MovedOK
<1> HIDE DEF c, q
<1> QED BY <1>1, <1>2, <1>3, GivingOK

LEMMA GivenThenFailsOK ==
    ASSUME DispatchAssumption, DispatchBase, NEW a \in Calls, GivenThenFails(a) PROVE Effect
<1> DEFINE c == Turn(a)
           o == call[a].others \cup {c}
           q == BackOut(a, o)
<1>1. /\ call[a].kind = "group" /\ MayTake(a, c) /\ call[a].todo # {}
      /\ UNCHANGED <<fit, moves>> /\ crossed' = crossed \cup {VisitOf[c]}
  BY DEF GivenThenFails
<1>2. c \in call[a].todo /\ c \in Cars
  BY <1>1, TurnIn
<1>3. o \in SUBSET Cars
  BY <1>2 DEF DispatchBase, DispatchTypeOK, Call
<1>4. Writes(a, c, Given(a, c), q)
  BY DEF GivenThenFails, BackOut
<1>5. crossed' \subseteq Visits
  BY <1>1, <1>2 DEF DispatchAssumption, DispatchBase, DispatchTypeOK
<1> HIDE DEF c, o
<1>6. q \in Call /\ CallOK(q)
  BY <1>1, <1>3, BackOutOK
<1> HIDE DEF q
<1> QED BY <1>1, <1>2, <1>4, <1>5, <1>6, GivingOK
LEMMA UndoOK ==
    ASSUME DispatchAssumption, DispatchBase, NEW a \in Calls, Undo(a) PROVE Effect
<1> DEFINE c == Turn(a)
           q == Without(a, c)
           w == call[a].seen[c]
           j == PutBack(a, c)
<1>0. DispatchTypeOK /\ JobsOK /\ call[a] \in Call /\ CallOK(call[a])
  BY DEF DispatchBase, DispatchTypeOK, CallsOK
<1>1. call[a].todo # {} /\ UNCHANGED <<fit, moves>> /\ crossed' \subseteq Visits /\ call[a].kind = "group"
  BY <1>0 DEF Undo, DispatchTypeOK, CallOK
<1>2. c \in call[a].todo /\ c \in Cars
  BY <1>1, TurnIn
<1>3. q \in Call /\ CallOK(q)
  BY <1>2, RestOK
<1>4. CASE ~StillOurs(a, c)
  <2>1. Skips(a, c)
    BY <1>4 DEF Undo
  <2> QED BY <1>1, <1>3, <2>1, Going DEF Skips
<1>5. CASE StillOurs(a, c)
  <2>1. /\ job' = [job EXCEPT ![c] = j] /\ call' = [Noted({c}) EXCEPT ![a] = q]
        /\ handedBack' = IF j.status = "assigned" THEN handedBack \cup {c} ELSE handedBack \ {c}
    BY <1>5 DEF Undo
  <2>2. w \in Job /\ JobOK(w) /\ w.status \in NotHeaded
    BY <1>0, <1>1, <1>2 DEF CallOK, ReadStatus
  <2>3. job[c].slot \in Times /\ j = [w EXCEPT !.slot = job[c].slot] /\ job[c].status = "assigned"
    BY <1>0, <1>2, <1>5 DEF PutBack, DispatchTypeOK, Job, StillOurs
  <2> HIDE DEF w, j
  <2>4. /\ j \in Job /\ j.status = w.status /\ j.captain = w.captain /\ j.self = w.self
    BY <2>2, <2>3 DEF Job
  <2>5. JobOK(j)
    BY <2>2, <2>4 DEF JobOK
  <2>6. job'[c] = j
    BY <1>0, <1>2, <2>1, <2>4 DEF DispatchTypeOK
  <2>7. /\ j.status \in {"pending", "rescheduled", "assigned"}
        /\ j.status = "assigned" => c \in handedBack'
    <3>1. j.status \in {"pending", "rescheduled", "assigned"}
      BY <2>2, <2>4 DEF NotHeaded, Waiting
    <3>2. j.status = "assigned" => handedBack' = handedBack \cup {c}
      BY <2>1
    <3> QED BY <3>1, <3>2
  <2>8. Fate(c)
    BY <2>3, <2>5, <2>6, <2>7, TransitionMap DEF Fate, Tame, Onward, Left, Live
  <2>9. handedBack' \subseteq Cars /\ handedBack \ {c} \subseteq handedBack'
    BY <1>0, <1>2, <2>1 DEF DispatchTypeOK
  <2> HIDE DEF c, q
  <2> QED BY <1>1, <1>2, <1>3, <2>1, <2>4, <2>8, <2>9, WritingOne
<1> QED BY <1>4, <1>5

(* The guarded writes: what is written, or that the write is left out. *)
LEMMA LosesOK ==
    ASSUME DispatchAssumption, DispatchBase, NEW a \in Calls, NEW c \in Cars,
           Lost(a, c) \/ Skips(a, c), UNCHANGED <<fit, moves, crossed>>
    PROVE  Effect
<1>1. UNCHANGED <<job, fit, moves, handedBack>> /\ crossed' \subseteq Visits
  BY DEF Lost, Skips, DispatchBase, DispatchTypeOK
<1>2. Goes(a, Quiet("over")) \/ Goes(a, Without(a, c))
  BY DEF Lost, Skips
<1> QED BY <1>1, <1>2, QuietOK, RestOK, Going

LEMMA ClaimCarOK ==
    ASSUME DispatchAssumption, DispatchBase, NEW a \in Calls, ClaimCar(a) PROVE Effect
<1> DEFINE c == First(call[a].todo)
           w == call[a].seen[c]
           j == [job[c] EXCEPT !.status = "assigned", !.captain = Manager, !.start = w.slot, !.self = TRUE]
<1>0. DispatchTypeOK /\ JobsOK /\ call[a] \in Call /\ CallOK(call[a])
  BY DEF DispatchBase, DispatchTypeOK, CallsOK
<1>1. At(a, "self") /\ UNCHANGED <<fit, moves, crossed>> /\ crossed' \subseteq Visits
  BY <1>0 DEF ClaimCar, DispatchTypeOK
<1>2. c \in call[a].todo /\ c \in Cars
  BY <1>1, TurnIn DEF At
<1>3. CASE ~AsWas(a, c)
  BY <1>1, <1>2, <1>3, LosesOK DEF ClaimCar
<1>4. CASE AsWas(a, c)
  <2>1. Writes(a, c, j, Without(a, c))
    BY <1>4 DEF ClaimCar
  <2>2. w.status \in {"pending", "rescheduled", "assigned"}
    BY <1>0, <1>1, <1>2 DEF At, CallOK, ReadStatus, NotHeaded, Waiting
  <2>3. /\ job[c] \in Job /\ job[c].status = w.status /\ job[c].slot = w.slot /\ w.slot \in Times
    BY <1>0, <1>2, <1>4 DEF AsWas, DispatchTypeOK, Job
  <2> DEFINE o == job[c]
             t == w.slot
  <2>4. o \in Job /\ t \in Times /\ o.slot = t
        /\ j = [o EXCEPT !.status = "assigned", !.captain = Manager, !.start = t, !.self = TRUE]
    BY <2>3
  <2>5. job' = [job EXCEPT ![c] = j]
    BY <2>1 DEF Writes
  <2> HIDE DEF o, t, w, j
  <2>6. j \in Job /\ j.status = "assigned" /\ j.captain = Manager /\ j.start = j.slot /\ j.self = TRUE
    BY <2>4 DEF Job, Statuses, Staff
  <2>7. job'[c] = j
    BY <1>0, <1>2, <2>5 DEF DispatchTypeOK
  <2>8. Fate(c)
    BY <2>2, <2>3, <2>6, <2>7, TransitionMap DEF Fate, Tame, Onward, Left, JobOK, Live, Waiting
  <2> HIDE DEF c
  <2> QED BY <1>1, <1>2, <2>1, <2>6, <2>8, RestOK, Writing
<1> QED BY <1>3, <1>4

LEMMA ReleaseCarOK ==
    ASSUME DispatchAssumption, DispatchBase, NEW a \in Calls, ReleaseCar(a) PROVE Effect
<1> DEFINE c == Next1(a)
           o == job[c]
           j == [o EXCEPT !.status = "pending", !.captain = Nobody]
<1>0. DispatchTypeOK /\ JobsOK /\ call[a] \in Call /\ CallOK(call[a])
  BY DEF DispatchBase, DispatchTypeOK, CallsOK
<1>1. At(a, "release") /\ UNCHANGED <<fit, moves, crossed>> /\ crossed' \subseteq Visits
  BY <1>0 DEF ReleaseCar, DispatchTypeOK
<1>2. c \in call[a].todo /\ c \in Cars
  BY <1>1, TurnIn DEF At
<1>3. CASE ~(o.status = call[a].seen[c].status /\ o.captain = call[a].by)
  BY <1>1, <1>2, <1>3, LosesOK DEF ReleaseCar
<1>4. CASE o.status = call[a].seen[c].status /\ o.captain = call[a].by
  <2>1. Writes(a, c, j, Without(a, c))
    BY <1>4 DEF ReleaseCar
  <2>2. o.status \in {"assigned", "on_the_way"} /\ o.captain \in Captains
    BY <1>0, <1>1, <1>2, <1>4 DEF At, CallOK, ReadStatus
  <2>3. call[a].kind = "release" /\ call[a].by = job[c].captain
    BY <1>1, <1>4 DEF At
  <2>4. o \in Job /\ JobOK(o) /\ o.captain # Manager
    BY <1>0, <1>2, <2>2 DEF DispatchTypeOK, JobsOK, DispatchAssumption
  <2>5. job' = [job EXCEPT ![c] = j] /\ j = [o EXCEPT !.status = "pending", !.captain = Nobody]
    BY <2>1 DEF Writes
  <2>6. o = job[c]
    OBVIOUS
  <2> HIDE DEF o, j
  <2>7. j \in Job /\ j.status = "pending" /\ j.captain = Nobody /\ j.self = o.self
    BY <2>4, <2>5 DEF Job, Statuses
  <2>8. ~j.self
    BY <2>2, <2>4, <2>7 DEF JobOK, Live
  <2>9. job'[c] = j
    BY <1>0, <1>2, <2>5 DEF DispatchTypeOK
  <2>10. Tame(c) /\ JobOK(job'[c])
    BY <2>7, <2>8, <2>9 DEF Tame, JobOK, Live, Waiting
  <2>11. Onward(c) /\ Left(c)
    BY <2>2, <2>3, <2>6, <2>7, <2>9, TransitionMap DEF Onward, Left
  <2>12. Fate(c)
    BY <2>10, <2>11 DEF Fate
  <2> HIDE DEF c
  <2> QED BY <1>1, <1>2, <2>1, <2>7, <2>12, RestOK, Writing
<1> QED BY <1>3, <1>4
(* One status for another, of a car nobody else is given. *)
LEMMA StatusFields ==
    ASSUME NEW o \in Job, NEW s \in Statuses, NEW j, j = [o EXCEPT !.status = s]
    PROVE  /\ j \in Job /\ j.status = s /\ j.captain = o.captain /\ j.slot = o.slot
           /\ j.start = o.start /\ j.self = o.self
BY DEF Job

(* A captain's own job that he heads for or begins. *)
LEMMA AtWorkFate ==
    ASSUME DispatchBase, NEW c \in Cars,
           \/ job[c].status = "assigned" /\ job'[c].status = "on_the_way"
           \/ job[c].status = "on_the_way" /\ job'[c].status = "started",
           job'[c].captain = job[c].captain, job'[c].slot = job[c].slot,
           job'[c].start = job[c].start, job'[c].self = job[c].self,
           c \in handedBack => c \in handedBack'
    PROVE  Fate(c)
<1>1. JobOK(job'[c])
  BY DEF DispatchBase, JobsOK, JobOK, Live, Waiting
<1>2. Tame(c)
  BY DEF Tame, Kept, Live
<1> QED BY <1>1, <1>2, TransitionMap DEF Fate, Onward, Left

(* A job that is over. *)
LEMMA OverFate ==
    ASSUME DispatchBase, NEW c \in Cars, job[c].status \in NotHeaded \cup Live, job'[c].status \in Over,
           job[c].status \in {"on_the_way", "started"} => job'[c].captain = job[c].captain,
           job[c].status = "on_the_way" => job'[c].status = "cancelled"
    PROVE  Fate(c)
<1>1. JobOK(job'[c]) /\ Tame(c)
  BY DEF JobOK, Tame, Over, Live, Waiting
<1>2. Onward(c)
  BY TransitionMap DEF Onward, NotHeaded, Waiting, Live, Over
<1>3. Left(c)
  BY DEF Left, Over
<1> QED BY <1>1, <1>2, <1>3 DEF Fate

LEMMA HeadCarOK ==
    ASSUME DispatchAssumption, DispatchBase, NEW a \in Calls, HeadCar(a) PROVE Effect
<1> DEFINE c == Next1(a)
           j == [job[c] EXCEPT !.status = "on_the_way"]
           q == IF c = call[a].lead THEN [Without(a, c) EXCEPT !.step = "siblings"] ELSE Without(a, c)
<1>0. DispatchTypeOK /\ JobsOK /\ call[a] \in Call /\ CallOK(call[a])
  BY DEF DispatchBase, DispatchTypeOK, CallsOK
<1>1. At(a, "head") /\ UNCHANGED <<fit, moves, crossed>> /\ crossed' \subseteq Visits
  BY <1>0 DEF HeadCar, DispatchTypeOK
<1>2. c \in call[a].todo /\ c \in Cars
  BY <1>1, TurnIn DEF At
<1>3. CASE ~MayHead(c, call[a].by)
  BY <1>1, <1>2, <1>3, LosesOK DEF HeadCar
<1>4. CASE MayHead(c, call[a].by)
  <2>1. Writes(a, c, j, q)
    BY <1>4 DEF HeadCar
  <2>2. job[c] \in Job /\ job[c].status = "assigned"
    BY <1>0, <1>2, <1>4 DEF DispatchTypeOK, MayHead
  <2>3. /\ j \in Job /\ j.status = "on_the_way" /\ j.captain = job[c].captain /\ j.slot = job[c].slot
        /\ j.start = job[c].start /\ j.self = job[c].self
    <3>1. "on_the_way" \in Statuses
      BY DEF Statuses
    <3> QED BY <2>2, <3>1, StatusFields
  <2>4. job' = [job EXCEPT ![c] = j] /\ handedBack' = handedBack
    BY <2>1, <2>3 DEF Writes
  <2>5. q \in Call /\ CallOK(q)
    <3> DEFINE w == Without(a, c)
               s == [w EXCEPT !.step = "siblings"]
    <3>1. w \in Call /\ CallOK(w) /\ w.kind = "head"
      <4>1. call[a].kind = "head" /\ w = Without(a, c)
        BY <1>1 DEF At
      <4> HIDE DEF w, c
      <4> QED BY <1>2, <4>1, RestOK
    <3>2. s = [w EXCEPT !.step = "siblings"]
      OBVIOUS
    <3>3. q = s \/ q = w
      OBVIOUS
    <3> HIDE DEF w, s, q
    <3>4. s \in Call /\ s.kind = w.kind /\ s.by = w.by /\ s.step = "siblings"
      BY <3>1, <3>2 DEF Call
    <3>5. CallOK(s)
      BY <3>1, <3>4 DEF CallOK
    <3> QED BY <3>1, <3>3, <3>4, <3>5
  <2>6. job'[c] = j
    BY <1>0, <1>2, <2>4 DEF DispatchTypeOK
  <2> HIDE DEF j, q, c
  <2>7. Fate(c)
    BY <1>2, <2>2, <2>3, <2>4, <2>6, AtWorkFate
  <2> QED BY <1>1, <1>2, <2>1, <2>3, <2>5, <2>7, Writing
<1> QED BY <1>3, <1>4

LEMMA CloseCarOK ==
    ASSUME DispatchAssumption, DispatchBase, NEW a \in Calls, CloseCar(a) PROVE Effect
<1> DEFINE c == Next1(a)
           o == job[c]
           j == [o EXCEPT !.status = "completed", !.captain = Nobody, !.start = NoTime]
<1>0. DispatchTypeOK /\ JobsOK /\ call[a] \in Call /\ CallOK(call[a])
  BY DEF DispatchBase, DispatchTypeOK, CallsOK
<1>1. At(a, "done") /\ UNCHANGED <<fit, moves, crossed>> /\ crossed' \subseteq Visits
  BY <1>0 DEF CloseCar, DispatchTypeOK
<1>2. c \in call[a].todo /\ c \in Cars
  BY <1>1, TurnIn DEF At
<1>3. CASE ~MayClose(c)
  BY <1>1, <1>2, <1>3, LosesOK DEF CloseCar
<1>4. CASE MayClose(c)
  <2>1. Writes(a, c, j, Without(a, c))
    BY <1>4 DEF CloseCar
  <2>2. o \in Job /\ o.status \in {"pending", "rescheduled", "assigned"}
    BY <1>0, <1>2, <1>4 DEF DispatchTypeOK, MayClose, NotHeaded, Waiting
  <2>3. job' = [job EXCEPT ![c] = j] /\ j = [o EXCEPT !.status = "completed", !.captain = Nobody, !.start = NoTime]
    BY <2>1 DEF Writes
  <2>4. o = job[c]
    OBVIOUS
  <2> HIDE DEF o, j
  <2>5. j \in Job /\ j.status = "completed"
    BY <2>2, <2>3 DEF Job, Statuses
  <2>6. job'[c] = j
    BY <1>0, <1>2, <2>3 DEF DispatchTypeOK
  <2> HIDE DEF c
  <2>7. Fate(c)
    BY <1>2, <2>2, <2>4, <2>5, <2>6, OverFate DEF NotHeaded, Waiting, Over
  <2> QED BY <1>1, <1>2, <2>1, <2>5, <2>7, RestOK, Writing
<1> QED BY <1>3, <1>4

(* What takes one step. *)
LEMMA Moving ==
    ASSUME DispatchBase, NEW S \in SUBSET Cars, NEW j \in [Cars -> Job], Moves(S, j), moves' \in 0..MaxMoves,
           \A c \in S : Fate(c)
    PROVE  Effect
<1>1. /\ job' = [c \in Cars |-> IF c \in S THEN j[c] ELSE job[c]] /\ call' = Noted(S)
      /\ handedBack' = {c \in handedBack : c \in S => j[c].status \in Live} /\ UNCHANGED <<fit, crossed>>
  BY DEF Moves
<1>2. call' \in [Calls -> Call] /\ CallsOK'
  <2>1. Noted(S) \in [Calls -> Call] /\ \A e \in Calls : CallOK(Noted(S)[e])
    BY NotedFields, NotedOK DEF DispatchBase
  <2> QED BY <1>1, <2>1 DEF CallsOK
<1>3. DispatchTypeOK'
  BY <1>1, <1>2 DEF DispatchBase, DispatchTypeOK
<1>4. ASSUME NEW d \in Cars PROVE Fate(d)
  <2>1. CASE d \in S
    BY <2>1
  <2>2. CASE d \notin S
    BY <1>1, <2>2, UntouchedFate
  <2> QED BY <2>1, <2>2
<1> QED BY <1>1, <1>2, <1>3, <1>4, FitKept DEF Effect, Fates
LEMMA ServiceOK ==
    ASSUME DispatchBase, NEW c \in Cars, StartService(c) \/ CompleteService(c) PROVE Effect
<1>0. DispatchTypeOK /\ job[c] \in Job
  BY DEF DispatchBase, DispatchTypeOK
<1>1. PICK s \in {"started", "completed"} :
         /\ job[c].status = IF s = "started" THEN "on_the_way" ELSE "started"
         /\ Moves({c}, [job EXCEPT ![c].status = s]) /\ UNCHANGED moves
  BY DEF StartService, CompleteService
<1> DEFINE o == job[c]
           j == [o EXCEPT !.status = s]
           g == [job EXCEPT ![c].status = s]
<1>2. s \in Statuses /\ j = [o EXCEPT !.status = s] /\ o = job[c] /\ o \in Job
  BY <1>0 DEF Statuses
<1>3. g = [job EXCEPT ![c] = j]
  BY <1>0 DEF DispatchTypeOK
<1>4. Moves({c}, g) /\ UNCHANGED moves
  BY <1>1
<1> HIDE DEF o, j, g
<1>5. /\ j \in Job /\ j.status = s /\ j.captain = o.captain /\ j.slot = o.slot
      /\ j.start = o.start /\ j.self = o.self
  BY <1>2, StatusFields
<1>6. g \in [Cars -> Job] /\ g[c] = j
  BY <1>0, <1>3, <1>5 DEF DispatchTypeOK
<1>7. job'[c] = j /\ (c \in handedBack /\ s = "started" => c \in handedBack')
  BY <1>4, <1>5, <1>6 DEF Moves, Live
<1>8. Fate(c)
  <2>1. CASE s = "started"
    BY <1>1, <1>2, <1>5, <1>7, <2>1, AtWorkFate
  <2>2. CASE s = "completed"
    BY <1>1, <1>2, <1>5, <1>7, <2>2, OverFate DEF NotHeaded, Live, Over
  <2> QED BY <2>1, <2>2
<1>9. moves' \in 0..MaxMoves
  BY <1>0, <1>1 DEF DispatchTypeOK
<1> QED BY <1>4, <1>6, <1>8, <1>9, Moving

LEMMA CancelOK ==
    ASSUME DispatchBase, NEW S \in SUBSET Cars, Cancel(S) PROVE Effect
<1> DEFINE g == [c \in Cars |-> [job[c] EXCEPT !.status = "cancelled"]]
<1>0. DispatchTypeOK
  BY DEF DispatchBase
<1>1. /\ \A c \in S : job[c].status \notin Over
      /\ Moves(S, g) /\ moves' = moves
  BY DEF Cancel
<1>2. "cancelled" \in Statuses
  BY DEF Statuses
<1>3. ASSUME NEW c \in Cars
      PROVE  g[c] \in Job /\ g[c].status = "cancelled" /\ g[c].captain = job[c].captain
  BY <1>0, <1>2, StatusFields DEF DispatchTypeOK
<1>4. g \in [Cars -> Job]
  BY <1>3
<1> HIDE DEF g
<1>5. ASSUME NEW c \in S PROVE Fate(c)
  <2>1. c \in Cars /\ job'[c] = g[c]
    BY <1>1 DEF Moves
  <2>2. job[c].status \in NotHeaded \cup Live
    BY <1>0, <1>1, <2>1 DEF DispatchTypeOK, Job, Statuses, NotHeaded, Waiting, Live, Over
  <2>3. job'[c].status \in Over /\ job'[c].status = "cancelled" /\ job'[c].captain = job[c].captain
    BY <1>3, <2>1 DEF Over
  <2> QED BY <2>1, <2>2, <2>3, OverFate
<1>6. moves' \in 0..MaxMoves
  BY <1>0, <1>1 DEF DispatchTypeOK
<1> QED BY <1>1, <1>4, <1>5, <1>6, Moving

LEMMA RescheduleOK ==
    ASSUME DispatchAssumption, DispatchBase, NEW c \in Cars, NEW t \in Times, Reschedule(c, t) PROVE Effect
<1> DEFINE S == {d \in Visit(c) : job[d].status \notin Over}
           g == [d \in Cars |-> LetGo(job[d], t)]
<1>0. DispatchTypeOK /\ S \in SUBSET Cars
  BY DEF DispatchBase, Visit
<1>1. /\ \A d \in S : job[d].status \in NotHeaded
      /\ Moves(S, g) /\ moves < MaxMoves /\ moves' = moves + 1
  BY DEF Reschedule
<1>2. ASSUME NEW d \in Cars
      PROVE  g[d] \in Job /\ g[d].status = "rescheduled" /\ g[d].self = FALSE
  <2> DEFINE o == job[d]
             j == [o EXCEPT !.status = "rescheduled", !.captain = Nobody,
                            !.slot = t, !.start = NoTime, !.self = FALSE]
  <2>1. o \in Job /\ g[d] = j
    BY <1>0 DEF DispatchTypeOK, LetGo
  <2> HIDE DEF o
  <2>2. j \in Job /\ j.status = "rescheduled" /\ j.self = FALSE
    BY <2>1 DEF Job, Statuses
  <2> QED BY <2>1, <2>2
<1>3. g \in [Cars -> Job]
  BY <1>2
<1> HIDE DEF S, g
<1>4. ASSUME NEW d \in S PROVE Fate(d)
  <2>1. d \in Cars /\ job'[d] = g[d]
    BY <1>0, <1>1 DEF Moves
  <2>2. job'[d].status = "rescheduled" /\ ~job'[d].self
    BY <1>2, <2>1
  <2>3. job[d].status \in {"pending", "rescheduled", "assigned"}
    BY <1>1 DEF NotHeaded, Waiting
  <2> QED BY <2>2, <2>3, TransitionMap DEF Fate, Tame, JobOK, Onward, Left, Live
<1>5. moves' \in 0..MaxMoves
  BY <1>0, <1>1 DEF DispatchTypeOK, DispatchAssumption
<1> QED BY <1>0, <1>1, <1>3, <1>4, <1>5, Moving

LEMMA RosterOK ==
    ASSUME DispatchBase, NEW k \in Captains, Suspend(k) \/ Reinstate(k) PROVE Effect
<1>1. UNCHANGED <<job, call, moves, handedBack, crossed>>
  BY DEF Suspend, Reinstate
<1>2. fit' \in [Captains -> BOOLEAN]
  BY DEF Suspend, Reinstate, DispatchBase, DispatchTypeOK
<1>3. DispatchTypeOK' /\ CallsOK'
  BY <1>1, <1>2 DEF DispatchBase, DispatchTypeOK, CallsOK
<1>4. Standing
  <2> SUFFICES ASSUME NEW x \in Captains, fit[x], ~fit'[x], NEW c \in Cars
               PROVE  job'[c] = job[c] /\ (job[c].captain = x => job[c].status \notin Live)
    BY DEF Standing
  <2>1. CASE Suspend(k)
    <3>1. x = k
      BY <2>1 DEF Suspend, DispatchBase, DispatchTypeOK
    <3> QED BY <1>1, <2>1, <3>1 DEF Suspend, MayLeave
  <2>2. CASE Reinstate(k)
    BY <2>2 DEF Reinstate, DispatchBase, DispatchTypeOK
  <2> QED BY <2>1, <2>2
<1> QED BY <1>1, <1>3, <1>4, Untouched DEF Effect

-----------------------------------------------------------------------------
(* Every step, and what follows. *)

LEMMA StepEffect == ASSUME DispatchAssumption, DispatchBase, [DispatchNext]_vars PROVE Effect
<1>1. CASE UNCHANGED vars
  <2>1. DispatchTypeOK' /\ CallsOK' /\ Standing
    BY <1>1 DEF vars, DispatchBase, DispatchTypeOK, CallsOK, Standing
  <2> QED BY <1>1, <2>1, Untouched DEF vars, Effect
<1>2. ASSUME NEW a \in Calls, GroupStep(a) PROVE Effect
  BY <1>2, StartGroupOK, PrecheckOK, GiveCarOK, GivenThenFailsOK, RefusedOK, UndoOK DEF GroupStep
<1>3. ASSUME NEW a \in Calls, ManagerStep(a) PROVE Effect
  BY <1>3, StartSelfOK, ClaimCarOK, StartDoneOK, CloseCarOK DEF ManagerStep
<1>4. ASSUME NEW a \in Calls, CaptainStep(a) PROVE Effect
  BY <1>4, StartReleaseOK, ReleaseCarOK, StartHeadingOK, HeadCarOK, ReadSiblingsOK DEF CaptainStep
<1>5. ASSUME NEW a \in Calls, Ends(a) \/ Dies(a) PROVE Effect
  BY <1>5, EndsOK
<1>6. ASSUME NEW c \in Cars, StartService(c) \/ CompleteService(c) PROVE Effect
  BY <1>6, ServiceOK
<1>7. ASSUME NEW c \in Cars, NEW S \in {{c}, {d \in Visit(c) : job[d].status \notin Over}}, Cancel(S)
      PROVE  Effect
  <2>1. S \in SUBSET Cars
    BY DEF Visit
  <2> QED BY <1>7, <2>1, CancelOK
<1>8. ASSUME NEW c \in Cars, NEW t \in Times, Reschedule(c, t) PROVE Effect
  BY <1>8, RescheduleOK
<1>9. ASSUME NEW k \in Captains, Suspend(k) \/ Reinstate(k) PROVE Effect
  BY <1>9, RosterOK
<1> QED BY <1>1, <1>2, <1>3, <1>4, <1>5, <1>6, <1>7, <1>8, <1>9 DEF DispatchNext

LEMMA InitFields ==
    ASSUME DispatchAssumption, DispatchInit
    PROVE  /\ DispatchTypeOK
           /\ \A c \in Cars : \/ job[c].status = "pending" /\ ~job[c].self
                              \/ /\ job[c].status = "assigned" /\ ~job[c].self /\ job[c].start = job[c].slot
                                 /\ job[c].captain \in Captains
           /\ \A c, d \in Cars :
                 /\ VisitOf[c] # VisitOf[d] /\ job[c].status = "assigned" /\ job[d].status = "assigned"
                 /\ job[c].captain = job[d].captain
                 => job[c].start # job[d].start
           /\ \A c, d \in Cars :
                 /\ VisitOf[c] = VisitOf[d] /\ job[c].status = "assigned" /\ job[d].status = "assigned"
                 => job[c].captain = job[d].captain
<1>1. PICK t \in [Visits -> Times] : \E k \in [Visits -> Captains \cup {Nobody}] :
          /\ \A v, w \in Visits : v # w /\ k[v] = k[w] /\ t[v] = t[w] => k[v] = Nobody
          /\ job = [c \in Cars |-> LET v == VisitOf[c] IN
                                   IF k[v] = Nobody THEN NewJob(t[v]) ELSE HisJob(t[v], k[v])]
  BY DEF DispatchInit
<1>2. PICK k \in [Visits -> Captains \cup {Nobody}] :
          /\ \A v, w \in Visits : v # w /\ k[v] = k[w] /\ t[v] = t[w] => k[v] = Nobody
          /\ job = [c \in Cars |-> LET v == VisitOf[c] IN
                                   IF k[v] = Nobody THEN NewJob(t[v]) ELSE HisJob(t[v], k[v])]
  BY <1>1
<1>3. ASSUME NEW c \in Cars
      PROVE  /\ job[c] \in Job /\ job[c].slot = t[VisitOf[c]] /\ ~job[c].self
             /\ \/ job[c].status = "pending" /\ k[VisitOf[c]] = Nobody
                \/ /\ job[c].status = "assigned" /\ job[c].start = job[c].slot
                   /\ job[c].captain = k[VisitOf[c]] /\ k[VisitOf[c]] # Nobody
  <2>1. VisitOf[c] \in Visits /\ t[VisitOf[c]] \in Times /\ k[VisitOf[c]] \in Captains \cup {Nobody}
    BY DEF DispatchAssumption
  <2>2. job[c] = IF k[VisitOf[c]] = Nobody THEN NewJob(t[VisitOf[c]]) ELSE HisJob(t[VisitOf[c]], k[VisitOf[c]])
    BY <1>2
  <2> DEFINE x == t[VisitOf[c]]
             y == k[VisitOf[c]]
  <2>3. x \in Times /\ y \in Captains \cup {Nobody} /\ job[c] = IF y = Nobody THEN NewJob(x) ELSE HisJob(x, y)
    BY <2>1, <2>2
  <2> HIDE DEF x, y
  <2>4. /\ job[c] \in Job /\ job[c].slot = x /\ ~job[c].self
        /\ \/ job[c].status = "pending" /\ y = Nobody
           \/ job[c].status = "assigned" /\ job[c].start = job[c].slot /\ job[c].captain = y /\ y # Nobody
    <3> DEFINE n == NewJob(x)
               h == HisJob(x, y)
    <3>1. n \in Job /\ n.slot = x /\ n.self = FALSE /\ n.status = "pending"
      BY <2>3 DEF NewJob, Job, Statuses, Staff
    <3>2. h = [n EXCEPT !.status = "assigned", !.captain = y, !.start = x]
      BY DEF HisJob
    <3>3. job[c] = IF y = Nobody THEN n ELSE h
      BY <2>3
    <3> HIDE DEF n, h
    <3>4. y # Nobody => /\ h \in Job /\ h.slot = x /\ h.self = FALSE /\ h.status = "assigned"
                        /\ h.captain = y /\ h.start = x
      BY <2>3, <3>1, <3>2 DEF Job, Statuses, Staff
    <3>5. CASE y = Nobody
      BY <3>1, <3>3, <3>5
    <3>6. CASE y # Nobody
      BY <3>3, <3>4, <3>6
    <3> QED BY <3>5, <3>6
  <2> QED BY <2>4 DEF x, y
<1>4. DispatchTypeOK
  <2>1. job \in [Cars -> Job]
    BY <1>2, <1>3
  <2>2. call \in [Calls -> Call]
    BY QuietOK DEF DispatchInit
  <2>3. moves \in 0..MaxMoves /\ fit \in [Captains -> BOOLEAN] /\ handedBack \subseteq Cars /\ crossed \subseteq Visits
    BY DEF DispatchInit, DispatchAssumption
  <2> QED BY <2>1, <2>2, <2>3 DEF DispatchTypeOK
<1>5. \A c \in Cars : VisitOf[c] \in Visits
  BY DEF DispatchAssumption
<1>6. ASSUME NEW c \in Cars, NEW d \in Cars,
             VisitOf[c] # VisitOf[d], job[c].status = "assigned", job[d].status = "assigned",
             job[c].captain = job[d].captain
      PROVE  job[c].start # job[d].start
  BY <1>2, <1>3, <1>5, <1>6
<1>7. ASSUME NEW c \in Cars, NEW d \in Cars,
             VisitOf[c] = VisitOf[d], job[c].status = "assigned", job[d].status = "assigned"
      PROVE  job[c].captain = job[d].captain
  BY <1>3, <1>7
<1> QED BY <1>3, <1>4, <1>5, <1>6, <1>7
LEMMA BaseInit == ASSUME DispatchAssumption, DispatchInit PROVE DispatchBase
<1>1. JobsOK
  <2> SUFFICES ASSUME NEW c \in Cars PROVE JobOK(job[c])
    BY DEF JobsOK
  <2> QED BY InitFields DEF DispatchAssumption, JobOK, Waiting, Live
<1>2. CallsOK
  BY QuietOK DEF DispatchInit, CallsOK
<1> QED BY <1>1, <1>2, InitFields DEF DispatchBase

LEMMA BaseNext == ASSUME DispatchAssumption, DispatchBase, [DispatchNext]_vars PROVE DispatchBase'
BY StepEffect DEF DispatchBase, Effect, Fates, Fate, JobsOK

LEMMA BaseHolds == DispatchSpec => []DispatchBase
<1>1. DispatchInit => DispatchBase
  BY BaseInit, DispatchAssumption
<1>2. DispatchBase /\ [DispatchNext]_vars => DispatchBase'
  BY BaseNext, DispatchAssumption
<1> QED BY <1>1, <1>2, PTL DEF DispatchSpec

(* The fields of a booking, a captain's standing and a call's record keep    *)
(* their types (DispatchTypeOK).                                             *)
THEOREM DispatchTyped == DispatchSpec => []DispatchTypeOK
<1>1. DispatchBase => DispatchTypeOK
  BY DEF DispatchBase
<1> QED BY <1>1, BaseHolds, PTL

(* The mark the lateness sweep goes by says exactly who holds the job.       *)
THEOREM SelfIsManager == DispatchSpec => []SelfMeansManager
<1>1. DispatchBase => SelfMeansManager
  BY DEF DispatchBase, JobsOK, JobOK, SelfMeansManager
<1> QED BY <1>1, BaseHolds, PTL

(* What holds of the live jobs, but for those that came back by an undo.     *)
HoldingInv == DispatchBase /\ NeverDoubleBooked /\ HoldersFit /\ StartFollowsSlot

LEMMA HoldingInit == ASSUME DispatchAssumption, DispatchInit PROVE HoldingInv
<1>1. \A c \in Cars : job[c].status \in Live => job[c].status = "assigned"
  BY InitFields DEF Live
<1>2. NeverDoubleBooked
  BY <1>1, InitFields DEF NeverDoubleBooked
<1>3. HoldersFit
  BY InitFields DEF HoldersFit, DispatchInit
<1>4. StartFollowsSlot
  BY InitFields DEF StartFollowsSlot, Live
<1> QED BY <1>2, <1>3, <1>4, BaseInit DEF HoldingInv

LEMMA HoldingNext == ASSUME DispatchAssumption, HoldingInv, [DispatchNext]_vars PROVE HoldingInv'
<1>0. Effect /\ DispatchBase /\ DispatchBase'
  BY StepEffect, BaseNext DEF HoldingInv
<1>1. \A c \in Cars : Tame(c)
  BY <1>0 DEF Effect, Fates, Fate
<1>2. ASSUME NEW c \in Cars, c \notin handedBack', job'[c].status \in Live
      PROVE  \/ job'[c].captain = Manager /\ job'[c].start = job'[c].slot
             \/ Kept(c)
             \/ Just(c)
  BY <1>1, <1>2 DEF Tame
<1>3. Manager \notin Captains
  BY DEF DispatchAssumption
<1>4. NeverDoubleBooked'
  <2> SUFFICES ASSUME NEW c \in Cars, c \notin handedBack', NEW d \in Cars, d \notin handedBack',
                      VisitOf[c] # VisitOf[d], job'[c].status \in Live, job'[d].status \in Live,
                      job'[c].captain = job'[d].captain, job'[c].captain \in Captains
               PROVE  job'[c].start # job'[d].start
    BY DEF NeverDoubleBooked
  <2>1. c \notin Visit(d) /\ d \notin Visit(c)
    BY DEF Visit
  <2>2. CASE Just(c)
    BY <2>1, <2>2 DEF Just
  <2>3. CASE Just(d)
    BY <2>1, <2>3 DEF Just
  <2>4. CASE Kept(c) /\ Kept(d)
    BY <2>4 DEF Kept, HoldingInv, NeverDoubleBooked
  <2> QED BY <1>2, <1>3, <2>2, <2>3, <2>4
<1>5. HoldersFit'
  <2> SUFFICES ASSUME NEW c \in Cars, c \notin handedBack', job'[c].status \in Live, job'[c].captain \in Captains
               PROVE  fit'[job'[c].captain]
    BY DEF HoldersFit
  <2>1. CASE Just(c)
    BY <2>1 DEF Just
  <2>2. CASE Kept(c)
    <3>1. fit[job[c].captain] /\ job[c].captain = job'[c].captain /\ job[c].status \in Live
      BY <2>2 DEF Kept, HoldingInv, HoldersFit
    <3> QED BY <1>0, <3>1 DEF Effect, Standing
  <2> QED BY <1>2, <1>3, <2>1, <2>2
<1>6. StartFollowsSlot'
  <2> SUFFICES ASSUME NEW c \in Cars, c \notin handedBack', job'[c].status \in Live
               PROVE  job'[c].start = job'[c].slot
    BY DEF StartFollowsSlot
  <2>1. CASE Kept(c)
    BY <2>1 DEF Kept, HoldingInv, StartFollowsSlot
  <2>2. CASE Just(c)
    BY <2>2 DEF Just
  <2> QED BY <1>2, <2>1, <2>2
<1> QED BY <1>0, <1>4, <1>5, <1>6 DEF HoldingInv

LEMMA HoldingHolds == DispatchSpec => []HoldingInv
<1>1. DispatchInit => HoldingInv
  BY HoldingInit, DispatchAssumption
<1>2. HoldingInv /\ [DispatchNext]_vars => HoldingInv'
  BY HoldingNext, DispatchAssumption
<1> QED BY <1>1, <1>2, PTL DEF DispatchSpec

(* No captain is in two places at one time, for any number of managers,      *)
(* visits and captains.                                                      *)
THEOREM NobodyDoubleBooked == DispatchSpec => []NeverDoubleBooked
<1>1. HoldingInv => NeverDoubleBooked
  BY DEF HoldingInv
<1> QED BY <1>1, HoldingHolds, PTL

(* Whoever holds a job is in good standing. *)
THEOREM HoldersAreFit == DispatchSpec => []HoldersFit
<1>1. HoldingInv => HoldersFit
  BY DEF HoldingInv
<1> QED BY <1>1, HoldingHolds, PTL

(* No stale claim anchors a job at a time it was moved away from. *)
THEOREM StartsFollowSlots == DispatchSpec => []StartFollowsSlot
<1>1. HoldingInv => StartFollowsSlot
  BY DEF HoldingInv
<1> QED BY <1>1, HoldingHolds, PTL

(* A captain on the way or at work is never robbed of the job. *)
THEOREM NobodyYanked == DispatchSpec => NotYanked
<1>1. DispatchBase /\ [DispatchNext]_vars =>
        [\A c \in Cars :
          /\ job[c].status \in {"on_the_way", "started"} /\ job'[c] # job[c]
          => \/ job'[c].captain = job[c].captain /\ job'[c].status \in {"started", "completed", "cancelled"}
             \/ /\ job'[c].status = "pending" /\ job'[c].captain = Nobody
                /\ \E a \in Calls : call[a].kind = "release" /\ call[a].by = job[c].captain]_vars
  <2> SUFFICES ASSUME DispatchBase, [DispatchNext]_vars PROVE \A c \in Cars : Left(c)
    BY DEF Left
  <2> QED BY StepEffect, DispatchAssumption DEF Effect, Fates, Fate
<1> QED BY <1>1, BaseHolds, PTL DEF DispatchSpec, NotYanked

(* The service implements the map of transitions: each step moves every      *)
(* booking along _ALLOWED_TRANSITIONS or leaves it where it is.              *)
THEOREM FollowsTheMap == DispatchSpec => FollowsMap
<1>1. DispatchInit => Map!Init
  BY InitFields, DispatchAssumption DEF Map!Init
<1>2. DispatchBase /\ [DispatchNext]_vars => [Map!Next]_([c \in Cars |-> job[c].status])
  <2> SUFFICES ASSUME DispatchBase, [DispatchNext]_vars PROVE Map!Next
    OBVIOUS
  <2>1. Effect
    BY StepEffect, DispatchAssumption
  <2>2. \A c \in Cars : job'[c].status \in Map!Statuses /\ Onward(c)
    BY <2>1 DEF Effect, DispatchTypeOK, Fates, Fate, Job, Statuses, Map!Statuses
  <2> QED BY <2>2 DEF Map!Next, Onward
<1> QED BY <1>1, <1>2, BaseHolds, PTL DEF DispatchSpec, FollowsMap, Map!Spec

-----------------------------------------------------------------------------
(* What a call under way has made of its visit: what a group assignment is   *)
(* all or nothing about, and whom the visit's cars wait for in its middle.   *)

Idle == {"idle", "over", "dead"}

ReachOK(a) ==
    /\ call[a].kind = "none" <=> call[a].step \in Idle
    /\ call[a].todo \cup call[a].moved \subseteq Visit(call[a].lead)
    /\ call[a].step = "check" => call[a].moved = {}
    /\ call[a].step = "undo" => call[a].todo \subseteq call[a].moved
    /\ call[a].kind # "none" => \A c \in Visit(call[a].lead) : call[a].seen[c] \in Job

(* The cars that group call a has given away and not taken back.             *)
InHand(a) == IF call[a].step = "undo" THEN call[a].todo ELSE call[a].moved

Taken(a, c) ==
    job[c].status = "assigned" /\ job[c].captain = call[a].by /\ job[c].slot = call[a].seen[c].slot

GroupOK(a) ==
    call[a].kind = "group" =>
        \A c \in Visit(call[a].lead) \ call[a].others :
            IF c \in InHand(a) THEN Taken(a, c) ELSE job[c] = call[a].seen[c]

(* A car the call left out from the start is his already, or not to be given.*)
LeftOut(a) ==
    call[a].kind = "group" /\ call[a].step # "undo" =>
        \A c \in Visit(call[a].lead) \ (call[a].todo \cup call[a].moved) :
            call[a].seen[c].status \in NotHeaded =>
               call[a].seen[c].status = "assigned" /\ call[a].seen[c].captain = call[a].by

CallGood(a) == ReachOK(a) /\ GroupOK(a) /\ LeftOut(a)
CallsGood == \A a \in Calls : CallGood(a)

Waits(c) == job[c].status = "assigned"

OneCaptain(v) ==
    \A c, d \in Cars :
        VisitOf[c] = v /\ VisitOf[d] = v /\ Waits(c) /\ Waits(d) => job[c].captain = job[d].captain

OneSeen(a) ==
    \A c, d \in Visit(call[a].lead) :
        call[a].seen[c].status = "assigned" /\ call[a].seen[d].status = "assigned" =>
            call[a].seen[c].captain = call[a].seen[d].captain

MidGroup(a) ==
    /\ OneSeen(a)
    /\ \A c \in Visit(call[a].lead) : Waits(c) =>
          IF c \in InHand(a) THEN job[c].captain = call[a].by
            ELSE call[a].seen[c].status = "assigned" /\ job[c].captain = call[a].seen[c].captain

MidSelf(a) ==
    \A c \in Visit(call[a].lead) : Waits(c) =>
        IF c \in call[a].todo THEN job[c] = call[a].seen[c] ELSE job[c].captain = Manager

(* Whom the waiting cars of its visit wait for in the middle of call a.      *)
Midway(a) ==
    /\ call[a].kind = "group" => MidGroup(a)
    /\ call[a].kind = "self" => MidSelf(a)
    /\ call[a].kind \notin {"group", "self"} => OneCaptain(VisitOf[call[a].lead])

On(v) == {a \in Calls : InFlight(a) /\ VisitOf[call[a].lead] = v}

TripOK(v) ==
    v \notin crossed =>
        /\ \A a, b \in On(v) : a = b
        /\ \A a \in On(v) : Midway(a)
        /\ On(v) = {} => OneCaptain(v)

TripsOK == \A v \in Visits : TripOK(v)

TripInv == DispatchBase /\ CallsGood /\ TripsOK

(* Call e goes on while others write the cars S.                             *)
Passes(e, S) ==
    /\ call'[e].kind = call[e].kind /\ call'[e].step = call[e].step /\ call'[e].lead = call[e].lead
    /\ call'[e].by = call[e].by /\ call'[e].seen = call[e].seen /\ call'[e].todo = call[e].todo
    /\ call'[e].moved = call[e].moved
    /\ call[e].kind = "group" /\ InFlight(e) => call'[e].others = call[e].others \cup (S \cap Visit(call[e].lead))

Elsewhere(S) == \A d \in Cars \ S : job'[d] = job[d]

LEMMA NotedPasses ==
    ASSUME DispatchTypeOK, NEW S \in SUBSET Cars, NEW e \in Calls,
           \/ call' = Noted(S)
           \/ \E a \in Calls \ {e}, r \in Call : call' = [Noted(S) EXCEPT ![a] = r]
    PROVE  Passes(e, S)
<1>1. Noted(S) \in [Calls -> Call]
  BY NotedFields
<1>2. call'[e] = Noted(S)[e]
  BY <1>1
<1>3. /\ Noted(S)[e].kind = call[e].kind /\ Noted(S)[e].step = call[e].step
      /\ Noted(S)[e].lead = call[e].lead /\ Noted(S)[e].by = call[e].by
      /\ Noted(S)[e].seen = call[e].seen /\ Noted(S)[e].todo = call[e].todo
      /\ Noted(S)[e].moved = call[e].moved
  BY NotedFields
<1>4. ASSUME call[e].kind = "group", InFlight(e)
      PROVE  Noted(S)[e].others = call[e].others \cup (S \cap Visit(call[e].lead))
  <2>1. Noted(S)[e] = [call[e] EXCEPT !.others = @ \cup (S \cap Visit(call[e].lead))]
    BY <1>4 DEF Noted
  <2>2. call[e] \in Call
    BY DEF DispatchTypeOK
  <2> QED BY <2>1, <2>2 DEF Call
<1> QED BY <1>2, <1>3, <1>4 DEF Passes

LEMMA SamePasses ==
    ASSUME DispatchTypeOK, NEW e \in Calls, call'[e] = call[e] PROVE Passes(e, {})
<1>1. call[e] \in Call /\ call[e].others \cup ({} \cap Visit(call[e].lead)) = call[e].others
  BY DEF DispatchTypeOK, Call
<1> QED BY <1>1 DEF Passes

LEMMA OtherPasses ==
    ASSUME DispatchTypeOK, NEW a \in Calls, NEW r \in Call, Goes(a, r), NEW e \in Calls \ {a}
    PROVE  Passes(e, {})
<1>1. call'[e] = call[e]
  BY DEF Goes, DispatchTypeOK
<1> QED BY <1>1, SamePasses

LEMMA PassesGood ==
    ASSUME DispatchTypeOK, NEW e \in Calls, NEW S \in SUBSET Cars, Passes(e, S), Elsewhere(S), CallGood(e)
    PROVE  CallGood(e)'
<1>1. ReachOK(e)'
  BY DEF CallGood, ReachOK, Passes, Visit
<1>2. LeftOut(e)'
  BY DEF CallGood, LeftOut, Passes, Visit
<1>3. GroupOK(e)'
  <2> SUFFICES ASSUME call[e].kind = "group", NEW c \in Visit(call[e].lead), c \notin call'[e].others
               PROVE  (IF c \in InHand(e)' THEN Taken(e, c)' ELSE job'[c] = call'[e].seen[c])
    BY DEF GroupOK, Passes, Visit
  <2>1. InFlight(e)
    BY DEF CallGood, ReachOK, InFlight, Idle
  <2>2. c \notin call[e].others /\ c \notin S /\ c \in Cars
    BY <2>1 DEF Passes, Visit
  <2>3. job'[c] = job[c]
    BY <2>2 DEF Elsewhere
  <2> QED BY <2>2, <2>3 DEF CallGood, GroupOK, InHand, Taken, Passes
<1> QED BY <1>1, <1>2, <1>3 DEF CallGood

(* A step outside the calls, which leaves no car waiting that it writes.     *)
LEMMA AsideTrips ==
    ASSUME TripInv, NEW S \in SUBSET Cars, \A e \in Calls : Passes(e, S), Elsewhere(S), crossed' = crossed,
           \A c \in S : job'[c].status # "assigned"
    PROVE  CallsGood' /\ TripsOK'
<1>1. CallsGood'
  BY PassesGood DEF TripInv, DispatchBase, CallsGood
<1>2. \A c \in Cars : Waits(c)' => Waits(c) /\ job'[c] = job[c]
  BY DEF Waits, Elsewhere
<1>3. \A v \in Visits : OneCaptain(v) => OneCaptain(v)'
  BY <1>2 DEF OneCaptain
<1>4. ASSUME NEW a \in Calls, VisitOf[call[a].lead] \in Visits, Midway(a) PROVE Midway(a)'
  <2>1. MidGroup(a) => MidGroup(a)'
    BY <1>2 DEF MidGroup, OneSeen, InHand, Passes, Visit
  <2>2. MidSelf(a) => MidSelf(a)'
    BY <1>2 DEF MidSelf, Passes, Visit
  <2>3. OneCaptain(VisitOf[call[a].lead]) => OneCaptain(VisitOf[call[a].lead])'
    BY <1>3, <1>4 DEF Passes
  <2> QED BY <1>4, <2>1, <2>2, <2>3 DEF Midway, Passes
<1>5. \A v \in Visits : On(v)' = On(v)
  BY DEF On, InFlight, Passes
<1>6. TripsOK'
  <2> SUFFICES ASSUME NEW v \in Visits, v \notin crossed PROVE TripOK(v)'
    BY DEF TripsOK, TripOK
  <2>1. /\ \A a, b \in On(v) : a = b
        /\ \A a \in On(v) : Midway(a)
        /\ On(v) = {} => OneCaptain(v)
    BY DEF TripInv, TripsOK, TripOK
  <2>2. \A a \in On(v) : Midway(a)'
    BY <1>4, <2>1 DEF On
  <2> QED BY <1>3, <1>5, <2>1, <2>2 DEF TripOK
<1> QED BY <1>1, <1>6

(* A step of call a, which writes cars of its visit, or none.                *)
Own(a, S) ==
    /\ InFlight(a) /\ S \subseteq Visit(call[a].lead) /\ Elsewhere(S) /\ crossed \subseteq crossed'
    /\ \A e \in Calls \ {a} : Passes(e, S)
    /\ InFlight(a)' => call'[a].lead = call[a].lead
    /\ CallGood(a)'

(* What it leaves behind. *)
Leaves(a) ==
    Midway(a) => IF InFlight(a)' THEN Midway(a)' ELSE \A v : v = VisitOf[call[a].lead] => OneCaptain(v)'

LEMMA OwnTrips ==
    ASSUME TripInv, NEW a \in Calls, NEW S \in SUBSET Cars, Own(a, S),
           VisitOf[call[a].lead] \notin crossed' => Leaves(a)
    PROVE  CallsGood' /\ TripsOK'
<1> PICK v : v = VisitOf[call[a].lead]
  OBVIOUS
<1>0. DispatchTypeOK /\ CallsGood /\ TripsOK
  BY DEF TripInv, DispatchBase
<1>1. CallsGood'
  BY <1>0, PassesGood DEF Own, CallsGood
<1>2. ASSUME v \notin crossed', v \in Visits PROVE TripOK(v)'
  <2>1. v \notin crossed /\ a \in On(v)
    BY <1>2 DEF Own, On
  <2>2. On(v) = {a} /\ Midway(a)
    BY <1>0, <1>2, <2>1 DEF TripsOK, TripOK
  <2>3. On(v)' = IF InFlight(a)' THEN {a} ELSE {}
    <3>1. \A e \in Calls \ {a} : ~(InFlight(e) /\ VisitOf[call[e].lead] = v)
      BY <2>2 DEF On
    <3>2. \A e \in Calls \ {a} : ~(InFlight(e)' /\ VisitOf[call'[e].lead] = v)
      BY <3>1 DEF Own, Passes, InFlight
    <3> QED BY <3>2 DEF Own, On
  <2> QED BY <1>2, <2>2, <2>3 DEF Leaves, TripOK
<1>3. ASSUME NEW w \in Visits \ {v}, w \notin crossed' PROVE TripOK(w)'
  <2>1. \A c \in Cars : VisitOf[c] = w => job'[c] = job[c]
    BY <1>3 DEF Own, Elsewhere, Visit
  <2>2. On(w)' = On(w) /\ a \notin On(w)
    <3>1. \A e \in Calls \ {a} : InFlight(e)' = InFlight(e) /\ call'[e].lead = call[e].lead
      BY DEF Own, Passes, InFlight
    <3>2. a \notin On(w) /\ a \notin On(w)'
      BY <1>3 DEF Own, On
    <3> QED BY <3>1, <3>2 DEF On
  <2>3. /\ \A e, b \in On(w) : e = b
        /\ \A e \in On(w) : Midway(e)
        /\ On(w) = {} => OneCaptain(w)
    BY <1>0, <1>3 DEF Own, TripsOK, TripOK
  <2>4. OneCaptain(w) => OneCaptain(w)'
    BY <2>1 DEF OneCaptain, Waits
  <2>5. ASSUME NEW e \in On(w) PROVE Midway(e)'
    <3>1. e \in Calls \ {a} /\ Passes(e, S) /\ Midway(e) /\ VisitOf[call[e].lead] = w
      BY <2>2, <2>3 DEF Own, On
    <3>2. \A c \in Visit(call[e].lead) : job'[c] = job[c]
      BY <2>1, <3>1 DEF Visit
    <3>3. MidGroup(e) => MidGroup(e)'
      BY <3>1, <3>2 DEF MidGroup, OneSeen, InHand, Passes, Visit, Waits
    <3>4. MidSelf(e) => MidSelf(e)'
      BY <3>1, <3>2 DEF MidSelf, Passes, Visit, Waits
    <3> QED BY <2>4, <3>1, <3>3, <3>4 DEF Midway, Passes
  <2> QED BY <2>2, <2>3, <2>4, <2>5 DEF TripOK
<1>4. TripsOK'
  BY <1>2, <1>3 DEF TripsOK, TripOK
<1> QED BY <1>1, <1>4

(* The calls whose visit the step leaves with no more cars waiting.          *)
LEMMA FewerWait ==
    ASSUME TripInv, NEW a \in Calls, NEW S \in SUBSET Cars, Own(a, S),
           call[a].kind \notin {"group", "self"}, InFlight(a)' => call'[a].kind = call[a].kind,
           \A c \in S : job'[c].status # "assigned"
    PROVE  Leaves(a)
<1>1. \A c \in Cars : Waits(c)' => Waits(c) /\ job'[c] = job[c]
  BY DEF Waits, Own, Elsewhere
<1>2. \A v : OneCaptain(v) => OneCaptain(v)'
  BY <1>1 DEF OneCaptain
<1> QED BY <1>2 DEF Leaves, Midway, Own

LEMMA QuietGood ==
    ASSUME DispatchAssumption, DispatchTypeOK, NEW a \in Calls, NEW s \in Idle, call'[a] = Quiet(s)
    PROVE  CallGood(a)' /\ ~InFlight(a)'
<1>1. /\ call'[a].kind = "none" /\ call'[a].step = s /\ call'[a].todo = {} /\ call'[a].moved = {}
  BY DEF Quiet
<1> QED BY <1>1 DEF CallGood, ReachOK, GroupOK, LeftOut, InFlight, Idle

(* A step of call a that writes nothing and goes on as r.                    *)
LEMMA GoesOwn ==
    ASSUME TripInv, NEW a \in Calls, NEW r \in Call, Goes(a, r), job' = job, crossed \subseteq crossed',
           InFlight(a), r.step \notin Idle => r.lead = call[a].lead, CallGood(a)'
    PROVE  Own(a, {})
<1>1. call'[a] = r /\ \A e \in Calls \ {a} : Passes(e, {})
  <2>1. DispatchTypeOK
    BY DEF TripInv, DispatchBase
  <2> QED BY <2>1, OtherPasses DEF Goes, DispatchTypeOK
<1> QED BY <1>1 DEF Own, Elsewhere, InFlight, Idle

(* One that writes car c.                                                    *)
LEMMA WritesOwn ==
    ASSUME TripInv, NEW a \in Calls, NEW c \in call[a].todo, NEW r \in Call,
           call' = [Noted({c}) EXCEPT ![a] = r], NEW j, job' = [job EXCEPT ![c] = j], crossed \subseteq crossed',
           InFlight(a), r.lead = call[a].lead, CallGood(a)'
    PROVE  Own(a, {c})
<1>1. DispatchTypeOK /\ c \in Visit(call[a].lead) /\ c \in Cars /\ call[a].lead \in Cars
  BY DEF TripInv, DispatchBase, CallsGood, CallGood, ReachOK, DispatchTypeOK, Call
<1>2. \A e \in Calls \ {a} : Passes(e, {c})
  BY <1>1, NotedPasses
<1>3. call'[a] = r
  BY <1>1, NotedFields
<1> QED BY <1>1, <1>2, <1>3 DEF Own, Elsewhere, DispatchTypeOK

LEMMA BeginsTrips ==
    ASSUME DispatchAssumption, TripInv, NEW a \in Calls, NEW kind \in Kinds \ {"none"}, NEW c \in Cars,
           NEW k \in Staff, NEW step \in {"check", "write"}, NEW S \in SUBSET Visit(c),
           Begins(a, kind, c, k, step, S), job' = job,
           kind = "group" => \A d \in Visit(c) \ S :
              job[d].status \in NotHeaded => job[d].status = "assigned" /\ job[d].captain = k,
           kind = "self" => \A d \in Visit(c) \ S : ~Waits(d)
    PROVE  CallsGood' /\ TripsOK'
<1> DEFINE r == Reading(kind, step, c, k, S)
           v == VisitOf[c]
<1>0. DispatchTypeOK /\ CallsGood /\ TripsOK /\ S \in SUBSET Cars
  BY DEF TripInv, DispatchBase, Visit
<1>1. /\ r \in Call /\ r.kind = kind /\ r.step = step /\ r.by = k /\ r.todo = S /\ r.moved = {}
      /\ \A d \in Visit(c) : r.seen[d] = job[d]
  BY <1>0, BeginFields
<1>2. r.lead = c
  BY DEF Reading
<1>3. call' = [call EXCEPT ![a] = r] /\ call[a].step = "idle"
  BY DEF Begins, Reading
<1>4. crossed' = IF \E e \in Calls \ {a} : InFlight(e) /\ VisitOf[call[e].lead] = v
                   THEN crossed \cup {v} ELSE crossed
  BY DEF Begins
<1> HIDE DEF r
<1>5. call'[a] = r /\ \A e \in Calls \ {a} : call'[e] = call[e]
  BY <1>0, <1>3 DEF DispatchTypeOK
<1>6. CallGood(a)'
  <2>1. \A d \in Visit(c) : d \in Cars /\ job[d] \in Job
    BY <1>0 DEF DispatchTypeOK, Visit
  <2>2. ReachOK(a)'
    BY <1>1, <1>2, <1>5, <2>1 DEF ReachOK, Idle, Visit
  <2>3. GroupOK(a)'
    BY <1>1, <1>2, <1>5 DEF GroupOK, InHand, Visit
  <2>4. LeftOut(a)'
    BY <1>1, <1>2, <1>5 DEF LeftOut, Visit
  <2> QED BY <2>2, <2>3, <2>4 DEF CallGood
<1>7. CallsGood'
  <2>1. ASSUME NEW e \in Calls \ {a} PROVE CallGood(e)'
    <3>1. CallGood(e) /\ call'[e] = call[e] /\ Passes(e, {})
      BY <1>0, <1>5, SamePasses DEF CallsGood
    <3> QED BY <1>0, <3>1, PassesGood DEF Elsewhere
  <2> QED BY <1>6, <2>1 DEF CallsGood
<1>8. a \notin On(v) /\ \A w : OneCaptain(w)' <=> OneCaptain(w)
  BY <1>3 DEF On, InFlight, OneCaptain, Waits
<1>9. \A e \in Calls \ {a} : Midway(e)' <=> Midway(e)
  <2> SUFFICES ASSUME NEW e \in Calls \ {a} PROVE Midway(e)' <=> Midway(e)
    OBVIOUS
  <2>1. call'[e] = call[e] /\ job' = job
    BY <1>5
  <2>4. OneCaptain(VisitOf[call[e].lead])' <=> OneCaptain(VisitOf[call[e].lead])
    BY <1>8, <2>1
  <2>2. MidGroup(e)' <=> MidGroup(e)
    BY <2>1 DEF MidGroup, OneSeen, InHand, Waits, Visit
  <2>3. MidSelf(e)' <=> MidSelf(e)
    BY <2>1 DEF MidSelf, Waits, Visit
  <2> QED BY <2>1, <2>2, <2>3, <2>4 DEF Midway
<1>10. ASSUME NEW w \in Visits \ {v}, w \notin crossed' PROVE TripOK(w)'
  <2>1. On(w)' = On(w) /\ a \notin On(w) /\ w \notin crossed
    BY <1>2, <1>3, <1>4, <1>5, <1>10 DEF On, InFlight
  <2> QED BY <1>0, <1>8, <1>9, <2>1 DEF TripsOK, TripOK, On
<1>11. ASSUME v \in Visits, v \notin crossed' PROVE TripOK(v)'
  <2>1. v \notin crossed /\ \A e \in Calls \ {a} : ~(InFlight(e) /\ VisitOf[call[e].lead] = v)
    BY <1>4, <1>11
  <2>2. On(v) = {} /\ OneCaptain(v)
    BY <1>0, <1>8, <1>11, <2>1 DEF On, TripsOK, TripOK
  <2>3. On(v)' \subseteq {a}
    BY <1>5, <2>1 DEF On, InFlight
  <2>4. a \in On(v)'
    BY <1>1, <1>2, <1>5 DEF On, InFlight
  <2>5. \A d \in Visit(c) : d \in Cars /\ VisitOf[d] = v
    BY DEF Visit
  <2>6. kind = "group" => MidGroup(a)'
    <3>1. OneSeen(a)'
      BY <1>1, <1>2, <1>5, <2>2, <2>5 DEF OneSeen, OneCaptain, Waits, Visit
    <3> QED BY <1>1, <1>2, <1>5, <3>1 DEF MidGroup, InHand, Waits, Visit
  <2>7. kind = "self" => MidSelf(a)'
    BY <1>1, <1>2, <1>5 DEF MidSelf, Waits, Visit
  <2>8. Midway(a)'
    BY <1>1, <1>2, <1>5, <1>8, <2>2, <2>6, <2>7 DEF Midway
  <2> QED BY <1>11, <2>3, <2>4, <2>8 DEF TripOK
<1>12. TripsOK'
  BY <1>10, <1>11 DEF TripsOK, TripOK
<1> QED BY <1>7, <1>12

LEMMA StartTrips ==
    ASSUME DispatchAssumption, TripInv, NEW a \in Calls,
           StartGroup(a) \/ StartSelf(a) \/ StartDone(a) \/ StartRelease(a) \/ StartHeading(a)
    PROVE  CallsGood' /\ TripsOK'
<1>0. /\ {"group", "self", "done", "release", "head"} \subseteq Kinds \ {"none"}
      /\ Captains \subseteq Staff /\ Manager \in Staff
  BY DEF Kinds, Staff
<1>1. CASE StartGroup(a)
  <2>1. PICK c \in Cars, k \in Captains :
           Begins(a, "group", c, k, "check", Fresh(Visit(c), job) \cup Mismatched(Visit(c), job, k))
    BY <1>1 DEF StartGroup
  <2> DEFINE S == Fresh(Visit(c), job) \cup Mismatched(Visit(c), job, k)
  <2>2. S \in SUBSET Visit(c)
    BY DEF Fresh, Mismatched
  <2>3. \A d \in Visit(c) \ S : job[d].status \in NotHeaded => job[d].status = "assigned" /\ job[d].captain = k
    BY DEF Fresh, Mismatched, NotHeaded
  <2>4. job' = job
    BY <1>1 DEF StartGroup
  <2> HIDE DEF S
  <2>5. Begins(a, "group", c, k, "check", S)
    BY <2>1 DEF S
  <2> QED BY <1>0, <2>2, <2>3, <2>4, <2>5, BeginsTrips
<1>2. CASE StartSelf(a)
  <2>1. PICK c \in Cars : Begins(a, "self", c, Manager, "write", Claimable(c))
    BY <1>2 DEF StartSelf
  <2>2. job' = job /\ Claimable(c) \in SUBSET Visit(c) /\ \A d \in Visit(c) \ Claimable(c) : ~Waits(d)
    BY <1>2 DEF StartSelf, Claimable, Waits, NotHeaded
  <2> QED BY <1>0, <2>1, <2>2, BeginsTrips
<1>3. CASE StartDone(a)
  <2>1. PICK c \in Cars : Begins(a, "done", c, Manager, "write", Claimable(c))
    BY <1>3 DEF StartDone
  <2>2. job' = job /\ Claimable(c) \in SUBSET Visit(c)
    BY <1>3 DEF StartDone, Claimable
  <2> QED BY <1>0, <2>1, <2>2, BeginsTrips
<1>4. CASE StartRelease(a)
  <2>1. PICK c \in Cars, k \in Captains : Begins(a, "release", c, k, "write", {d \in Visit(c) : Releasable(d, k)})
    BY <1>4 DEF StartRelease
  <2> DEFINE S == {d \in Visit(c) : Releasable(d, k)}
  <2>2. job' = job /\ S \in SUBSET Visit(c) /\ Begins(a, "release", c, k, "write", S)
    BY <1>4, <2>1 DEF StartRelease
  <2> HIDE DEF S
  <2> QED BY <1>0, <2>2, BeginsTrips
<1>5. CASE StartHeading(a)
  <2>1. PICK c \in Cars, k \in Captains : Begins(a, "head", c, k, "write", {c})
    BY <1>5 DEF StartHeading
  <2>2. job' = job /\ {c} \in SUBSET Visit(c)
    BY <1>5, VisitCars DEF StartHeading
  <2> QED BY <1>0, <2>1, <2>2, BeginsTrips
<1> QED BY <1>1, <1>2, <1>3, <1>4, <1>5

LEMMA CallFacts ==
    ASSUME TripInv, NEW a \in Calls
    PROVE  /\ DispatchTypeOK /\ DispatchBase /\ CallGood(a) /\ call[a] \in Call /\ call[a].lead \in Cars
           /\ call[a].todo \in SUBSET Cars
           /\ call[a].kind # "none" <=> InFlight(a)
BY DEF TripInv, DispatchBase, DispatchTypeOK, Call, CallsGood, CallGood, ReachOK, InFlight, Idle

(* A call that is not a group's goes on.                                     *)
LEMMA PlainGood ==
    ASSUME TripInv, NEW a \in Calls, call[a].kind \notin {"none", "group"},
           call'[a].kind = call[a].kind, call'[a].lead = call[a].lead, call'[a].seen = call[a].seen,
           call'[a].step \in {"write", "siblings"}, call'[a].todo \cup call'[a].moved \subseteq Visit(call[a].lead)
    PROVE  CallGood(a)'
<1>1. ReachOK(a)
  BY CallFacts DEF CallGood
<1>2. ReachOK(a)'
  BY <1>1 DEF ReachOK, Idle, Visit
<1> QED BY <1>2 DEF CallGood, GroupOK, LeftOut

(* A call that is over leaves one captain to its visit. *)
LEMMA OverLeaves ==
    ASSUME DispatchAssumption, TripInv, NEW a \in Calls, Precheck(a) \/ Ends(a), job' = job, Midway(a)
    PROVE  Goes(a, Quiet("over")) => \A v : v = VisitOf[call[a].lead] => OneCaptain(v)
<1> SUFFICES ASSUME Goes(a, Quiet("over")), NEW v, v = VisitOf[call[a].lead] PROVE OneCaptain(v)
  OBVIOUS
<1>1. CallGood(a)
  BY CallFacts
<1>2. \A c \in Cars : VisitOf[c] = v => c \in Visit(call[a].lead)
  BY DEF Visit
<1>3. CASE call[a].kind = "group" /\ call[a].step \in {"check", "undo"}
  <2>1. InHand(a) = {}
    BY <1>1, <1>3 DEF InHand, CallGood, ReachOK, Precheck, Ends
  <2>2. OneSeen(a) /\ \A c \in Visit(call[a].lead) :
           Waits(c) => call[a].seen[c].status = "assigned" /\ job[c].captain = call[a].seen[c].captain
    BY <1>3, <2>1 DEF Midway, MidGroup
  <2> QED BY <1>2, <2>2 DEF OneSeen, OneCaptain
<1>4. CASE call[a].kind = "group" /\ call[a].step = "write"
  <2>1. call[a].todo = {}
    BY <1>4 DEF Precheck, Ends
  <2>2. \A c \in Visit(call[a].lead) : Waits(c) => job[c].captain = call[a].by
    BY <1>1, <1>4, <2>1 DEF Midway, MidGroup, InHand, CallGood, LeftOut, NotHeaded
  <2> QED BY <1>2, <2>2 DEF OneCaptain
<1>5. CASE call[a].kind = "self"
  <2>1. \A c \in Visit(call[a].lead) : Waits(c) => job[c].captain = Manager
    BY <1>5 DEF Precheck, Ends, Midway, MidSelf
  <2> QED BY <1>2, <2>1 DEF OneCaptain
<1>6. CASE call[a].kind \notin {"group", "self"}
  BY <1>6 DEF Midway
<1>7. call[a].kind = "group" => call[a].step \in {"check", "undo", "write"}
  BY DEF Precheck, Ends
<1> QED BY <1>3, <1>4, <1>5, <1>6, <1>7

LEMMA OverTrips ==
    ASSUME DispatchAssumption, TripInv, NEW a \in Calls, Precheck(a) \/ Ends(a), Goes(a, Quiet("over"))
    PROVE  CallsGood' /\ TripsOK'
<1>1. job' = job /\ crossed' = crossed /\ DispatchTypeOK /\ InFlight(a)
  BY CallFacts DEF Precheck, Ends, InFlight
<1>2. call'[a] = Quiet("over") /\ Quiet("over") \in Call
  BY <1>1, QuietOK DEF Goes, DispatchTypeOK
<1>3. CallGood(a)' /\ ~InFlight(a)'
  BY <1>1, <1>2, QuietGood DEF Idle
<1>4. Quiet("over").step \in Idle
  BY DEF Quiet, Idle
<1>5. Own(a, {})
  BY <1>1, <1>2, <1>3, <1>4, GoesOwn
<1>6. Leaves(a)
  <2>1. ASSUME Midway(a), NEW v, v = VisitOf[call[a].lead] PROVE OneCaptain(v)'
    <3>1. OneCaptain(v)
      BY <1>1, <2>1, OverLeaves
    <3> QED BY <1>1, <3>1 DEF OneCaptain, Waits
  <2> QED BY <1>3, <2>1 DEF Leaves
<1> QED BY <1>5, <1>6, OwnTrips

LEMMA DiesTrips ==
    ASSUME DispatchAssumption, TripInv, NEW a \in Calls, Dies(a) PROVE CallsGood' /\ TripsOK'
<1>1. /\ job' = job /\ crossed' = crossed \cup {VisitOf[call[a].lead]} /\ DispatchTypeOK /\ InFlight(a)
      /\ Goes(a, Quiet("dead"))
  BY CallFacts DEF Dies
<1>2. call'[a] = Quiet("dead") /\ Quiet("dead") \in Call /\ Quiet("dead").step \in Idle
  BY <1>1, QuietOK DEF Goes, DispatchTypeOK, Quiet, Idle
<1>3. CallGood(a)'
  BY <1>1, <1>2, QuietGood DEF Idle
<1>4. Own(a, {})
  BY <1>1, <1>2, <1>3, GoesOwn
<1> QED BY <1>1, <1>4, OwnTrips

(* A group assignment that goes on, having written nothing.                  *)
LEMMA GroupTurns ==
    ASSUME DispatchAssumption, TripInv, NEW a \in Calls, Precheck(a) \/ Refused(a), ~Goes(a, Quiet("over"))
    PROVE  CallsGood' /\ TripsOK'
<1> DEFINE r == call'[a]
<1>0. DispatchTypeOK /\ DispatchBase /\ CallGood(a) /\ call[a] \in Call /\ call[a].others \in SUBSET Cars
  BY CallFacts DEF Call
<1>1. /\ job' = job /\ crossed' = crossed /\ InFlight(a) /\ call[a].kind = "group"
      /\ call[a].step \in {"check", "write"}
  BY DEF Precheck, Refused, InFlight
<1>2. \E q : /\ Goes(a, q)
             /\ \/ q = [call[a] EXCEPT !.step = "write"]
                \/ q = BackOut(a, call[a].others)
  <2>1. [call[a] EXCEPT !.step = "undo", !.todo = call[a].moved]
           = BackOut(a, call[a].others)
    BY <1>0 DEF Call, BackOut
  <2> QED BY <2>1 DEF Precheck, Refused
<1>3. PICK q : /\ Goes(a, q)
               /\ \/ q = [call[a] EXCEPT !.step = "write"]
                  \/ q = BackOut(a, call[a].others)
  BY <1>2
<1>4. /\ q \in Call /\ q.kind = call[a].kind /\ q.lead = call[a].lead /\ q.by = call[a].by /\ q.seen = call[a].seen
      /\ q.moved = call[a].moved /\ q.others = call[a].others
      /\ \/ q.step = "write" /\ q.todo = call[a].todo
         \/ q.step = "undo" /\ q.todo = call[a].moved
  <2>1. CASE q = [call[a] EXCEPT !.step = "write"]
    BY <1>0, <2>1, StepOK
  <2>2. CASE q = BackOut(a, call[a].others)
    <3>1. /\ q \in Call /\ q.kind = call[a].kind /\ q.step = "undo" /\ q.lead = call[a].lead /\ q.by = call[a].by
          /\ q.seen = call[a].seen /\ q.todo = call[a].moved /\ q.moved = call[a].moved
          /\ q.others = call[a].others
      BY <1>0, <1>1, <2>2, BackOutOK
    <3> QED BY <3>1
  <2> QED BY <1>3, <2>1, <2>2
<1>5. call'[a] = q
  BY <1>0, <1>3 DEF Goes, DispatchTypeOK
<1>6. InHand(a)' = InHand(a)
  BY <1>1, <1>4, <1>5 DEF InHand
<1>7. CallGood(a)'
  <2>1. ReachOK(a)'
    BY <1>0, <1>1, <1>4, <1>5 DEF CallGood, ReachOK, Idle, Visit
  <2>2. GroupOK(a)'
    BY <1>0, <1>1, <1>4, <1>5, <1>6 DEF CallGood, GroupOK, Taken, Visit
  <2>3. LeftOut(a)'
    BY <1>0, <1>1, <1>4, <1>5 DEF CallGood, LeftOut, Visit
  <2> QED BY <2>1, <2>2, <2>3 DEF CallGood
<1>8. Own(a, {})
  BY <1>1, <1>3, <1>4, <1>7, GoesOwn
<1>9. Leaves(a)
  <2>1. InFlight(a)'
    BY <1>4, <1>5 DEF InFlight
  <2>2. MidGroup(a) => MidGroup(a)'
    BY <1>1, <1>4, <1>5, <1>6 DEF MidGroup, OneSeen, Waits, Visit
  <2> QED BY <1>1, <1>4, <1>5, <2>1, <2>2 DEF Leaves, Midway
<1> QED BY <1>8, <1>9, OwnTrips

LEMMA GivenFields ==
    ASSUME TripInv, NEW a \in Calls, NEW c \in call[a].todo, call[a].kind = "group", MayTake(a, c)
    PROVE  LET j == Given(a, c)
           IN  j.status = "assigned" /\ j.captain = call[a].by /\ j.slot = job[c].slot
<1>1. job[c] \in Job
  BY CallFacts DEF DispatchTypeOK
<1>2. Given(a, c).status = "assigned" /\ Given(a, c).captain = call[a].by /\ Given(a, c).slot = job[c].slot
  BY <1>1 DEF Given, Job
<1> QED BY <1>2

LEMMA GiveTrips ==
    ASSUME DispatchAssumption, TripInv, NEW a \in Calls, GiveCar(a) PROVE CallsGood' /\ TripsOK'
<1> DEFINE c == Turn(a)
           q == Moved(a, c)
           j == Given(a, c)
<1>0. DispatchTypeOK /\ DispatchBase /\ CallGood(a) /\ call[a] \in Call
  BY CallFacts
<1>1. /\ call[a].kind = "group" /\ call[a].step = "write" /\ call[a].todo # {} /\ MayTake(a, c)
      /\ job' = [job EXCEPT ![c] = j] /\ call' = [Noted({c}) EXCEPT ![a] = q] /\ crossed' = crossed
  BY DEF GiveCar, Writes, Moved
<1>2. c \in call[a].todo /\ c \in Cars
  BY <1>0, <1>1, TurnIn
<1>3. j.status = "assigned" /\ j.captain = call[a].by /\ j.slot = job[c].slot
  BY <1>1, <1>2, GivenFields
<1>q. q = Moved(a, c)
  OBVIOUS
<1> HIDE DEF c, q, j
<1>4. /\ q \in Call /\ q.kind = call[a].kind /\ q.step = call[a].step /\ q.lead = call[a].lead /\ q.by = call[a].by
      /\ q.seen = call[a].seen /\ q.todo = call[a].todo \ {c} /\ q.moved = call[a].moved \cup {c}
      /\ q.others = call[a].others
  BY <1>0, <1>2, <1>q, MovedOK
<1>5. call'[a] = q /\ job'[c] = j /\ \A d \in Cars \ {c} : job'[d] = job[d]
  BY <1>0, <1>1, <1>2, NotedFields DEF DispatchTypeOK
<1>6. InHand(a) = call[a].moved /\ InHand(a)' = call[a].moved \cup {c}
  BY <1>1, <1>4, <1>5 DEF InHand
<1>7. CallGood(a)'
  <2>1. ReachOK(a)'
    <3>1. q.todo \cup q.moved \subseteq Visit(call[a].lead) /\ q.step = "write" /\ q.kind = "group"
      BY <1>0, <1>1, <1>2, <1>4 DEF CallGood, ReachOK
    <3>2. \A d \in Visit(call[a].lead) : call[a].seen[d] \in Job
      BY <1>0, <1>1 DEF CallGood, ReachOK
    <3> QED BY <1>4, <1>5, <3>1, <3>2 DEF ReachOK, Idle, Visit
  <2>2. GroupOK(a)'
    <3> SUFFICES ASSUME NEW d \in Visit(call[a].lead), d \notin call[a].others
                 PROVE  (IF d \in InHand(a)' THEN Taken(a, d)' ELSE job'[d] = call'[a].seen[d])
      BY <1>4, <1>5 DEF GroupOK, Visit
    <3>1. IF d \in InHand(a) THEN Taken(a, d) ELSE job[d] = call[a].seen[d]
      BY <1>0, <1>1 DEF CallGood, GroupOK
    <3>2. d \in Cars
      BY DEF Visit
    <3>3. CASE d = c
      <4>1. job[c].slot = call[a].seen[c].slot
        BY <3>1, <3>3 DEF Taken
      <4> QED BY <1>3, <1>4, <1>5, <1>6, <3>3, <4>1 DEF Taken
    <3>4. CASE d # c
      BY <1>4, <1>5, <1>6, <3>1, <3>2, <3>4 DEF Taken
    <3> QED BY <3>3, <3>4
  <2>3. LeftOut(a)'
    <3>1. q.todo \cup q.moved = call[a].todo \cup call[a].moved
      BY <1>2, <1>4
    <3> QED BY <1>0, <1>1, <1>4, <1>5, <3>1 DEF CallGood, LeftOut, Visit
  <2> QED BY <2>1, <2>2, <2>3 DEF CallGood
<1>8. InFlight(a) /\ InFlight(a)'
  BY <1>1, <1>4, <1>5 DEF InFlight
<1>9. Own(a, {c})
  BY <1>1, <1>2, <1>4, <1>7, <1>8, WritesOwn
<1>10. Leaves(a)
  <2>1. MidGroup(a) => MidGroup(a)'
    <3> SUFFICES ASSUME MidGroup(a), NEW d \in Visit(call[a].lead), Waits(d)'
                 PROVE  IF d \in InHand(a)' THEN job'[d].captain = call[a].by
                          ELSE call[a].seen[d].status = "assigned" /\ job'[d].captain = call[a].seen[d].captain
      BY <1>4, <1>5 DEF MidGroup, OneSeen, Visit
    <3>1. d \in Cars
      BY DEF Visit
    <3>2. CASE d = c
      BY <1>3, <1>5, <1>6, <3>2
    <3>3. CASE d # c
      BY <1>5, <1>6, <3>1, <3>3 DEF MidGroup, Waits
    <3> QED BY <3>2, <3>3
  <2> QED BY <1>1, <1>4, <1>5, <1>8, <2>1 DEF Leaves, Midway
<1> QED BY <1>2, <1>9, <1>10, OwnTrips

LEMMA GivenThenFailsTrips ==
    ASSUME DispatchAssumption, TripInv, NEW a \in Calls, GivenThenFails(a) PROVE CallsGood' /\ TripsOK'
<1> DEFINE c == Turn(a)
           o == call[a].others \cup {c}
           q == BackOut(a, o)
           j == Given(a, c)
<1>0. DispatchTypeOK /\ DispatchBase /\ CallGood(a) /\ call[a] \in Call
  BY CallFacts
<1>1. /\ call[a].kind = "group" /\ call[a].step = "write" /\ call[a].todo # {}
      /\ job' = [job EXCEPT ![c] = j] /\ crossed' = crossed \cup {VisitOf[c]}
  BY DEF GivenThenFails, Writes
<1>2. c \in call[a].todo /\ c \in Cars /\ c \in Visit(call[a].lead)
  BY <1>0, <1>1, TurnIn DEF CallGood, ReachOK
<1>3. VisitOf[call[a].lead] = VisitOf[c]
  BY <1>2 DEF Visit
<1>4. call' = [Noted({c}) EXCEPT ![a] = q]
  BY DEF GivenThenFails, Writes, BackOut
<1>5. o \in SUBSET Cars
  BY <1>0, <1>2 DEF Call
<1>q. q = BackOut(a, o)
  OBVIOUS
<1> HIDE DEF c, o, q
<1>6. /\ q \in Call /\ q.kind = call[a].kind /\ q.step = "undo" /\ q.lead = call[a].lead /\ q.by = call[a].by
      /\ q.seen = call[a].seen /\ q.todo = call[a].moved /\ q.moved = call[a].moved /\ q.others = o
  BY <1>0, <1>1, <1>5, <1>q, BackOutOK
<1> HIDE DEF j
<1>7. call'[a] = q /\ \A d \in Cars \ {c} : job'[d] = job[d]
  BY <1>0, <1>1, <1>2, <1>4, NotedFields DEF DispatchTypeOK
<1>8. InHand(a)' = InHand(a)
  BY <1>1, <1>6, <1>7 DEF InHand
<1>9. CallGood(a)'
  <2>1. ReachOK(a)'
    BY <1>0, <1>1, <1>6, <1>7 DEF CallGood, ReachOK, Idle, Visit
  <2>2. GroupOK(a)'
    <3> SUFFICES ASSUME NEW d \in Visit(call[a].lead), d \notin o
                 PROVE  (IF d \in InHand(a)' THEN Taken(a, d)' ELSE job'[d] = call'[a].seen[d])
      BY <1>6, <1>7 DEF GroupOK, Visit
    <3>1. IF d \in InHand(a) THEN Taken(a, d) ELSE job[d] = call[a].seen[d]
      BY <1>0, <1>1 DEF CallGood, GroupOK, o
    <3>2. d \in Cars \ {c}
      BY DEF Visit, o
    <3> QED BY <1>6, <1>7, <1>8, <3>1, <3>2 DEF Taken
  <2>3. LeftOut(a)'
    BY <1>6, <1>7 DEF LeftOut
  <2> QED BY <2>1, <2>2, <2>3 DEF CallGood
<1>10. Own(a, {c})
  <2>1. InFlight(a)
    BY <1>1 DEF InFlight
  <2> QED BY <1>1, <1>2, <1>4, <1>6, <1>9, <2>1, WritesOwn
<1> QED BY <1>1, <1>2, <1>3, <1>10, OwnTrips

(* The undo passes over a car, or puts it back as read. *)
LEMMA UndoTrips ==
    ASSUME DispatchAssumption, TripInv, NEW a \in Calls, Undo(a) PROVE CallsGood' /\ TripsOK'
<1> DEFINE c == Turn(a)
           q == Without(a, c)
           w == call[a].seen[c]
           j == PutBack(a, c)
           S == IF StillOurs(a, c) THEN {c} ELSE {}
<1>0. DispatchTypeOK /\ DispatchBase /\ CallGood(a) /\ call[a] \in Call /\ CallOK(call[a])
  BY CallFacts DEF DispatchBase, CallsOK
<1>1. /\ call[a].step = "undo" /\ call[a].kind = "group" /\ call[a].todo # {} /\ crossed' = crossed
      /\ InFlight(a) /\ InHand(a) = call[a].todo
  BY <1>0 DEF Undo, CallOK, InFlight, InHand
<1>2. c \in call[a].todo /\ c \in Cars /\ c \in Visit(call[a].lead) /\ w \in Job
  BY <1>0, <1>1, TurnIn DEF CallGood, ReachOK
<1>q. q = Without(a, c)
  OBVIOUS
<1>3. /\ q \in Call /\ q.kind = call[a].kind /\ q.step = call[a].step /\ q.lead = call[a].lead /\ q.by = call[a].by
      /\ q.seen = call[a].seen /\ q.todo = call[a].todo \ {c} /\ q.moved = call[a].moved
      /\ q.others = call[a].others
  <2> HIDE DEF c, q
  <2> QED BY <1>0, <1>2, <1>q, RestOK
<1>4. \/ StillOurs(a, c) /\ job' = [job EXCEPT ![c] = j] /\ call' = [Noted({c}) EXCEPT ![a] = q]
      \/ ~StillOurs(a, c) /\ job' = job /\ Goes(a, q)
  BY DEF Undo, Skips
<1>5. StillOurs(a, c) => job[c].captain = call[a].by /\ job[c].status = "assigned"
  BY DEF StillOurs
<1>6. ~StillOurs(a, c) => ~(job[c].captain = call[a].by /\ job[c].status = "assigned")
  BY DEF StillOurs
<1>7. j.status = w.status /\ j.captain = w.captain /\ (job[c].slot = w.slot => j = w)
  BY <1>2 DEF PutBack, Job
<1> HIDE DEF c, q, j
<1>8. /\ call'[a] = q /\ \A d \in Cars \ {c} : job'[d] = job[d]
      /\ job'[c] = IF StillOurs(a, c) THEN j ELSE job[c]
  BY <1>0, <1>2, <1>4, NotedFields DEF DispatchTypeOK, Goes
<1>9. InHand(a)' = call[a].todo \ {c}
  BY <1>1, <1>3, <1>8 DEF InHand
<1>10. CallGood(a)'
  <2>1. ReachOK(a)'
    BY <1>0, <1>1, <1>3, <1>8 DEF CallGood, ReachOK, Idle, Visit
  <2>2. GroupOK(a)'
    <3> SUFFICES ASSUME NEW d \in Visit(call[a].lead), d \notin call[a].others
                 PROVE  (IF d \in InHand(a)' THEN Taken(a, d)' ELSE job'[d] = call'[a].seen[d])
      BY <1>3, <1>8 DEF GroupOK, Visit
    <3>1. IF d \in InHand(a) THEN Taken(a, d) ELSE job[d] = call[a].seen[d]
      BY <1>0, <1>1 DEF CallGood, GroupOK
    <3>2. CASE d = c
      <4>1. Taken(a, c)
        BY <1>1, <1>2, <3>1, <3>2
      <4>2. StillOurs(a, c) /\ job[c].slot = w.slot
        BY <1>6, <4>1 DEF Taken
      <4> QED BY <1>3, <1>7, <1>8, <1>9, <3>2, <4>2
    <3>3. CASE d # c
      <4>1. d \in Cars \ {c}
        BY <3>3 DEF Visit
      <4> QED BY <1>1, <1>3, <1>8, <1>9, <3>1, <4>1 DEF Taken
    <3> QED BY <3>2, <3>3
  <2>3. LeftOut(a)'
    BY <1>1, <1>3, <1>8 DEF LeftOut
  <2> QED BY <2>1, <2>2, <2>3 DEF CallGood
<1>11. Own(a, S) /\ S \in SUBSET Cars
  <2>1. CASE StillOurs(a, c)
    BY <1>1, <1>2, <1>3, <1>4, <1>10, <2>1, WritesOwn
  <2>2. CASE ~StillOurs(a, c)
    BY <1>1, <1>3, <1>4, <1>10, <2>2, GoesOwn
  <2> QED BY <2>1, <2>2
<1>12. Leaves(a)
  <2>1. InFlight(a)'
    BY <1>1, <1>3, <1>8 DEF InFlight
  <2>2. MidGroup(a) => MidGroup(a)'
    <3> SUFFICES ASSUME MidGroup(a), NEW d \in Visit(call[a].lead), Waits(d)'
                 PROVE  IF d \in InHand(a)' THEN job'[d].captain = call[a].by
                          ELSE call[a].seen[d].status = "assigned" /\ job'[d].captain = call[a].seen[d].captain
      <4>1. call'[a].lead = call[a].lead /\ call'[a].seen = call[a].seen /\ call'[a].by = call[a].by
        BY <1>3, <1>8
      <4>2. OneSeen(a) => OneSeen(a)'
        BY <4>1 DEF OneSeen, Visit
      <4> QED BY <4>1, <4>2 DEF MidGroup, Visit
    <3>1. CASE d = c /\ StillOurs(a, c)
      BY <1>7, <1>8, <1>9, <3>1 DEF Waits
    <3>2. CASE d = c /\ ~StillOurs(a, c)
      <4>1. Waits(c) /\ job[c].captain = call[a].by
        BY <1>1, <1>2, <1>8, <3>2 DEF Waits, MidGroup
      <4> QED BY <1>6, <3>2, <4>1 DEF Waits
    <3>3. CASE d # c
      <4>1. d \in Cars \ {c}
        BY <3>3 DEF Visit
      <4> QED BY <1>1, <1>8, <1>9, <4>1 DEF MidGroup, Waits
    <3> QED BY <3>1, <3>2, <3>3
  <2> QED BY <1>1, <1>3, <1>8, <2>1, <2>2 DEF Leaves, Midway
<1> HIDE DEF S
<1> QED BY <1>11, <1>12, OwnTrips

LEMMA ClaimTrips ==
    ASSUME DispatchAssumption, TripInv, NEW a \in Calls, ClaimCar(a) PROVE CallsGood' /\ TripsOK'
<1> DEFINE c == First(call[a].todo)
           q == Without(a, c)
           j == [job[c] EXCEPT !.status = "assigned", !.captain = Manager,
                               !.start = call[a].seen[c].slot, !.self = TRUE]
           S == IF AsWas(a, c) THEN {c} ELSE {}
<1>0. DispatchTypeOK /\ DispatchBase /\ CallGood(a) /\ call[a] \in Call
  BY CallFacts
<1>1. /\ call[a].step = "write" /\ call[a].kind = "self" /\ call[a].todo # {} /\ crossed' = crossed /\ InFlight(a)
  BY DEF ClaimCar, At, InFlight
<1>2. c \in call[a].todo /\ c \in Cars /\ c \in Visit(call[a].lead) /\ job[c] \in Job
  BY <1>0, <1>1, TurnIn DEF CallGood, ReachOK, DispatchTypeOK
<1>q. q = Without(a, c)
  OBVIOUS
<1>3. /\ q \in Call /\ q.kind = call[a].kind /\ q.step = call[a].step /\ q.lead = call[a].lead /\ q.by = call[a].by
      /\ q.seen = call[a].seen /\ q.todo = call[a].todo \ {c} /\ q.moved = call[a].moved
      /\ q.others = call[a].others
  <2> HIDE DEF c, q
  <2> QED BY <1>0, <1>2, <1>q, RestOK
<1>4. \/ AsWas(a, c) /\ job' = [job EXCEPT ![c] = j] /\ call' = [Noted({c}) EXCEPT ![a] = q]
      \/ ~AsWas(a, c) /\ job' = job /\ Goes(a, q)
  BY DEF ClaimCar, Skips, Writes
<1>5. ~AsWas(a, c) => job[c] # call[a].seen[c]
  BY DEF AsWas
<1>6. j.captain = Manager
  BY <1>2 DEF Job
<1> HIDE DEF c, q, j
<1>7. /\ call'[a] = q /\ \A d \in Cars \ {c} : job'[d] = job[d]
      /\ job'[c] = IF AsWas(a, c) THEN j ELSE job[c]
  BY <1>0, <1>2, <1>4, NotedFields DEF DispatchTypeOK, Goes
<1>8. CallGood(a)'
  <2>1. q.todo \cup q.moved \subseteq Visit(call[a].lead)
    BY <1>0, <1>3 DEF CallGood, ReachOK
  <2> QED BY <1>1, <1>3, <1>7, <2>1, PlainGood
<1>9. Own(a, S) /\ S \in SUBSET Cars
  <2>1. CASE AsWas(a, c)
    BY <1>1, <1>2, <1>3, <1>4, <1>8, <2>1, WritesOwn
  <2>2. CASE ~AsWas(a, c)
    BY <1>1, <1>3, <1>4, <1>8, <2>2, GoesOwn
  <2> QED BY <2>1, <2>2
<1>10. Leaves(a)
  <2>1. InFlight(a)'
    BY <1>1, <1>3, <1>7 DEF InFlight
  <2>2. MidSelf(a) => MidSelf(a)'
    <3> SUFFICES ASSUME MidSelf(a), NEW d \in Visit(call[a].lead), Waits(d)'
                 PROVE  IF d \in call[a].todo \ {c} THEN job'[d] = call[a].seen[d] ELSE job'[d].captain = Manager
      BY <1>3, <1>7 DEF MidSelf, Visit
    <3>1. CASE d = c /\ AsWas(a, c)
      BY <1>6, <1>7, <3>1
    <3>2. CASE d = c /\ ~AsWas(a, c)
      BY <1>2, <1>5, <1>7, <3>2 DEF MidSelf, Waits
    <3>3. CASE d # c
      <4>1. d \in Cars \ {c}
        BY <3>3 DEF Visit
      <4> QED BY <1>7, <4>1 DEF MidSelf, Waits
    <3> QED BY <3>1, <3>2, <3>3
  <2> QED BY <1>1, <1>3, <1>7, <2>1, <2>2 DEF Leaves, Midway
<1> HIDE DEF S
<1> QED BY <1>9, <1>10, OwnTrips

(* A plain call writes a car, which waits no more, and goes on as r.         *)
LEMMA PlainTrips ==
    ASSUME TripInv, NEW a \in Calls, call[a].kind \notin {"none", "group", "self"}, NEW c \in call[a].todo,
           NEW j, j.status # "assigned", NEW r \in Call, Writes(a, c, j, r), crossed' = crossed,
           r.kind = call[a].kind, r.lead = call[a].lead, r.seen = call[a].seen, r.step \in {"write", "siblings"},
           r.todo \subseteq call[a].todo, r.moved = call[a].moved
    PROVE  CallsGood' /\ TripsOK'
<1>0. DispatchTypeOK /\ CallGood(a) /\ c \in Cars /\ InFlight(a)
  BY CallFacts
<1>1. job' = [job EXCEPT ![c] = j] /\ call' = [Noted({c}) EXCEPT ![a] = r]
  BY DEF Writes
<1>2. call'[a] = r /\ job'[c] = j
  BY <1>0, <1>1, NotedFields DEF DispatchTypeOK
<1>3. CallGood(a)'
  <2>1. r.todo \cup r.moved \subseteq Visit(call[a].lead)
    BY <1>0 DEF CallGood, ReachOK
  <2> QED BY <1>2, <2>1, PlainGood
<1>4. Own(a, {c}) /\ {c} \in SUBSET Cars
  BY <1>0, <1>1, <1>3, WritesOwn
<1>5. Leaves(a)
  BY <1>2, <1>4, FewerWait
<1> QED BY <1>4, <1>5, OwnTrips

(* It goes on, or is over, having written nothing.                           *)
LEMMA PlainGoes ==
    ASSUME DispatchAssumption, TripInv, NEW a \in Calls, call[a].kind \notin {"none", "group", "self"},
           NEW r \in Call, Goes(a, r), job' = job, crossed' = crossed,
           \/ r = Quiet("over")
           \/ /\ r.kind = call[a].kind /\ r.lead = call[a].lead /\ r.seen = call[a].seen
              /\ r.step = "write" /\ r.todo \cup r.moved \subseteq Visit(call[a].lead)
    PROVE  CallsGood' /\ TripsOK'
<1>0. DispatchTypeOK /\ InFlight(a)
  BY CallFacts
<1>1. call'[a] = r
  BY <1>0 DEF Goes, DispatchTypeOK
<1>2. CallGood(a)' /\ (r.step \in Idle \/ (r.lead = call[a].lead /\ r.kind = call[a].kind))
  <2>1. CASE r = Quiet("over")
    <3>1. "over" \in Idle /\ Quiet("over").step \in Idle
      BY DEF Idle, Quiet
    <3> QED BY <1>0, <1>1, <2>1, <3>1, QuietGood
  <2>2. CASE r # Quiet("over")
    BY <1>1, <2>2, PlainGood
  <2> QED BY <2>1, <2>2
<1>3. Own(a, {})
  BY <1>0, <1>2, GoesOwn
<1>4. Leaves(a)
  <2>1. InFlight(a)' => call'[a].kind = call[a].kind
    BY <1>1, <1>2 DEF InFlight, Idle
  <2> QED BY <1>3, <2>1, FewerWait
<1> QED BY <1>3, <1>4, OwnTrips

LEMMA LostTrips ==
    ASSUME DispatchAssumption, TripInv, NEW a \in Calls, call[a].kind \notin {"none", "group", "self"},
           call[a].step = "write", NEW c \in call[a].todo, Lost(a, c), crossed' = crossed
    PROVE  CallsGood' /\ TripsOK'
<1>0. DispatchBase /\ CallGood(a) /\ c \in Cars
  BY CallFacts
<1>1. job' = job
  BY DEF Lost
<1>2. CASE Goes(a, Quiet("over"))
  <2>1. Quiet("over") \in Call
    BY QuietOK
  <2> QED BY <1>1, <1>2, <2>1, PlainGoes
<1>3. CASE Goes(a, Without(a, c))
  <2> PICK q : q = Without(a, c)
    OBVIOUS
  <2>1. /\ q \in Call /\ q.kind = call[a].kind /\ q.step = call[a].step /\ q.lead = call[a].lead
        /\ q.seen = call[a].seen /\ q.todo = call[a].todo \ {c} /\ q.moved = call[a].moved
    BY <1>0, RestOK
  <2>2. q.todo \cup q.moved \subseteq Visit(call[a].lead)
    BY <1>0, <2>1 DEF CallGood, ReachOK
  <2>3. Goes(a, q)
    BY <1>3
  <2> QED BY <1>1, <2>1, <2>2, <2>3, PlainGoes
<1> QED BY <1>2, <1>3 DEF Lost

LEMMA PlainSteps ==
    ASSUME DispatchAssumption, TripInv, NEW a \in Calls,
           ReleaseCar(a) \/ HeadCar(a) \/ CloseCar(a)
    PROVE  CallsGood' /\ TripsOK'
<1> DEFINE c == Next1(a)
           w == Without(a, c)
           h == [w EXCEPT !.step = "siblings"]
           o == job[c]
<1>0. DispatchTypeOK /\ DispatchBase /\ CallGood(a)
  BY CallFacts
<1>1. /\ call[a].kind \notin {"none", "group", "self"} /\ call[a].step = "write" /\ call[a].todo # {}
      /\ crossed' = crossed
  BY DEF ReleaseCar, HeadCar, CloseCar, At
<1>2. c \in call[a].todo /\ c \in Cars /\ o \in Job
  BY <1>0, <1>1, TurnIn DEF DispatchTypeOK
<1>3. /\ w \in Call /\ w.kind = call[a].kind /\ w.step = call[a].step /\ w.lead = call[a].lead
      /\ w.seen = call[a].seen /\ w.todo = call[a].todo \ {c} /\ w.moved = call[a].moved
  <2>1. w = Without(a, c)
    OBVIOUS
  <2> HIDE DEF c, w
  <2> QED BY <1>0, <1>2, <2>1, RestOK
<1>4. \/ Lost(a, c)
      \/ \E j, r : /\ Writes(a, c, j, r) /\ r \in {w, h}
                   /\ j \in {[o EXCEPT !.status = "pending", !.captain = Nobody], [o EXCEPT !.status = "on_the_way"],
                             [o EXCEPT !.status = "completed", !.captain = Nobody, !.start = NoTime]}
  <2>1. CASE ReleaseCar(a)
    BY <2>1 DEF ReleaseCar
  <2>2. CASE HeadCar(a)
    BY <2>2 DEF HeadCar
  <2>3. CASE CloseCar(a)
    BY <2>3 DEF CloseCar
  <2> QED BY <2>1, <2>2, <2>3
<1>5. CASE Lost(a, c)
  <2> HIDE DEF c
  <2> QED BY <1>1, <1>2, <1>5, LostTrips
<1>6. ASSUME NEW j, NEW r, Writes(a, c, j, r), r \in {w, h},
             j \in {[o EXCEPT !.status = "pending", !.captain = Nobody], [o EXCEPT !.status = "on_the_way"],
                    [o EXCEPT !.status = "completed", !.captain = Nobody, !.start = NoTime]}
      PROVE  CallsGood' /\ TripsOK'
  <2> HIDE DEF w, o
  <2>1. j.status # "assigned"
    BY <1>2, <1>6 DEF Job
  <2>2. /\ r \in Call /\ r.kind = w.kind /\ r.step \in {w.step, "siblings"} /\ r.lead = w.lead
        /\ r.seen = w.seen /\ r.todo = w.todo /\ r.moved = w.moved
    BY <1>3, <1>6 DEF Call
  <2> HIDE DEF c, h
  <2> QED BY <1>1, <1>2, <1>3, <1>6, <2>1, <2>2, PlainTrips
<1> QED BY <1>4, <1>5, <1>6

LEMMA SiblingsTrips ==
    ASSUME DispatchAssumption, TripInv, NEW a \in Calls, ReadSiblings(a) PROVE CallsGood' /\ TripsOK'
<1> DEFINE r == call[a]
           S == {d \in Visit(r.lead) \ {r.lead} : MayHead(d, r.by)}
           q == [r EXCEPT !.step = "write", !.todo = S]
<1>1. job' = job /\ crossed' = crossed /\ Goes(a, q) /\ r.kind = "head"
  BY DEF ReadSiblings
<1>2. r \in Call /\ CallGood(a) /\ S \in SUBSET Cars /\ S \subseteq Visit(r.lead)
  BY CallFacts DEF Visit
<1>3. q = [r EXCEPT !.step = "write", !.todo = S] /\ r = call[a]
  OBVIOUS
<1> HIDE DEF r, S, q
<1>4. /\ q \in Call /\ q.kind = r.kind /\ q.lead = r.lead /\ q.seen = r.seen /\ q.step = "write" /\ q.todo = S
      /\ q.moved = r.moved
  BY <1>2, <1>3 DEF Call
<1>5. q.todo \cup q.moved \subseteq Visit(call[a].lead)
  BY <1>2, <1>3, <1>4 DEF CallGood, ReachOK
<1> QED BY <1>1, <1>3, <1>4, <1>5, PlainGoes

-----------------------------------------------------------------------------
(* Steps outside the calls. *)

LEMMA MovesTrips ==
    ASSUME TripInv, NEW S \in SUBSET Cars, NEW j, Moves(S, j), \A c \in S : j[c].status # "assigned"
    PROVE  CallsGood' /\ TripsOK'
<1>1. /\ job' = [c \in Cars |-> IF c \in S THEN j[c] ELSE job[c]] /\ call' = Noted(S) /\ crossed' = crossed
  BY DEF Moves
<1>2. \A e \in Calls : Passes(e, S)
  <2>1. DispatchTypeOK
    BY DEF TripInv, DispatchBase
  <2> QED BY <1>1, <2>1, NotedPasses
<1>3. Elsewhere(S) /\ \A c \in S : job'[c].status # "assigned"
  BY <1>1 DEF Elsewhere
<1> QED BY <1>1, <1>2, <1>3, AsideTrips

LEMMA StillTrips ==
    ASSUME TripInv, UNCHANGED <<job, call, crossed>> PROVE CallsGood' /\ TripsOK'
<1>1. \A e \in Calls : Passes(e, {})
  <2>1. DispatchTypeOK
    BY DEF TripInv, DispatchBase
  <2> QED BY <2>1, SamePasses
<1> QED BY <1>1, AsideTrips DEF Elsewhere

LEMMA AsideSteps ==
    ASSUME TripInv, NEW c \in Cars,
           \/ StartService(c) \/ CompleteService(c)
           \/ \E S \in {{c}, {d \in Visit(c) : job[d].status \notin Over}} : Cancel(S)
           \/ \E t \in Times : Reschedule(c, t)
    PROVE  CallsGood' /\ TripsOK'
<1>1. \A d \in Cars : job[d] \in Job
  BY DEF TripInv, DispatchBase, DispatchTypeOK
<1>2. CASE StartService(c) \/ CompleteService(c)
  <2>1. PICK s \in {"started", "completed"} : Moves({c}, [job EXCEPT ![c].status = s])
    BY <1>2 DEF StartService, CompleteService
  <2>2. [job EXCEPT ![c].status = s][c].status = s
    <3>1. job \in [Cars -> Job]
      BY DEF TripInv, DispatchBase, DispatchTypeOK
    <3>2. [job EXCEPT ![c].status = s][c] = [job[c] EXCEPT !.status = s]
      BY <3>1
    <3> QED BY <1>1, <3>2 DEF Job
  <2> DEFINE j == [job EXCEPT ![c].status = s]
  <2>3. Moves({c}, j) /\ \A d \in {c} : j[d].status # "assigned"
    BY <2>1, <2>2
  <2> HIDE DEF j
  <2> QED BY <2>3, MovesTrips
<1>3. ASSUME NEW S \in SUBSET Cars, Cancel(S) PROVE CallsGood' /\ TripsOK'
  <2> DEFINE j == [d \in Cars |-> [job[d] EXCEPT !.status = "cancelled"]]
  <2>1. Moves(S, j) /\ \A d \in S : j[d].status # "assigned"
    BY <1>1, <1>3 DEF Cancel, Job
  <2> HIDE DEF j
  <2> QED BY <2>1, MovesTrips
<1>4. ASSUME NEW t \in Times, Reschedule(c, t) PROVE CallsGood' /\ TripsOK'
  <2> DEFINE S == {d \in Visit(c) : job[d].status \notin Over}
             j == [d \in Cars |-> LetGo(job[d], t)]
  <2>1. Moves(S, j) /\ S \in SUBSET Cars
    BY <1>4 DEF Reschedule, Visit
  <2>2. \A d \in Cars : j[d].status # "assigned"
    BY <1>1 DEF LetGo, Job
  <2> HIDE DEF S, j
  <2> QED BY <2>1, <2>2, MovesTrips
<1>5. {c} \in SUBSET Cars /\ {d \in Visit(c) : job[d].status \notin Over} \in SUBSET Cars
  BY DEF Visit
<1> QED BY <1>2, <1>3, <1>4, <1>5

-----------------------------------------------------------------------------

LEMMA TripInit == ASSUME DispatchAssumption, DispatchInit PROVE TripInv
<1>1. \A a \in Calls : call[a] = Quiet("idle")
  BY DEF DispatchInit
<1>2. \A a \in Calls : ~InFlight(a) /\ CallGood(a)
  BY <1>1 DEF Quiet, InFlight, CallGood, ReachOK, GroupOK, LeftOut, Idle
<1>3. \A v \in Visits : On(v) = {} /\ OneCaptain(v)
  BY <1>2, InitFields DEF On, OneCaptain, Waits
<1> QED BY <1>2, <1>3, BaseInit DEF TripInv, CallsGood, TripsOK, TripOK

LEMMA RefusedTurns == ASSUME TripInv, NEW a \in Calls, Refused(a) PROVE call'[a].step = "undo"
<1>1. DispatchBase /\ DispatchTypeOK /\ call[a] \in Call /\ call[a].others \in SUBSET Cars
  BY CallFacts DEF Call
<1>2. PICK q : q = BackOut(a, call[a].others)
  OBVIOUS
<1>3. call'[a] = q
  BY <1>1, <1>2 DEF Refused, Goes, BackOut, DispatchTypeOK, Call
<1>4. call[a].kind = "group"
  BY DEF Refused
<1>5. q.step = "undo"
  BY <1>1, <1>2, <1>4, BackOutOK
<1> QED BY <1>3, <1>5

LEMMA TripNext == ASSUME DispatchAssumption, TripInv, [DispatchNext]_vars PROVE TripInv'
<1>1. DispatchBase'
  BY BaseNext DEF TripInv
<1>2. CallsGood' /\ TripsOK'
  <2>1. CASE UNCHANGED vars
    BY <2>1, StillTrips DEF vars
  <2>2. ASSUME NEW a \in Calls, Precheck(a) \/ Refused(a) \/ Ends(a) PROVE CallsGood' /\ TripsOK'
    <3>1. CASE Goes(a, Quiet("over")) /\ ~Refused(a)
      BY <2>2, <3>1, OverTrips
    <3>2. CASE ~Goes(a, Quiet("over")) /\ (Precheck(a) \/ Refused(a))
      BY <3>2, GroupTurns
    <3>3. Refused(a) => ~Goes(a, Quiet("over"))
      <4> SUFFICES ASSUME Refused(a), Goes(a, Quiet("over")) PROVE FALSE
        OBVIOUS
      <4>1. call[a] \in Call /\ DispatchTypeOK
        BY CallFacts
      <4>2. call'[a] = Quiet("over")
        BY <4>1 DEF Goes, DispatchTypeOK
      <4>3. call'[a].step = "undo"
        BY <2>2, RefusedTurns
      <4> QED BY <4>2, <4>3 DEF Quiet
    <3> QED BY <2>2, <3>1, <3>2, <3>3 DEF Ends
  <2>3. ASSUME NEW a \in Calls, GroupStep(a) \/ ManagerStep(a) \/ CaptainStep(a) \/ Ends(a) \/ Dies(a)
        PROVE  CallsGood' /\ TripsOK'
    BY <2>2, <2>3, StartTrips, GiveTrips, GivenThenFailsTrips, UndoTrips, ClaimTrips, PlainSteps, SiblingsTrips,
       DiesTrips
    DEF GroupStep, ManagerStep, CaptainStep
  <2>4. ASSUME NEW k \in Captains, Suspend(k) \/ Reinstate(k) PROVE CallsGood' /\ TripsOK'
    BY <2>4, StillTrips DEF Suspend, Reinstate
  <2> QED BY <2>1, <2>3, <2>4, AsideSteps DEF DispatchNext
<1> QED BY <1>1, <1>2 DEF TripInv

LEMMA TripHolds == DispatchSpec => []TripInv
<1>1. DispatchInit => TripInv
  BY TripInit, DispatchAssumption
<1>2. TripInv /\ [DispatchNext]_vars => TripInv'
  BY TripNext, DispatchAssumption
<1> QED BY <1>1, <1>2, PTL DEF DispatchSpec

(* No visit is split between captains by calls that ran one after the other  *)
(* to their end: what an assignment, a claim, a release, a start and a close *)
(* leave behind, the visit moved or cancelled in their middle or not.        *)
THEOREM OneTripForAll == DispatchSpec => []OneTrip
<1>1. TripInv => OneTrip
  <2> SUFFICES ASSUME TripInv, NEW v \in Visits \ crossed, \A a \in Calls : InFlight(a) => VisitOf[call[a].lead] # v
               PROVE  \A c, d \in Cars : /\ VisitOf[c] = v /\ VisitOf[d] = v
                                         /\ job[c].status = "assigned" /\ job[d].status = "assigned"
                                         => job[c].captain = job[d].captain
    BY DEF OneTrip
  <2>1. On(v) = {} /\ TripOK(v)
    BY DEF On, TripInv, TripsOK
  <2> QED BY <2>1 DEF TripOK, OneCaptain, Waits
<1> QED BY <1>1, TripHolds, PTL

(* A group assignment comes to its end with no car left.                     *)
LEMMA GroupEnds ==
    ASSUME DispatchAssumption, TripInv, [DispatchNext]_vars, NEW a \in Calls, call[a].kind = "group",
           call[a].step \in {"write", "undo"}, call'[a].step = "over"
    PROVE  call[a].todo = {}
<1>0. DispatchTypeOK /\ DispatchBase /\ call[a] \in Call
  BY CallFacts
<1>1. ~(call' = call) /\ \A S \in SUBSET Cars : call' # Noted(S)
  BY <1>0, NotedFields
<1>2. \A S \in SUBSET Cars, e \in Calls \ {a} : \A r : call' # [Noted(S) EXCEPT ![e] = r]
  BY <1>0, NotedFields
<1>3. \A e \in Calls \ {a} : \A r : ~Goes(e, r)
  BY <1>0 DEF Goes, DispatchTypeOK
<1>4. ASSUME NEW e \in Calls, GroupStep(e) \/ ManagerStep(e) \/ CaptainStep(e) \/ Ends(e) \/ Dies(e)
      PROVE  e = a
  <2>1. call[e].todo # {} => Turn(e) \in Cars /\ Next1(e) \in Cars /\ First(call[e].todo) \in Cars
    BY <1>0, TurnIn
  <2>2. (\E r : Goes(e, r)) \/ (\E S \in SUBSET Cars : \E r : call' = [Noted(S) EXCEPT ![e] = r])
    <3>1. CASE StartGroup(e) \/ StartSelf(e) \/ StartDone(e) \/ StartRelease(e) \/ StartHeading(e)
      BY <3>1 DEF StartGroup, StartSelf, StartDone, StartRelease, StartHeading, Begins, Goes
    <3>2. CASE Precheck(e) \/ Refused(e) \/ Ends(e) \/ Dies(e) \/ ReadSiblings(e)
      BY <3>2 DEF Precheck, Refused, Ends, Dies, ReadSiblings
    <3>3. CASE GiveCar(e) \/ GivenThenFails(e)
      BY <2>1, <3>3 DEF GiveCar, GivenThenFails, Writes
    <3>4. CASE Undo(e)
      BY <2>1, <3>4 DEF Undo, Skips
    <3>5. CASE ClaimCar(e)
      BY <2>1, <3>5 DEF ClaimCar, At, Writes, Skips
    <3>6. CASE ReleaseCar(e) \/ HeadCar(e) \/ CloseCar(e)
      BY <2>1, <3>6 DEF ReleaseCar, HeadCar, CloseCar, At, Writes, Lost
    <3> QED BY <1>4, <3>1, <3>2, <3>3, <3>4, <3>5, <3>6 DEF GroupStep, ManagerStep, CaptainStep
  <2> QED BY <1>2, <1>3, <2>2
<1>5. ~(GiveCar(a) \/ GivenThenFails(a) \/ Refused(a) \/ Undo(a) \/ Dies(a))
  <2>1. CASE Refused(a)
    BY <2>1, RefusedTurns
  <2>3. CASE Dies(a)
    <3>1. call'[a] = Quiet("dead")
      BY <1>0, <2>3 DEF Dies, Goes, DispatchTypeOK
    <3> QED BY <3>1 DEF Quiet
  <2>2. ASSUME GiveCar(a) \/ GivenThenFails(a) \/ Undo(a) PROVE FALSE
    <3> DEFINE c == Turn(a)
    <3>1. c \in call[a].todo /\ c \in Cars
      BY <1>0, <2>2, TurnIn DEF GiveCar, GivenThenFails, Undo
    <3>2. Noted({c}) \in [Calls -> Call]
      BY <1>0, <3>1, NotedFields
    <3>3. CASE GiveCar(a)
      <4>1. call'[a] = Moved(a, c)
        BY <3>2, <3>3 DEF GiveCar, Writes, Moved
      <4>2. PICK q : q = Moved(a, c)
        OBVIOUS
      <4> HIDE DEF c
      <4>3. q.step = "write"
        BY <1>0, <3>1, <3>3, <4>2, MovedOK DEF GiveCar
      <4> QED BY <4>1, <4>2, <4>3
    <3>4. CASE GivenThenFails(a)
      <4>1. call'[a] = [call[a] EXCEPT !.step = "undo", !.todo = call[a].moved, !.others = @ \cup {c}]
        BY <3>2, <3>4 DEF GivenThenFails, Writes
      <4> QED BY <1>0, <4>1 DEF Call
    <3>5. CASE Undo(a)
      <4>1. call'[a] = Without(a, c)
        BY <1>0, <3>2, <3>5 DEF Undo, Skips, Goes, DispatchTypeOK
      <4>2. PICK q : q = Without(a, c)
        OBVIOUS
      <4> HIDE DEF c
      <4>3. q.step = "undo"
        BY <1>0, <3>1, <3>5, <4>2, RestOK DEF Undo
      <4> QED BY <4>1, <4>2, <4>3
    <3> QED BY <2>2, <3>3, <3>4, <3>5
  <2> QED BY <2>1, <2>2, <2>3
<1>6. ~(StartGroup(a) \/ Precheck(a) \/ ManagerStep(a) \/ CaptainStep(a))
  BY DEF StartGroup, Precheck, ManagerStep, CaptainStep, StartSelf, StartDone, StartRelease, StartHeading, Begins,
         ClaimCar, CloseCar, ReleaseCar, HeadCar, ReadSiblings, At
<1>7. ~(\E c \in Cars : \/ StartService(c) \/ CompleteService(c)
                        \/ \E S \in {{c}, {d \in Visit(c) : job[d].status \notin Over}} : Cancel(S)
                        \/ \E t \in Times : Reschedule(c, t))
  <2>1. \A c \in Cars : {c} \in SUBSET Cars /\ {d \in Visit(c) : job[d].status \notin Over} \in SUBSET Cars
    BY DEF Visit
  <2> QED BY <1>1, <2>1 DEF StartService, CompleteService, Cancel, Reschedule, Moves
<1>8. Ends(a)
  BY <1>1, <1>4, <1>5, <1>6, <1>7 DEF DispatchNext, GroupStep, vars, Suspend, Reinstate
<1> QED BY <1>8 DEF Ends

(* The assignment of a visit gives the captain every car that waits for one, *)
(* or leaves every car as it was, but for the cars others wrote meanwhile.   *)
THEOREM AssignsAllOrNothing == DispatchSpec => AllOrNothing
<1>1. ASSUME TripInv, [DispatchNext]_vars, NEW a \in Calls, call[a].kind = "group", call'[a].step = "over",
             call[a].step \in {"write", "undo"}, NEW c \in Visit(call[a].lead) \ call[a].others
      PROVE  IF call[a].step = "undo" \/ call[a].seen[c].status \notin NotHeaded
               THEN job[c] = call[a].seen[c]
               ELSE job[c].status = "assigned" /\ job[c].captain = call[a].by
  <2>1. call[a].todo = {}
    BY <1>1, GroupEnds, DispatchAssumption
  <2>2. CallGood(a) /\ CallOK(call[a])
    BY <1>1, CallFacts DEF DispatchBase, CallsOK
  <2>3. IF c \in InHand(a) THEN Taken(a, c) ELSE job[c] = call[a].seen[c]
    BY <1>1, <2>2 DEF CallGood, GroupOK
  <2>4. CASE call[a].step = "undo"
    BY <2>1, <2>3, <2>4 DEF InHand
  <2>5. CASE call[a].step = "write" /\ c \in call[a].moved
    BY <1>1, <2>2, <2>3, <2>5 DEF InHand, Taken, CallOK, ReadStatus
  <2>6. CASE call[a].step = "write" /\ c \notin call[a].moved
    BY <1>1, <2>1, <2>2, <2>3, <2>6 DEF InHand, CallGood, LeftOut
  <2> QED BY <1>1, <2>4, <2>5, <2>6
<1>2. TripInv /\ [DispatchNext]_vars
        => (\A a \in Calls :
              call[a].kind = "group" /\ call'[a].step = "over" /\ call[a].step \in {"write", "undo"} =>
                \A c \in Visit(call[a].lead) \ call[a].others :
                    IF call[a].step = "undo" \/ call[a].seen[c].status \notin NotHeaded
                      THEN job[c] = call[a].seen[c]
                      ELSE job[c].status = "assigned" /\ job[c].captain = call[a].by)
  BY <1>1
<1> QED BY <1>2, TripHolds, PTL DEF DispatchSpec, AllOrNothing
=============================================================================
