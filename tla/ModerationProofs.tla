-------------------------- MODULE ModerationProofs --------------------------
(***************************************************************************)
(* Moderation for every policy, any number of servers and failing calls:   *)
(* what "passed" says is true, no hit is dropped between the barrier, the  *)
(* late hits and the retries, and no attended run is failed open.          *)
(***************************************************************************)
EXTENDS Moderation, FiniteSetTheorems, TLAPS

\* The surfaces whose results the coordinator is still to hear of.
Awaited == {s \in Surfaces : task[s].at \in {"queued", "hit"}}

PendingIsAwaited ==
    /\ ~Crashed => co.pending = Cardinality(Awaited)
    /\ Crashed => \A s \in Surfaces : task[s].at = "over"

\* Nobody is done before all surfaces are enqueued.
DoneIsEnqueued ==
    /\ co.allDone => co.enqueued /\ co.pending = 0
    /\ co.enqueued => co.phase \notin {"generating", "ended", "enqueueing"}

\* What the coordinator knows when the barrier settles: every failure and every hit.
BarrierKnows ==
    ~Settled =>
        /\ ~co.handled /\ co.target = "none"
        /\ co.phase = "expired" => co.failedOpen \/ co.block # "none"
        /\ \A s \in Surfaces :
             /\ task[s].at \notin {"late", "unmarked", "unsaid"}
             /\ task[s].verdict = "fail" => co.failedOpen
             /\ IsHit(s) => co.block # "none" /\ (s \in Inputs => co.block = "input")

\* Who is about to withdraw the answer, and the question.
Kept == \/ co.phase = "settled" /\ IsBlocked
        \/ \E s \in Surfaces : task[s].at = "late"
        \/ held[Home] # "none"

InputKept == \/ co.phase = "settled" /\ co.target = "input"
             \/ \E s \in Inputs : task[s].at = "late"
             \/ db.user = "blocked"

\* After the barrier: a hit is handled, and what is handled is kept until it is withdrawn.
HandledIsKept ==
    Settled /\ ~Crashed =>
        /\ co.target # "none"
        /\ co.block # "none" => co.handled
        /\ \A s \in Surfaces : IsHit(s) => co.handled /\ (s \in Inputs => co.block = "input")
        /\ co.handled /\ db.content => Kept
        /\ co.handled /\ co.block = "input" /\ bad = 0 /\ co.phase \in {"settled", "answered", "finished"}
              => InputKept

\* A recovery loop holds the direction of a hit, and opens no run that is attended on its server.
RecoveryKnows ==
    /\ \A v \in Servers : rec[v].does \in {"retry", "block", "say"} => rec[v].block \in Directions
    /\ rec[Home].does = "open" => co.phase \in Released

Inv == TypeOK /\ PendingIsAwaited /\ DoneIsEnqueued /\ BarrierKnows /\ HandledIsKept /\ RecoveryKnows
       /\ PassedIsClean

-----------------------------------------------------------------------------
(***************************************************************************)
(* Counting the surfaces that are awaited.                                 *)
(***************************************************************************)

LEMMA SurfacesAreFinite == IsFiniteSet(Surfaces)
  BY SurfaceAssumption, FS_Union DEF Surfaces

LEMMA AwaitedAreCounted ==
    IsFiniteSet(Awaited) /\ Cardinality(Awaited) \in 0 .. Cardinality(Surfaces)
<1>1. Awaited \subseteq Surfaces
  BY DEF Awaited
<1> QED
  BY <1>1, SurfacesAreFinite, FS_Subset, FS_CardinalityType

\* A surface whose check ends is no longer awaited.
LEMMA OneLessAwaited ==
    ASSUME NEW s \in Surfaces, task[s].at \in {"queued", "hit"}, task \in [Surfaces -> Task],
           NEW t, task' = [task EXCEPT ![s] = t], t.at \notin {"queued", "hit"}
    PROVE  Cardinality(Awaited') = Cardinality(Awaited) - 1 /\ Cardinality(Awaited) > 0
<1>1. Awaited' = Awaited \ {s} /\ s \in Awaited
  BY DEF Awaited
<1>2. IsFiniteSet(Awaited) /\ Cardinality(Awaited) \in Nat /\ Cardinality(Awaited') \in Nat
      /\ Cardinality(Awaited') = Cardinality(Awaited) - 1
  BY <1>1, AwaitedAreCounted, FS_RemoveElement, FS_CardinalityType
<1> QED
  BY <1>2

-----------------------------------------------------------------------------
(***************************************************************************)
(* Types.                                                                  *)
(***************************************************************************)

LEMMA DirectionIsOne == \A s \in Surfaces : DirectionOf(s) \in Directions
  BY DEF DirectionOf, Directions

\* The rows that the writes leave.
LEMMA RowTypes ==
    ASSUME db \in Rows
    PROVE  /\ \A state \in States :
                /\ MarkedAs(state) \in Rows
                /\ MarkedAs(state).content = db.content /\ MarkedAs(state).user = db.user
           /\ \A direction \in Directions :
                /\ Withdrawn(direction) \in Rows /\ Withdrawn(direction).content = FALSE
                /\ Withdrawn(direction).user = IF direction = "input" THEN "blocked" ELSE db.user
<1>1. ASSUME NEW state \in States
      PROVE  /\ MarkedAs(state) \in Rows
             /\ MarkedAs(state).content = db.content /\ MarkedAs(state).user = db.user
  BY <1>1 DEF MarkedAs, Rows, States
<1>2. ASSUME NEW direction \in Directions
      PROVE  /\ Withdrawn(direction) \in Rows /\ Withdrawn(direction).content = FALSE
             /\ Withdrawn(direction).user = IF direction = "input" THEN "blocked" ELSE db.user
  BY <1>2 DEF Withdrawn, Rows, States
<1> QED
  BY <1>1, <1>2

\* The coordinator with a new account of its surfaces.
LEMMA ClosedTypes ==
    ASSUME NEW c \in Coordinator
    PROVE  /\ Closed(c) \in Coordinator /\ Closed(c).phase = c.phase /\ Closed(c).pending = c.pending
           /\ Closed(c).block = c.block /\ Closed(c).failedOpen = c.failedOpen
           /\ Closed(c).handled = c.handled /\ Closed(c).enqueued = c.enqueued
           /\ Closed(c).target = c.target
           /\ Closed(c).allDone <=> (c.allDone \/ (c.pending = 0 /\ c.enqueued))
  BY DEF Closed, Coordinator

\* The run begins with what its policy and the admission of its question decide.
LEMMA InitInv == Init => Inv
<1> SUFFICES ASSUME NEW config \in BOOLEAN, NEW full \in SUBSET Inputs, NEW marked \in BOOLEAN,
                    Init!(config)!(full)!(marked)
             PROVE  Inv
  BY DEF Init
<1> DEFINE checked == IF config THEN Inputs ELSE {}
<1>1. /\ db = [state |-> IF config /\ marked THEN "pending" ELSE "not_required",
               status |-> "running", user |-> "pending", assistant |-> "pending",
               content |-> FALSE, event |-> "none", stale |-> FALSE]
      /\ co = [phase |-> "generating", outcome |-> "success", retained |-> FALSE,
               pending |-> Cardinality(checked \ full), block |-> "none",
               failedOpen |-> ~config \/ full # {}, handled |-> FALSE, enqueued |-> FALSE,
               allDone |-> FALSE, target |-> "none", told |-> {}]
  OBVIOUS
<1>2. /\ \A s \in checked \ full : task[s] = [at |-> "queued", verdict |-> "none"]
      /\ \A s \in Surfaces \ (checked \ full) :
           task[s] = IF s \in Inputs \cap full THEN [at |-> "over", verdict |-> "fail"]
                     ELSE [at |-> "none", verdict |-> "none"]
      /\ task \in [Surfaces -> Task]
  BY DEF Surfaces, Task
<1>3. Awaited = checked \ full
  BY <1>2 DEF Awaited, Surfaces
<1>4. TypeOK
  <2>1. Cardinality(checked \ full) \in 0 .. Cardinality(Surfaces)
    BY <1>3, AwaitedAreCounted
  <2>2. db \in Rows
    BY <1>1 DEF Rows, States, Blocks
  <2>3. co \in Coordinator
    BY <1>1, <2>1 DEF Coordinator, Phases, Outcomes, Blocks, Targets
  <2>4. held \in [Servers -> Blocks] /\ rec \in [Servers -> Recovery] /\ bad \in 0 .. Failures
    BY BoundAssumption DEF Blocks, Recovery, NoRecovery
  <2> QED
    BY <1>2, <2>2, <2>3, <2>4 DEF TypeOK
<1>5. PendingIsAwaited /\ DoneIsEnqueued
  BY <1>1, <1>3 DEF PendingIsAwaited, DoneIsEnqueued, Crashed
<1>6. BarrierKnows
  <2>1. \A s \in Surfaces : task[s].at \in {"queued", "over", "none"} /\ task[s].verdict \in {"none", "fail"}
    BY <1>2
  <2>2. \A s \in Surfaces : task[s].verdict = "fail" => co.failedOpen
    <3> SUFFICES ASSUME NEW s \in Surfaces, task[s].verdict = "fail" PROVE co.failedOpen
      OBVIOUS
    <3>1. full # {}
      BY <1>2
    <3>2. co.failedOpen = (~config \/ full # {})
      BY <1>1
    <3> QED
      BY <3>1, <3>2, Zenon
  <2> QED
    BY <1>1, <2>1, <2>2 DEF BarrierKnows, IsHit
<1>7. HandledIsKept /\ RecoveryKnows /\ PassedIsClean
  BY <1>1, HomeAssumption
     DEF HandledIsKept, RecoveryKnows, PassedIsClean, Settled, Unsettled, NoRecovery
<1> QED
  BY <1>4, <1>5, <1>6, <1>7 DEF Inv

-----------------------------------------------------------------------------
(***************************************************************************)
(* What a step leaves of the invariant.                                    *)
(***************************************************************************)

Early == {"settled", "answered", "finished"}

\* A step after the barrier that reports no hit and lets go of no handled one.
LEMMA HandledFrame ==
    ASSUME HandledIsKept, Settled' /\ ~Crashed' => Settled /\ ~Crashed,
           co'.target = co.target, co'.block = co.block, co'.handled = co.handled,
           \A s \in Surfaces : IsHit(s)' => IsHit(s),
           db'.content => db.content, db'.content /\ Kept => Kept',
           bad' = 0 => bad = 0, co'.phase \in Early => co.phase \in Early,
           bad' = 0 /\ co'.phase \in Early /\ InputKept => InputKept'
    PROVE  HandledIsKept'
<1> SUFFICES ASSUME Settled', ~Crashed'
             PROVE  HandledIsKept!2'
  BY DEF HandledIsKept
<1> QED
  BY DEF HandledIsKept, Early

-----------------------------------------------------------------------------
(***************************************************************************)
(* The checks.                                                             *)
(***************************************************************************)

\* What a result without a hit does to the coordinator.
LEMMA CountedFields ==
    ASSUME TypeOK, NEW s \in Surfaces, NEW verdict \in {"pass", "fail"}, NEW c, c = Counted(s, verdict),
           co.pending > 0
    PROVE  /\ c \in Coordinator /\ c.phase = co.phase /\ c.pending = co.pending - 1
           /\ c.block = co.block /\ c.handled = co.handled /\ c.enqueued = co.enqueued
           /\ c.target = co.target
           /\ c.allDone <=> (co.allDone \/ (co.pending - 1 = 0 /\ co.enqueued))
           /\ c.failedOpen <=> (co.failedOpen \/ (verdict = "fail" /\ ~Settled))
<1> DEFINE d == [co EXCEPT !.pending = @ - 1, !.failedOpen = @ \/ (verdict = "fail" /\ ~Settled)]
<1>1. co.pending \in 0 .. Cardinality(Surfaces) /\ Cardinality(Surfaces) \in Nat
  BY SurfacesAreFinite, FS_CardinalityType DEF TypeOK, Coordinator
<1>2. d \in Coordinator /\ d.pending = co.pending - 1
  <2> DEFINE failed == co.failedOpen \/ (verdict = "fail" /\ ~Settled)
  <2>1. failed \in BOOLEAN /\ d = [co EXCEPT !.pending = @ - 1, !.failedOpen = failed]
    OBVIOUS
  <2>2. co.pending - 1 \in 0 .. Cardinality(Surfaces)
    BY <1>1
  <2> HIDE DEF failed, d
  <2> QED
    BY <2>1, <2>2 DEF TypeOK, Coordinator
<1>3. /\ d.phase = co.phase /\ d.block = co.block /\ d.handled = co.handled
      /\ d.enqueued = co.enqueued /\ d.target = co.target /\ d.allDone = co.allDone
      /\ d.failedOpen <=> (co.failedOpen \/ (verdict = "fail" /\ ~Settled))
  BY DEF TypeOK, Coordinator
<1>4. c = Closed(d)
  BY DEF Counted
<1> HIDE DEF d
<1> QED
  BY <1>2, <1>3, <1>4, ClosedTypes

LEMMA VerdictKeeps ==
    ASSUME Inv, NEW s \in Surfaces, Verdict(s)
    PROVE  Inv'
<1>1. PICK verdict \in {"pass", "fail"} :
        co' = Counted(s, verdict) /\ task' = [task EXCEPT ![s] = [at |-> "over", verdict |-> verdict]]
  BY DEF Verdict
<1>2. task[s].at = "queued" /\ UNCHANGED <<db, held, rec, bad>>
  BY DEF Verdict
<1>3. /\ task \in [Surfaces -> Task] /\ task'[s] = [at |-> "over", verdict |-> verdict]
      /\ \A r \in Surfaces \ {s} : task'[r] = task[r]
  BY <1>1 DEF Inv, TypeOK
<1>4. /\ co.pending = Cardinality(Awaited) /\ co.pending > 0 /\ ~Crashed
      /\ Cardinality(Awaited)' = co.pending - 1
  BY <1>1, <1>2, <1>3, OneLessAwaited DEF Inv, PendingIsAwaited
<1>5. /\ co' \in Coordinator /\ co'.phase = co.phase /\ co'.pending = co.pending - 1
      /\ co'.block = co.block /\ co'.handled = co.handled /\ co'.enqueued = co.enqueued
      /\ co'.target = co.target
      /\ co'.allDone <=> (co.allDone \/ (co.pending - 1 = 0 /\ co.enqueued))
      /\ co'.failedOpen <=> (co.failedOpen \/ (verdict = "fail" /\ ~Settled))
  BY <1>1, <1>4, CountedFields DEF Inv
<1>6. TypeOK'
  BY <1>1, <1>2, <1>5 DEF Inv, TypeOK, Task
<1>7. PendingIsAwaited' /\ DoneIsEnqueued'
  BY <1>4, <1>5 DEF Inv, PendingIsAwaited, DoneIsEnqueued, Crashed
<1>8. BarrierKnows'
  BY <1>3, <1>5 DEF Inv, BarrierKnows, Settled, IsHit
<1>9. HandledIsKept'
  <2>1. \A r \in Surfaces : IsHit(r)' => IsHit(r)
    BY <1>3 DEF IsHit
  <2>2. \A r \in Surfaces : task[r].at = "late" => task'[r].at = "late"
    BY <1>2, <1>3
  <2>3. Kept => Kept'
    BY <1>2, <1>5, <2>2 DEF Kept, IsBlocked
  <2>4. InputKept => InputKept'
    BY <1>2, <1>5, <2>2 DEF InputKept, Surfaces
  <2> QED
    BY <1>2, <1>5, <2>1, <2>3, <2>4 DEF Inv, HandledIsKept, Settled, Crashed
<1>r. RecoveryKnows'
  BY <1>2, <1>5 DEF Inv, RecoveryKnows
<1>10. PassedIsClean'
  BY <1>2, <1>3, <1>5 DEF Inv, PassedIsClean
<1> QED
  BY <1>6, <1>7, <1>8, <1>9, <1>10, <1>r DEF Inv

\* The hit that is stored is still to be reported.
LEMMA HitKeeps ==
    ASSUME Inv, NEW s \in Surfaces, Hit(s)
    PROVE  Inv'
<1>1. /\ task' = [task EXCEPT ![s].at = "hit"] /\ task[s].at = "queued"
      /\ UNCHANGED <<co, held, rec>> /\ (bad' = bad \/ (bad < Failures /\ bad' = bad + 1))
      /\ db' = db \/ db' = [db EXCEPT !.event = DirectionOf(s)]
  BY DEF Hit, Ok, Fails
<1>2. /\ task \in [Surfaces -> Task] /\ db \in Rows /\ bad \in 0 .. Failures /\ Failures \in Nat
  BY BoundAssumption DEF Inv, TypeOK
<1>3. /\ task'[s].at = "hit" /\ \A r \in Surfaces : task'[r].verdict = task[r].verdict
      /\ \A r \in Surfaces \ {s} : task'[r].at = task[r].at
  BY <1>1, <1>2 DEF Task
<1>4. /\ db' \in Rows /\ db'.content = db.content /\ db'.user = db.user
  BY <1>1, <1>2, DirectionIsOne DEF Rows, Blocks
<1>5. bad' \in 0 .. Failures /\ (bad' = 0 => bad = 0)
  BY <1>1, <1>2
<1>6. TypeOK'
  <2>1. task' \in [Surfaces -> Task]
    BY <1>1, <1>2 DEF Task
  <2> QED
    BY <1>1, <1>4, <1>5, <2>1 DEF Inv, TypeOK
<1>7. PendingIsAwaited' /\ DoneIsEnqueued' /\ BarrierKnows'
  <2>1. Awaited' = Awaited
    BY <1>1, <1>3 DEF Awaited
  <2>2. ~Crashed
    BY <1>1 DEF Inv, PendingIsAwaited
  <2>3. PendingIsAwaited'
    BY <1>1, <2>1, <2>2 DEF Inv, PendingIsAwaited, Crashed
  <2>4. DoneIsEnqueued'
    BY <1>1 DEF Inv, DoneIsEnqueued
  <2>5. BarrierKnows'
    BY <1>1, <1>3 DEF Inv, BarrierKnows, Settled, IsHit
  <2> QED
    BY <2>3, <2>4, <2>5
<1>8. HandledIsKept'
  <2>1. Kept => Kept'
    BY <1>1, <1>3 DEF Kept, IsBlocked
  <2>2. InputKept => InputKept'
    BY <1>1, <1>3, <1>4 DEF InputKept, Surfaces
  <2> QED
    BY <1>1, <1>3, <1>4, <1>5, <2>1, <2>2, HandledFrame DEF Inv, Settled, Crashed, IsHit
<1>9. RecoveryKnows' /\ PassedIsClean'
  BY <1>1, <1>3 DEF Inv, RecoveryKnows, PassedIsClean
<1> QED
  BY <1>6, <1>7, <1>8, <1>9 DEF Inv

\* One surface less to hear of.
LEMMA LessPending ==
    ASSUME TypeOK, co.pending > 0
    PROVE  co.pending - 1 \in 0 .. Cardinality(Surfaces)
<1>1. co.pending \in 0 .. Cardinality(Surfaces) /\ Cardinality(Surfaces) \in Nat
  BY SurfacesAreFinite, FS_CardinalityType DEF TypeOK, Coordinator
<1> QED
  BY <1>1

\* The barrier learns of a hit: the question's goes before the answer's.
LEMMA ReportInTimeKeeps ==
    ASSUME Inv, NEW s \in Surfaces, ReportInTime(s)
    PROVE  Inv'
<1> DEFINE block == IF co.block = "none" \/ Prefers(DirectionOf(s), co.block) THEN DirectionOf(s)
                    ELSE co.block
<1>1. /\ task[s].at = "hit" /\ ~Settled /\ UNCHANGED <<db, held, rec, bad>>
      /\ task' = [task EXCEPT ![s] = [at |-> "over", verdict |-> "hit"]]
      /\ co' = Closed([co EXCEPT !.pending = @ - 1, !.block = block])
  BY DEF ReportInTime, Reported
<1>2. co \in Coordinator /\ task \in [Surfaces -> Task] /\ co.handled \in BOOLEAN /\ co.block \in Blocks
  BY DEF Inv, TypeOK, Coordinator
<1>3. block \in Directions /\ (s \in Inputs \/ co.block = "input" => block = "input")
  BY <1>2 DEF DirectionOf, Directions, Prefers, Blocks
<1> HIDE DEF block
<1>4. /\ task'[s] = [at |-> "over", verdict |-> "hit"]
      /\ \A r \in Surfaces \ {s} : task'[r] = task[r]
  BY <1>1, <1>2
<1>5. /\ co.pending = Cardinality(Awaited) /\ co.pending > 0 /\ ~Crashed
      /\ Cardinality(Awaited)' = co.pending - 1
  BY <1>1, <1>2, <1>4, OneLessAwaited DEF Inv, PendingIsAwaited
<1> DEFINE d == [co EXCEPT !.pending = @ - 1, !.block = block]
<1>6. /\ d \in Coordinator /\ d.pending = co.pending - 1 /\ d.phase = co.phase /\ d.block = block
      /\ d.handled = co.handled /\ d.enqueued = co.enqueued /\ d.target = co.target
      /\ d.allDone = co.allDone /\ d.failedOpen = co.failedOpen /\ co' = Closed(d)
  <2>1. co.pending - 1 \in 0 .. Cardinality(Surfaces) /\ block \in Blocks
    BY <1>3, <1>5, LessPending DEF Inv, Blocks
  <2> QED
    BY <1>1, <1>2, <2>1 DEF Coordinator
<1> HIDE DEF d
<1>7. /\ co' \in Coordinator /\ co'.phase = co.phase /\ co'.pending = co.pending - 1
      /\ co'.block = block /\ co'.handled = co.handled /\ co'.enqueued = co.enqueued
      /\ co'.target = co.target /\ co'.failedOpen = co.failedOpen
      /\ co'.allDone <=> (co.allDone \/ (co.pending - 1 = 0 /\ co.enqueued))
  BY <1>6, ClosedTypes
<1>8. TypeOK'
  <2>1. task' \in [Surfaces -> Task]
    BY <1>1, <1>2 DEF Task
  <2> QED
    BY <1>1, <1>7, <2>1 DEF Inv, TypeOK
<1>9. PendingIsAwaited' /\ DoneIsEnqueued'
  BY <1>5, <1>7 DEF Inv, PendingIsAwaited, DoneIsEnqueued, Crashed
<1>10. BarrierKnows'
  BY <1>1, <1>3, <1>4, <1>7 DEF Inv, BarrierKnows, Settled, IsHit, Directions
<1>11. HandledIsKept' /\ RecoveryKnows' /\ PassedIsClean'
  BY <1>1, <1>7 DEF Inv, BarrierKnows, HandledIsKept, RecoveryKnows, PassedIsClean, Settled
<1> QED
  BY <1>8, <1>9, <1>10, <1>11 DEF Inv

\* A hit that comes after the barrier is applied late, unless what is handled covers it.
LEMMA ReportLateKeeps ==
    ASSUME Inv, NEW s \in Surfaces, ReportLate(s)
    PROVE  Inv'
<1> DEFINE d == [co EXCEPT !.pending = @ - 1]
<1>1. /\ task[s].at = "hit" /\ Settled /\ UNCHANGED <<db, held, rec, bad>>
      /\ \/ /\ IsLate(s)
            /\ co' = [Closed(d) EXCEPT !.handled = TRUE, !.block = DirectionOf(s)]
            /\ task' = [task EXCEPT ![s] = [at |-> "late", verdict |-> "hit"]]
         \/ /\ ~IsLate(s) /\ co' = Closed(d)
            /\ task' = [task EXCEPT ![s] = [at |-> "over", verdict |-> "hit"]]
  BY DEF ReportLate
<1>2. co \in Coordinator /\ task \in [Surfaces -> Task] /\ co.block \in Blocks
  BY DEF Inv, TypeOK, Coordinator
<1>3. /\ task'[s] = [at |-> IF IsLate(s) THEN "late" ELSE "over", verdict |-> "hit"]
      /\ \A r \in Surfaces \ {s} : task'[r] = task[r]
  BY <1>1, <1>2
<1>4. /\ co.pending = Cardinality(Awaited) /\ co.pending > 0 /\ ~Crashed
      /\ Cardinality(Awaited)' = co.pending - 1
  BY <1>1, <1>2, <1>3, OneLessAwaited DEF Inv, PendingIsAwaited
<1>5. /\ d \in Coordinator /\ d.pending = co.pending - 1 /\ d.phase = co.phase /\ d.block = co.block
      /\ d.handled = co.handled /\ d.enqueued = co.enqueued /\ d.target = co.target
      /\ d.allDone = co.allDone /\ d.failedOpen = co.failedOpen
  BY <1>2, <1>4, LessPending DEF Inv, Coordinator
<1> HIDE DEF d
<1> DEFINE c == Closed(d)
<1>6. /\ c \in Coordinator /\ c.phase = co.phase /\ c.pending = co.pending - 1
      /\ c.block = co.block /\ c.handled = co.handled /\ c.enqueued = co.enqueued
      /\ c.target = co.target /\ c.failedOpen = co.failedOpen
      /\ c.allDone <=> (co.allDone \/ (co.pending - 1 = 0 /\ co.enqueued))
  BY <1>5, ClosedTypes
<1>7. co' = c \/ co' = [c EXCEPT !.handled = TRUE, !.block = DirectionOf(s)]
  BY <1>1
<1> HIDE DEF c
<1>8. /\ co' \in Coordinator /\ co'.phase = co.phase /\ co'.pending = co.pending - 1
      /\ co'.enqueued = co.enqueued /\ co'.target = co.target
      /\ co'.allDone <=> (co.allDone \/ (co.pending - 1 = 0 /\ co.enqueued))
  <2>1. DirectionOf(s) \in Blocks
    BY DirectionIsOne DEF Blocks
  <2> QED
    BY <1>6, <1>7, <2>1 DEF Coordinator
<1>9. /\ IsLate(s) => co'.handled = TRUE /\ co'.block = DirectionOf(s)
      /\ ~IsLate(s) => co'.handled = co.handled /\ co'.block = co.block
  BY <1>1, <1>6 DEF c, Coordinator
<1>10. TypeOK'
  <2>1. task' \in [Surfaces -> Task]
    BY <1>1, <1>2 DEF Task
  <2> QED
    BY <1>1, <1>8, <2>1 DEF Inv, TypeOK
<1>11. PendingIsAwaited' /\ DoneIsEnqueued'
  BY <1>4, <1>8 DEF Inv, PendingIsAwaited, DoneIsEnqueued, Crashed
<1>12. BarrierKnows' /\ RecoveryKnows'
  BY <1>1, <1>8 DEF Inv, BarrierKnows, RecoveryKnows, Settled
<1>13. PassedIsClean'
  BY <1>1, <1>8 DEF Inv, PassedIsClean
<1>14. HandledIsKept'
  <2>1. Settled /\ ~Crashed
    BY <1>1, <1>4
  <2>2. CASE IsLate(s)
    <3>1. co'.handled = TRUE /\ co'.block = DirectionOf(s) /\ task'[s].at = "late"
      BY <2>2, <1>3, <1>9
    <3>2. ASSUME NEW r \in Inputs, IsHit(r)' PROVE co'.block = "input"
      <4>1. CASE r = s
        BY <3>1, <3>2, <4>1 DEF DirectionOf
      <4>2. CASE r # s
        <5>1. co.handled /\ co.block = "input"
          BY <1>3, <2>1, <3>2, <4>2 DEF Inv, HandledIsKept, IsHit, Surfaces
        <5> QED
          BY <2>2, <5>1 DEF IsLate, Prefers
      <4> QED
        BY <4>1, <4>2
    <3>3. Kept'
      BY <3>1 DEF Kept
    <3>4. co'.block = "input" => InputKept'
      BY <3>1 DEF InputKept, DirectionOf
    <3>5. co'.target # "none"
      BY <1>8, <2>1 DEF Inv, HandledIsKept
    <3> QED
      BY <3>1, <3>2, <3>3, <3>4, <3>5 DEF HandledIsKept, Surfaces
  <2>3. CASE ~IsLate(s)
    <3>1. co'.handled = co.handled /\ co'.block = co.block /\ co.handled /\ (s \in Inputs => co.block = "input")
      BY <2>3, <1>9 DEF IsLate, Prefers, DirectionOf
    <3>2. /\ \A r \in Surfaces : task[r].at = "late" => task'[r].at = "late"
          /\ \A r \in Surfaces \ {s} : IsHit(r)' => IsHit(r)
      BY <1>1, <1>3 DEF IsHit
    <3>3. (Kept => Kept') /\ (InputKept => InputKept')
      BY <1>1, <1>8, <3>2 DEF Kept, InputKept, IsBlocked, Surfaces
    <3> QED
      BY <1>1, <1>8, <2>1, <3>1, <3>2, <3>3 DEF Inv, HandledIsKept, Surfaces
  <2> QED
    BY <2>2, <2>3
<1> QED
  BY <1>10, <1>11, <1>12, <1>13, <1>14 DEF Inv

\* A failing call is counted; a pending count of none says that none has failed.
LEMMA CallIsCounted ==
    ASSUME TypeOK, Ok \/ Fails
    PROVE  bad' \in 0 .. Failures /\ (bad' = 0 => bad = 0 /\ Ok)
  BY BoundAssumption DEF Ok, Fails, TypeOK

\* What the steps of a late hit have in common.
LEMMA LateStep ==
    ASSUME Inv, NEW s \in Surfaces, task[s].at \in {"late", "unmarked", "unsaid"},
           NEW to \in {"unmarked", "unsaid", "over"}, task' = [task EXCEPT ![s].at = to]
    PROVE  /\ Settled /\ ~Crashed /\ co.target # "passed"
           /\ task' \in [Surfaces -> Task] /\ Awaited' = Awaited
           /\ \A r \in Surfaces : task'[r].verdict = task[r].verdict
           /\ \A r \in Surfaces \ {s} : task'[r] = task[r]
<1>1. task \in [Surfaces -> Task]
  BY DEF Inv, TypeOK
<1>2. Settled /\ ~Crashed /\ co.target # "passed"
  BY DEF Inv, BarrierKnows, PendingIsAwaited, PassedIsClean
<1>3. task' \in [Surfaces -> Task]
  BY <1>1 DEF Task
<1>4. /\ task'[s].at = to /\ \A r \in Surfaces : task'[r].verdict = task[r].verdict
      /\ \A r \in Surfaces \ {s} : task'[r] = task[r]
  BY <1>1 DEF Task
<1>5. Awaited' = Awaited
  BY <1>4 DEF Awaited
<1> QED
  BY <1>2, <1>3, <1>4, <1>5

\* What is left to show of a step of a late hit that leaves the coordinator's account alone.
LEMMA LateKeeps ==
    ASSUME Inv, NEW s \in Surfaces, task[s].at \in {"late", "unmarked", "unsaid"},
           NEW to \in {"unmarked", "unsaid", "over"}, task' = [task EXCEPT ![s].at = to],
           UNCHANGED rec, co' \in Coordinator, co'.phase = co.phase, co'.pending = co.pending,
           co'.allDone = co.allDone, co'.enqueued = co.enqueued, co'.block = co.block,
           co'.handled = co.handled, co'.target = co.target,
           db' \in Rows, held' \in [Servers -> Blocks], Ok \/ Fails,
           db'.content => db.content, db'.content /\ Kept => Kept',
           bad' = 0 /\ co'.phase \in Early /\ InputKept => InputKept'
    PROVE  Inv'
<1>1. /\ Settled /\ ~Crashed /\ co.target # "passed"
      /\ task' \in [Surfaces -> Task] /\ Awaited' = Awaited
      /\ \A r \in Surfaces : task'[r].verdict = task[r].verdict
  BY LateStep
<1>2. bad' \in 0 .. Failures /\ (bad' = 0 => bad = 0)
  BY CallIsCounted DEF Inv
<1>3. TypeOK'
  BY <1>1, <1>2 DEF Inv, TypeOK
<1>4. PendingIsAwaited' /\ DoneIsEnqueued' /\ BarrierKnows'
  BY <1>1 DEF Inv, PendingIsAwaited, DoneIsEnqueued, BarrierKnows, Settled, Crashed
<1>5. HandledIsKept'
  BY <1>1, <1>2, HandledFrame DEF Inv, Settled, Crashed, IsHit
<1>6. RecoveryKnows' /\ PassedIsClean'
  BY <1>1 DEF Inv, RecoveryKnows, PassedIsClean
<1> QED
  BY <1>3, <1>4, <1>5, <1>6 DEF Inv

\* The late hit withdraws the answer, or is kept for the recovery loop.
LEMMA LateApplyKeeps ==
    ASSUME Inv, NEW s \in Surfaces, LateApply(s)
    PROVE  Inv'
<1>1. PICK to \in {"unmarked", "unsaid"} : task' = [task EXCEPT ![s].at = to]
  BY DEF LateApply
<1>2. /\ task[s].at = "late" /\ UNCHANGED <<co, rec>> /\ (Ok \/ Fails)
      /\ \/ Ok /\ db' = Withdrawn(DirectionOf(s)) /\ held' = [held EXCEPT ![Home] = "none"]
         \/ Fails /\ held' = [held EXCEPT ![Home] = DirectionOf(s)] /\ UNCHANGED db
  BY DEF LateApply
<1>3. db \in Rows /\ held \in [Servers -> Blocks] /\ co \in Coordinator /\ Home \in Servers
  BY HomeAssumption DEF Inv, TypeOK
<1>4. DirectionOf(s) \in Directions
  BY DirectionIsOne
<1>5. db' \in Rows /\ held' \in [Servers -> Blocks]
  BY <1>2, <1>3, <1>4, RowTypes DEF Blocks
<1>6. \/ /\ db'.content = FALSE
         /\ db'.user = IF s \in Inputs THEN "blocked" ELSE db.user
      \/ Fails /\ UNCHANGED db /\ held'[Home] # "none"
  <2>1. CASE db' = Withdrawn(DirectionOf(s))
    BY <1>3, <2>1 DEF Withdrawn, Rows, DirectionOf
  <2>2. CASE Fails /\ held' = [held EXCEPT ![Home] = DirectionOf(s)] /\ UNCHANGED db
    BY <1>3, <1>4, <2>2 DEF Directions
  <2> QED
    BY <1>2, <2>1, <2>2
<1>7. (db'.content => db.content) /\ (db'.content => Kept')
  BY <1>6 DEF Kept
<1>8. ASSUME bad' = 0, InputKept PROVE InputKept'
  <2>1. ~Fails
    BY <1>8, BoundAssumption DEF Fails, Inv, TypeOK
  <2>2. /\ db'.user = IF s \in Inputs THEN "blocked" ELSE db.user
        /\ \A r \in Surfaces \ {s} : task'[r] = task[r]
    BY <1>1, <1>2, <1>6, <2>1, LateStep
  <2> QED
    BY <1>2, <1>8, <2>2 DEF InputKept, Surfaces
<1> QED
  BY <1>1, <1>2, <1>3, <1>5, <1>6, <1>7, <1>8, LateKeeps

\* A withdrawal that failed is marked for a restart.
LEMMA LateMarkKeeps ==
    ASSUME Inv, NEW s \in Surfaces, LateMark(s)
    PROVE  Inv'
<1>1. /\ task[s].at = "unmarked" /\ task' = [task EXCEPT ![s].at = "unsaid"]
      /\ UNCHANGED <<co, held, rec>> /\ (Ok \/ Fails) /\ (db' = MarkedAs("moderating") \/ UNCHANGED db)
  BY DEF LateMark
<1>2. db \in Rows /\ held \in [Servers -> Blocks] /\ co \in Coordinator
  BY DEF Inv, TypeOK
<1>3. db' \in Rows /\ db'.content = db.content /\ db'.user = db.user
  BY <1>1, <1>2, RowTypes DEF States
<1>4. \A r \in Surfaces \ {s} : task'[r] = task[r]
  BY <1>1, LateStep
<1>5. (Kept => Kept') /\ (InputKept => InputKept')
  BY <1>1, <1>3, <1>4 DEF Kept, InputKept, IsBlocked, Surfaces
<1> QED
  BY <1>1, <1>2, <1>3, <1>5, LateKeeps

\* Whoever watches is told.
LEMMA LateNotifyKeeps ==
    ASSUME Inv, NEW s \in Surfaces, LateNotify(s)
    PROVE  Inv'
<1>1. /\ task[s].at = "unsaid" /\ task' = [task EXCEPT ![s].at = "over"]
      /\ co' = [co EXCEPT !.told = @ \cup {DirectionOf(s)}]
      /\ UNCHANGED <<db, held, rec, bad>>
  BY DEF LateNotify
<1>2. db \in Rows /\ held \in [Servers -> Blocks] /\ co \in Coordinator
  BY DEF Inv, TypeOK
<1>3. /\ co' \in Coordinator /\ co'.phase = co.phase /\ co'.pending = co.pending
      /\ co'.allDone = co.allDone /\ co'.enqueued = co.enqueued /\ co'.block = co.block
      /\ co'.handled = co.handled /\ co'.target = co.target
  BY <1>1, <1>2, DirectionIsOne DEF Coordinator
<1>4. \A r \in Surfaces \ {s} : task'[r] = task[r]
  BY <1>1, LateStep
<1>5. (Kept => Kept') /\ (InputKept => InputKept')
  BY <1>1, <1>3, <1>4 DEF Kept, InputKept, IsBlocked, Surfaces
<1>6. Ok /\ db' \in Rows /\ held' \in [Servers -> Blocks] /\ UNCHANGED rec
      /\ (db'.content => db.content)
  BY <1>1, <1>2 DEF Ok
<1> QED
  BY <1>1, <1>3, <1>5, <1>6, LateKeeps

\* No step of a check drops a hit.
LEMMA CheckKeeps ==
    ASSUME Inv, NEW s \in Surfaces, Check(s)
    PROVE  Inv'
  BY VerdictKeeps, HitKeeps, ReportInTimeKeeps, ReportLateKeeps, LateApplyKeeps, LateMarkKeeps,
     LateNotifyKeeps DEF Check

-----------------------------------------------------------------------------
(***************************************************************************)
(* The request and the recovery loops.                                     *)
(***************************************************************************)

Open == {"generating", "ended", "enqueueing"}

\* A step that leaves the surfaces and the coordinator's account of them alone.
LEMMA QuietKeeps ==
    ASSUME Inv, UNCHANGED task, co' \in Coordinator,
           co'.pending = co.pending, co'.allDone = co.allDone, co'.enqueued = co.enqueued,
           co'.block = co.block, co'.failedOpen = co.failedOpen, co'.handled = co.handled,
           co'.target = co.target, Crashed' <=> Crashed, Settled' <=> Settled,
           co'.phase = "expired" => co.phase = "expired", co'.phase \in Open => co.phase \in Open,
           co'.phase \in Early => co.phase \in Early,
           db' \in Rows, held' \in [Servers -> Blocks], rec' \in [Servers -> Recovery], Ok \/ Fails,
           Settled => /\ db'.content => db.content
                      /\ db'.content /\ Kept => Kept'
                      /\ bad' = 0 /\ co'.phase \in Early /\ InputKept => InputKept',
           RecoveryKnows'
    PROVE  Inv'
<1>1. bad' \in 0 .. Failures /\ (bad' = 0 => bad = 0)
  BY CallIsCounted DEF Inv
<1>2. TypeOK'
  BY <1>1 DEF Inv, TypeOK
<1>3. PendingIsAwaited' /\ DoneIsEnqueued'
  BY DEF Inv, PendingIsAwaited, DoneIsEnqueued, Awaited, Open
<1>4. BarrierKnows'
  BY DEF Inv, BarrierKnows, IsHit
<1>5. HandledIsKept'
  <2>1. CASE Settled
    BY <1>1, <2>1, HandledFrame DEF Inv, IsHit
  <2>2. CASE ~Settled
    BY <2>2 DEF HandledIsKept
  <2> QED
    BY <2>1, <2>2
<1>6. PassedIsClean'
  BY DEF Inv, PassedIsClean
<1> QED
  BY <1>2, <1>3, <1>4, <1>5, <1>6 DEF Inv

\* The answer is saved while the barrier is still to come.
LEMMA GeneratedKeeps ==
    ASSUME Inv, Generated
    PROVE  Inv'
<1>1. PICK outcome \in Outcomes, saved \in BOOLEAN :
        /\ co' = [co EXCEPT !.phase = "ended", !.outcome = outcome, !.retained = saved]
        /\ outcome = "error" => ~saved
        /\ db' = IF ~saved THEN db
                 ELSE [db EXCEPT !.content = TRUE, !.assistant = outcome,
                                 !.user = IF outcome = "success" THEN @ ELSE "success"]
  BY DEF Generated
<1>2. co.phase = "generating" /\ UNCHANGED <<task, held, rec>> /\ Ok
  BY DEF Generated, Ok
<1>3. db \in Rows /\ co \in Coordinator
  BY DEF Inv, TypeOK
<1>4. /\ co' \in Coordinator /\ co'.phase = "ended" /\ co'.pending = co.pending
      /\ co'.allDone = co.allDone /\ co'.enqueued = co.enqueued /\ co'.block = co.block
      /\ co'.failedOpen = co.failedOpen /\ co'.handled = co.handled /\ co'.target = co.target
  BY <1>1, <1>3 DEF Coordinator, Phases
<1>5. db' \in Rows
  BY <1>1, <1>3 DEF Rows
<1>6. /\ ~Settled /\ ~Settled' /\ ~Crashed /\ ~Crashed' /\ co'.phase \notin Early
      /\ co'.phase \in Open /\ co.phase \in Open
  BY <1>2, <1>4 DEF Settled, Unsettled, Crashed, Early, Open
<1>7. RecoveryKnows'
  BY <1>2 DEF Inv, RecoveryKnows, Released
<1>8. held' \in [Servers -> Blocks] /\ rec' \in [Servers -> Recovery]
  BY <1>2 DEF Inv, TypeOK
<1> QED
  BY <1>2, <1>4, <1>5, <1>6, <1>7, <1>8, QuietKeeps

\* The outputs are about to be enqueued.
LEMMA StartOutputsKeeps ==
    ASSUME Inv, StartOutputs
    PROVE  Inv'
<1>1. /\ co.phase = "ended" /\ co' = [co EXCEPT !.phase = "enqueueing"]
      /\ UNCHANGED <<task, held, rec>> /\ (Ok \/ Fails) /\ (db' = MarkedAs("moderating") \/ UNCHANGED db)
  BY DEF StartOutputs, Moves
<1>2. db \in Rows /\ co \in Coordinator
  BY DEF Inv, TypeOK
<1>3. /\ co' \in Coordinator /\ co'.phase = "enqueueing" /\ co'.pending = co.pending
      /\ co'.allDone = co.allDone /\ co'.enqueued = co.enqueued /\ co'.block = co.block
      /\ co'.failedOpen = co.failedOpen /\ co'.handled = co.handled /\ co'.target = co.target
  BY <1>1, <1>2 DEF Coordinator, Phases
<1>4. db' \in Rows
  BY <1>1, <1>2, RowTypes DEF States
<1>5. /\ ~Settled /\ ~Settled' /\ ~Crashed /\ ~Crashed' /\ co'.phase \notin Early
      /\ co'.phase \in Open /\ co.phase \in Open
  BY <1>1, <1>3 DEF Settled, Unsettled, Crashed, Early, Open
<1>6. RecoveryKnows'
  BY <1>1 DEF Inv, RecoveryKnows, Released
<1>7. held' \in [Servers -> Blocks] /\ rec' \in [Servers -> Recovery]
  BY <1>1 DEF Inv, TypeOK
<1> QED
  BY <1>1, <1>3, <1>4, <1>5, <1>6, <1>7, QuietKeeps

\* A surface of the answer is awaited, or opens the barrier.
LEMMA AdmitKeeps ==
    ASSUME Inv, NEW s \in Outputs, Admit(s)
    PROVE  Inv'
<1>1. /\ co.phase = "enqueueing" /\ task[s].at = "none" /\ s \in Surfaces
      /\ UNCHANGED <<db, held, rec, bad>>
  BY DEF Admit, Surfaces
<1>2. co \in Coordinator /\ task \in [Surfaces -> Task]
  BY DEF Inv, TypeOK
<1>3. /\ ~Settled /\ ~Crashed
  BY <1>1 DEF Settled, Unsettled, Crashed
<1>4. co.pending = Cardinality(Awaited)
  BY <1>3 DEF Inv, PendingIsAwaited
<1>5. co.phase \notin Released /\ ~co.enqueued /\ ~co.allDone /\ co.target = "none"
  BY <1>1, <1>3 DEF Inv, DoneIsEnqueued, BarrierKnows, Released
<1>6. CASE co' = [co EXCEPT !.pending = @ + 1] /\ task' = [task EXCEPT ![s].at = "queued"]
  <2>1. /\ task' \in [Surfaces -> Task] /\ task'[s].at = "queued" /\ task'[s].verdict = task[s].verdict
        /\ \A r \in Surfaces \ {s} : task'[r] = task[r]
    BY <1>1, <1>2, <1>6 DEF Task
  <2>2. Cardinality(Awaited') = co.pending + 1 /\ co.pending + 1 \in 0 .. Cardinality(Surfaces)
    <3>1. Awaited' = Awaited \cup {s} /\ s \notin Awaited /\ Awaited' \subseteq Surfaces
      BY <1>1, <2>1 DEF Awaited
    <3>2. Cardinality(Awaited') = Cardinality(Awaited) + 1
      BY <3>1, AwaitedAreCounted, FS_AddElement
    <3>3. Cardinality(Awaited') \in 0 .. Cardinality(Surfaces)
      BY <3>1, SurfacesAreFinite, FS_Subset, FS_CardinalityType
    <3> QED
      BY <1>4, <3>2, <3>3
  <2>3. /\ co' \in Coordinator /\ co'.phase = co.phase /\ co'.pending = co.pending + 1
        /\ co'.allDone = co.allDone /\ co'.enqueued = co.enqueued /\ co'.block = co.block
        /\ co'.failedOpen = co.failedOpen /\ co'.handled = co.handled /\ co'.target = co.target
    BY <1>2, <1>6, <2>2 DEF Coordinator
  <2>4. TypeOK'
    BY <1>1, <2>1, <2>3 DEF Inv, TypeOK
  <2>5. PendingIsAwaited' /\ DoneIsEnqueued'
    BY <1>3, <1>5, <2>2, <2>3 DEF Inv, PendingIsAwaited, DoneIsEnqueued, Crashed
  <2>6. BarrierKnows'
    BY <1>1, <2>1, <2>3 DEF Inv, BarrierKnows, Settled, IsHit
  <2>7. HandledIsKept' /\ RecoveryKnows' /\ PassedIsClean'
    BY <1>1, <1>3, <1>5, <2>3 DEF Inv, HandledIsKept, RecoveryKnows, PassedIsClean, Settled
  <2> QED
    BY <2>4, <2>5, <2>6, <2>7 DEF Inv
<1>7. CASE /\ co' = [co EXCEPT !.failedOpen = TRUE]
           /\ task' = [task EXCEPT ![s] = [at |-> "over", verdict |-> "fail"]]
  <2>1. /\ task' \in [Surfaces -> Task] /\ task'[s] = [at |-> "over", verdict |-> "fail"]
        /\ \A r \in Surfaces \ {s} : task'[r] = task[r]
    BY <1>1, <1>2, <1>7 DEF Task
  <2>2. Awaited' = Awaited
    BY <1>1, <2>1 DEF Awaited
  <2>3. /\ co' \in Coordinator /\ co'.phase = co.phase /\ co'.pending = co.pending
        /\ co'.allDone = co.allDone /\ co'.enqueued = co.enqueued /\ co'.block = co.block
        /\ co'.failedOpen = TRUE /\ co'.handled = co.handled /\ co'.target = co.target
    BY <1>2, <1>7 DEF Coordinator
  <2>4. TypeOK'
    BY <1>1, <2>1, <2>3 DEF Inv, TypeOK
  <2>5. PendingIsAwaited' /\ DoneIsEnqueued'
    BY <1>3, <1>5, <2>2, <2>3 DEF Inv, PendingIsAwaited, DoneIsEnqueued, Crashed
  <2>6. BarrierKnows'
    BY <1>1, <2>1, <2>3 DEF Inv, BarrierKnows, Settled, IsHit
  <2>7. HandledIsKept' /\ RecoveryKnows' /\ PassedIsClean'
    BY <1>1, <1>3, <1>5, <2>3 DEF Inv, HandledIsKept, RecoveryKnows, PassedIsClean, Settled
  <2> QED
    BY <2>4, <2>5, <2>6, <2>7 DEF Inv
<1> QED
  BY <1>6, <1>7 DEF Admit

\* All surfaces are enqueued: from here on the barrier may be done.
LEMMA StartWaitingKeeps ==
    ASSUME Inv, StartWaiting
    PROVE  Inv'
<1> DEFINE d == [co EXCEPT !.phase = "waiting", !.enqueued = TRUE]
<1>1. co.phase \in {"enqueueing", "ended"} /\ co' = Closed(d) /\ UNCHANGED <<db, task, held, rec, bad>>
  BY DEF StartWaiting
<1>2. co \in Coordinator
  BY DEF Inv, TypeOK
<1>3. /\ d \in Coordinator /\ d.phase = "waiting" /\ d.pending = co.pending /\ d.enqueued = TRUE
      /\ d.allDone = co.allDone /\ d.block = co.block /\ d.failedOpen = co.failedOpen
      /\ d.handled = co.handled /\ d.target = co.target
  BY <1>2 DEF Coordinator, Phases
<1> HIDE DEF d
<1>4. /\ co' \in Coordinator /\ co'.phase = "waiting" /\ co'.pending = co.pending /\ co'.enqueued = TRUE
      /\ co'.block = co.block /\ co'.failedOpen = co.failedOpen
      /\ co'.handled = co.handled /\ co'.target = co.target
      /\ co'.allDone <=> (co.allDone \/ (co.pending = 0 /\ TRUE))
  BY <1>1, <1>3, ClosedTypes
<1>5. /\ ~Settled /\ ~Settled' /\ ~Crashed /\ ~Crashed' /\ co.phase \notin Released
  BY <1>1, <1>4 DEF Settled, Unsettled, Crashed, Released
<1>6. TypeOK'
  BY <1>1, <1>4 DEF Inv, TypeOK
<1>7. PendingIsAwaited' /\ DoneIsEnqueued'
  BY <1>1, <1>4, <1>5 DEF Inv, PendingIsAwaited, DoneIsEnqueued, Awaited
<1>8. BarrierKnows'
  BY <1>1, <1>4, <1>5 DEF Inv, BarrierKnows, IsHit
<1>9. HandledIsKept' /\ RecoveryKnows' /\ PassedIsClean'
  BY <1>1, <1>4, <1>5 DEF Inv, HandledIsKept, RecoveryKnows, PassedIsClean
<1> QED
  BY <1>6, <1>7, <1>8, <1>9 DEF Inv

\* The wait that times out counts as a failure, unless a hit is known.
LEMMA ExpireKeeps ==
    ASSUME Inv, Expire
    PROVE  Inv'
<1>1. /\ co.phase = "waiting" /\ UNCHANGED <<db, task, held, rec, bad>>
      /\ co' = [co EXCEPT !.phase = "expired", !.failedOpen = @ \/ co.block = "none"]
  BY DEF Expire
<1>2. co \in Coordinator
  BY DEF Inv, TypeOK
<1> DEFINE failed == co.failedOpen \/ co.block = "none"
<1>3. failed \in BOOLEAN /\ co' = [co EXCEPT !.phase = "expired", !.failedOpen = failed]
  BY <1>1
<1>4. /\ co.failedOpen => failed
      /\ co.block = "none" => failed
  OBVIOUS
<1> HIDE DEF failed
<1>5. /\ co' \in Coordinator /\ co'.phase = "expired" /\ co'.pending = co.pending /\ co'.failedOpen = failed
      /\ co'.block = co.block /\ co'.enqueued = co.enqueued /\ co'.allDone = co.allDone
      /\ co'.handled = co.handled /\ co'.target = co.target
  BY <1>2, <1>3 DEF Coordinator, Phases
<1>6. /\ ~Settled /\ ~Settled' /\ ~Crashed /\ ~Crashed' /\ co.phase \notin Released
  BY <1>1, <1>5 DEF Settled, Unsettled, Crashed, Released
<1>7. TypeOK'
  BY <1>1, <1>5 DEF Inv, TypeOK
<1>8. PendingIsAwaited' /\ DoneIsEnqueued'
  BY <1>1, <1>5, <1>6 DEF Inv, PendingIsAwaited, DoneIsEnqueued, Awaited
<1>9. BarrierKnows'
  BY <1>1, <1>4, <1>5, <1>6 DEF Inv, BarrierKnows, IsHit
<1>10. HandledIsKept' /\ RecoveryKnows' /\ PassedIsClean'
  BY <1>1, <1>5, <1>6 DEF Inv, HandledIsKept, RecoveryKnows, PassedIsClean
<1> QED
  BY <1>7, <1>8, <1>9, <1>10 DEF Inv

\* The verdict: passed only if every surface is heard of, and no hit and no failure is known.
LEMMA SettleKeeps ==
    ASSUME Inv, Settle
    PROVE  Inv'
<1> DEFINE target == IF co.block # "none" THEN co.block
                     ELSE IF co.failedOpen THEN "failed_open" ELSE "passed"
           handled == co.block # "none"
<1>1. /\ co.phase = "expired" \/ (co.phase = "waiting" /\ co.allDone)
      /\ co' = [co EXCEPT !.phase = "settled", !.handled = handled, !.target = target]
      /\ UNCHANGED <<db, task, held, rec, bad>>
  BY DEF Settle
<1>2. co \in Coordinator /\ task \in [Surfaces -> Task]
  BY DEF Inv, TypeOK
<1>3. /\ handled \in BOOLEAN /\ target \in Targets /\ target # "none"
      /\ co.block # "none" => target = co.block /\ target \in Directions
      /\ target = "passed" => co.block = "none" /\ ~co.failedOpen
      /\ handled <=> co.block # "none"
  BY <1>2 DEF Coordinator, Blocks, Targets, Directions
<1> HIDE DEF target, handled
<1>4. /\ co' \in Coordinator /\ co'.phase = "settled" /\ co'.pending = co.pending
      /\ co'.failedOpen = co.failedOpen /\ co'.block = co.block /\ co'.enqueued = co.enqueued
      /\ co'.allDone = co.allDone /\ co'.handled = handled /\ co'.target = target
  BY <1>1, <1>2, <1>3 DEF Coordinator, Phases
<1>5. /\ ~Settled /\ Settled' /\ ~Crashed /\ ~Crashed' /\ co.phase \notin Released
  BY <1>1, <1>4 DEF Settled, Unsettled, Crashed, Released
<1>6. TypeOK'
  BY <1>1, <1>4 DEF Inv, TypeOK
<1>7. PendingIsAwaited' /\ DoneIsEnqueued'
  BY <1>1, <1>4, <1>5 DEF Inv, PendingIsAwaited, DoneIsEnqueued, Awaited
<1>8. BarrierKnows' /\ RecoveryKnows'
  BY <1>1, <1>5 DEF Inv, BarrierKnows, RecoveryKnows
<1>9. HandledIsKept'
  <2>1. co.block # "none" => Kept'
    BY <1>3, <1>4 DEF Kept, IsBlocked
  <2>2. co.block = "input" => InputKept'
    BY <1>3, <1>4 DEF InputKept
  <2>3. \A s \in Surfaces : IsHit(s)' => co.block # "none" /\ (s \in Inputs => co.block = "input")
    BY <1>1, <1>5 DEF Inv, BarrierKnows, IsHit
  <2> QED
    BY <1>3, <1>4, <2>1, <2>2, <2>3 DEF HandledIsKept
<1>10. PassedIsClean'
  <2> SUFFICES ASSUME target = "passed", NEW s \in Surfaces
               PROVE  task[s].at \in {"none", "over"} /\ task[s].verdict \in {"none", "pass"}
    BY <1>1, <1>4 DEF PassedIsClean
  <2>1. co.phase = "waiting" /\ co.allDone
    BY <1>1, <1>3, <1>5 DEF Inv, BarrierKnows
  <2>2. s \notin Awaited
    <3>1. Cardinality(Awaited) = 0
      BY <1>5, <2>1 DEF Inv, PendingIsAwaited, DoneIsEnqueued
    <3> QED
      BY <3>1, AwaitedAreCounted, FS_EmptySet
  <2>3. task[s].verdict # "fail" /\ ~IsHit(s) /\ task[s].at \notin {"late", "unmarked", "unsaid"}
    BY <1>3, <1>5 DEF Inv, BarrierKnows
  <2>4. task[s] \in Task
    BY <1>2
  <2> QED
    BY <2>2, <2>3, <2>4 DEF Awaited, IsHit, Task
<1> QED
  BY <1>6, <1>7, <1>8, <1>9, <1>10 DEF Inv

\* A step of the request after the barrier moves on to the next phase.
LEMMA PhaseStep ==
    ASSUME Inv, NEW to \in {"answered", "finished", "userDone", "assistantDone", "over"},
           co.phase \in {"settled", "answered", "finished", "userDone", "assistantDone"},
           NEW told \in SUBSET Directions, co' = [co EXCEPT !.phase = to, !.told = told],
           to \in Early \/ co.phase \notin {"settled", "answered"}
    PROVE  /\ co' \in Coordinator /\ co'.phase = to /\ co'.pending = co.pending
           /\ co'.allDone = co.allDone /\ co'.enqueued = co.enqueued /\ co'.block = co.block
           /\ co'.failedOpen = co.failedOpen /\ co'.handled = co.handled /\ co'.target = co.target
           /\ Settled /\ Settled' /\ ~Crashed /\ ~Crashed' /\ co'.phase \notin Open \cup {"expired"}
<1>1. co \in Coordinator
  BY DEF Inv, TypeOK
<1>2. /\ co' \in Coordinator /\ co'.phase = to /\ co'.pending = co.pending
      /\ co'.allDone = co.allDone /\ co'.enqueued = co.enqueued /\ co'.block = co.block
      /\ co'.failedOpen = co.failedOpen /\ co'.handled = co.handled /\ co'.target = co.target
  BY <1>1 DEF Coordinator, Phases
<1> QED
  BY <1>2 DEF Settled, Unsettled, Crashed, Open

\* Without a word to anybody.
LEMMA MovesOn ==
    ASSUME Inv, NEW to, Moves(to)
    PROVE  co.told \in SUBSET Directions /\ co' = [co EXCEPT !.phase = to, !.told = co.told]
<1>1. co \in Coordinator
  BY DEF Inv, TypeOK
<1> QED
  BY <1>1 DEF Moves, Coordinator

\* The block is applied, or kept for the recovery loop.
LEMMA BlockNowKeeps ==
    ASSUME Inv, BlockNow
    PROVE  Inv'
<1>1. /\ co.phase = "settled" /\ co.target \in Directions /\ Moves("answered")
      /\ UNCHANGED <<task, rec>> /\ (Ok \/ Fails)
      /\ \/ Ok /\ db' = Withdrawn(co.target) /\ held' = [held EXCEPT ![Home] = "none"]
         \/ Fails /\ held' = [held EXCEPT ![Home] = co.target] /\ UNCHANGED db
  BY DEF BlockNow, IsBlocked
<1>2. /\ co' \in Coordinator /\ co'.phase = "answered" /\ co'.pending = co.pending
      /\ co'.allDone = co.allDone /\ co'.enqueued = co.enqueued /\ co'.block = co.block
      /\ co'.failedOpen = co.failedOpen /\ co'.handled = co.handled /\ co'.target = co.target
      /\ Settled /\ Settled' /\ ~Crashed /\ ~Crashed' /\ co'.phase \notin Open \cup {"expired"}
  BY <1>1, MovesOn, PhaseStep DEF Early
<1>3. db \in Rows /\ held \in [Servers -> Blocks] /\ rec \in [Servers -> Recovery] /\ Home \in Servers
  BY HomeAssumption DEF Inv, TypeOK
<1>4. db' \in Rows /\ held' \in [Servers -> Blocks] /\ rec' \in [Servers -> Recovery]
  BY <1>1, <1>3, RowTypes DEF Blocks
<1>5. \/ db'.content = FALSE /\ db'.user = IF co.target = "input" THEN "blocked" ELSE db.user
      \/ Fails /\ UNCHANGED db /\ held'[Home] # "none"
  <2>1. CASE db' = Withdrawn(co.target)
    BY <1>1, <1>3, <2>1, RowTypes
  <2>2. CASE Fails /\ held' = [held EXCEPT ![Home] = co.target] /\ UNCHANGED db
    BY <1>1, <1>3, <2>2 DEF Directions
  <2> QED
    BY <1>1, <2>1, <2>2
<1>6. (db'.content => db.content) /\ (db'.content => Kept')
  BY <1>5 DEF Kept
<1>7. ASSUME bad' = 0, InputKept PROVE InputKept'
  <2>1. ~Fails
    BY <1>7, BoundAssumption DEF Fails, Inv, TypeOK
  <2>2. db'.user = IF co.target = "input" THEN "blocked" ELSE db.user
    BY <1>5, <2>1
  <2> QED
    BY <1>1, <1>7, <2>2 DEF InputKept
<1>8. RecoveryKnows' /\ co.phase \in Early
  BY <1>1 DEF Inv, RecoveryKnows, Released, Early
<1> QED
  BY <1>1, <1>2, <1>4, <1>6, <1>7, <1>8, QuietKeeps

\* What the request writes after the barrier without a block of its own.
LEMMA AfterBarrierKeeps ==
    ASSUME Inv, NEW to \in {"answered", "finished", "userDone", "assistantDone", "over"},
           co.phase \in {"settled", "answered", "finished", "userDone", "assistantDone"},
           NEW told \in SUBSET Directions, co' = [co EXCEPT !.phase = to, !.told = told],
           to \in Early \/ co.phase \notin {"settled", "answered"},
           ~IsBlocked \/ co.phase # "settled",
           to \in Released \/ co.phase \notin Released,
           db' \in Rows, UNCHANGED <<task, held, rec>>, Ok \/ Fails,
           db'.content = db.content, to \in Early => db'.user = db.user,
           to \in Early => co.phase \in Early
    PROVE  Inv'
<1>1. /\ co' \in Coordinator /\ co'.phase = to /\ co'.pending = co.pending
      /\ co'.allDone = co.allDone /\ co'.enqueued = co.enqueued /\ co'.block = co.block
      /\ co'.failedOpen = co.failedOpen /\ co'.handled = co.handled /\ co'.target = co.target
      /\ Settled /\ Settled' /\ ~Crashed /\ ~Crashed' /\ co'.phase \notin Open \cup {"expired"}
  BY PhaseStep
<1>2. Kept => Kept'
  BY <1>1 DEF Kept
<1>3. to \in Early /\ InputKept => InputKept'
  BY <1>1 DEF InputKept, IsBlocked, Directions
<1>4. RecoveryKnows'
  BY <1>1 DEF Inv, RecoveryKnows
<1>5. held' \in [Servers -> Blocks] /\ rec' \in [Servers -> Recovery]
  BY DEF Inv, TypeOK
<1> QED
  BY <1>1, <1>2, <1>3, <1>4, <1>5, QuietKeeps

LEMMA RecordTargetKeeps ==
    ASSUME Inv, RecordTarget
    PROVE  Inv'
<1>1. /\ co.phase = "settled" /\ ~IsBlocked /\ Moves("answered") /\ UNCHANGED <<task, held, rec>>
      /\ (Ok \/ Fails) /\ (db' = MarkedAs(co.target) \/ UNCHANGED db)
  BY DEF RecordTarget
<1>2. db \in Rows /\ co \in Coordinator
  BY DEF Inv, TypeOK
<1>3. co.target \in States
  <2>1. co.target # "none"
    BY <1>1 DEF Inv, HandledIsKept, Settled, Unsettled, Crashed
  <2> QED
    BY <1>1, <1>2, <2>1 DEF IsBlocked, Coordinator, Targets, States
<1>4. db' \in Rows /\ db'.content = db.content /\ db'.user = db.user
  BY <1>1, <1>2, <1>3, RowTypes
<1> QED
  BY <1>1, <1>4, MovesOn, AfterBarrierKeeps DEF Early, Released

LEMMA FinishKeeps ==
    ASSUME Inv, Finish
    PROVE  Inv'
<1> DEFINE told == IF IsBlocked THEN co.told \cup {co.target} ELSE co.told
<1>1. /\ co.phase = "answered" /\ co' = [co EXCEPT !.phase = "finished", !.told = told]
      /\ UNCHANGED <<db, task, held, rec>> /\ Ok
  BY DEF Finish, Ok
<1>2. db \in Rows /\ co \in Coordinator
  BY DEF Inv, TypeOK
<1>3. told \in SUBSET Directions
  BY <1>2 DEF IsBlocked, Coordinator
<1> HIDE DEF told
<1> QED
  BY <1>1, <1>2, <1>3, AfterBarrierKeeps DEF Early, Released

LEMMA FinalizeUserKeeps ==
    ASSUME Inv, FinalizeUser
    PROVE  Inv'
<1>1. /\ co.phase = "finished" /\ Moves("userDone") /\ UNCHANGED <<task, held, rec>> /\ (Ok \/ Fails)
      /\ UNCHANGED db \/ db' = [db EXCEPT !.user = IF co.outcome = "error" THEN "error" ELSE "success"]
  BY DEF FinalizeUser, Finalizes
<1>2. db \in Rows
  BY DEF Inv, TypeOK
<1>3. db' \in Rows /\ db'.content = db.content
  BY <1>1, <1>2 DEF Rows
<1> QED
  BY <1>1, <1>3, MovesOn, AfterBarrierKeeps DEF Early, Released

LEMMA FinalizeAssistantKeeps ==
    ASSUME Inv, FinalizeAssistant
    PROVE  Inv'
<1>1. /\ co.phase = "userDone" /\ Moves("assistantDone") /\ UNCHANGED <<task, held, rec>> /\ (Ok \/ Fails)
      /\ UNCHANGED db \/ db' = [db EXCEPT !.assistant = co.outcome]
  BY DEF FinalizeAssistant, Finalizes
<1>2. db \in Rows /\ co.outcome \in Outcomes
  BY DEF Inv, TypeOK, Coordinator
<1>3. db' \in Rows /\ db'.content = db.content
  BY <1>1, <1>2 DEF Rows
<1> QED
  BY <1>1, <1>3, MovesOn, AfterBarrierKeeps DEF Early, Released

LEMMA FinalizeRunKeeps ==
    ASSUME Inv, FinalizeRun
    PROVE  Inv'
<1> DEFINE status == IF IsBlocked THEN "blocked" ELSE co.outcome
           state == IF IsBlocked THEN "blocked" ELSE co.target
<1>1. /\ co.phase = "assistantDone" /\ Moves("over") /\ UNCHANGED <<task, held, rec>> /\ (Ok \/ Fails)
      /\ UNCHANGED db \/ db' = [db EXCEPT !.stale = FALSE, !.status = status, !.state = state]
  BY DEF FinalizeRun, Finalizes
<1>2. db \in Rows /\ co \in Coordinator
  BY DEF Inv, TypeOK
<1>3. status \in Outcomes \cup {"running", "blocked"} /\ state \in States
  <2>1. co.target # "none"
    BY <1>1 DEF Inv, HandledIsKept, Settled, Unsettled, Crashed
  <2> QED
    BY <1>2, <2>1 DEF IsBlocked, Coordinator, Targets, States
<1> HIDE DEF status, state
<1>4. db' \in Rows /\ db'.content = db.content
  BY <1>1, <1>2, <1>3 DEF Rows
<1> QED
  BY <1>1, <1>4, MovesOn, AfterBarrierKeeps DEF Early, Released

\* A step of a recovery loop, which leaves the request and the checks alone but for who is told.
LEMMA RecoverKeeps ==
    ASSUME Inv, UNCHANGED task, NEW told \in SUBSET Directions, co' = [co EXCEPT !.told = told],
           db' \in Rows, held' \in [Servers -> Blocks], rec' \in [Servers -> Recovery], Ok \/ Fails,
           db'.content => db.content, db'.content => (held[Home] # "none" => held'[Home] # "none"),
           db.user = "blocked" => db'.user = "blocked",
           RecoveryKnows'
    PROVE  Inv'
<1>1. co \in Coordinator
  BY DEF Inv, TypeOK
<1>2. /\ co' \in Coordinator /\ co'.phase = co.phase /\ co'.pending = co.pending
      /\ co'.allDone = co.allDone /\ co'.enqueued = co.enqueued /\ co'.block = co.block
      /\ co'.failedOpen = co.failedOpen /\ co'.handled = co.handled /\ co'.target = co.target
  BY <1>1 DEF Coordinator
<1>3. db'.content /\ Kept => Kept'
  BY <1>2 DEF Kept, IsBlocked
<1>4. InputKept => InputKept'
  BY <1>2 DEF InputKept
<1>5. /\ Crashed' <=> Crashed
      /\ Settled' <=> Settled
  BY <1>2 DEF Crashed, Settled
<1> QED
  BY <1>2, <1>3, <1>4, <1>5, QuietKeeps

\* The coordinator is not touched.
LEMMA NobodyIsTold ==
    ASSUME TypeOK, UNCHANGED co
    PROVE  co.told \in SUBSET Directions /\ co' = [co EXCEPT !.told = co.told]
  BY DEF TypeOK, Coordinator

LEMMA RetryBlockKeeps ==
    ASSUME Inv, NEW v \in Servers, RetryBlock(v)
    PROVE  Inv'
<1>1. /\ held[v] # "none" /\ UNCHANGED <<db, co, task, held, bad>>
      /\ rec' = [rec EXCEPT ![v] = [does |-> "retry", block |-> held[v], said |-> TRUE]]
  BY DEF RetryBlock, Reads
<1>2. db \in Rows /\ held \in [Servers -> Blocks] /\ rec \in [Servers -> Recovery]
  BY DEF Inv, TypeOK
<1>3. held[v] \in Directions /\ held[v] \in Blocks
  BY <1>1, <1>2 DEF Blocks
<1>4. rec' \in [Servers -> Recovery]
  BY <1>1, <1>2, <1>3 DEF Recovery
<1>5. RecoveryKnows'
  BY <1>1, <1>2, <1>3, HomeAssumption DEF Inv, RecoveryKnows
<1> QED
  BY <1>1, <1>2, <1>4, <1>5, NobodyIsTold, RecoverKeeps DEF Inv, Ok

\* A run that its server attends is not taken for stale.
LEMMA LookUpKeeps ==
    ASSUME Inv, NEW v \in Servers, LookUp(v)
    PROVE  Inv'
<1> DEFINE does == IF db.event # "none" THEN "block" ELSE "open"
           said == held[v] # "none"
<1>1. /\ ~Attends(v) /\ (Ok \/ Fails) /\ UNCHANGED <<db, co, task, held>>
      /\ \/ rec' = [rec EXCEPT ![v] = [does |-> does, block |-> db.event, said |-> said]]
         \/ UNCHANGED rec
  BY DEF LookUp, Reads
<1>2. /\ db \in Rows /\ db.event \in Blocks /\ held \in [Servers -> Blocks] /\ rec \in [Servers -> Recovery]
      /\ said \in BOOLEAN
  BY DEF Inv, TypeOK, Rows
<1>3. /\ does \in {"block", "open"} /\ (does = "block" => db.event \in Directions)
  BY <1>2 DEF Blocks
<1> HIDE DEF does, said
<1>4. rec' \in [Servers -> Recovery]
  BY <1>1, <1>2, <1>3 DEF Recovery
<1>5. RecoveryKnows'
  <2>1. CASE UNCHANGED rec
    BY <1>1, <2>1 DEF Inv, RecoveryKnows
  <2>2. CASE rec' = [rec EXCEPT ![v] = [does |-> does, block |-> db.event, said |-> said]]
    <3>1. /\ rec'[v].does = does /\ rec'[v].block = db.event
          /\ \A u \in Servers \ {v} : rec'[u] = rec[u]
      BY <1>2, <2>2
    <3>2. v = Home => co.phase \in Released
      BY <1>1 DEF Attends
    <3> QED
      BY <1>1, <1>3, <3>1, <3>2, HomeAssumption DEF Inv, RecoveryKnows
  <2> QED
    BY <1>1, <2>1, <2>2
<1> QED
  BY <1>1, <1>2, <1>4, <1>5, NobodyIsTold, RecoverKeeps DEF Inv

\* The block is applied in the end, or kept for the next round.
LEMMA RecoverBlockKeeps ==
    ASSUME Inv, NEW v \in Servers, RecoverBlock(v)
    PROVE  Inv'
<1>1. /\ rec[v].does \in {"retry", "block"} /\ UNCHANGED <<co, task>> /\ (Ok \/ Fails)
      /\ \/ /\ db' = Withdrawn(rec[v].block) /\ held' = [held EXCEPT ![v] = "none"]
         \/ /\ UNCHANGED db
            /\ held' = held \/ held' = [held EXCEPT ![v] = rec[v].block]
      /\ \/ rec' = [rec EXCEPT ![v] = NoRecovery]
         \/ rec' = [rec EXCEPT ![v] = [does |-> "say", block |-> rec[v].block, said |-> TRUE]]
  BY DEF RecoverBlock, Reads, Rests
<1>2. db \in Rows /\ held \in [Servers -> Blocks] /\ rec \in [Servers -> Recovery]
  BY DEF Inv, TypeOK
<1>3. rec[v].block \in Directions
  BY <1>1 DEF Inv, RecoveryKnows
<1>4. db' \in Rows /\ held' \in [Servers -> Blocks]
  BY <1>1, <1>2, <1>3, RowTypes DEF Blocks
<1>5. rec' \in [Servers -> Recovery] /\ RecoveryKnows'
  <2>1. CASE rec' = [rec EXCEPT ![v] = NoRecovery]
    <3>1. rec' \in [Servers -> Recovery]
      BY <1>2, <2>1 DEF Recovery, NoRecovery, Blocks
    <3>2. \A u \in Servers : rec'[u] = rec[u] \/ rec'[u].does = "idle"
      BY <1>2, <2>1 DEF NoRecovery
    <3> QED
      BY <1>1, <3>1, <3>2, HomeAssumption DEF Inv, RecoveryKnows
  <2>2. CASE rec' = [rec EXCEPT ![v] = [does |-> "say", block |-> rec[v].block, said |-> TRUE]]
    <3>1. rec' \in [Servers -> Recovery]
      BY <1>2, <1>3, <2>2 DEF Recovery, Blocks
    <3>2. \A u \in Servers : rec'[u] = rec[u] \/ (rec'[u].does = "say" /\ rec'[u].block \in Directions)
      BY <1>2, <1>3, <2>2
    <3> QED
      BY <1>1, <3>1, <3>2, HomeAssumption DEF Inv, RecoveryKnows
  <2> QED
    BY <1>1, <2>1, <2>2
<1>6. /\ db'.content => db.content
      /\ db'.content => (held[Home] # "none" => held'[Home] # "none")
      /\ db.user = "blocked" => db'.user = "blocked"
  <2>1. CASE db' = Withdrawn(rec[v].block)
    BY <1>2, <1>3, <2>1, RowTypes
  <2>2. CASE UNCHANGED db /\ (held' = held \/ held' = [held EXCEPT ![v] = rec[v].block])
    BY <1>2, <1>3, <2>2, HomeAssumption DEF Directions
  <2> QED
    BY <1>1, <2>1, <2>2
<1> QED
  BY <1>1, <1>4, <1>5, <1>6, NobodyIsTold, RecoverKeeps DEF Inv

LEMMA RecoverNotifyKeeps ==
    ASSUME Inv, NEW v \in Servers, RecoverNotify(v)
    PROVE  Inv'
<1> DEFINE told == co.told \cup {rec[v].block}
<1>1. /\ rec[v].does = "say" /\ UNCHANGED <<db, task, held, bad>> /\ co' = [co EXCEPT !.told = told]
      /\ rec' = [rec EXCEPT ![v] = NoRecovery]
  BY DEF RecoverNotify, Rests
<1>2. /\ db \in Rows /\ held \in [Servers -> Blocks] /\ rec \in [Servers -> Recovery]
      /\ co \in Coordinator /\ co.told \in SUBSET Directions
  BY DEF Inv, TypeOK, Coordinator
<1>3. told \in SUBSET Directions
  BY <1>1, <1>2 DEF Inv, RecoveryKnows
<1> HIDE DEF told
<1>4. rec' \in [Servers -> Recovery] /\ (\A u \in Servers : rec'[u] = rec[u] \/ rec'[u].does = "idle")
  BY <1>1, <1>2 DEF Recovery, NoRecovery, Blocks
<1>5. co'.phase = co.phase
  BY <1>1, <1>2 DEF Coordinator
<1>6. RecoveryKnows'
  BY <1>4, <1>5, HomeAssumption DEF Inv, RecoveryKnows
<1> QED
  BY <1>1, <1>2, <1>3, <1>4, <1>6, RecoverKeeps DEF Ok

LEMMA FailOpenKeeps ==
    ASSUME Inv, NEW v \in Servers, FailOpen(v)
    PROVE  Inv'
<1>1. /\ UNCHANGED <<co, task, held>> /\ (Ok \/ Fails) /\ rec' = [rec EXCEPT ![v] = NoRecovery]
      /\ db' = MarkedAs("failed_open") \/ UNCHANGED db
  BY DEF FailOpen, Rests
<1>2. db \in Rows /\ held \in [Servers -> Blocks] /\ rec \in [Servers -> Recovery]
  BY DEF Inv, TypeOK
<1>3. db' \in Rows /\ db'.content = db.content /\ db'.user = db.user
  BY <1>1, <1>2, RowTypes DEF States
<1>4. rec' \in [Servers -> Recovery] /\ (\A u \in Servers : rec'[u] = rec[u] \/ rec'[u].does = "idle")
  BY <1>1, <1>2 DEF Recovery, NoRecovery, Blocks
<1>5. RecoveryKnows'
  BY <1>1, <1>4, HomeAssumption DEF Inv, RecoveryKnows
<1> QED
  BY <1>1, <1>2, <1>3, <1>4, <1>5, NobodyIsTold, RecoverKeeps DEF Inv

LEMMA AgeKeeps ==
    ASSUME Inv, Age
    PROVE  Inv'
<1>1. UNCHANGED <<co, task, held, rec, bad>> /\ db' = [db EXCEPT !.stale = TRUE]
  BY DEF Age
<1>2. db \in Rows /\ held \in [Servers -> Blocks] /\ rec \in [Servers -> Recovery]
  BY DEF Inv, TypeOK
<1>3. db' \in Rows /\ db'.content = db.content /\ db'.user = db.user
  BY <1>1, <1>2 DEF Rows
<1>4. RecoveryKnows'
  BY <1>1 DEF Inv, RecoveryKnows
<1> QED
  BY <1>1, <1>2, <1>3, <1>4, NobodyIsTold, RecoverKeeps DEF Inv, Ok

\* What is left after a crash is the database and the loops of the other servers.
LEMMA CrashKeeps ==
    ASSUME Inv, Crash
    PROVE  Inv'
<1>1. /\ co' = [co EXCEPT !.phase = "dead"] /\ UNCHANGED <<db, bad>>
      /\ task' = [s \in Surfaces |-> [task[s] EXCEPT !.at = "over"]]
      /\ held' = [held EXCEPT ![Home] = "none"] /\ rec' = [rec EXCEPT ![Home] = NoRecovery]
  BY DEF Crash, Moves
<1>2. /\ co \in Coordinator /\ task \in [Surfaces -> Task] /\ held \in [Servers -> Blocks]
      /\ rec \in [Servers -> Recovery]
  BY DEF Inv, TypeOK
<1>3. /\ co' \in Coordinator /\ co'.phase = "dead" /\ co'.allDone = co.allDone
      /\ co'.enqueued = co.enqueued /\ co'.pending = co.pending /\ co'.target = co.target
  BY <1>1, <1>2 DEF Coordinator, Phases
<1>4. /\ task' \in [Surfaces -> Task]
      /\ \A s \in Surfaces : task'[s].at = "over" /\ task'[s].verdict = task[s].verdict
  BY <1>1, <1>2 DEF Task
<1>5. held' \in [Servers -> Blocks] /\ rec' \in [Servers -> Recovery]
  BY <1>1, <1>2 DEF Recovery, NoRecovery, Blocks
<1>6. TypeOK'
  BY <1>1, <1>3, <1>4, <1>5 DEF Inv, TypeOK
<1>7. Crashed' /\ Settled'
  BY <1>3 DEF Crashed, Settled, Unsettled
<1>8. PendingIsAwaited' /\ DoneIsEnqueued' /\ BarrierKnows' /\ HandledIsKept'
  BY <1>3, <1>4, <1>7 DEF Inv, PendingIsAwaited, DoneIsEnqueued, BarrierKnows, HandledIsKept
<1>9. RecoveryKnows'
  <2>1. \A u \in Servers : rec'[u] = rec[u] \/ rec'[u].does = "idle"
    BY <1>1, <1>2 DEF NoRecovery
  <2> QED
    BY <1>3, <2>1, HomeAssumption DEF Inv, RecoveryKnows, Released
<1>10. PassedIsClean'
  BY <1>3, <1>4 DEF Inv, PassedIsClean
<1> QED
  BY <1>6, <1>8, <1>9, <1>10 DEF Inv

-----------------------------------------------------------------------------
(***************************************************************************)
(* The theorems.                                                           *)
(***************************************************************************)

LEMMA BarrierKeeps ==
    ASSUME Inv, Barrier
    PROVE  Inv'
  BY StartOutputsKeeps, StartWaitingKeeps, ExpireKeeps, SettleKeeps, BlockNowKeeps, RecordTargetKeeps,
     FinishKeeps, FinalizeUserKeeps, FinalizeAssistantKeeps, FinalizeRunKeeps, AdmitKeeps DEF Barrier

\* Every step keeps what the coordinator, the checks and the loops know of a hit.
LEMMA NextInv == Inv /\ [Next]_vars => Inv'
<1> SUFFICES ASSUME Inv, [Next]_vars PROVE Inv'
  OBVIOUS
<1>1. CASE Generated
  BY <1>1, GeneratedKeeps
<1>2. CASE Barrier
  BY <1>2, BarrierKeeps
<1>3. CASE Age
  BY <1>3, AgeKeeps
<1>4. ASSUME NEW s \in Surfaces, Check(s) PROVE Inv'
  BY <1>4, CheckKeeps
<1>5. ASSUME NEW v \in Servers, Recover(v) PROVE Inv'
  BY <1>5, RetryBlockKeeps, LookUpKeeps, RecoverBlockKeeps, RecoverNotifyKeeps, FailOpenKeeps DEF Recover
<1>6. CASE Crash
  BY <1>6, CrashKeeps
<1>7. CASE UNCHANGED vars
  BY <1>7 DEF vars, Inv, TypeOK, PendingIsAwaited, DoneIsEnqueued, BarrierKnows, HandledIsKept, RecoveryKnows,
     PassedIsClean, Awaited, Settled, Crashed, IsHit, Kept, InputKept, IsBlocked
<1> QED
  BY <1>1, <1>2, <1>3, <1>4, <1>5, <1>6, <1>7 DEF Next, Steps

(***************************************************************************)
(* The inductive invariant: before the barrier the coordinator knows of    *)
(* every hit and failure, after it whatever is handled is kept by someone  *)
(* until the answer is withdrawn (coordinator.go).                         *)
(***************************************************************************)
THEOREM ModerationInvariant == Spec => []Inv
<1>1. Init => Inv
  BY InitInv
<1>2. Inv /\ [Next]_vars => Inv'
  BY NextInv
<1> QED
  BY <1>1, <1>2, PTL DEF Spec

(***************************************************************************)
(* No hit is dropped between the barrier, the late hits and the retries,   *)
(* for any policy, number of servers and of failing calls.                 *)
(***************************************************************************)
THEOREM HitsStayInHand == Spec => []HitsAreInHand
<1>1. Inv => HitIsInHand
  BY DEF Inv, BarrierKnows, HandledIsKept, HitIsInHand, Kept
<1>2. Inv => InputHitIsInHand
  <2> SUFFICES ASSUME Inv, bad = 0, NEW s \in Inputs, IsHit(s),
                      co.phase \in Unsettled \cup {"settled", "answered", "finished"}
               PROVE  \/ ~Settled /\ co.block = "input"
                      \/ co.phase = "settled" /\ co.target = "input"
                      \/ \E r \in Inputs : task[r].at = "late"
                      \/ db.user = "blocked"
    BY DEF InputHitIsInHand
  <2>1. s \in Surfaces
    BY DEF Surfaces
  <2>2. CASE ~Settled
    BY <2>1, <2>2 DEF Inv, BarrierKnows
  <2>3. CASE Settled
    <3>1. ~Crashed /\ co.phase \in {"settled", "answered", "finished"}
      BY <2>3 DEF Settled, Crashed, Unsettled
    <3>2. InputKept
      BY <2>1, <2>3, <3>1 DEF Inv, HandledIsKept
    <3> QED
      BY <3>2 DEF InputKept
  <2> QED
    BY <2>2, <2>3
<1>3. Inv => HitsAreInHand
  BY <1>1, <1>2 DEF HitsAreInHand, Inv
<1> QED
  BY <1>3, ModerationInvariant, PTL

(***************************************************************************)
(* "passed" is said only of a run every surface of which was checked and   *)
(* passed (settle).                                                        *)
(***************************************************************************)
THEOREM PassedStaysClean == Spec => []PassedIsClean
<1>1. Inv => PassedIsClean
  BY DEF Inv
<1> QED
  BY <1>1, ModerationInvariant, PTL

(***************************************************************************)
(* A server's own recovery loop fails no run open that it attends          *)
(* (recoverStaleRuns, HasActiveCoordinator).                               *)
(***************************************************************************)
THEOREM AttendedRunsStayClosed == Spec => OnlyUnattendedFailOpen
<1> DEFINE Step == rec'[Home] # rec[Home] /\ db.state # "failed_open" /\ db'.state = "failed_open" =>
                     co.phase \in Released
<1>1. Inv /\ [Next]_vars => [Step]_vars
  <2> SUFFICES ASSUME Inv, Next, rec'[Home] # rec[Home], db.state # "failed_open",
                      db'.state = "failed_open"
               PROVE  co.phase \in Released
    BY DEF vars
  <2>1. db \in Rows /\ rec \in [Servers -> Recovery]
    BY DEF Inv, TypeOK
  <2>2. rec' # rec /\ db' # db
    OBVIOUS
  <2>3. ~Age /\ ~Generated /\ ~Crash
    BY <2>2 DEF Age, Generated, Crash
  <2>4. ~Barrier
    BY <2>2 DEF Barrier, StartOutputs, StartWaiting, Expire, Settle, BlockNow, RecordTarget, Finish,
                FinalizeUser, FinalizeAssistant, FinalizeRun, Finalizes, Admit
  <2>5. ASSUME NEW s \in Surfaces PROVE ~Check(s)
    BY <2>2 DEF Check, Verdict, Hit, ReportInTime, ReportLate, LateApply, LateMark, LateNotify
  <2>6. PICK v \in Servers : Recover(v)
    BY <2>3, <2>4, <2>5 DEF Next, Steps
  <2>7. ~RetryBlock(v) /\ ~LookUp(v) /\ ~RecoverNotify(v)
    BY <2>2 DEF RetryBlock, LookUp, RecoverNotify
  <2>8. ~RecoverBlock(v)
    BY <2>1, <2>2 DEF RecoverBlock, Withdrawn, Rows
  <2>9. FailOpen(v)
    BY <2>6, <2>7, <2>8 DEF Recover
  <2>10. v = Home
    BY <2>1, <2>9 DEF FailOpen, Rests
  <2> QED
    BY <2>9, <2>10 DEF FailOpen, Inv, RecoveryKnows
<1>2. Spec => [][Step]_vars
  BY <1>1, ModerationInvariant, PTL DEF Spec
<1> QED
  BY <1>2 DEF OnlyUnattendedFailOpen
=============================================================================
