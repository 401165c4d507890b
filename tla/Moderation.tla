----------------------------- MODULE Moderation -----------------------------
(***************************************************************************)
(* Content moderation of one run (application/contentmoderation): the      *)
(* surfaces of its question and of its answer are checked in the           *)
(* background, a barrier after the generation waits for the verdicts, a    *)
(* hit withdraws the answer (and, from the question, the question), hits   *)
(* that come after the barrier withdraw it late, and a recovery loop on    *)
(* every server retries what failed and settles runs nobody attends.  The  *)
(* run itself is finalized by the conversation service afterwards.         *)
(*                                                                         *)
(* Calls to the database may fail (Failures bounds how many), the server   *)
(* of the run may crash (Crashing).  Runs that keep nothing (Ephemeral)    *)
(* and the files of an answer are left out; so is the text: content says   *)
(* whether the answer can be read.  Operators named Fault... are mistaken  *)
(* forms of the definition that follows them; the model does not use them. *)
(***************************************************************************)
EXTENDS Naturals, FiniteSets

CONSTANTS
    Inputs,     \* surfaces of the question that the policy selects
    Outputs,    \* surfaces of the answer that the policy selects
    Servers,    \* servers that share the database
    Home,       \* the server the run is on
    Failures,   \* bound: calls to the database that fail
    Crashing    \* whether Home may crash

ASSUME SurfaceAssumption == Inputs \cap Outputs = {} /\ IsFiniteSet(Inputs) /\ IsFiniteSet(Outputs)
ASSUME HomeAssumption    == Home \in Servers
ASSUME BoundAssumption   == Failures \in Nat /\ Crashing \in BOOLEAN

VARIABLES
    db,     \* the rows of the run, of its two messages and of its hits
    co,     \* the coordinator and the request that waits for it
    task,   \* each surface: where its check is
    held,   \* each server: pendingBlocks of the run
    rec,    \* each server: the step of its recovery loop
    bad     \* failed calls so far

vars == <<db, co, task, held, rec, bad>>

Surfaces   == Inputs \cup Outputs
Directions == {"input", "output"}
Blocks     == Directions \cup {"none"}

DirectionOf(s) == IF s \in Inputs THEN "input" ELSE "output"

States   == {"pending", "moderating", "passed", "failed_open", "blocked", "not_required"}
Outcomes == {"success", "canceled", "interrupted", "error"}

(***************************************************************************)
(* event: direction of the latest stored hit; stale: the run's row has     *)
(* not been written for two minutes.                                       *)
(***************************************************************************)
Rows == [state: States, status: Outcomes \cup {"running", "blocked"},
         user: {"pending", "success", "error", "blocked"},
         assistant: Outcomes \cup {"pending", "blocked"},
         content: BOOLEAN, event: Blocks, stale: BOOLEAN]

(***************************************************************************)
(* phase: generating, ended (the answer is saved), enqueueing, waiting,    *)
(* expired (the wait timed out), settled, answered (finish is next),       *)
(* finished, userDone, assistantDone, over; dead after a crash.            *)
(* block and handled are blockInfo and blockHandled; target is what        *)
(* settle() returned; told are the directions announced.                   *)
(***************************************************************************)
Phases == {"generating", "ended", "enqueueing", "waiting", "expired", "settled", "answered",
           "finished", "userDone", "assistantDone", "over", "dead"}
Targets == {"none", "passed", "failed_open"} \cup Directions

Coordinator == [phase: Phases, outcome: Outcomes, retained: BOOLEAN, pending: 0 .. Cardinality(Surfaces),
                block: Blocks, failedOpen: BOOLEAN, handled: BOOLEAN, enqueued: BOOLEAN,
                allDone: BOOLEAN, target: Targets, told: SUBSET Directions]

\* at: none, queued, hit (not yet reported), late (to be applied), unmarked (apply failed),
\* unsaid (to be announced), over; verdict: what the check found.
Task == [at: {"none", "queued", "hit", "late", "unmarked", "unsaid", "over"},
         verdict: {"none", "pass", "fail", "hit"}]

\* what the recovery loop has read: a pending block, a stored hit, a run to fail open
Recovery == [does: {"idle", "retry", "block", "open", "say"}, block: Blocks, said: BOOLEAN]
NoRecovery == [does |-> "idle", block |-> "none", said |-> FALSE]

Released == {"finished", "userDone", "assistantDone", "over", "dead"}
Unsettled == {"generating", "ended", "enqueueing", "waiting", "expired"}

\* BeginRun has registered the coordinator and the question's surfaces are enqueued; the
\* configuration may be unreadable, a surface may not be admitted, the first mark may fail.
Init ==
    \E config \in BOOLEAN : \E full \in SUBSET Inputs : \E marked \in BOOLEAN :
        LET checked == IF config THEN Inputs ELSE {} IN
        /\ db = [state |-> IF config /\ marked THEN "pending" ELSE "not_required",
                 status |-> "running", user |-> "pending", assistant |-> "pending",
                 content |-> FALSE, event |-> "none", stale |-> FALSE]
        /\ co = [phase |-> "generating", outcome |-> "success", retained |-> FALSE,
                 pending |-> Cardinality(checked \ full), block |-> "none",
                 failedOpen |-> ~config \/ full # {}, handled |-> FALSE, enqueued |-> FALSE,
                 allDone |-> FALSE, target |-> "none", told |-> {}]
        /\ task = [s \in Surfaces |->
                     CASE s \in checked \ full -> [at |-> "queued", verdict |-> "none"]
                       [] s \in Inputs \cap full -> [at |-> "over", verdict |-> "fail"]
                       [] OTHER -> [at |-> "none", verdict |-> "none"]]
        /\ held = [v \in Servers |-> "none"]
        /\ rec = [v \in Servers |-> NoRecovery]
        /\ bad = 0

Ok    == bad' = bad
Fails == bad < Failures /\ bad' = bad + 1

-----------------------------------------------------------------------------
(***************************************************************************)
(* The writes to the run and its messages.                                 *)
(***************************************************************************)

MarkedAs(state) == [db EXCEPT !.state = state, !.stale = FALSE,
                              !.status = IF state = "blocked" THEN "blocked" ELSE @]

\* ApplyRunBlock, one transaction.
Withdrawn(direction) ==
    [db EXCEPT !.state = "blocked", !.status = "blocked", !.stale = FALSE,
               !.user = IF direction = "input" THEN "blocked" ELSE @,
               !.assistant = "blocked", !.content = FALSE]

-----------------------------------------------------------------------------
(***************************************************************************)
(* The checks: executeTask and onTaskResult.                               *)
(***************************************************************************)

Prefers(direction, current) == direction = "input" /\ current # "input"

Settled == co.phase \notin Unsettled

Closed(c) == [c EXCEPT !.allDone = @ \/ (c.pending = 0 /\ c.enqueued)]

\* A result without a hit: an error opens the barrier as failed, a pass leaves no trace.
Counted(s, verdict) ==
    Closed([co EXCEPT !.pending = @ - 1,
                      !.failedOpen = @ \/ (verdict = "fail" /\ ~Settled)])

\* The provider passed the surface, or the check failed, timed out or was dropped.
Verdict(s) ==
    /\ task[s].at = "queued"
    /\ \E verdict \in {"pass", "fail"} :
        /\ co' = Counted(s, verdict)
        /\ task' = [task EXCEPT ![s] = [at |-> "over", verdict |-> verdict]]
    /\ UNCHANGED <<db, held, rec, bad>>

\* recordHit; without its event the hit is reported all the same.
Hit(s) ==
    /\ task[s].at = "queued"
    /\ task' = [task EXCEPT ![s].at = "hit"]
    /\ \/ Ok /\ db' = [db EXCEPT !.event = DirectionOf(s)]
       \/ Fails /\ UNCHANGED db
    /\ UNCHANGED <<co, held, rec>>

\* A hit is counted twice.
FaultReported(s, c) ==
    LET wins == c.block = "none" \/ Prefers(DirectionOf(s), c.block)
    IN  Closed([c EXCEPT !.pending = @ - 2, !.block = IF wins THEN DirectionOf(s) ELSE @])

Reported(s, c) ==
    LET wins == c.block = "none" \/ Prefers(DirectionOf(s), c.block)
    IN  Closed([c EXCEPT !.pending = @ - 1, !.block = IF wins THEN DirectionOf(s) ELSE @])

ReportInTime(s) ==
    /\ task[s].at = "hit" /\ ~Settled
    /\ co' = Reported(s, co)
    /\ task' = [task EXCEPT ![s] = [at |-> "over", verdict |-> "hit"]]
    /\ UNCHANGED <<db, held, rec, bad>>

\* Any block already handled is taken to cover this hit.
FaultIsLate(s) == ~co.handled

IsLate(s) == ~co.handled \/ Prefers(DirectionOf(s), co.block)

ReportLate(s) ==
    /\ task[s].at = "hit" /\ Settled
    /\ LET counted == Closed([co EXCEPT !.pending = @ - 1])
       IN IF IsLate(s)
          THEN /\ co' = [counted EXCEPT !.handled = TRUE, !.block = DirectionOf(s)]
               /\ task' = [task EXCEPT ![s] = [at |-> "late", verdict |-> "hit"]]
          ELSE /\ co' = counted
               /\ task' = [task EXCEPT ![s] = [at |-> "over", verdict |-> "hit"]]
    /\ UNCHANGED <<db, held, rec, bad>>

\* Only a late block that could not be applied is announced.
FaultLateApply(s) ==
    /\ task[s].at = "late"
    /\ \/ /\ Ok
          /\ db' = Withdrawn(DirectionOf(s))
          /\ held' = [held EXCEPT ![Home] = "none"]
          /\ task' = [task EXCEPT ![s].at = "over"]
       \/ /\ Fails
          /\ held' = [held EXCEPT ![Home] = DirectionOf(s)]
          /\ task' = [task EXCEPT ![s].at = "unmarked"]
          /\ UNCHANGED db
    /\ UNCHANGED <<co, rec>>

\* handleLateBlock: the withdrawal, or else a block to retry and a mark for a restart.
LateApply(s) ==
    /\ task[s].at = "late"
    /\ \/ /\ Ok
          /\ db' = Withdrawn(DirectionOf(s))
          /\ held' = [held EXCEPT ![Home] = "none"]
          /\ task' = [task EXCEPT ![s].at = "unsaid"]
       \/ /\ Fails
          /\ held' = [held EXCEPT ![Home] = DirectionOf(s)]
          /\ task' = [task EXCEPT ![s].at = "unmarked"]
          /\ UNCHANGED db
    /\ UNCHANGED <<co, rec>>

LateMark(s) ==
    /\ task[s].at = "unmarked"
    /\ task' = [task EXCEPT ![s].at = "unsaid"]
    /\ \/ Ok /\ db' = MarkedAs("moderating")
       \/ Fails /\ UNCHANGED db
    /\ UNCHANGED <<co, held, rec>>

LateNotify(s) ==
    /\ task[s].at = "unsaid"
    /\ task' = [task EXCEPT ![s].at = "over"]
    /\ co' = [co EXCEPT !.told = @ \cup {DirectionOf(s)}]
    /\ UNCHANGED <<db, held, rec, bad>>

Check(s) == \/ Verdict(s) \/ Hit(s) \/ ReportInTime(s) \/ ReportLate(s)
            \/ LateApply(s) \/ LateMark(s) \/ LateNotify(s)

-----------------------------------------------------------------------------
(***************************************************************************)
(* The request: the generation, the barrier and the finalization.          *)
(***************************************************************************)

Moves(phase) == co' = [co EXCEPT !.phase = phase]

\* The answer is saved when the generation succeeds, or as far as it got when it is cut short.
Generated ==
    /\ co.phase = "generating"
    /\ \E outcome \in Outcomes : \E saved \in BOOLEAN :
        /\ outcome \in {"success", "interrupted"} => saved
        /\ outcome = "error" => ~saved
        /\ co' = [co EXCEPT !.phase = "ended", !.outcome = outcome, !.retained = saved]
        /\ db' = IF ~saved THEN db
                 ELSE [db EXCEPT !.content = TRUE, !.assistant = outcome,
                                 !.user = IF outcome = "success" THEN @ ELSE "success"]
    /\ UNCHANGED <<task, held, rec, bad>>

\* AfterGeneration, when there is an answer to check ...
StartOutputs ==
    /\ co.phase = "ended" /\ co.retained
    /\ Moves("enqueueing")
    /\ \/ Ok /\ db' = MarkedAs("moderating")
       \/ Fails /\ UNCHANGED db
    /\ UNCHANGED <<task, held, rec>>

\* ... a surface of which is queued, or cannot be loaded or admitted.
Admit(s) ==
    /\ co.phase = "enqueueing" /\ task[s].at = "none" /\ s \in Outputs
    /\ \/ /\ co' = [co EXCEPT !.pending = @ + 1]
          /\ task' = [task EXCEPT ![s].at = "queued"]
       \/ /\ co' = [co EXCEPT !.failedOpen = TRUE]
          /\ task' = [task EXCEPT ![s] = [at |-> "over", verdict |-> "fail"]]
    /\ UNCHANGED <<db, held, rec, bad>>

\* markOutputsEnqueued; WaitInputOnly begins here.
StartWaiting ==
    /\ co.phase = IF co.retained THEN "enqueueing" ELSE "ended"
    /\ co' = Closed([co EXCEPT !.phase = "waiting", !.enqueued = TRUE])
    /\ UNCHANGED <<db, task, held, rec, bad>>

\* The wait that times out counts the missing verdicts as passed.
FaultExpire ==
    /\ co.phase = "waiting" /\ ~co.allDone
    /\ Moves("expired")
    /\ UNCHANGED <<db, task, held, rec, bad>>

Expire ==
    /\ co.phase = "waiting" /\ ~co.allDone
    /\ co' = [co EXCEPT !.phase = "expired", !.failedOpen = @ \/ co.block = "none"]
    /\ UNCHANGED <<db, task, held, rec, bad>>

\* A block found in time is left to whoever reports next.
FaultSettle ==
    /\ co.phase = "expired" \/ (co.phase = "waiting" /\ co.allDone)
    /\ co' = [co EXCEPT !.phase = "settled", !.handled = (co.block # "none"),
                        !.target = IF co.failedOpen THEN "failed_open"
                                   ELSE IF co.block # "none" THEN co.block ELSE "passed"]
    /\ UNCHANGED <<db, task, held, rec, bad>>

Settle ==
    /\ co.phase = "expired" \/ (co.phase = "waiting" /\ co.allDone)
    /\ co' = [co EXCEPT !.phase = "settled", !.handled = (co.block # "none"),
                        !.target = IF co.block # "none" THEN co.block
                                   ELSE IF co.failedOpen THEN "failed_open" ELSE "passed"]
    /\ UNCHANGED <<db, task, held, rec, bad>>

IsBlocked == co.target \in Directions

\* A withdrawal that fails is not kept for the recovery loop.
FaultBlockNow ==
    /\ co.phase = "settled" /\ IsBlocked
    /\ Moves("answered")
    /\ \/ Ok /\ db' = Withdrawn(co.target) /\ held' = [held EXCEPT ![Home] = "none"]
       \/ Fails /\ UNCHANGED <<db, held>>
    /\ UNCHANGED <<task, rec>>

\* applyBlock, or else registerPendingBlock
BlockNow ==
    /\ co.phase = "settled" /\ IsBlocked
    /\ Moves("answered")
    /\ \/ Ok /\ db' = Withdrawn(co.target) /\ held' = [held EXCEPT ![Home] = "none"]
       \/ Fails /\ held' = [held EXCEPT ![Home] = co.target] /\ UNCHANGED db
    /\ UNCHANGED <<task, rec>>

\* updateRunState
RecordTarget ==
    /\ co.phase = "settled" /\ ~IsBlocked
    /\ Moves("answered")
    /\ \/ Ok /\ db' = MarkedAs(co.target)
       \/ Fails /\ UNCHANGED db
    /\ UNCHANGED <<task, held, rec>>

\* notifyBlocked, if blocked, and finish: the coordinator is released.
Finish ==
    /\ co.phase = "answered"
    /\ co' = [co EXCEPT !.phase = "finished", !.told = IF IsBlocked THEN @ \cup {co.target} ELSE @]
    /\ UNCHANGED <<db, task, held, rec, bad>>

Finalizes(from, to, writes, row) ==
    /\ co.phase = from
    /\ Moves(to)
    /\ \/ Ok /\ db' = IF writes THEN row ELSE db
       \/ writes /\ Fails /\ UNCHANGED db
    /\ UNCHANGED <<task, held, rec>>

FinalizeUser ==
    Finalizes("finished", "userDone", ~IsBlocked,
              [db EXCEPT !.user = IF co.outcome = "error" THEN "error" ELSE "success"])

FinalizeAssistant ==
    Finalizes("userDone", "assistantDone", ~IsBlocked /\ co.outcome # "success",
              [db EXCEPT !.assistant = co.outcome])

\* persistRun writes the whole row from the request's copy.
FinalizeRun ==
    Finalizes("assistantDone", "over", TRUE,
              [db EXCEPT !.stale = FALSE,
                         !.status = IF IsBlocked THEN "blocked" ELSE co.outcome,
                         !.state = IF IsBlocked THEN "blocked" ELSE co.target])

Barrier == \/ StartOutputs \/ StartWaiting \/ Expire \/ Settle \/ BlockNow \/ RecordTarget \/ Finish
           \/ FinalizeUser \/ FinalizeAssistant \/ FinalizeRun
           \/ \E s \in Outputs : Admit(s)

-----------------------------------------------------------------------------
(***************************************************************************)
(* The recovery loop of a server: pending blocks, then stale runs.         *)
(***************************************************************************)

Reads(v, does, block, said) == rec' = [rec EXCEPT ![v] = [does |-> does, block |-> block, said |-> said]]
Rests(v) == rec' = [rec EXCEPT ![v] = NoRecovery]

RetryBlock(v) ==
    /\ rec[v].does = "idle" /\ held[v] # "none"
    /\ Reads(v, "retry", held[v], TRUE)
    /\ UNCHANGED <<db, co, task, held, bad>>

\* A run is taken as unattended whatever its coordinator does.
FaultAttends(v) == FALSE

\* HasActiveCoordinator looks at the table of its own server.
Attends(v) == v = Home /\ co.phase \notin Released

\* Runs that crashed before their barrier are left alone.
FaultLookUp(v) ==
    /\ rec[v].does = "idle" /\ db.stale /\ db.state = "moderating" /\ ~Attends(v)
    /\ \/ /\ Ok
          /\ Reads(v, IF db.event # "none" THEN "block" ELSE "open", db.event, held[v] # "none")
       \/ Fails /\ UNCHANGED rec
    /\ UNCHANGED <<db, co, task, held>>

\* recoverStaleRuns and the look-up of recoverKnownHit
LookUp(v) ==
    /\ rec[v].does = "idle" /\ db.stale /\ db.state \in {"pending", "moderating"} /\ ~Attends(v)
    /\ \/ /\ Ok
          /\ Reads(v, IF db.event # "none" THEN "block" ELSE "open", db.event, held[v] # "none")
       \/ Fails /\ UNCHANGED rec
    /\ UNCHANGED <<db, co, task, held>>

RecoverBlock(v) ==
    /\ rec[v].does \in {"retry", "block"}
    /\ \/ /\ Ok
          /\ db' = Withdrawn(rec[v].block)
          /\ held' = [held EXCEPT ![v] = "none"]
          /\ IF rec[v].said THEN Rests(v) ELSE Reads(v, "say", rec[v].block, TRUE)
       \/ /\ Fails
          /\ held' = IF rec[v].does = "retry" THEN held ELSE [held EXCEPT ![v] = rec[v].block]
          /\ Rests(v)
          /\ UNCHANGED db
    /\ UNCHANGED <<co, task>>

RecoverNotify(v) ==
    /\ rec[v].does = "say"
    /\ co' = [co EXCEPT !.told = @ \cup {rec[v].block}]
    /\ Rests(v)
    /\ UNCHANGED <<db, task, held, bad>>

FailOpen(v) ==
    /\ rec[v].does = "open"
    /\ Rests(v)
    /\ \/ Ok /\ db' = MarkedAs("failed_open")
       \/ Fails /\ UNCHANGED db
    /\ UNCHANGED <<co, task, held>>

Recover(v) == RetryBlock(v) \/ LookUp(v) \/ RecoverBlock(v) \/ RecoverNotify(v) \/ FailOpen(v)

-----------------------------------------------------------------------------

\* Two minutes without a write to the row: only a generation lasts that long, or nothing is
\* left of the run but checks in the queue (every other step has a budget of seconds).
Age ==
    /\ co.phase \in {"generating", "over", "dead"}
    /\ ~db.stale /\ db.state \in {"pending", "moderating"}
    /\ \A s \in Surfaces : task[s].at \notin {"late", "unmarked", "unsaid"}
    /\ db' = [db EXCEPT !.stale = TRUE]
    /\ UNCHANGED <<co, task, held, rec, bad>>

\* What the server remembers is gone; its successor under the same name runs the loop.
Crash ==
    /\ Crashing /\ co.phase # "dead"
    /\ Moves("dead")
    /\ task' = [s \in Surfaces |-> [task[s] EXCEPT !.at = "over"]]
    /\ held' = [held EXCEPT ![Home] = "none"]
    /\ rec' = [rec EXCEPT ![Home] = NoRecovery]
    /\ UNCHANGED <<db, bad>>

Steps == \/ Generated \/ Barrier \/ Age
         \/ \E s \in Surfaces : Check(s)
         \/ \E v \in Servers : Recover(v)

Next == Steps \/ Crash

Spec == Init /\ [][Next]_vars

\* Generations end, checks and the wait time out, the loops tick and time passes; a call fails
\* finitely often.
Fairness == /\ WF_vars(Generated) /\ WF_vars(Barrier) /\ WF_vars(Age)
            /\ \A s \in Surfaces : WF_vars(Check(s))
            /\ \A v \in Servers : WF_vars(Recover(v))

FairSpec == Spec /\ Fairness

-----------------------------------------------------------------------------
(***************************************************************************)
(* Properties.                                                             *)
(***************************************************************************)

TypeOK ==
    /\ db \in Rows /\ co \in Coordinator /\ task \in [Surfaces -> Task]
    /\ held \in [Servers -> Blocks] /\ rec \in [Servers -> Recovery] /\ bad \in 0 .. Failures

IsHit(s) == task[s].verdict = "hit"

(***************************************************************************)
(* "passed" is said of a run only if every surface that was to be checked  *)
(* was checked and passed: not of one whose check was not admitted, failed,*)
(* or was still under way when the wait ended (coordinator.go, settle).    *)
(***************************************************************************)
PassedIsClean ==
    co.target = "passed" => \A s \in Surfaces : task[s].at \in {"none", "over"}
                                                /\ task[s].verdict \in {"none", "pass"}

(***************************************************************************)
(* A reported hit is never forgotten while the answer can still be read:   *)
(* the barrier is going to see it, is about to withdraw the answer, or a   *)
(* late block or a pending block is going to (until the server crashes).   *)
(***************************************************************************)
Crashed == co.phase = "dead"

HitIsInHand ==
    ~Crashed /\ db.content /\ (\E s \in Surfaces : IsHit(s)) =>
        \/ ~Settled /\ co.block # "none"
        \/ co.phase = "settled" /\ IsBlocked
        \/ \E s \in Surfaces : task[s].at = "late"
        \/ held[Home] # "none"

(***************************************************************************)
(* A hit on the question withdraws the question too, also when the answer  *)
(* was hit first (preferBlockDirection), up to the finalization of the run *)
(* and as long as no call fails.                                           *)
(***************************************************************************)
InputHitIsInHand ==
    bad = 0 /\ (\E s \in Inputs : IsHit(s)) /\ co.phase \in Unsettled \cup {"settled", "answered", "finished"} =>
        \/ ~Settled /\ co.block = "input"
        \/ co.phase = "settled" /\ co.target = "input"
        \/ \E s \in Inputs : task[s].at = "late"
        \/ db.user = "blocked"

(***************************************************************************)
(* No hit is dropped between the barrier, the late hits and the retries.   *)
(***************************************************************************)
HitsAreInHand == TypeOK /\ HitIsInHand /\ InputHitIsInHand

(***************************************************************************)
(* The recovery loop of a server never fails a run open that a coordinator *)
(* of the same server attends (recoverStaleRuns).                          *)
(***************************************************************************)
OnlyUnattendedFailOpen ==
    [][rec'[Home] # rec[Home] /\ db.state # "failed_open" /\ db'.state = "failed_open" =>
         co.phase \in Released]_vars

(***************************************************************************)
(* Every reported hit withdraws the answer in the end, and whoever waits   *)
(* for or watches the answer is told, unless the server that knows of the  *)
(* hit crashes.                                                            *)
(***************************************************************************)
HitsAreWithdrawn ==
    \A s \in Surfaces : IsHit(s) ~> ((~db.content /\ co.told # {}) \/ Crashed)

(***************************************************************************)
(* No run stays in the middle of its moderation, whatever fails and        *)
(* wherever its server crashes.                                            *)
(***************************************************************************)
StatesSettle == db.state \in {"pending", "moderating"} ~> db.state \notin {"pending", "moderating"}
=============================================================================
