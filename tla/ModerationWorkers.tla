-------------------------- MODULE ModerationWorkers --------------------------
(***************************************************************************)
(* The worker pool of content moderation (worker.go, service.go): tasks    *)
(* wait in a channel for one of Workers goroutines; a goroutine that has a *)
(* task also needs one of the logical slots, whose number and the number   *)
(* of tasks admitted an administrator may change at any time.  A goroutine *)
(* without a slot sleeps on the wake channel.  Goroutines and tasks are    *)
(* alike, so the model counts them.                                        *)
(*                                                                         *)
(* workerSem is left out: it has as many places as there are goroutines,   *)
(* so nobody waits for it.  FaultX is a mistaken form of X.                *)
(***************************************************************************)
EXTENDS Naturals

CONSTANTS
    Workers,   \* maxPhysicalConcurrency: goroutines, and places of the wake channel
    Places,    \* maxPhysicalQueueCapacity: places of the task channel
    Tasks,     \* bound: tasks that are offered
    Resizes    \* bound: changes of the limits

ASSUME PoolAssumption  == Workers \in Nat \ {0} /\ Places \in Nat \ {0}
ASSUME BoundAssumption == Tasks \in Nat /\ Resizes \in Nat

VARIABLES
    limit,     \* maxConcurrency
    capacity,  \* queueCapacity
    admitted,  \* queuedCount
    active,    \* activeWorkers
    queue,     \* tasks in the channel
    wake,      \* tokens in the wake channel
    at,        \* how many goroutines are at each place
    stopped,   \* stopCh is closed
    offered,   \* tasks offered so far
    resized    \* changes so far

vars == <<limit, capacity, admitted, active, queue, wake, at, stopped, offered, resized>>

(***************************************************************************)
(* idle: selecting; trying: has a task and is about to look for a slot;    *)
(* waiting: on the wake channel; slotted: has a slot, the task still       *)
(* counts as queued; running: executeTask; leaving: has given its slot     *)
(* back and not yet sent the token; gone: returned.                        *)
(***************************************************************************)
Positions == {"idle", "trying", "waiting", "slotted", "running", "leaving", "gone"}

Init ==
    /\ limit \in 1 .. Workers /\ capacity \in 1 .. Places
    /\ admitted = 0 /\ active = 0 /\ queue = 0 /\ wake = 0
    /\ at = [p \in Positions |-> IF p = "idle" THEN Workers ELSE 0]
    /\ stopped = FALSE /\ offered = 0 /\ resized = 0

Step(from, to) ==
    /\ at[from] > 0
    /\ at' = [at EXCEPT ![from] = @ - 1, ![to] = @ + 1]

\* The wake channel has no end.
FaultSent(tokens) == wake + tokens

\* Sends to the wake channel never block.
Sent(tokens) == IF wake + tokens <= Workers THEN wake + tokens ELSE Workers

-----------------------------------------------------------------------------

\* What a goroutine has taken and cannot run yet counts against the capacity.
Admits == admitted < capacity /\ queue < Places

\* enqueue, which refuses a task that is not admitted
Enqueue ==
    /\ offered < Tasks
    /\ offered' = offered + 1
    /\ IF Admits THEN queue' = queue + 1 /\ admitted' = admitted + 1
       ELSE UNCHANGED <<queue, admitted>>
    /\ UNCHANGED <<limit, capacity, active, wake, at, stopped, resized>>

\* The goroutine counts the task as dequeued before it has a slot.
FaultTake ==
    /\ queue > 0 /\ Step("idle", "trying")
    /\ queue' = queue - 1 /\ admitted' = admitted - 1
    /\ UNCHANGED <<limit, capacity, active, wake, stopped, offered, resized>>

Take ==
    /\ queue > 0 /\ Step("idle", "trying")
    /\ queue' = queue - 1
    /\ UNCHANGED <<limit, capacity, admitted, active, wake, stopped, offered, resized>>

TakeSlot ==
    /\ active < limit /\ Step("trying", "slotted")
    /\ active' = active + 1
    /\ UNCHANGED <<limit, capacity, admitted, queue, wake, stopped, offered, resized>>

Wait ==
    /\ active >= limit /\ Step("trying", "waiting")
    /\ UNCHANGED <<limit, capacity, admitted, active, queue, wake, stopped, offered, resized>>

Woken ==
    /\ wake > 0 /\ Step("waiting", "trying")
    /\ wake' = wake - 1
    /\ UNCHANGED <<limit, capacity, admitted, active, queue, stopped, offered, resized>>

\* markTaskDequeued
Execute ==
    /\ Step("slotted", "running")
    /\ admitted' = IF admitted > 0 THEN admitted - 1 ELSE admitted
    /\ UNCHANGED <<limit, capacity, active, queue, wake, stopped, offered, resized>>

\* releaseLogicalSlot: the slot, under the mutex, ...
GiveBack ==
    /\ Step("running", "leaving")
    /\ active' = IF active > 0 THEN active - 1 ELSE active
    /\ UNCHANGED <<limit, capacity, admitted, queue, wake, stopped, offered, resized>>

\* Nobody is woken when a slot is given back.
FaultLeave ==
    /\ Step("leaving", "idle")
    /\ UNCHANGED <<limit, capacity, admitted, active, queue, wake, stopped, offered, resized>>

\* ... then the token
Leave ==
    /\ Step("leaving", "idle")
    /\ wake' = Sent(1)
    /\ UNCHANGED <<limit, capacity, admitted, active, queue, stopped, offered, resized>>

\* One goroutine is woken however many slots are added.
FaultTokens(old, new) == IF new > old THEN Sent(1) ELSE wake

Tokens(old, new) == IF new > old THEN Sent(new - old) ELSE wake

\* resizeWorker
Resize ==
    /\ resized < Resizes
    /\ resized' = resized + 1
    /\ \E slots \in 1 .. Workers : \E places \in 1 .. Places :
        /\ limit' = slots /\ capacity' = places
        /\ wake' = Tokens(limit, slots)
    /\ UNCHANGED <<admitted, active, queue, at, stopped, offered>>

Stop ==
    /\ ~stopped /\ stopped' = TRUE
    /\ UNCHANGED <<limit, capacity, admitted, active, queue, wake, at, offered, resized>>

\* A goroutine that gives up gives back the slot it never had.
FaultAbandon ==
    /\ stopped /\ Step("waiting", "idle")
    /\ admitted' = IF admitted > 0 THEN admitted - 1 ELSE admitted
    /\ active' = IF active > 0 THEN active - 1 ELSE active
    /\ UNCHANGED <<limit, capacity, queue, wake, stopped, offered, resized>>

\* A goroutine that waits returns its task with ErrWorkerLost and selects again.
GiveUp ==
    /\ stopped /\ Step("waiting", "idle")
    /\ admitted' = IF admitted > 0 THEN admitted - 1 ELSE admitted
    /\ UNCHANGED <<limit, capacity, active, queue, wake, stopped, offered, resized>>

\* Only a goroutine that a task has woken sees the stop.
FaultReturn ==
    /\ stopped /\ admitted > 0 /\ Step("idle", "gone")
    /\ UNCHANGED <<limit, capacity, admitted, active, queue, wake, stopped, offered, resized>>

Return ==
    /\ stopped /\ Step("idle", "gone")
    /\ UNCHANGED <<limit, capacity, admitted, active, queue, wake, stopped, offered, resized>>

Work == Take \/ TakeSlot \/ Wait \/ Woken \/ Execute \/ GiveBack \/ Leave \/ GiveUp \/ Return

Next == Enqueue \/ Resize \/ Stop \/ Work

Spec == Init /\ [][Next]_vars

\* Goroutines run; a check ends within its timeout.
FairSpec == Spec /\ WF_vars(Work)

-----------------------------------------------------------------------------
(***************************************************************************)
(* Properties.                                                             *)
(***************************************************************************)

TypeOK ==
    /\ limit \in 1 .. Workers /\ capacity \in 1 .. Places
    /\ admitted \in Nat /\ active \in Nat /\ queue \in 0 .. Places /\ wake \in 0 .. Workers
    /\ at \in [Positions -> Nat] /\ stopped \in BOOLEAN /\ offered \in Nat /\ resized \in Nat

(***************************************************************************)
(* A task counts against the capacity until it runs: a goroutine that has  *)
(* taken it out of the channel and waits for a slot does not make room     *)
(* (TestWorkerPrefetchDoesNotBypassQueueCapacity).                         *)
(***************************************************************************)
PrefetchedIsQueued == admitted = queue + at["trying"] + at["waiting"] + at["slotted"]

(***************************************************************************)
(* Every slot in use belongs to a goroutine that runs a task: none leaks,  *)
(* none is given back twice, whatever the limit was meanwhile.             *)
(***************************************************************************)
SlotsAreHeld == active = at["slotted"] + at["running"]

(***************************************************************************)
(* The pool's two accounts hold together.                                  *)
(***************************************************************************)
AccountsAddUp == TypeOK /\ PrefetchedIsQueued /\ SlotsAreHeld

Stirring == wake + at["trying"] + at["leaving"]

(***************************************************************************)
(* No wake-up is lost: while goroutines wait, there is a token or a        *)
(* goroutine on its way for every free slot, also when the limit goes down *)
(* and up again in between (resizeWorker).                                 *)
(***************************************************************************)
NoLostWakeup == at["waiting"] > 0 => limit <= active + Stirring

(***************************************************************************)
(* Whatever is admitted is executed or, after a stop, abandoned: the queue *)
(* does not keep a task while goroutines sleep.                            *)
(***************************************************************************)
TasksAreTaken == admitted > 0 ~> stopped \/ admitted = 0

(***************************************************************************)
(* Stop returns: every goroutine does.                                     *)
(***************************************************************************)
StopEnds == stopped ~> at["gone"] = Workers
=============================================================================
